--------------------------- MODULE RunPartsProofs ---------------------------
(***************************************************************************)
(* Proofs about three parts of a run: its record keeps its promises for     *)
(* any set of candidate fingerprints; of the answers of models the whole   *)
(* is read or nothing, for any documents and any words around them; and    *)
(* what is remembered of runs, analyses, conversations and pull requests is *)
(* read as it was written, for tables of any size.                         *)
(*                                                                         *)
(* SubmittedPassedEveryGate is not inductive: nothing in it speaks of the  *)
(* states on the way to `submitted'.  GatesPassed says, of every state of  *)
(* the chain, which gates the candidate has passed when the run is in it;  *)
(* the lifecycle edges then carry it from one state to the next.           *)
(***************************************************************************)
EXTENDS RunLifecycle, Answers, Records, InductionLemmas, FiniteSetTheorems, FunctionTheorems,
  SequenceTheorems, TLAPS

\* The gates a candidate has passed when its run is in a given state.
GatesPassed ==
  /\ run.state = "validating" => {"validating"} \subseteq gates
  /\ run.state = "challenging" => {"validating", "challenging"} \subseteq gates
  /\ run.state = "ready_for_review" =>
       {"validating", "challenging", "ready_for_review"} \subseteq gates
  /\ run.state \in {"approved", "submitted"} =>
       {"validating", "challenging", "ready_for_review", "approved"} \subseteq gates

\* The inductive invariant.
Inv ==
  /\ TypeOK
  /\ SubmittedIsReviewed
  /\ NothingWithoutPermit
  /\ GatesPassed

-----------------------------------------------------------------------------
\* A transition leaves a nonterminal state, along an edge of the lifecycle or
\* through a fail-closed exit (RunState::can_transition_to).
LEMMA TransitionLeavesNonterminal ==
  ASSUME NEW to \in RunState, Transition(to)
  PROVE  run.state \notin TerminalStates
BY DEF Transition, TransitionAllowed, CanTransition

\* Only a step that keeps the row keeps a terminal row: every action asks for
\* a nonterminal state.
LEMMA NextLeavesNonterminal ==
  ASSUME Next
  PROVE  run.state \notin TerminalStates
<1>1. CASE \E to \in RunState : Transition(to)
  BY <1>1, TransitionLeavesNonterminal
<1>2. CASE BindPermit
  BY <1>2 DEF BindPermit, TerminalStates, FailClosedStates
<1>3. CASE \E c \in Candidates : BindCandidate(c) \/ BindReview(c)
  BY <1>3 DEF BindCandidate, BindReview, TerminalStates, FailClosedStates
<1> QED
  BY <1>1, <1>2, <1>3 DEF Next

LEMMA InitEstablishesInv == Init => Inv
BY DEF Init, Inv, TypeOK, Row, NewRow, RunState, ForwardStates, TerminalStates,
       FailClosedStates, SubmittedIsReviewed, NothingWithoutPermit, GatesPassed

\* A transition that the record allows keeps the invariant: the binding guard
\* gives the review and the permit, the edge gives the gates.
LEMMA TransitionKeepsInv ==
  ASSUME Inv, NEW to \in RunState, Transition(to)
  PROVE  Inv'
<1> USE DEF Inv
<1>0. /\ run \in Row /\ run' = [run EXCEPT !.state = to] /\ gates' = gates \cup {to}
      /\ BindingGuard(run, to) /\ CanTransition(run.state, to)
  BY DEF Transition, TransitionAllowed, TypeOK
<1>1. /\ run'.state = to /\ run'.permit = run.permit
      /\ run'.cand = run.cand /\ run'.review = run.review
  BY <1>0 DEF Row
<1>2. TypeOK'
  BY <1>0 DEF TypeOK, Row
<1>3. SubmittedIsReviewed'
  BY <1>0, <1>1 DEF SubmittedIsReviewed, BindingGuard
<1>4. NothingWithoutPermit'
  BY <1>0, <1>1 DEF NothingWithoutPermit, BindingGuard, CanTransition, ForwardEdges,
                    FailClosedStates, TerminalStates
<1>5. GatesPassed'
  BY <1>0, <1>1 DEF GatesPassed, CanTransition, ForwardEdges, FailClosedStates,
                    TerminalStates
<1> QED
  BY <1>2, <1>3, <1>4, <1>5

\* Binding a fact keeps the invariant: it happens in states that promise
\* nothing about the fact.
LEMMA BindingKeepsInv ==
  ASSUME Inv, BindPermit \/ \E c \in Candidates : BindCandidate(c) \/ BindReview(c)
  PROVE  Inv'
<1> USE DEF Inv
<1>1. CASE BindPermit
  BY <1>1 DEF BindPermit, TypeOK, Row, SubmittedIsReviewed, NothingWithoutPermit,
              GatesPassed
<1>2. ASSUME NEW c \in Candidates, BindCandidate(c)
      PROVE  Inv'
  BY <1>2 DEF BindCandidate, TypeOK, Row, SubmittedIsReviewed, NothingWithoutPermit,
              GatesPassed, FailClosedStates
<1>3. ASSUME NEW c \in Candidates, BindReview(c)
      PROVE  Inv'
  BY <1>3 DEF BindReview, TypeOK, Row, SubmittedIsReviewed, NothingWithoutPermit,
              GatesPassed, FailClosedStates
<1> QED
  BY <1>1, <1>2, <1>3

LEMMA StepKeepsInv == Inv /\ [Next]_vars => Inv'
<1> SUFFICES ASSUME Inv, [Next]_vars PROVE Inv'
  OBVIOUS
<1>1. CASE \E to \in RunState : Transition(to)
  BY <1>1, TransitionKeepsInv
<1>2. CASE BindPermit \/ \E c \in Candidates : BindCandidate(c) \/ BindReview(c)
  BY <1>2, BindingKeepsInv
<1>3. CASE UNCHANGED vars
  BY <1>3 DEF vars, Inv, TypeOK, Row, SubmittedIsReviewed, NothingWithoutPermit,
              GatesPassed
<1> QED
  BY <1>1, <1>2, <1>3 DEF Next

THEOREM Invariance == Spec => []Inv
BY InitEstablishesInv, StepKeepsInv, PTL DEF Spec

-----------------------------------------------------------------------------
\* The row and the history stay within their types (core/run.rs).
THEOREM TypeCorrect == Spec => []TypeOK
<1>1. Inv => TypeOK
  BY DEF Inv
<1> QED
  BY <1>1, Invariance, PTL

\* A submitted run carries the fingerprint the human approved.
THEOREM SubmittedRunsAreReviewed == Spec => []SubmittedIsReviewed
<1>1. Inv => SubmittedIsReviewed
  BY DEF Inv
<1> QED
  BY <1>1, Invariance, PTL

\* A submitted candidate went through every gate after it was last bound,
\* however often the run was repaired.
THEOREM SubmittedRunsPassedEveryGate == Spec => []SubmittedPassedEveryGate
<1>1. Inv => SubmittedPassedEveryGate
  BY DEF Inv, GatesPassed, SubmittedPassedEveryGate, Gates
<1> QED
  BY <1>1, Invariance, PTL

\* No run gets past authorization without a permit.
THEOREM AuthorizedRunsHoldAPermit == Spec => []NothingWithoutPermit
<1>1. Inv => NothingWithoutPermit
  BY DEF Inv
<1> QED
  BY <1>1, Invariance, PTL

\* A terminal row is never written again.
THEOREM TerminalRowsAreFrozen == Spec => TerminalIsFrozen
<1>1. [Next]_vars => [run.state \notin TerminalStates]_run
  BY NextLeavesNonterminal DEF vars
<1> QED
  BY <1>1, PTL DEF Spec, TerminalIsFrozen

\* A queued candidate is not exchanged.
THEOREM QueuedCandidatesAreFixed == Spec => QueuedCandidateIsFixed
<1>1. Inv /\ [Next]_vars =>
        [run.state \in {"ready_for_review", "approved"} => run'.cand = run.cand]_run
  <2> SUFFICES ASSUME Inv, Next, run.state \in {"ready_for_review", "approved"}
               PROVE  run'.cand = run.cand
    BY DEF vars
  <2>1. run \in Row
    BY DEF Inv, TypeOK
  <2>2. CASE \E to \in RunState : Transition(to)
    BY <2>1, <2>2 DEF Transition, Row
  <2>3. CASE BindPermit
    BY <2>3 DEF BindPermit
  <2>4. CASE \E c \in Candidates : BindCandidate(c) \/ BindReview(c)
    BY <2>1, <2>4 DEF BindCandidate, BindReview, Row
  <2> QED
    BY <2>2, <2>3, <2>4 DEF Next
<1> QED
  BY <1>1, Invariance, PTL DEF Spec, QueuedCandidateIsFixed

(***************************************************************************)
(* Answers of models (Answers): reading goes token by token, and what can  *)
(* be read as a whole in a text with one document is that document.        *)
(***************************************************************************)
\* Everything a text is made of, and the states of reading it.
Tokens ==
  Token \cup Item \cup [mark : {"fence"}] \cup [mark : {"key"}, name : {"findings", "changes", "tests_added"}]
States == [open : Seq(Opens), at : {"reading", "keyed", "whole", "bad"}]

\* How a text was read, token after token.
IsScan(f, text) ==
  /\ f \in [0..Len(text) -> States]
  /\ f[0] = Seen(<<>>, "reading")
  /\ \A k \in 1..Len(text) : f[k] = Step(f[k - 1], text[k])

\* Reading goes from state to state.
LEMMA StepIsAState ==
  ASSUME NEW seen \in States, NEW token \in Tokens
  PROVE  Step(seen, token) \in States
<1> DEFINE m == token.mark
           open == seen.open
           inside == IF open = <<>> THEN "nothing" ELSE open[Len(open)]
<1>1. open \in Seq(Opens)
  BY DEF States
<1>2. \A o \in Seq(Opens) : \A at \in {"reading", "keyed", "whole", "bad"} : Seen(o, at) \in States
  BY DEF Seen, States
<1>3. \A o \in Seq(Opens) : After(o) \in States
  BY <1>2 DEF After
<1>4. m \in Opens => Append(open, m) \in Seq(Opens)
  BY <1>1, AppendProperties
<1>5. inside # "nothing" => SubSeq(open, 1, Len(open) - 1) \in Seq(Opens)
  <2> SUFFICES ASSUME open # <<>> PROVE SubSeq(open, 1, Len(open) - 1) \in Seq(Opens)
    OBVIOUS
  <2>1. Len(open) \in Nat /\ Len(open) > 0
    BY <1>1, EmptySeq, LenProperties
  <2> QED  BY <1>1, <2>1, SubSeqProperties
<1>6. <<>> \in Seq(Opens)
  BY EmptySeq
<1> HIDE DEF open
<1> QED  BY <1>1, <1>2, <1>3, <1>4, <1>5, <1>6 DEF Step, open

LEMMA ScanExists ==
  ASSUME NEW text \in Seq(Tokens)
  PROVE  \E f : IsScan(f, text) /\ (IsJson(text) <=> f[Len(text)].at = "whole")
<1> DEFINE n == Len(text)
           first == Seen(<<>>, "reading")
           IsUpto(f) == f = [k \in 0..n |-> IF k = 0 THEN first ELSE Step(f[k - 1], text[k])]
           folds == [k \in 1..n |-> [seen \in States |-> Step(seen, text[k])]]
<1>1. n \in Nat
  BY LenProperties
<1>2. first \in States
  BY EmptySeq DEF Seen, States
<1>3. folds \in [1..n -> [States -> States]]
  <2> SUFFICES ASSUME NEW k \in 1..n, NEW seen \in States PROVE Step(seen, text[k]) \in States
    OBVIOUS
  <2>1. text[k] \in Tokens
    BY ElementOfSeq
  <2> QED  BY <2>1, StepIsAState
<1>5. PICK g : IsFold(g, n, States, first, folds)
  <2> HIDE DEF n, folds, first
  <2> QED  BY <1>1, <1>2, <1>3, FoldExists
<1>6. /\ g \in [0..n -> States] /\ g[0] = first
      /\ \A k \in 1..n : g[k] = Step(g[k - 1], text[k])
  <2>1. ASSUME NEW k \in 1..n PROVE g[k] = folds[k][g[k - 1]] /\ g[k - 1] \in States
    <3>1. k - 1 \in 0..n
      BY <1>1
    <3> HIDE DEF folds
    <3> QED  BY <1>5, <3>1 DEF IsFold
  <2> HIDE DEF n
  <2> QED  BY <1>5, <2>1 DEF IsFold
<1>7. IsUpto(g)
  <2>1. \A k \in 0..n : k = 0 \/ k \in 1..n
    BY <1>1
  <2> HIDE DEF n, first
  <2> QED  BY <1>6, <2>1
<1> DEFINE f == CHOOSE h : IsUpto(h)
<1>8. IsUpto(f)
  <2> HIDE DEF IsUpto
  <2> QED  BY <1>7
<1>9. IsJson(text) <=> f[n].at = "whole"
  BY DEF IsJson
<1>10. ASSUME NEW h, IsUpto(h) PROVE h = g
  <2> DEFINE T == {k \in Nat : k \in 0..n => h[k] = g[k]}
  <2>1. 0 \in T
    BY <1>1, <1>6, <1>10
  <2>2. ASSUME NEW k \in Nat, k \in T PROVE k + 1 \in T
    <3> SUFFICES ASSUME k + 1 \in 0..n PROVE h[k + 1] = g[k + 1]
      OBVIOUS
    <3>1. k \in 0..n /\ k + 1 \in 1..n /\ (k + 1) - 1 = k /\ k + 1 # 0
      BY <1>1
    <3>2. h[k] = g[k]
      BY <2>2, <3>1
    <3>3. h[k + 1] = Step(h[k], text[k + 1])
      BY <1>10, <3>1
    <3> QED  BY <1>6, <3>1, <3>2, <3>3
  <2> HIDE DEF T
  <2>3. Nat \subseteq T
    BY <2>1, <2>2, Induction
  <2>4. \A k \in 0..n : h[k] = g[k]
    BY <1>1, <2>3 DEF T
  <2>5. DOMAIN h = 0..n /\ h = [k \in 0..n |-> h[k]] /\ g = [k \in 0..n |-> g[k]]
    BY <1>6, <1>10
  <2> QED  BY <2>4, <2>5
<1> HIDE DEF f, IsUpto
<1>11. f = g
  BY <1>8, <1>10
<1> QED  BY <1>6, <1>9, <1>11 DEF IsScan

\* Once a value was read whole, or none can be, no token makes it one.
LEMMA EndStays ==
  ASSUME NEW seen, seen.at \in {"whole", "bad"}, NEW token
  PROVE  Step(seen, token).at = "bad"
BY DEF Step, Seen

\* A word or a fence is no part of a value.
LEMMA WordSpoils ==
  ASSUME NEW seen, NEW token, token.mark \in {"word", "fence"}
  PROVE  Step(seen, token).at = "bad"
BY DEF Step, Seen, Opens, Closes

LEMMA BadStays ==
  ASSUME NEW text, Len(text) \in Nat, NEW f, IsScan(f, text), NEW i \in 0..Len(text), f[i].at = "bad"
  PROVE  f[Len(text)].at = "bad"
<1> DEFINE T == {k \in Nat : i + k \in 0..Len(text) => f[i + k].at = "bad"}
<1>1. 0 \in T
  OBVIOUS
<1>2. ASSUME NEW k \in Nat, k \in T PROVE k + 1 \in T
  <2> SUFFICES ASSUME i + (k + 1) \in 0..Len(text) PROVE f[i + (k + 1)].at = "bad"
    OBVIOUS
  <2>1. i + k \in 0..Len(text) /\ i + (k + 1) \in 1..Len(text) /\ (i + (k + 1)) - 1 = i + k
    OBVIOUS
  <2>2. f[i + k].at = "bad"
    BY <1>2, <2>1
  <2>3. f[i + (k + 1)] = Step(f[i + k], text[i + (k + 1)])
    BY <2>1 DEF IsScan
  <2> QED  BY <2>2, <2>3, EndStays
<1> HIDE DEF T
<1>3. Nat \subseteq T
  BY <1>1, <1>2, Induction
<1>4. Len(text) - i \in Nat /\ i + (Len(text) - i) = Len(text)
  OBVIOUS
<1> QED  BY <1>3, <1>4 DEF T

\* A text with a word or a fence is no document.
LEMMA WordsAreNoJson ==
  ASSUME NEW text \in Seq(Tokens), NEW i \in 1..Len(text), text[i].mark \in {"word", "fence"}
  PROVE  ~IsJson(text)
<1>1. Len(text) \in Nat
  BY LenProperties
<1>2. PICK f : IsScan(f, text) /\ (IsJson(text) <=> f[Len(text)].at = "whole")
  BY ScanExists
<1>3. f[i].at = "bad"
  <2>1. f[i] = Step(f[i - 1], text[i])
    BY <1>2 DEF IsScan
  <2> QED  BY <2>1, WordSpoils
<1>4. i \in 0..Len(text)
  BY <1>1
<1>5. f[Len(text)].at = "bad"
  BY <1>1, <1>2, <1>3, <1>4, BadStays
<1> QED  BY <1>2, <1>5

\* The beginning of a document is none.
LEMMA BeginningIsNoJson ==
  ASSUME NEW doc \in Seq(Tokens), IsJson(doc), NEW k \in 0..Len(doc), k < Len(doc)
  PROVE  ~IsJson(SubSeq(doc, 1, k))
<1> DEFINE cut == SubSeq(doc, 1, k)
<1>1. Len(doc) \in Nat
  BY LenProperties
<1>2. cut \in Seq(Tokens) /\ Len(cut) = k /\ \A i \in 1..k : cut[i] = doc[i]
  BY <1>1, SubSeqProperties
<1> HIDE DEF cut
<1>3. PICK f : IsScan(f, doc) /\ (IsJson(doc) <=> f[Len(doc)].at = "whole")
  BY ScanExists
<1>4. PICK g : IsScan(g, cut) /\ (IsJson(cut) <=> g[Len(cut)].at = "whole")
  BY <1>2, ScanExists
<1> DEFINE T == {i \in Nat : i \in 0..k => g[i] = f[i]}
<1>5. 0 \in T
  BY <1>3, <1>4 DEF IsScan
<1>6. ASSUME NEW i \in Nat, i \in T PROVE i + 1 \in T
  <2> SUFFICES ASSUME i + 1 \in 0..k PROVE g[i + 1] = f[i + 1]
    OBVIOUS
  <2>1. i \in 0..k /\ i + 1 \in 1..k /\ i + 1 \in 1..Len(doc) /\ (i + 1) - 1 = i
    BY <1>1
  <2>2. g[i] = f[i] /\ cut[i + 1] = doc[i + 1]
    BY <1>2, <1>6, <2>1
  <2>3. g[i + 1] = Step(g[i], cut[i + 1])
    BY <1>2, <1>4, <2>1 DEF IsScan
  <2>4. f[i + 1] = Step(f[i], doc[i + 1])
    BY <1>3, <2>1 DEF IsScan
  <2> QED  BY <2>2, <2>3, <2>4
<1> HIDE DEF T
<1>7. Nat \subseteq T
  BY <1>5, <1>6, Induction
<1>8. g[k] = f[k]
  BY <1>7 DEF T
<1>9. f[k].at # "whole"
  <2> SUFFICES ASSUME f[k].at = "whole" PROVE FALSE
    OBVIOUS
  <2>1. k + 1 \in 1..Len(doc) /\ k + 1 \in 0..Len(doc) /\ (k + 1) - 1 = k
    BY <1>1
  <2>2. f[k + 1] = Step(f[k], doc[k + 1])
    BY <1>3, <2>1 DEF IsScan
  <2>3. f[k + 1].at = "bad"
    BY <2>2, EndStays
  <2>4. f[Len(doc)].at = "bad"
    BY <1>1, <1>3, <2>1, <2>3, BadStays
  <2> QED  BY <1>3, <2>4
<1> QED  BY <1>2, <1>4, <1>8, <1>9 DEF cut

(***************************************************************************)
(* The documents are read whole                                            *)
(***************************************************************************)
\* A key with an array of items, after some position.
HasArray(doc, a, name, items) ==
  /\ a + 3 + Len(items) <= Len(doc)
  /\ doc[a + 1] = Key(name) /\ doc[a + 2] = Mark("array")
  /\ \A i \in 1..Len(items) : doc[a + 2 + i] = items[i]
  /\ doc[a + 3 + Len(items)] = Mark("endArray")

\* Brackets opened and closed.
LEMMA OpensAre ==
  /\ <<"object">> \in Seq(Opens) /\ Len(<<"object">>) = 1 /\ <<"object">>[1] = "object" /\ <<"object">> # <<>>
  /\ <<"array">> \in Seq(Opens) /\ Len(<<"array">>) = 1 /\ <<"array">>[1] = "array" /\ <<"array">> # <<>>
  /\ <<"object", "array">> \in Seq(Opens) /\ Len(<<"object", "array">>) = 2
  /\ <<"object", "array">>[2] = "array" /\ <<"object", "array">> # <<>>
  /\ Append(<<>>, "object") = <<"object">> /\ Append(<<>>, "array") = <<"array">>
  /\ Append(<<"object">>, "array") = <<"object", "array">>
  /\ SubSeq(<<"object", "array">>, 1, 1) = <<"object">>
  /\ SubSeq(<<"object">>, 1, 0) = <<>> /\ SubSeq(<<"array">>, 1, 0) = <<>>
<1>1. /\ <<"object">> \in Seq(Opens) /\ Len(<<"object">>) = 1 /\ <<"object">>[1] = "object" /\ <<"object">> # <<>>
      /\ <<"array">> \in Seq(Opens) /\ Len(<<"array">>) = 1 /\ <<"array">>[1] = "array" /\ <<"array">> # <<>>
  BY DEF Opens
<1>2. /\ <<"object", "array">> \in Seq(Opens) /\ Len(<<"object", "array">>) = 2
      /\ <<"object", "array">>[2] = "array" /\ <<"object", "array">> # <<>>
  BY DEF Opens
<1>3. Append(<<>>, "object") = <<"object">> /\ Append(<<>>, "array") = <<"array">>
  OBVIOUS
<1> DEFINE o == <<"object">>
           oa == <<"object", "array">>
           last == "array"
<1>7. o[1] = "object" /\ oa[1] = "object" /\ oa[2] = last /\ last \in Opens
  BY DEF Opens
<1>8. o \in Seq(Opens) /\ oa \in Seq(Opens) /\ Len(o) = 1 /\ Len(oa) = 2
  BY <1>1, <1>2
<1> HIDE DEF o, oa, last
<1>4. Append(o, last) = oa
  <2> DEFINE s == Append(o, last)
  <2>0. o \in Seq(Opens) /\ last \in Opens
    BY <1>7, <1>8
  <2>5. s \in Seq(Opens) 
    BY ONLY <2>0, AppendProperties
  <2>6. Len(s) = Len(o) + 1 
    BY ONLY <2>0, AppendProperties
  <2>7. \A i \in 1..Len(o) : s[i] = o[i]
    BY ONLY <2>0, AppendProperties
  <2>8. s[Len(o) + 1] = last
    BY ONLY <2>0, AppendProperties
  <2>1. s \in Seq(Opens) /\ Len(s) = Len(o) + 1 /\ (\A i \in 1..Len(o) : s[i] = o[i]) /\ s[Len(o) + 1] = last
    BY ONLY <2>5, <2>6, <2>7, <2>8
  <2> HIDE DEF s
  <2>2. Len(s) = 2 /\ s[1] = "object" /\ s[2] = last
    BY <1>7, <1>8, <2>1
  <2>3. Len(s) = Len(oa) /\ \A i \in 1..Len(s) : s[i] = oa[i]
    BY <1>7, <1>8, <2>2
  <2>4. s = oa
    BY <1>8, <2>1, <2>3, SeqEqual
  <2> QED  BY <2>4 DEF s
<1>5. SubSeq(oa, 1, 1) = o
  <2> DEFINE s == SubSeq(oa, 1, 1)
  <2>1. \A i \in 1..1 : oa[i] \in Opens
    BY <1>7 DEF Opens
  <2>2. s \in Seq(Opens) /\ Len(s) = 1 /\ s[1] = oa[1]
    BY <2>1, SubSeqProperties
  <2> HIDE DEF s
  <2>3. Len(s) = Len(o) /\ \A i \in 1..Len(s) : s[i] = o[i]
    BY <1>7, <1>8, <2>2
  <2>4. s = o
    BY <1>8, <2>2, <2>3, SeqEqual
  <2> QED  BY <2>4 DEF s
<1>6. SubSeq(<<"object">>, 1, 0) = <<>> /\ SubSeq(<<"array">>, 1, 0) = <<>>
  OBVIOUS
<1> QED  BY <1>1, <1>2, <1>3, <1>4, <1>5, <1>6 DEF o, oa, last

\* The steps over a document.
LEMMA StepsAre ==
  ASSUME NEW token
  PROVE  /\ token.mark = "object" => Step(Seen(<<>>, "reading"), token) = Seen(<<"object">>, "reading")
         /\ token.mark = "array" => Step(Seen(<<>>, "reading"), token) = Seen(<<"array">>, "reading")
         /\ token.mark = "key" => Step(Seen(<<"object">>, "reading"), token) = Seen(<<"object">>, "keyed")
         /\ token.mark = "array" => Step(Seen(<<"object">>, "keyed"), token) = Seen(<<"object", "array">>, "reading")
         /\ token.mark = "item" => \A open \in {<<"array">>, <<"object", "array">>} :
              Step(Seen(open, "reading"), token) = Seen(open, "reading")
         /\ token.mark = "endArray" =>
              /\ Step(Seen(<<"object", "array">>, "reading"), token) = Seen(<<"object">>, "reading")
              /\ Step(Seen(<<"array">>, "reading"), token) = Seen(<<>>, "whole")
         /\ token.mark = "endObject" => Step(Seen(<<"object">>, "reading"), token) = Seen(<<>>, "whole")
<1> DEFINE o == <<"object">>
           a == <<"array">>
           oa == <<"object", "array">>
           no == <<>>
<1>1. /\ Len(o) = 1 /\ o[Len(o)] = "object" /\ o # no
      /\ Len(a) = 1 /\ a[Len(a)] = "array" /\ a # no
      /\ Len(oa) = 2 /\ oa[Len(oa)] = "array" /\ oa # no
      /\ Append(no, "object") = o /\ Append(no, "array") = a /\ Append(o, "array") = oa
  BY OpensAre
<1>2. /\ SubSeq(oa, 1, Len(oa) - 1) = o /\ SubSeq(o, 1, Len(o) - 1) = no /\ SubSeq(a, 1, Len(a) - 1) = no
  BY OpensAre
<1>3. /\ Seen(no, "reading").open = no /\ Seen(o, "reading").open = o /\ Seen(o, "keyed").open = o
      /\ Seen(a, "reading").open = a /\ Seen(oa, "reading").open = oa
      /\ \A x : Seen(x, "reading").at = "reading" /\ Seen(x, "keyed").at = "keyed"
  BY DEF Seen
<1>4. token.mark = "object" => Step(Seen(no, "reading"), token) = Seen(o, "reading")
  BY <1>1, <1>3 DEF Step, Opens
<1>5. token.mark = "array" => Step(Seen(no, "reading"), token) = Seen(a, "reading")
  BY <1>1, <1>3 DEF Step, Opens
<1>6. token.mark = "key" => Step(Seen(o, "reading"), token) = Seen(o, "keyed")
  BY <1>1, <1>3 DEF Step, Opens, Closes
<1>7. token.mark = "array" => Step(Seen(o, "keyed"), token) = Seen(oa, "reading")
  BY <1>1, <1>3 DEF Step, Opens
<1>8. token.mark = "item" => \A open \in {a, oa} : Step(Seen(open, "reading"), token) = Seen(open, "reading")
  BY <1>1, <1>3 DEF Step, Opens, Closes, After
<1>9. token.mark = "endArray" =>
        /\ Step(Seen(oa, "reading"), token) = Seen(o, "reading")
        /\ Step(Seen(a, "reading"), token) = Seen(no, "whole")
  BY <1>1, <1>2, <1>3 DEF Step, Opens, Closes, After, Match
<1>10. token.mark = "endObject" => Step(Seen(o, "reading"), token) = Seen(no, "whole")
  BY <1>1, <1>2, <1>3 DEF Step, Opens, Closes, After, Match
<1> QED  BY <1>4, <1>5, <1>6, <1>7, <1>8, <1>9, <1>10

\* Items in an array leave the state as it is.
LEMMA ItemsAreRead ==
  ASSUME NEW doc, NEW f, IsScan(f, doc), NEW b \in Nat, NEW n \in Nat, b + n <= Len(doc), Len(doc) \in Nat,
         NEW open \in {<<"array">>, <<"object", "array">>}, f[b] = Seen(open, "reading"),
         \A i \in 1..n : doc[b + i].mark = "item"
  PROVE  f[b + n] = Seen(open, "reading")
<1> DEFINE T == {k \in Nat : k <= n => f[b + k] = Seen(open, "reading")}
<1>1. 0 \in T
  OBVIOUS
<1>2. ASSUME NEW k \in Nat, k \in T PROVE k + 1 \in T
  <2> SUFFICES ASSUME k + 1 <= n PROVE f[b + (k + 1)] = Seen(open, "reading")
    OBVIOUS
  <2>1. k <= n /\ k + 1 \in 1..n /\ b + (k + 1) \in 1..Len(doc) /\ (b + (k + 1)) - 1 = b + k
    OBVIOUS
  <2>2. f[b + k] = Seen(open, "reading")
    BY <1>2, <2>1
  <2>3. f[b + (k + 1)] = Step(f[b + k], doc[b + (k + 1)])
    BY <2>1 DEF IsScan
  <2>4. doc[b + (k + 1)].mark = "item"
    BY <2>1
  <2> DEFINE token == doc[b + (k + 1)]
  <2>5. token.mark = "item" /\ f[b + (k + 1)] = Step(Seen(open, "reading"), token)
    BY <2>2, <2>3, <2>4
  <2> HIDE DEF token
  <2> QED  BY <2>5, StepsAre
<1> HIDE DEF T
<1>3. Nat \subseteq T
  BY <1>1, <1>2, Induction
<1>4. n \in T
  BY <1>3
<1>5. n <= n => f[b + n] = Seen(open, "reading")
  BY <1>4 DEF T
<1> QED  BY <1>5

LEMMA ArrayIsRead ==
  ASSUME NEW doc, Len(doc) \in Nat, NEW f, IsScan(f, doc), NEW a \in Nat, NEW name, NEW items \in Seq(Item),
         HasArray(doc, a, name, items), f[a] = Seen(<<"object">>, "reading")
  PROVE  f[a + 3 + Len(items)] = Seen(<<"object">>, "reading")
<1> DEFINE n == Len(items)
<1>1. n \in Nat /\ a + 3 + n <= Len(doc)
  BY LenProperties DEF HasArray
<1>2. doc[a + 1].mark = "key" /\ doc[a + 2].mark = "array" /\ doc[a + 3 + n].mark = "endArray"
  BY DEF HasArray, Key, Mark
<1>3. \A i \in 1..n : doc[a + 2 + i].mark = "item"
  <2> SUFFICES ASSUME NEW i \in 1..n PROVE doc[a + 2 + i].mark = "item"
    OBVIOUS
  <2>1. items[i] \in Item
    BY ElementOfSeq
  <2> QED  BY <2>1 DEF HasArray, Item
<1> HIDE DEF n
<1>4. /\ a + 1 \in 1..Len(doc) /\ (a + 1) - 1 = a
      /\ a + 2 \in 1..Len(doc) /\ (a + 2) - 1 = a + 1
      /\ a + 3 + n \in 1..Len(doc) /\ (a + 3 + n) - 1 = a + 2 + n /\ a + 2 + n <= Len(doc)
  BY <1>1
<1>5. /\ f[a + 1] = Step(f[a], doc[a + 1]) /\ f[a + 2] = Step(f[a + 1], doc[a + 2])
      /\ f[a + 3 + n] = Step(f[a + 2 + n], doc[a + 3 + n])
  <2> DEFINE i == a + 1
             j == a + 2
             k == a + 3 + n
  <2>1. i \in 1..Len(doc) /\ j \in 1..Len(doc) /\ k \in 1..Len(doc)
    BY <1>4
  <2>2. i - 1 = a /\ j - 1 = a + 1 /\ k - 1 = a + 2 + n
    BY <1>4
  <2> HIDE DEF i, j, k
  <2>3. f[i] = Step(f[i - 1], doc[i]) /\ f[j] = Step(f[j - 1], doc[j]) /\ f[k] = Step(f[k - 1], doc[k])
    BY <2>1 DEF IsScan
  <2> QED  BY <2>2, <2>3 DEF i, j, k
<1>6. f[a + 1] = Seen(<<"object">>, "keyed")
  BY <1>2, <1>5, StepsAre
<1>7. f[a + 2] = Seen(<<"object", "array">>, "reading")
  BY <1>2, <1>5, <1>6, StepsAre
<1>8. f[a + 2 + n] = Seen(<<"object", "array">>, "reading")
  <2> DEFINE b == a + 2
             oa == <<"object", "array">>
  <2>1. b \in Nat /\ b + n <= Len(doc) /\ f[b] = Seen(oa, "reading") /\ oa \in {<<"array">>, <<"object", "array">>}
    BY <1>1, <1>4, <1>7
  <2>2. \A i \in 1..n : doc[b + i].mark = "item"
    BY <1>3
  <2> HIDE DEF b, oa
  <2>3. f[b + n] = Seen(oa, "reading")
    BY <1>1, <2>1, <2>2, ItemsAreRead
  <2> QED  BY <2>3 DEF b, oa
<1>9. f[a + 3 + n] = Seen(<<"object">>, "reading")
  BY <1>2, <1>5, <1>8, StepsAre
<1> QED  BY <1>9 DEF n

\* What is between two brackets, and behind a key.
LEMMA WrapIs ==
  ASSUME NEW tokens \in Seq(Tokens), NEW x \in Tokens, NEW y \in Tokens, NEW w, w = <<x>> \o tokens \o <<y>>
  PROVE  /\ w \in Seq(Tokens) /\ Len(w) = Len(tokens) + 2
         /\ w[1] = x /\ w[Len(tokens) + 2] = y
         /\ \A i \in 1..Len(tokens) : w[i + 1] = tokens[i]
<1> DEFINE p == <<x>>
           q == <<y>>
           h == p \o tokens
           n == Len(tokens)
<1>1. p \in Seq(Tokens) /\ q \in Seq(Tokens) /\ Len(p) = 1 /\ Len(q) = 1 /\ p[1] = x /\ q[1] = y
  OBVIOUS
<1>2. w = h \o q /\ n \in Nat
  BY LenProperties
<1> HIDE DEF p, q
<1>3. h \in Seq(Tokens) /\ Len(h) = 1 + n /\ \A i \in 1..(1 + n) : h[i] = IF i <= 1 THEN p[i] ELSE tokens[i - 1]
  BY <1>1, <1>2, ConcatProperties
<1> HIDE DEF h
<1>4. w \in Seq(Tokens) /\ Len(w) = (1 + n) + 1 /\ \A i \in 1..((1 + n) + 1) : w[i] = IF i <= 1 + n THEN h[i] ELSE q[i - (1 + n)]
  BY <1>1, <1>2, <1>3, ConcatProperties
<1> HIDE DEF n
<1>5. Len(w) = n + 2 /\ w[1] = x
  BY <1>1, <1>2, <1>3, <1>4
<1>6. w[n + 2] = y
  <2>1. n + 2 \in 1..((1 + n) + 1) /\ ~(n + 2 <= 1 + n) /\ (n + 2) - (1 + n) = 1
    BY <1>2
  <2> QED  BY <1>1, <1>4, <2>1
<1>7. ASSUME NEW i \in 1..n PROVE w[i + 1] = tokens[i]
  <2>1. i + 1 \in 1..((1 + n) + 1) /\ i + 1 <= 1 + n /\ i + 1 \in 1..(1 + n) /\ ~(i + 1 <= 1) /\ (i + 1) - 1 = i
    BY <1>2
  <2> QED  BY <1>3, <1>4, <2>1
<1> QED  BY <1>4, <1>5, <1>6, <1>7 DEF n

LEMMA MarksAreTokens ==
  /\ Mark("object") \in Tokens /\ Mark("array") \in Tokens
  /\ Mark("endObject") \in Tokens /\ Mark("endArray") \in Tokens
  /\ Key("findings") \in Tokens /\ Key("changes") \in Tokens /\ Key("tests_added") \in Tokens
  /\ Item \subseteq Tokens
BY DEF Mark, Key, Tokens, Token

LEMMA ArrayIs ==
  ASSUME NEW items \in Seq(Item)
  PROVE  /\ Array(items) \in Seq(Tokens) /\ Len(Array(items)) = Len(items) + 2
         /\ Array(items)[1] = Mark("array") /\ Array(items)[Len(items) + 2] = Mark("endArray")
         /\ \A i \in 1..Len(items) : Array(items)[i + 1] = items[i]
<1>1. items \in Seq(Tokens)
  BY MarksAreTokens, SeqMonotonic
<1> DEFINE w == Array(items)
<1>2. w = <<Mark("array")>> \o items \o <<Mark("endArray")>>
  BY DEF Array
<1> HIDE DEF w
<1> QED  BY <1>1, <1>2, MarksAreTokens, WrapIs DEF w

LEMMA EarliestIs ==
  ASSUME NEW S, S \subseteq Nat, NEW m \in S, \A j \in S : m <= j
  PROVE  Earliest(S) = m
<1> DEFINE e == Earliest(S)
<1>1. e \in S /\ \A j \in S : e <= j
  BY DEF Earliest
<1> HIDE DEF e
<1>2. e \in Nat /\ m \in Nat /\ e <= m /\ m <= e
  BY <1>1
<1>3. e = m
  BY ONLY <1>2
<1> QED  BY <1>3 DEF e

LEMMA LatestIs ==
  ASSUME NEW S, S \subseteq Nat, NEW m \in S, \A j \in S : m >= j
  PROVE  Latest(S) = m
<1> DEFINE e == Latest(S)
<1>1. e \in S /\ \A j \in S : e >= j
  BY DEF Latest
<1> HIDE DEF e
<1>2. e \in Nat /\ m \in Nat /\ e >= m /\ m >= e
  BY <1>1
<1>3. e = m
  BY ONLY <1>2
<1> QED  BY <1>3 DEF e

\* A sequence of tokens that has a key and its array, and nothing else.
KeyArray(name, items) == <<Key(name)>> \o Array(items)

LEMMA KeyArrayIs ==
  ASSUME NEW name \in {"findings", "changes", "tests_added"}, NEW items \in Seq(Item)
  PROVE  /\ KeyArray(name, items) \in Seq(Tokens) /\ Len(KeyArray(name, items)) = Len(items) + 3
         /\ HasArray(KeyArray(name, items), 0, name, items)
<1> DEFINE p == <<Key(name)>>
           q == Array(items)
           n == Len(items)
           w == KeyArray(name, items)
<1>1. p \in Seq(Tokens) /\ Len(p) = 1 /\ p[1] = Key(name)
  BY MarksAreTokens
<1>2. /\ q \in Seq(Tokens) /\ Len(q) = n + 2 /\ q[1] = Mark("array") /\ q[n + 2] = Mark("endArray")
      /\ \A i \in 1..n : q[i + 1] = items[i]
  BY ArrayIs
<1>3. n \in Nat
  BY LenProperties
<1>4. w = p \o q
  BY DEF KeyArray
<1> HIDE DEF p, q, w, n
<1>5. w \in Seq(Tokens) /\ Len(w) = 1 + (n + 2) /\ \A i \in 1..(1 + (n + 2)) : w[i] = IF i <= 1 THEN p[i] ELSE q[i - 1]
  <2>1. /\ w \in Seq(Tokens) /\ Len(w) = Len(p) + Len(q)
        /\ \A i \in 1..(Len(p) + Len(q)) : w[i] = IF i <= Len(p) THEN p[i] ELSE q[i - Len(p)]
    BY <1>1, <1>2, <1>4, ConcatProperties
  <2> QED  BY <1>1, <1>2, <2>1
<1>6. Len(w) = n + 3 /\ w[0 + 1] = Key(name) /\ w[0 + 2] = Mark("array")
  BY <1>1, <1>2, <1>3, <1>5
<1>7. w[0 + 3 + n] = Mark("endArray")
  <2>1. 0 + 3 + n \in 1..(1 + (n + 2)) /\ ~(0 + 3 + n <= 1) /\ (0 + 3 + n) - 1 = n + 2
    BY <1>3
  <2> QED  BY <1>2, <1>5, <2>1
<1>8. ASSUME NEW i \in 1..n PROVE w[0 + 2 + i] = items[i]
  <2>1. 0 + 2 + i \in 1..(1 + (n + 2)) /\ ~(0 + 2 + i <= 1) /\ (0 + 2 + i) - 1 = i + 1
    BY <1>3
  <2> QED  BY <1>2, <1>5, <2>1
<1>9. 0 + 3 + n <= Len(w)
  BY <1>3, <1>6
<1>10. HasArray(w, 0, name, items)
  BY <1>6, <1>7, <1>8, <1>9 DEF HasArray, n
<1> QED  BY <1>5, <1>6, <1>10 DEF w, n

\* An array is where it was, in a longer text.
LEMMA ArrayMoves ==
  ASSUME NEW doc, NEW wider, NEW a \in Nat, NEW b \in Nat, NEW name, NEW items \in Seq(Item),
         Len(doc) \in Nat, Len(wider) \in Nat, HasArray(doc, a, name, items), b + Len(doc) <= Len(wider),
         \A i \in 1..Len(doc) : wider[b + i] = doc[i]
  PROVE  HasArray(wider, b + a, name, items)
<1> DEFINE n == Len(items)
           m == Len(doc)
           c == b + a
<1>1. n \in Nat /\ a + 3 + n <= m
  BY LenProperties DEF HasArray
<1>2. m \in Nat
  OBVIOUS
<1>3. doc[a + 1] = Key(name) /\ doc[a + 2] = Mark("array") /\ doc[a + 3 + n] = Mark("endArray")
  BY DEF HasArray
<1>4. \A i \in 1..n : doc[a + 2 + i] = items[i]
  BY DEF HasArray
<1>5. b + m <= Len(wider) /\ \A i \in 1..m : wider[b + i] = doc[i]
  OBVIOUS
<1> HIDE DEF n, m
<1>6. /\ a + 1 \in 1..m /\ b + (a + 1) = c + 1 /\ a + 2 \in 1..m /\ b + (a + 2) = c + 2
      /\ a + 3 + n \in 1..m /\ b + (a + 3 + n) = c + 3 + n /\ c + 3 + n <= Len(wider)
  BY <1>1, <1>2, <1>5
<1>7. \A i \in 1..n : a + 2 + i \in 1..m /\ b + (a + 2 + i) = c + 2 + i
  BY <1>1, <1>2
<1> HIDE DEF c
<1>8. wider[c + 1] = Key(name) /\ wider[c + 2] = Mark("array") /\ wider[c + 3 + n] = Mark("endArray")
  BY <1>3, <1>5, <1>6
<1>9. \A i \in 1..n : wider[c + 2 + i] = items[i]
  BY <1>4, <1>5, <1>7
<1>10. HasArray(wider, c, name, items)
  BY <1>6, <1>8, <1>9 DEF HasArray, n
<1> QED  BY <1>10 DEF c

\* What the documents are, token by token.
IsFindings(doc, items) ==
  /\ doc \in Seq(Tokens) /\ Len(doc) = Len(items) + 5
  /\ doc[1] = Mark("object") /\ doc[Len(items) + 5] = Mark("endObject") /\ HasArray(doc, 1, "findings", items)

IsList(doc, items) ==
  /\ doc \in Seq(Tokens) /\ Len(doc) = Len(items) + 2
  /\ doc[1] = Mark("array") /\ doc[Len(items) + 2] = Mark("endArray")
  /\ \A i \in 1..Len(items) : doc[i + 1] = items[i]

IsChanges(doc, items, tests) ==
  /\ doc \in Seq(Tokens) /\ Len(doc) = Len(items) + Len(tests) + 8
  /\ doc[1] = Mark("object") /\ doc[Len(items) + Len(tests) + 8] = Mark("endObject")
  /\ HasArray(doc, 1, "changes", items) /\ HasArray(doc, 4 + Len(items), "tests_added", tests)

LEMMA FindingsIs ==
  ASSUME NEW items \in Seq(Item)
  PROVE  IsFindings(Object(<<Key("findings")>> \o Array(items)), items)
<1> DEFINE k == KeyArray("findings", items)
           doc == Object(k)
           n == Len(items)
<1>1. k \in Seq(Tokens) /\ Len(k) = n + 3 /\ HasArray(k, 0, "findings", items)
  BY KeyArrayIs
<1>2. n \in Nat
  BY LenProperties
<1>3. doc = <<Mark("object")>> \o k \o <<Mark("endObject")>>
  BY DEF Object
<1> HIDE DEF k, doc
<1>4. /\ doc \in Seq(Tokens) /\ Len(doc) = Len(k) + 2
      /\ doc[1] = Mark("object") /\ doc[Len(k) + 2] = Mark("endObject")
      /\ \A i \in 1..Len(k) : doc[i + 1] = k[i]
  BY <1>1, <1>3, MarksAreTokens, WrapIs
<1> HIDE DEF n
<1>5. Len(k) + 2 = n + 5 /\ Len(k) \in Nat /\ 1 + Len(k) <= Len(doc) /\ Len(doc) \in Nat
  BY <1>1, <1>2, <1>4
<1>6. \A i \in 1..Len(k) : doc[1 + i] = k[i]
  BY <1>4, <1>5
<1>7. HasArray(doc, 1 + 0, "findings", items)
  BY <1>1, <1>5, <1>6, ArrayMoves
<1>8. IsFindings(doc, items)
  BY <1>4, <1>5, <1>7 DEF IsFindings, n
<1> QED  BY <1>8 DEF doc, k, KeyArray

LEMMA ListIs ==
  ASSUME NEW items \in Seq(Item)
  PROVE  IsList(Array(items), items)
BY ArrayIs DEF IsList

LEMMA ChangesIs ==
  ASSUME NEW items \in Seq(Item), NEW tests \in Seq(Item)
  PROVE  IsChanges(Object(<<Key("changes")>> \o Array(items) \o <<Key("tests_added")>> \o Array(tests)), items, tests)
<1> DEFINE c == KeyArray("changes", items)
           t == KeyArray("tests_added", tests)
           k == c \o t
           doc == Object(k)
           n == Len(items)
           m == Len(tests)
<1>1. /\ c \in Seq(Tokens) /\ Len(c) = n + 3 /\ HasArray(c, 0, "changes", items)
      /\ t \in Seq(Tokens) /\ Len(t) = m + 3 /\ HasArray(t, 0, "tests_added", tests)
  BY KeyArrayIs
<1>2. n \in Nat /\ m \in Nat
  BY LenProperties
<1>3. doc = <<Mark("object")>> \o k \o <<Mark("endObject")>>
  BY DEF Object
<1>4. k = <<Key("changes")>> \o Array(items) \o <<Key("tests_added")>> \o Array(tests)
  <2> DEFINE x == <<Key("tests_added")>>
             y == Array(tests)
             h == <<Key("changes")>> \o Array(items)
  <2>1. x \in Seq(Tokens) /\ y \in Seq(Tokens)
    BY MarksAreTokens, ArrayIs
  <2>2. c = h /\ t = x \o y
    BY DEF KeyArray
  <2>3. h \in Seq(Tokens)
    BY <1>1, <2>2
  <2> HIDE DEF c, t, x, y, h
  <2>4. k = h \o (x \o y)
    BY <2>2
  <2>5. (h \o x) \o y = h \o (x \o y)
    BY ONLY <2>1, <2>3, ConcatAssociative
  <2>6. k = (h \o x) \o y
    BY ONLY <2>4, <2>5
  <2> QED  BY <2>6 DEF h, x, y
<1>5. k = c \o t
  OBVIOUS
<1> HIDE DEF k, doc, c, t, n, m
<1>6. /\ k \in Seq(Tokens) /\ Len(k) = Len(c) + Len(t)
      /\ \A i \in 1..(Len(c) + Len(t)) : k[i] = IF i <= Len(c) THEN c[i] ELSE t[i - Len(c)]
  BY <1>1, <1>5, ConcatProperties
<1>7. /\ doc \in Seq(Tokens) /\ Len(doc) = Len(k) + 2
      /\ doc[1] = Mark("object") /\ doc[Len(k) + 2] = Mark("endObject")
      /\ \A i \in 1..Len(k) : doc[i + 1] = k[i]
  <2>1. k \in Seq(Tokens)
    BY <1>6
  <2> QED  BY <1>3, <2>1, MarksAreTokens, WrapIs
<1>8. Len(k) = (n + 3) + (m + 3) /\ Len(k) + 2 = n + m + 8 /\ Len(doc) = n + m + 8
  BY <1>1, <1>2, <1>6, <1>7
<1>9. HasArray(doc, 1 + 0, "changes", items)
  <2>1. Len(c) \in Nat /\ Len(doc) \in Nat /\ 1 + Len(c) <= Len(doc)
    BY <1>1, <1>2, <1>8
  <2>2. ASSUME NEW i \in 1..Len(c) PROVE doc[1 + i] = c[i]
    <3>1. i \in 1..Len(k) /\ i \in 1..(Len(c) + Len(t)) /\ i <= Len(c) /\ i + 1 = 1 + i
      BY <1>1, <1>2, <1>8
    <3> QED  BY <1>6, <1>7, <3>1
  <2> QED  BY <1>1, <2>1, <2>2, ArrayMoves
<1>10. HasArray(doc, (4 + n) + 0, "tests_added", tests)
  <2> DEFINE b == 4 + n
  <2>1. Len(t) \in Nat /\ Len(doc) \in Nat /\ b + Len(t) <= Len(doc) /\ b \in Nat
    BY <1>1, <1>2, <1>8
  <2>2. ASSUME NEW i \in 1..Len(t) PROVE doc[b + i] = t[i]
    <3> DEFINE j == (3 + n) + i
    <3>1. j \in 1..Len(k) /\ j \in 1..(Len(c) + Len(t)) /\ ~(j <= Len(c)) /\ j + 1 = b + i /\ j - Len(c) = i
      BY <1>1, <1>2, <1>8
    <3> HIDE DEF j, b
    <3> QED  BY <1>6, <1>7, <3>1
  <2> HIDE DEF b
  <2>3. HasArray(doc, b + 0, "tests_added", tests)
    BY <1>1, <2>1, <2>2, ArrayMoves
  <2> QED  BY <2>3 DEF b
<1>11. (4 + n) + 0 = 4 + n /\ 1 + 0 = 1
  BY <1>2
<1>12. IsChanges(doc, items, tests)
  BY <1>7, <1>8, <1>9, <1>10, <1>11 DEF IsChanges, n, m
<1> QED  BY <1>4, <1>12 DEF doc

\* One step of reading, at a position that is named.
LEMMA ScanStep ==
  ASSUME NEW doc, NEW f, IsScan(f, doc), NEW i \in 1..Len(doc), NEW j, j = i - 1
  PROVE  f[i] = Step(f[j], doc[i])
BY DEF IsScan

LEMMA FindingsAreJson ==
  ASSUME NEW doc, NEW items \in Seq(Item), IsFindings(doc, items)
  PROVE  IsJson(doc)
<1> DEFINE n == Len(items)
<1>1. n \in Nat /\ doc \in Seq(Tokens) /\ Len(doc) = n + 5 /\ doc[1].mark = "object" /\ doc[n + 5].mark = "endObject"
  BY LenProperties DEF IsFindings, Mark
<1>2. HasArray(doc, 1, "findings", items)
  BY DEF IsFindings
<1>3. PICK f : IsScan(f, doc) /\ (IsJson(doc) <=> f[Len(doc)].at = "whole")
  BY <1>1, ScanExists
<1> HIDE DEF n
<1>4. f[0] = Seen(<<>>, "reading")
  BY <1>3 DEF IsScan
<1>5. f[1] = Seen(<<"object">>, "reading")
  <2>1. 1 \in 1..Len(doc) /\ 0 = 1 - 1
    BY <1>1
  <2>2. f[1] = Step(f[0], doc[1])
    BY <1>3, <2>1, ScanStep
  <2> QED  BY <1>1, <1>4, <2>2, StepsAre
<1>6. f[1 + 3 + n] = Seen(<<"object">>, "reading")
  <2>1. Len(doc) \in Nat
    BY <1>1
  <2> QED  BY <1>2, <1>3, <1>5, <2>1, ArrayIsRead DEF n
<1>7. f[n + 5] = Seen(<<>>, "whole")
  <2>1. n + 5 \in 1..Len(doc) /\ 1 + 3 + n = (n + 5) - 1
    BY <1>1
  <2>2. f[n + 5] = Step(f[1 + 3 + n], doc[n + 5])
    BY <1>3, <2>1, ScanStep
  <2> QED  BY <1>1, <1>6, <2>2, StepsAre
<1> QED  BY <1>1, <1>3, <1>7 DEF Seen

LEMMA ListsAreJson ==
  ASSUME NEW doc, NEW items \in Seq(Item), IsList(doc, items)
  PROVE  IsJson(doc)
<1> DEFINE n == Len(items)
<1>1. n \in Nat /\ doc \in Seq(Tokens) /\ Len(doc) = n + 2 /\ doc[1].mark = "array" /\ doc[n + 2].mark = "endArray"
  BY LenProperties DEF IsList, Mark
<1>2. \A i \in 1..n : doc[1 + i].mark = "item"
  <2> SUFFICES ASSUME NEW i \in 1..n PROVE doc[1 + i].mark = "item"
    OBVIOUS
  <2>1. items[i] \in Item
    BY ElementOfSeq
  <2>2. 1 + i = i + 1
    BY <1>1
  <2>3. doc[i + 1] = items[i]
    BY DEF IsList
  <2> QED  BY <2>1, <2>2, <2>3 DEF Item
<1>3. PICK f : IsScan(f, doc) /\ (IsJson(doc) <=> f[Len(doc)].at = "whole")
  BY <1>1, ScanExists
<1> HIDE DEF n
<1>4. f[0] = Seen(<<>>, "reading")
  BY <1>3 DEF IsScan
<1>5. f[1] = Seen(<<"array">>, "reading")
  <2>1. 1 \in 1..Len(doc) /\ 0 = 1 - 1
    BY <1>1
  <2>2. f[1] = Step(f[0], doc[1])
    BY <1>3, <2>1, ScanStep
  <2> QED  BY <1>1, <1>4, <2>2, StepsAre
<1>6. f[1 + n] = Seen(<<"array">>, "reading")
  <2> DEFINE open == <<"array">>
             b == 1
  <2>1. /\ b \in Nat /\ Len(doc) \in Nat /\ b + n <= Len(doc)
        /\ open \in {<<"array">>, <<"object", "array">>} /\ f[b] = Seen(open, "reading")
    BY <1>1, <1>5
  <2>2. \A i \in 1..n : doc[b + i].mark = "item"
    BY <1>2
  <2>3. n \in Nat /\ IsScan(f, doc)
    BY <1>1, <1>3
  <2> HIDE DEF open, b
  <2>4. f[b + n] = Seen(open, "reading")
    BY <2>1, <2>2, <2>3, ItemsAreRead
  <2> QED  BY <2>4 DEF open, b
<1>7. f[n + 2] = Seen(<<>>, "whole")
  <2>1. n + 2 \in 1..Len(doc) /\ 1 + n = (n + 2) - 1
    BY <1>1
  <2>2. f[n + 2] = Step(f[1 + n], doc[n + 2])
    BY <1>3, <2>1, ScanStep
  <2> QED  BY <1>1, <1>6, <2>2, StepsAre
<1> QED  BY <1>1, <1>3, <1>7 DEF Seen

LEMMA ChangesAreJson ==
  ASSUME NEW doc, NEW items \in Seq(Item), NEW tests \in Seq(Item), IsChanges(doc, items, tests)
  PROVE  IsJson(doc)
<1> DEFINE n == Len(items)
           m == Len(tests)
<1>1. /\ n \in Nat /\ m \in Nat /\ doc \in Seq(Tokens) /\ Len(doc) = n + m + 8
      /\ doc[1].mark = "object" /\ doc[n + m + 8].mark = "endObject"
  BY LenProperties DEF IsChanges, Mark
<1>2. HasArray(doc, 1, "changes", items) /\ HasArray(doc, 4 + n, "tests_added", tests)
  BY DEF IsChanges
<1>3. PICK f : IsScan(f, doc) /\ (IsJson(doc) <=> f[Len(doc)].at = "whole")
  BY <1>1, ScanExists
<1> HIDE DEF n, m
<1>4. f[0] = Seen(<<>>, "reading") /\ Len(doc) \in Nat
  BY <1>1, <1>3 DEF IsScan
<1>5. f[1] = Seen(<<"object">>, "reading")
  <2>1. 1 \in 1..Len(doc) /\ 0 = 1 - 1
    BY <1>1
  <2>2. f[1] = Step(f[0], doc[1])
    BY <1>3, <2>1, ScanStep
  <2> QED  BY <1>1, <1>4, <2>2, StepsAre
<1>6. f[1 + 3 + n] = Seen(<<"object">>, "reading")
  BY <1>2, <1>3, <1>4, <1>5, ArrayIsRead DEF n
<1>7. f[(4 + n) + 3 + m] = Seen(<<"object">>, "reading")
  <2> DEFINE b == 4 + n
  <2>1. b \in Nat /\ b = 1 + 3 + n
    BY <1>1
  <2>2. f[b] = Seen(<<"object">>, "reading") /\ HasArray(doc, b, "tests_added", tests)
    BY <1>2, <1>6, <2>1
  <2> HIDE DEF b
  <2>3. f[b + 3 + m] = Seen(<<"object">>, "reading")
    BY <1>3, <1>4, <2>1, <2>2, ArrayIsRead DEF m
  <2> QED  BY <2>3 DEF b
<1>8. f[n + m + 8] = Seen(<<>>, "whole")
  <2>1. n + m + 8 \in 1..Len(doc) /\ (4 + n) + 3 + m = (n + m + 8) - 1
    BY <1>1
  <2>2. f[n + m + 8] = Step(f[(4 + n) + 3 + m], doc[n + m + 8])
    BY <1>3, <2>1, ScanStep
  <2> QED  BY <1>1, <1>7, <2>2, StepsAre
<1> QED  BY <1>1, <1>3, <1>8 DEF Seen

(***************************************************************************)
(* What is found in a text                                                 *)
(***************************************************************************)
\* A document that stands in a text: it begins and ends with brackets.
IsDocument(doc) ==
  /\ doc \in Seq(Tokens) /\ Len(doc) > 1 /\ IsJson(doc)
  /\ doc[1].mark \in Opens /\ doc[Len(doc)].mark \in Closes

\* A text has the first k tokens of a document after position l, and words and fences elsewhere.
Surrounds(text, l, doc, k) ==
  /\ text \in Seq(Tokens) /\ l \in Nat /\ k \in 0..Len(doc) /\ (k > 0 => l + k <= Len(text))
  /\ \A i \in 1..k : text[l + i] = doc[i]
  /\ \A i \in 1..Len(text) : i <= l \/ l + k < i => text[i].mark \in {"word", "fence"}

LEMMA NothingIsNoJson ==
  ~IsJson(<<>>)
<1>1. PICK f : IsScan(f, <<>>) /\ (IsJson(<<>>) <=> f[Len(<<>>)].at = "whole")
  BY EmptySeq, ScanExists
<1>2. Len(<<>>) = 0
  OBVIOUS
<1>3. f[0].at = "reading"
  BY <1>1 DEF IsScan, Seen
<1> QED  BY <1>1, <1>2, <1>3

\* What can be read in a text is the whole document.
LEMMA PartIsTheDocument ==
  ASSUME NEW doc, IsDocument(doc), NEW text, NEW l, NEW k, Surrounds(text, l, doc, k),
         NEW i \in 1..Len(text), NEW j \in 1..Len(text), i <= j, k > 0 => i <= l + 1, IsJson(SubSeq(text, i, j))
  PROVE  k = Len(doc) /\ SubSeq(text, i, j) = doc
<1> DEFINE t == SubSeq(text, i, j)
<1>1. /\ text \in Seq(Tokens) /\ Len(text) \in Nat /\ l \in Nat /\ k \in Nat /\ k <= Len(doc) /\ Len(doc) \in Nat
      /\ doc \in Seq(Tokens) /\ IsJson(doc)
  BY LenProperties DEF Surrounds, IsDocument
<1>2. i \in Nat /\ j \in Nat
  BY <1>1
<1>3. t \in Seq(Tokens) /\ Len(t) = (j - i) + 1 /\ \A x \in 1..((j - i) + 1) : t[x] = text[(i + x) - 1]
  <2>1. \A x \in i..j : text[x] \in Tokens
    <3> SUFFICES ASSUME NEW x \in i..j PROVE text[x] \in Tokens
      OBVIOUS
    <3>1. x \in 1..Len(text)
      BY <1>1, <1>2
    <3> QED  BY <1>1, <3>1, ElementOfSeq
  <2>2. i \in Int /\ j \in Int
    BY <1>2
  <2> QED  BY <1>2, <2>1, <2>2, SubSeqProperties
<1>4. IsJson(t)
  OBVIOUS
<1> HIDE DEF t
<1>5. \A x \in 1..Len(t) : t[x].mark \notin {"word", "fence"}
  BY <1>3, <1>4, WordsAreNoJson
<1>6. l < i /\ i <= l + k
  <2>1. 1 \in 1..Len(t) /\ 1 \in 1..((j - i) + 1) /\ (i + 1) - 1 = i
    BY <1>2, <1>3
  <2>2. text[i].mark \notin {"word", "fence"}
    BY <1>3, <1>5, <2>1
  <2>3. ~(i <= l \/ l + k < i)
    BY <2>2 DEF Surrounds
  <2> QED  BY <1>1, <1>2, <2>3
<1>7. j <= l + k
  <2> DEFINE x == (j - i) + 1
  <2>1. x \in 1..Len(t) /\ x \in 1..((j - i) + 1) /\ (i + x) - 1 = j
    BY <1>2, <1>3
  <2> HIDE DEF x
  <2>2. text[j].mark \notin {"word", "fence"}
    BY <1>3, <1>5, <2>1
  <2>3. ~(j <= l \/ l + k < j)
    BY <2>2 DEF Surrounds
  <2> QED  BY <1>1, <1>2, <2>3
<1>8. k > 0 /\ i = l + 1
  BY <1>1, <1>2, <1>6
<1> DEFINE e == j - l
<1>9. e \in 0..Len(doc) /\ e <= k /\ e \in Nat /\ (j - i) + 1 = e /\ e >= 1
  BY <1>1, <1>2, <1>7, <1>8
<1>10. \A x \in 1..e : (i + x) - 1 = l + x /\ x \in 1..k
  BY <1>1, <1>2, <1>8, <1>9
<1> HIDE DEF e
<1>11. \A x \in 1..e : t[x] = doc[x]
  <2>1. \A x \in 1..k : text[l + x] = doc[x]
    BY DEF Surrounds
  <2> QED  BY <1>3, <1>9, <1>10, <2>1
<1>12. Len(t) = e
  BY <1>3, <1>9
<1>13. e = Len(doc)
  <2> SUFFICES ASSUME e # Len(doc) PROVE FALSE
    OBVIOUS
  <2>1. e < Len(doc)
    BY <1>1, <1>9
  <2> DEFINE s == SubSeq(doc, 1, e)
  <2>2. s \in Seq(Tokens) /\ Len(s) = e /\ \A x \in 1..e : s[x] = doc[x]
    BY <1>1, <1>9, SubSeqProperties
  <2>3. ~IsJson(s)
    BY <1>1, <1>9, <2>1, BeginningIsNoJson
  <2> HIDE DEF s
  <2>4. s = t
    BY <1>3, <1>11, <1>12, <2>2, SeqEqual
  <2> QED  BY <1>4, <2>3, <2>4
<1>14. t = doc
  BY <1>1, <1>3, <1>11, <1>12, <1>13, SeqEqual
<1>15. k = Len(doc)
  BY <1>1, <1>9, <1>13
<1> QED  BY <1>14, <1>15 DEF t

\* The last of finitely many positions.
LEMMA LatestIsIn ==
  ASSUME NEW n \in Nat, NEW S, S \subseteq 1..n, S # {}
  PROVE  Latest(S) \in S
<1> DEFINE T == {x \in Nat : \E i \in S : x = n - i}
<1>1. T \subseteq Nat /\ T # {}
  <2>1. PICK i \in S : TRUE
    OBVIOUS
  <2>2. n - i \in Nat
    BY <2>1
  <2> QED  BY <2>2
<1>2. PICK m \in T : \A x \in T : m <= x
  <2> HIDE DEF T
  <2> QED  BY <1>1, Least
<1>3. PICK i \in S : m = n - i
  BY <1>2
<1>4. \A j \in S : i >= j
  <2> SUFFICES ASSUME NEW j \in S PROVE i >= j
    OBVIOUS
  <2>1. j \in 1..n /\ i \in 1..n
    OBVIOUS
  <2>2. n - j \in T
    BY <2>1
  <2>3. n - i <= n - j
    BY <1>2, <1>3, <2>2
  <2> QED  BY <2>1, <2>3
<1> QED  BY <1>4 DEF Latest

LEMMA EarliestIsIn ==
  ASSUME NEW S, S \subseteq Nat, S # {}
  PROVE  Earliest(S) \in S /\ \A i \in S : Earliest(S) <= i
<1>1. \E m \in S : \A k \in S : m <= k
  BY Least
<1> QED  BY <1>1 DEF Earliest

\* The three places where a document is looked for.
LEMMA UnfencedIsADocument ==
  ASSUME NEW doc, IsDocument(doc), NEW text, NEW l, NEW k, Surrounds(text, l, doc, k), IsJson(Unfenced(text))
  PROVE  k = Len(doc) /\ Unfenced(text) = doc
<1> DEFINE inside == {x \in DOMAIN text : text[x].mark # "fence"}
           i == Earliest(inside)
           j == Latest(inside)
<1>1. /\ text \in Seq(Tokens) /\ Len(text) \in Nat /\ DOMAIN text = 1..Len(text) /\ l \in Nat /\ k \in Nat
      /\ k <= Len(doc) /\ Len(doc) \in Nat
  BY LenProperties DEF Surrounds, IsDocument
<1>2. inside \subseteq 1..Len(text) /\ inside \subseteq Nat
  BY <1>1
<1>3. Unfenced(text) = IF inside = {} THEN <<>> ELSE SubSeq(text, i, j)
  BY DEF Unfenced
<1>4. inside # {}
  BY <1>3, NothingIsNoJson
<1>5. k > 0 => l + 1 \in inside
  <2> SUFFICES ASSUME k > 0 PROVE l + 1 \in inside
    OBVIOUS
  <2>1. l + 1 \in 1..Len(text) /\ 1 \in 1..k /\ 1 \in 1..Len(doc)
    BY <1>1 DEF Surrounds
  <2>2. text[l + 1] = doc[1]
    BY <2>1 DEF Surrounds
  <2>3. doc[1].mark # "fence"
    BY DEF IsDocument, Opens
  <2> QED  BY <1>1, <2>1, <2>2, <2>3
<1> HIDE DEF inside
<1>6. i \in inside /\ j \in inside /\ \A x \in inside : i <= x
  BY <1>1, <1>2, <1>4, LatestIsIn, EarliestIsIn
<1> HIDE DEF i, j
<1>7. i \in 1..Len(text) /\ j \in 1..Len(text) /\ i <= j /\ (k > 0 => i <= l + 1)
  BY ONLY <1>2, <1>5, <1>6
<1>8. Unfenced(text) = SubSeq(text, i, j)
  BY <1>3, <1>4
<1>9. IsJson(SubSeq(text, i, j))
  BY <1>8
<1> QED  BY <1>7, <1>8, <1>9, PartIsTheDocument

LEMMA BracketedIsADocument ==
  ASSUME NEW doc, IsDocument(doc), NEW text, NEW l, NEW k, Surrounds(text, l, doc, k), IsJson(Bracketed(text))
  PROVE  k = Len(doc) /\ Bracketed(text) = doc
<1> DEFINE starts == Positions(text, Opens)
           ends == Positions(text, Closes)
           i == Earliest(starts)
           j == Latest(ends)
<1>1. /\ text \in Seq(Tokens) /\ Len(text) \in Nat /\ DOMAIN text = 1..Len(text) /\ l \in Nat /\ k \in Nat
      /\ k <= Len(doc) /\ Len(doc) \in Nat
  BY LenProperties DEF Surrounds, IsDocument
<1>2. starts \subseteq 1..Len(text) /\ starts \subseteq Nat /\ ends \subseteq 1..Len(text) /\ ends \subseteq Nat
  BY <1>1 DEF Positions
<1>3. Bracketed(text) = IF starts # {} /\ ends # {} /\ i < j THEN SubSeq(text, i, j) ELSE <<>>
  BY DEF Bracketed
<1>4. starts # {} /\ ends # {} /\ i < j
  BY <1>3, NothingIsNoJson
<1>5. k > 0 => l + 1 \in starts
  <2> SUFFICES ASSUME k > 0 PROVE l + 1 \in starts
    OBVIOUS
  <2>1. l + 1 \in 1..Len(text) /\ 1 \in 1..k /\ 1 \in 1..Len(doc)
    BY <1>1 DEF Surrounds
  <2>2. text[l + 1] = doc[1]
    BY <2>1 DEF Surrounds
  <2>3. doc[1].mark \in Opens
    BY DEF IsDocument
  <2> QED  BY <1>1, <2>1, <2>2, <2>3 DEF Positions
<1> HIDE DEF starts, ends
<1>6. i \in starts /\ j \in ends /\ \A x \in starts : i <= x
  BY <1>1, <1>2, <1>4, LatestIsIn, EarliestIsIn
<1> HIDE DEF i, j
<1>7. i \in 1..Len(text) /\ j \in 1..Len(text) /\ i <= j /\ (k > 0 => i <= l + 1)
  <2>1. i \in 1..Len(text) /\ j \in 1..Len(text)
    BY ONLY <1>2, <1>6
  <2>2. i <= j
    BY ONLY <1>1, <1>4, <2>1
  <2>3. k > 0 => i <= l + 1
    BY ONLY <1>5, <1>6
  <2> QED  BY ONLY <2>1, <2>2, <2>3
<1>8. Bracketed(text) = SubSeq(text, i, j)
  BY <1>3, <1>4
<1>9. IsJson(SubSeq(text, i, j))
  BY <1>8
<1> QED  BY <1>7, <1>8, <1>9, PartIsTheDocument

LEMMA TextIsADocument ==
  ASSUME NEW doc, IsDocument(doc), NEW text, NEW l, NEW k, Surrounds(text, l, doc, k), IsJson(text)
  PROVE  k = Len(doc) /\ text = doc
<1>1. text \in Seq(Tokens) /\ Len(text) \in Nat /\ l \in Nat /\ k \in Nat
  BY LenProperties DEF Surrounds, IsDocument
<1>2. text # <<>>
  BY NothingIsNoJson
<1>3. Len(text) > 0
  BY <1>1, <1>2, EmptySeq
<1> DEFINE n == Len(text)
           t == SubSeq(text, 1, n)
<1>4. t = text
  <2>1. \A x \in 1..n : text[x] \in Tokens
    BY <1>1, ElementOfSeq
  <2>2. 1 \in Int /\ n \in Int
    BY <1>1
  <2>3. t \in Seq(Tokens) /\ Len(t) = (IF 1 <= n THEN (n - 1) + 1 ELSE 0) /\ \A x \in 1..((n - 1) + 1) : t[x] = text[(1 + x) - 1]
    BY <2>1, <2>2, SubSeqProperties
  <2> HIDE DEF t
  <2>4. Len(t) = n
    BY <1>1, <1>3, <2>3
  <2>5. \A x \in 1..n : t[x] = text[x]
    <3> SUFFICES ASSUME NEW x \in 1..n PROVE t[x] = text[x]
      OBVIOUS
    <3>1. x \in 1..((n - 1) + 1) /\ (1 + x) - 1 = x
      BY <1>1
    <3> QED  BY <2>3, <3>1
  <2> QED  BY <1>1, <2>3, <2>4, <2>5, SeqEqual
<1> HIDE DEF t
<1>5. 1 \in 1..n /\ n \in 1..n /\ 1 <= n /\ 1 <= l + 1
  BY <1>1, <1>3
<1>6. IsJson(SubSeq(text, 1, n))
  BY <1>4 DEF t
<1>7. k = Len(doc) /\ SubSeq(text, 1, n) = doc
  BY <1>5, <1>6, PartIsTheDocument
<1> QED  BY <1>4, <1>7 DEF t

\* A document that is there to its end is found between the brackets.
LEMMA WholeIsBracketed ==
  ASSUME NEW doc, IsDocument(doc), NEW text, NEW l, NEW k, Surrounds(text, l, doc, k), k = Len(doc)
  PROVE  Bracketed(text) = doc
<1> DEFINE starts == Positions(text, Opens)
           ends == Positions(text, Closes)
           i == l + 1
           j == l + k
<1>1. /\ text \in Seq(Tokens) /\ Len(text) \in Nat /\ DOMAIN text = 1..Len(text) /\ l \in Nat /\ k \in Nat
      /\ Len(doc) \in Nat /\ k > 1 /\ doc \in Seq(Tokens) /\ j <= Len(text)
  BY LenProperties DEF Surrounds, IsDocument
<1>2. starts \subseteq Nat /\ ends \subseteq Nat
  BY <1>1 DEF Positions
<1>3. \A x \in starts \cup ends : x \in 1..Len(text) /\ text[x].mark \notin {"word", "fence"}
  BY <1>1 DEF Positions, Opens, Closes
<1>4. \A x \in starts \cup ends : i <= x /\ x <= j
  <2> SUFFICES ASSUME NEW x \in starts \cup ends PROVE i <= x /\ x <= j
    OBVIOUS
  <2>1. x \in 1..Len(text) /\ text[x].mark \notin {"word", "fence"}
    BY <1>3
  <2>2. ~(x <= l \/ l + k < x)
    BY <2>1 DEF Surrounds
  <2> QED  BY <1>1, <2>1, <2>2
<1>5. i \in starts /\ j \in ends
  <2>1. i \in 1..Len(text) /\ j \in 1..Len(text) /\ 1 \in 1..k /\ k \in 1..k
    BY <1>1
  <2>2. text[i] = doc[1] /\ text[j] = doc[k]
    BY <2>1 DEF Surrounds
  <2>3. doc[1].mark \in Opens /\ doc[k].mark \in Closes
    BY DEF IsDocument
  <2> QED  BY <1>1, <2>1, <2>2, <2>3 DEF Positions
<1> HIDE DEF starts, ends
<1>6. Earliest(starts) = i
  BY <1>2, <1>4, <1>5, EarliestIs
<1>7. Latest(ends) = j
  <2>1. \A x \in ends : j >= x
    BY <1>1, <1>2, <1>4
  <2> QED  BY <1>2, <1>5, <2>1, LatestIs
<1>8. starts # {} /\ ends # {} /\ i < j
  BY <1>1, <1>5
<1> DEFINE t == SubSeq(text, i, j)
<1>9. Bracketed(text) = t
  BY <1>6, <1>7, <1>8 DEF Bracketed, starts, ends
<1>10. t \in Seq(Tokens) /\ Len(t) = k /\ \A x \in 1..k : t[x] = text[l + x]
  <2>1. \A x \in i..j : text[x] \in Tokens
    <3> SUFFICES ASSUME NEW x \in i..j PROVE text[x] \in Tokens
      OBVIOUS
    <3>1. x \in 1..Len(text)
      BY <1>1
    <3> QED  BY <1>1, <3>1, ElementOfSeq
  <2>2. i \in Int /\ j \in Int /\ i <= j /\ (j - i) + 1 = k /\ \A x \in 1..k : (i + x) - 1 = l + x
    BY <1>1
  <2> HIDE DEF i, j
  <2>3. /\ t \in Seq(Tokens) /\ Len(t) = IF i <= j THEN (j - i) + 1 ELSE 0
        /\ \A x \in 1..((j - i) + 1) : t[x] = text[(i + x) - 1]
    BY <2>1, <2>2, SubSeqProperties
  <2> HIDE DEF t
  <2> QED  BY <2>2, <2>3
<1> HIDE DEF t
<1>11. \A x \in 1..k : t[x] = doc[x]
  <2>1. \A x \in 1..k : text[l + x] = doc[x]
    BY DEF Surrounds
  <2> QED  BY <1>10, <2>1
<1>12. t = doc
  BY <1>1, <1>10, <1>11, SeqEqual
<1> QED  BY <1>9, <1>12

\* What extract_json_document finds: the document, if its end is there, and else nothing.
LEMMA DocumentIsExtracted ==
  ASSUME NEW doc, IsDocument(doc), NEW text, NEW l, NEW k, Surrounds(text, l, doc, k)
  PROVE  ExtractJsonDocument(text) = IF k = Len(doc) THEN doc ELSE <<>>
<1>1. IsJson(text) => k = Len(doc) /\ text = doc
  BY TextIsADocument
<1>2. IsJson(Unfenced(text)) => k = Len(doc) /\ Unfenced(text) = doc
  BY UnfencedIsADocument
<1>3. IsJson(Bracketed(text)) => k = Len(doc) /\ Bracketed(text) = doc
  BY BracketedIsADocument
<1>4. k = Len(doc) => Bracketed(text) = doc /\ IsJson(doc)
  BY WholeIsBracketed DEF IsDocument
<1> QED  BY <1>1, <1>2, <1>3, <1>4 DEF ExtractJsonDocument

\* A key stands nowhere in an array, nor behind it.
LEMMA NoKeyInside ==
  ASSUME NEW doc, NEW a \in Nat, NEW name, NEW items \in Seq(Item), HasArray(doc, a, name, items),
         NEW i \in Nat, a + 2 <= i, i <= a + 3 + Len(items)
  PROVE  /\ doc[i].mark # "key"
         /\ i < a + 3 + Len(items) => doc[i].mark # "endArray"
<1> DEFINE n == Len(items)
<1>1. n \in Nat
  BY LenProperties
<1>2. doc[a + 2].mark = "array" /\ doc[a + 3 + n].mark = "endArray"
  BY DEF HasArray, Mark
<1>3. \A x \in 1..n : doc[a + 2 + x].mark = "item"
  <2> SUFFICES ASSUME NEW x \in 1..n PROVE doc[a + 2 + x].mark = "item"
    OBVIOUS
  <2>1. items[x] \in Item
    BY ElementOfSeq
  <2> QED  BY <2>1 DEF HasArray, Item
<1>4. a + 2 <= i /\ i <= a + 3 + n
  OBVIOUS
<1> HIDE DEF n
<1>5. i = a + 2 \/ i = a + 3 + n \/ (i - (a + 2) \in 1..n /\ a + 2 + (i - (a + 2)) = i /\ i < a + 3 + n)
  BY ONLY <1>1, <1>4, a \in Nat, i \in Nat
<1>6. CASE i = a + 2
  BY <1>2, <1>6
<1>7. CASE i = a + 3 + n
  <2>1. ~(i < a + 3 + n)
    BY <1>1, <1>7
  <2> QED  BY <1>2, <1>7, <2>1 DEF n
<1>8. CASE i - (a + 2) \in 1..n /\ a + 2 + (i - (a + 2)) = i
  BY <1>3, <1>8
<1> QED  BY <1>5, <1>6, <1>7, <1>8

\* What a key has in a document.
LEMMA ArrayOfIs ==
  ASSUME NEW doc \in Seq(Tokens), NEW a \in Nat, NEW name, NEW items \in Seq(Item), HasArray(doc, a, name, items),
         \A i \in 1..Len(doc) : doc[i] = Key(name) => i = a + 1
  PROVE  ArrayOf(doc, name) = Read(items)
<1> DEFINE n == Len(items)
           at == {i \in DOMAIN doc : doc[i] = Key(name)}
           opening == Earliest(at) + 1
           last == {i \in opening..Len(doc) : doc[i].mark = "endArray"}
           closing == Earliest(last)
           c == a + 3 + n
<1>1. n \in Nat /\ Len(doc) \in Nat /\ DOMAIN doc = 1..Len(doc) /\ c <= Len(doc)
  BY LenProperties DEF HasArray
<1>2. /\ doc[a + 1] = Key(name) /\ doc[a + 2].mark = "array" /\ doc[c].mark = "endArray"
      /\ \A i \in 1..n : doc[a + 2 + i] = items[i]
  BY DEF HasArray, Mark
<1>3. at = {a + 1}
  <2>1. a + 1 \in 1..Len(doc)
    BY <1>1
  <2> QED  BY <1>1, <1>2, <2>1
<1>4. opening = a + 2
  <2>1. Earliest({a + 1}) = a + 1
    <3> DEFINE b == a + 1
               S == {b}
    <3>1. S \subseteq Nat /\ b \in S /\ \A x \in S : b <= x
      OBVIOUS
    <3> HIDE DEF S
    <3>2. Earliest(S) = b
      BY <3>1, EarliestIs
    <3> QED  BY <3>2 DEF S
  <2> HIDE DEF at
  <2> QED  BY <1>3, <2>1
<1>5. closing = c
  <2>1. last = {i \in (a + 2)..Len(doc) : doc[i].mark = "endArray"}
    BY <1>4
  <2> HIDE DEF last
  <2>2. last \subseteq Nat
    BY <1>1, <2>1
  <2>3. c \in (a + 2)..Len(doc)
    BY <1>1
  <2>4. c \in last
    BY <1>2, <2>1, <2>3
  <2>5. ASSUME NEW x \in last PROVE c <= x
    <3>1. x \in Nat /\ a + 2 <= x /\ doc[x].mark = "endArray"
      BY <1>1, <2>1
    <3> SUFFICES ASSUME x < c PROVE FALSE
      BY <1>1, <3>1
    <3>2. x <= a + 3 + Len(items) /\ x < a + 3 + Len(items)
      BY <1>1, <3>1
    <3> QED  BY <3>1, <3>2, NoKeyInside
  <2> HIDE DEF c
  <2> QED  BY <2>2, <2>4, <2>5, EarliestIs
<1>6. SubSeq(doc, (a + 2) + 1, c - 1) = items
  <2> DEFINE i == (a + 2) + 1
             j == c - 1
             t == SubSeq(doc, i, j)
  <2>1. i \in Int /\ j \in Int /\ i \in 1..Len(doc) /\ (i <= j => (j - i) + 1 = n) /\ (~(i <= j) => n = 0) /\ j <= Len(doc)
        /\ (j - i) + 1 = n
    BY <1>1
  <2>2. \A x \in i..j : doc[x] \in Tokens
    <3> SUFFICES ASSUME NEW x \in i..j PROVE doc[x] \in Tokens
      OBVIOUS
    <3>1. x \in 1..Len(doc)
      BY <1>1, <2>1
    <3> QED  BY <3>1, ElementOfSeq
  <2>3. \A x \in 1..n : (i + x) - 1 = a + 2 + x
    BY <1>1
  <2> HIDE DEF i, j
  <2>4. /\ t \in Seq(Tokens) /\ Len(t) = (IF i <= j THEN (j - i) + 1 ELSE 0)
        /\ \A x \in 1..((j - i) + 1) : t[x] = doc[(i + x) - 1]
    BY <2>1, <2>2, SubSeqProperties
  <2> HIDE DEF t
  <2>5. Len(t) = n
    BY <2>1, <2>4
  <2>6. \A x \in 1..n : t[x] = items[x]
    BY <1>2, <2>1, <2>3, <2>4
  <2>7. items \in Seq(Tokens)
    BY MarksAreTokens, SeqMonotonic
  <2>8. Len(t) = Len(items) /\ \A x \in 1..Len(t) : t[x] = items[x]
    BY <2>5, <2>6
  <2>9. t = items
    BY <2>4, <2>7, <2>8, SeqEqual
  <2> QED  BY <2>9 DEF t, i, j
<1>7. at # {} /\ doc[opening].mark = "array"
  BY <1>2, <1>3, <1>4
<1>8. SubSeq(doc, opening + 1, closing - 1) = items
  BY <1>4, <1>5, <1>6
<1> HIDE DEF at, opening, closing
<1>9. ArrayOf(doc, name) = CASE at = {} -> Read(<<>>)
                             [] at # {} /\ doc[opening].mark # "array" -> Unreadable
                             [] OTHER -> Read(SubSeq(doc, opening + 1, closing - 1))
  BY DEF ArrayOf, at, opening, closing
<1> QED  BY <1>7, <1>8, <1>9

\* The first findings of some.
Kept(items) == SubSeq(items, 1, IF Len(items) < MaxFindings THEN Len(items) ELSE MaxFindings)

LEMMA KeptIs ==
  ASSUME NEW items \in Seq(Item), MaxFindings \in Nat
  PROVE  /\ Kept(items) = IF Len(items) > MaxFindings THEN SubSeq(items, 1, MaxFindings) ELSE items
         /\ Sound(items) => Sound(Kept(items))
<1> DEFINE n == Len(items)
           m == IF n < MaxFindings THEN n ELSE MaxFindings
           t == SubSeq(items, 1, m)
<1>1. n \in Nat /\ DOMAIN items = 1..n /\ MaxFindings \in Nat
  BY LenProperties
<1>2. Kept(items) = t
  BY DEF Kept
<1>3. n = Len(items)
  OBVIOUS
<1> HIDE DEF n
<1>4. m \in Nat /\ m <= n /\ (n > MaxFindings => m = MaxFindings) /\ (~(n > MaxFindings) => m = n)
  BY ONLY <1>1
<1> HIDE DEF m
<1>5. t \in Seq(Item) /\ Len(t) = m /\ \A x \in 1..m : t[x] = items[x]
  <2>1. \A x \in 1..m : items[x] \in Item
    <3> SUFFICES ASSUME NEW x \in 1..m PROVE items[x] \in Item
      OBVIOUS
    <3>1. x \in 1..n
      BY <1>1, <1>4
    <3> QED  BY <1>3, <3>1, ElementOfSeq
  <2>2. /\ t \in Seq(Item) /\ Len(t) = (IF 1 <= m THEN (m - 1) + 1 ELSE 0)
        /\ \A x \in 1..((m - 1) + 1) : t[x] = items[(1 + x) - 1]
    <3>1. 1 \in Int /\ m \in Int
      BY <1>4
    <3> QED  BY <2>1, <3>1, SubSeqProperties
  <2> HIDE DEF t
  <2>3. (m - 1) + 1 = m /\ (~(1 <= m) => m = 0) /\ \A x \in 1..m : (1 + x) - 1 = x
    BY <1>4
  <2> QED  BY <2>2, <2>3
<1>6. ~(n > MaxFindings) => t = items
  <2> SUFFICES ASSUME ~(n > MaxFindings) PROVE t = items
    OBVIOUS
  <2>1. m = n
    BY <1>4
  <2> HIDE DEF t
  <2> QED  BY <1>5, <1>3, <2>1, SeqEqual
<1>7. n > MaxFindings => t = SubSeq(items, 1, MaxFindings)
  BY <1>4
<1>8. Sound(items) => Sound(t)
  <2> HIDE DEF t
  <2> SUFFICES ASSUME Sound(items), NEW x \in DOMAIN t PROVE t[x].mark = "item" /\ t[x].sound
    BY DEF Sound
  <2>1. x \in 1..m /\ x \in 1..n
    BY <1>1, <1>4, <1>5
  <2>2. items[x].mark = "item" /\ items[x].sound
    BY <1>1, <2>1 DEF Sound
  <2> QED  BY <1>5, <2>1, <2>2
<1> QED  BY <1>2, <1>6, <1>7, <1>8, <1>3

\* The keys of the documents are where they should be.
LEMMA FindingsKey ==
  ASSUME NEW doc, NEW items \in Seq(Item), IsFindings(doc, items)
  PROVE  ArrayOf(doc, "findings") = Read(items)
<1> DEFINE n == Len(items)
<1>1. /\ n \in Nat /\ doc \in Seq(Tokens) /\ Len(doc) = n + 5
      /\ doc[1].mark = "object" /\ doc[n + 5].mark = "endObject"
  BY LenProperties DEF IsFindings, Mark
<1>2. HasArray(doc, 1, "findings", items)
  BY DEF IsFindings
<1>3. Key("findings").mark = "key"
  BY DEF Key
<1>4. ASSUME NEW i \in 1..Len(doc), doc[i] = Key("findings") PROVE i = 1 + 1
  <2>1. doc[i].mark = "key"
    BY <1>3, <1>4
  <2> SUFFICES ASSUME i # 2 PROVE FALSE
    OBVIOUS
  <2>2. i # 1 /\ i # n + 5
    BY <1>1, <2>1
  <2>3. i \in Nat /\ 1 + 2 <= i /\ i <= 1 + 3 + n
    BY <1>1, <2>2
  <2> HIDE DEF n
  <2>4. doc[i].mark # "key"
    BY <1>2, <2>3, NoKeyInside DEF n
  <2> QED  BY <2>1, <2>4
<1> QED  BY <1>1, <1>2, <1>4, ArrayOfIs

LEMMA ChangesKeys ==
  ASSUME NEW doc, NEW items \in Seq(Item), NEW tests \in Seq(Item), IsChanges(doc, items, tests)
  PROVE  ArrayOf(doc, "changes") = Read(items) /\ ArrayOf(doc, "tests_added") = Read(tests)
<1> DEFINE n == Len(items)
           m == Len(tests)
           b == 4 + n
<1>1. /\ n \in Nat /\ m \in Nat /\ doc \in Seq(Tokens) /\ Len(doc) = n + m + 8
      /\ doc[1].mark = "object" /\ doc[n + m + 8].mark = "endObject"
  BY LenProperties DEF IsChanges, Mark
<1>2. HasArray(doc, 1, "changes", items) /\ HasArray(doc, b, "tests_added", tests)
  BY DEF IsChanges
<1>3. doc[2] = Key("changes") /\ doc[b + 1] = Key("tests_added")
  BY <1>2 DEF HasArray
<1>4. Key("changes").mark = "key" /\ Key("tests_added").mark = "key" /\ Key("changes") # Key("tests_added")
  BY DEF Key
<1>5. b \in Nat /\ b = 4 + n
  BY <1>1
<1> HIDE DEF n, m, b
<1>6. ASSUME NEW i \in 1..Len(doc), doc[i].mark = "key" PROVE i = 2 \/ i = b + 1
  <2> SUFFICES ASSUME i # 2, i # b + 1 PROVE FALSE
    OBVIOUS
  <2>1. i # 1 /\ i # n + m + 8
    BY <1>1, <1>6
  <2>2. i \in Nat /\ ((1 + 2 <= i /\ i <= 1 + 3 + n) \/ (b + 2 <= i /\ i <= b + 3 + m))
    BY <1>1, <1>5, <2>1
  <2>3. CASE 1 + 2 <= i /\ i <= 1 + 3 + n
    <3>1. doc[i].mark # "key"
      BY <1>2, <2>2, <2>3, NoKeyInside DEF n
    <3> QED  BY <1>6, <3>1
  <2>4. CASE b + 2 <= i /\ i <= b + 3 + m
    <3>1. doc[i].mark # "key"
      BY <1>2, <1>5, <2>2, <2>4, NoKeyInside DEF m
    <3> QED  BY <1>6, <3>1
  <2> QED  BY <2>2, <2>3, <2>4
<1>7. \A i \in 1..Len(doc) : doc[i] = Key("changes") => i = 1 + 1
  BY <1>3, <1>4, <1>6
<1>8. \A i \in 1..Len(doc) : doc[i] = Key("tests_added") => i = b + 1
  BY <1>3, <1>4, <1>6
<1>9. ArrayOf(doc, "changes") = Read(items)
  BY <1>1, <1>2, <1>7, ArrayOfIs
<1>10. ArrayOf(doc, "tests_added") = Read(tests)
  BY <1>1, <1>2, <1>5, <1>8, ArrayOfIs
<1> QED  BY <1>9, <1>10

\* What is read in a document.
LEMMA FindingsAreParsed ==
  ASSUME NEW items \in Seq(Item), NEW doc, IsFindings(doc, items) \/ IsList(doc, items), NEW text,
         ExtractJsonDocument(text) = doc
  PROVE  ParseFindingsOutput(text) = IF Sound(Kept(items)) THEN Read(Kept(items)) ELSE Unreadable
<1> DEFINE n == Len(items)
           found == IF doc[1].mark = "object" THEN ArrayOf(doc, "findings")
                    ELSE IF doc[1].mark = "array" THEN Read(SubSeq(doc, 2, Len(doc) - 1)) ELSE Unreadable
           given == doc[1].mark = "array" \/ \E i \in DOMAIN doc : doc[i] = Key("findings")
<1>1. n \in Nat
  BY LenProperties
<1>2. doc \in Seq(Tokens) /\ doc # <<>>
  <2>1. doc \in Seq(Tokens) /\ Len(doc) > 0
    BY <1>1 DEF IsFindings, IsList
  <2> QED  BY <2>1, EmptySeq
<1>3. found = Read(items) /\ given
  <2>1. CASE IsFindings(doc, items)
    <3>1. doc[1].mark = "object"
      BY <2>1 DEF IsFindings, Mark
    <3>2. ArrayOf(doc, "findings") = Read(items)
      BY <2>1, FindingsKey
    <3>3. doc[2] = Key("findings")
      BY <2>1 DEF IsFindings, HasArray
    <3>4. 2 \in DOMAIN doc
      <4>1. Len(doc) = n + 5 /\ DOMAIN doc = 1..Len(doc)
        BY <1>2, <2>1, LenProperties DEF IsFindings
      <4> QED  BY <1>1, <4>1
    <3> QED  BY <3>1, <3>2, <3>3, <3>4
  <2>2. CASE IsList(doc, items)
    <3>1. doc[1].mark = "array" /\ Len(doc) = n + 2
      BY <2>2 DEF IsList, Mark
    <3> DEFINE t == SubSeq(doc, 2, Len(doc) - 1)
               j == Len(doc) - 1
    <3>2. j \in Int /\ 2 \in Int /\ j = n + 1 /\ (j - 2) + 1 = n /\ (~(2 <= j) => n = 0)
      BY <1>1, <3>1
    <3>3. \A x \in 2..j : doc[x] \in Tokens
      <4> SUFFICES ASSUME NEW x \in 2..j PROVE doc[x] \in Tokens
        OBVIOUS
      <4>1. x \in 1..Len(doc)
        BY <1>1, <3>1
      <4> QED  BY <1>2, <4>1, ElementOfSeq
    <3>4. t = SubSeq(doc, 2, j)
      OBVIOUS
    <3> HIDE DEF j
    <3>5. /\ t \in Seq(Tokens) /\ Len(t) = (IF 2 <= j THEN (j - 2) + 1 ELSE 0)
          /\ \A x \in 1..((j - 2) + 1) : t[x] = doc[(2 + x) - 1]
      BY <3>2, <3>3, <3>4, SubSeqProperties
    <3> HIDE DEF t
    <3>6. Len(t) = n
      BY <3>2, <3>5
    <3>7. \A x \in 1..n : t[x] = items[x]
      <4> SUFFICES ASSUME NEW x \in 1..n PROVE t[x] = items[x]
        OBVIOUS
      <4>1. x \in 1..((j - 2) + 1) /\ (2 + x) - 1 = x + 1
        BY <1>1, <3>2
      <4>2. doc[x + 1] = items[x]
        BY <2>2 DEF IsList
      <4> QED  BY <3>5, <4>1, <4>2
    <3>8. items \in Seq(Tokens)
      BY MarksAreTokens, SeqMonotonic
    <3>9. Len(t) = Len(items) /\ \A x \in 1..Len(t) : t[x] = items[x]
      BY <3>6, <3>7
    <3>10. t = items
      BY <3>5, <3>8, <3>9, SeqEqual
    <3>11. found = Read(t)
      BY <3>1 DEF t
    <3> QED  BY <3>1, <3>10, <3>11
  <2> QED  BY <2>1, <2>2
<1>4. found.items = items /\ found.ok
  BY <1>3 DEF Read
<1> HIDE DEF found, given
<1> DEFINE kept == SubSeq(found.items, 1, IF Len(found.items) < MaxFindings THEN Len(found.items) ELSE MaxFindings)
<1>5. kept = Kept(items)
  BY <1>4 DEF Kept
<1> HIDE DEF kept
<1>6. ParseFindingsOutput(text) = IF doc # <<>> /\ given /\ found.ok /\ Sound(kept) THEN Read(kept) ELSE Unreadable
  BY DEF ParseFindingsOutput, found, given, kept
<1> QED  BY <1>2, <1>3, <1>4, <1>5, <1>6

LEMMA ChangesAreParsed ==
  ASSUME NEW items \in Seq(Item), NEW tests \in Seq(Item), NEW doc, IsChanges(doc, items, tests), NEW text,
         ExtractJsonDocument(text) = doc
  PROVE  ParseChanges(text) = IF Sound(items \o tests) /\ items \o tests # <<>> THEN Read(items \o tests) ELSE Unreadable
<1>1. doc \in Seq(Tokens) /\ doc # <<>> /\ doc[1].mark = "object"
  <2>1. doc \in Seq(Tokens) /\ Len(doc) = Len(items) + Len(tests) + 8 /\ doc[1].mark = "object"
    BY DEF IsChanges, Mark
  <2>2. Len(items) \in Nat /\ Len(tests) \in Nat
    BY LenProperties
  <2>3. Len(doc) > 0
    BY <2>1, <2>2
  <2> QED  BY <2>1, <2>3, EmptySeq
<1>2. ArrayOf(doc, "changes") = Read(items) /\ ArrayOf(doc, "tests_added") = Read(tests)
  BY ChangesKeys
<1>3. /\ Read(items).ok /\ Read(items).items = items
      /\ Read(tests).ok /\ Read(tests).items = tests
  BY DEF Read
<1> DEFINE all == items \o tests
<1> HIDE DEF all
<1>4. ParseChanges(text) = IF doc # <<>> /\ doc[1].mark = "object" /\ Read(items).ok /\ Read(tests).ok
                              /\ Sound(all) /\ all # <<>> THEN Read(all) ELSE Unreadable
  BY <1>2, <1>3 DEF ParseChanges, all
<1> QED  BY <1>1, <1>3, <1>4 DEF all

\* Of a text in which nothing is found, nothing is read.
LEMMA NothingIsParsed ==
  ASSUME NEW text, ExtractJsonDocument(text) = <<>>
  PROVE  ParseFindingsOutput(text) = Unreadable /\ ParseChanges(text) = Unreadable
BY DEF ParseFindingsOutput, ParseChanges

(***************************************************************************)
(* What models write                                                       *)
(***************************************************************************)
\* Words and fences.
Prose == {t \in Tokens : t.mark \in {"word", "fence"}}

\* A text that is cut after n tokens has all of a document, or its beginning.
IsCut(w, n, h, doc, e) ==
  \E k \in 0..Len(doc) : /\ Surrounds(SubSeq(w, 1, n), Len(h), doc, k)
                         /\ k = Len(doc) <=> n >= Len(w) - Len(e)

LEMMA CutSurrounds ==
  ASSUME NEW doc, IsDocument(doc), NEW h \in Seq(Prose), NEW e \in Seq(Prose), NEW w, w = (h \o doc) \o e, NEW n \in 1..Len(w)
  PROVE  IsCut(w, n, h, doc, e)
<1> DEFINE l == Len(h)
           d == Len(doc)
           z == Len(e)
           hd == h \o doc
           k == IF n <= l THEN 0 ELSE IF n >= l + d THEN d ELSE n - l
           text == SubSeq(w, 1, n)
<1>1. /\ doc \in Seq(Tokens) /\ l \in Nat /\ d \in Nat /\ z \in Nat /\ d > 1
      /\ h \in Seq(Tokens) /\ e \in Seq(Tokens)
  <2>1. Prose \subseteq Tokens
    BY DEF Prose
  <2>2. h \in Seq(Tokens) /\ e \in Seq(Tokens)
    BY <2>1, SeqMonotonic
  <2>3. doc \in Seq(Tokens) /\ d > 1
    BY DEF IsDocument
  <2> QED  BY <2>2, <2>3, LenProperties
<1>2. hd \in Seq(Tokens) /\ Len(hd) = l + d /\ \A x \in 1..(l + d) : hd[x] = IF x <= l THEN h[x] ELSE doc[x - l]
  BY <1>1, ConcatProperties
<1>3. w = hd \o e
  OBVIOUS
<1> HIDE DEF hd
<1>4. /\ w \in Seq(Tokens) /\ Len(w) = Len(hd) + Len(e)
      /\ \A x \in 1..(Len(hd) + Len(e)) : w[x] = IF x <= Len(hd) THEN hd[x] ELSE e[x - Len(hd)]
  <2>1. hd \in Seq(Tokens) /\ e \in Seq(Tokens)
    BY <1>1, <1>2
  <2> QED  BY <1>3, <2>1, ConcatProperties
<1>5. /\ w \in Seq(Tokens) /\ Len(w) = (l + d) + z
      /\ \A x \in 1..((l + d) + z) : w[x] = IF x <= l + d THEN hd[x] ELSE e[x - (l + d)]
  <2>1. Len(hd) = l + d /\ Len(e) = z
    BY <1>2
  <2> QED  BY <1>4, <2>1
<1>6. l = Len(h) /\ d = Len(doc) /\ z = Len(e) /\ n \in Nat /\ 1 <= n /\ n <= (l + d) + z
  BY <1>1, <1>5
<1> HIDE DEF l, d, z
<1>7. ASSUME NEW x \in 1..l PROVE x \in 1..((l + d) + z) => w[x].mark \in {"word", "fence"}
  <2>1. x \in 1..((l + d) + z) /\ x \in 1..(l + d) /\ x <= l /\ x <= l + d
    BY <1>1
  <2>2. w[x] = h[x]
    BY <1>2, <1>5, <2>1
  <2>3. h[x] \in Prose
    BY <1>6, ElementOfSeq
  <2> QED  BY <2>2, <2>3 DEF Prose
<1>8. ASSUME NEW x \in 1..d PROVE w[l + x] = doc[x]
  <2> DEFINE y == l + x
  <2>1. y \in 1..((l + d) + z) /\ y \in 1..(l + d) /\ ~(y <= l) /\ y <= l + d /\ y - l = x
    BY <1>1
  <2> HIDE DEF y
  <2>2. w[y] = doc[x]
    BY <1>2, <1>5, <2>1
  <2> QED  BY <2>2 DEF y
<1>9. ASSUME NEW x \in 1..((l + d) + z), l + d < x PROVE w[x].mark \in {"word", "fence"}
  <2>1. ~(x <= l + d) /\ x - (l + d) \in 1..z
    BY <1>1, <1>9
  <2>2. w[x] = e[x - (l + d)]
    BY <1>5, <2>1
  <2>3. e[x - (l + d)] \in Prose
    <3> DEFINE y == x - (l + d)
    <3>1. y \in 1..Len(e)
      BY <1>6, <2>1
    <3> HIDE DEF y
    <3>2. e[y] \in Prose
      BY <3>1, ElementOfSeq
    <3> QED  BY <3>2 DEF y
  <2> QED  BY <2>2, <2>3 DEF Prose
<1>10. /\ k \in 0..d /\ k \in Nat /\ (k > 0 => l + k <= n) /\ (k < d => (n <= l \/ k = n - l))
       /\ (k = d <=> n >= l + d) /\ (k # d => n <= l + k \/ n <= l)
  BY ONLY <1>1, <1>6
<1> HIDE DEF k
<1>11. text \in Seq(Tokens) /\ Len(text) = n /\ \A x \in 1..n : text[x] = w[x]
  <2>1. \A x \in 1..n : w[x] \in Tokens
    <3> SUFFICES ASSUME NEW x \in 1..n PROVE w[x] \in Tokens
      OBVIOUS
    <3>1. x \in 1..Len(w)
      BY <1>1, <1>5, <1>6
    <3> QED  BY <1>5, <3>1, ElementOfSeq
  <2>2. 1 \in Int /\ n \in Int /\ 1 <= n /\ (n - 1) + 1 = n /\ \A x \in 1..n : (1 + x) - 1 = x
    BY <1>6
  <2>3. /\ text \in Seq(Tokens) /\ Len(text) = (IF 1 <= n THEN (n - 1) + 1 ELSE 0)
        /\ \A x \in 1..((n - 1) + 1) : text[x] = w[(1 + x) - 1]
    <3>1. 1 \in Int /\ n \in Int
      BY <2>2
    <3> QED  BY ONLY <2>1, <3>1, SubSeqProperties
  <2> HIDE DEF text
  <2> QED  BY <2>2, <2>3
<1> HIDE DEF text
<1>12. ASSUME NEW x \in 1..k PROVE text[l + x] = doc[x]
  <2>1. l + x \in 1..n /\ x \in 1..d
    BY <1>1, <1>6, <1>10
  <2> QED  BY <1>8, <1>11, <2>1
<1>13. ASSUME NEW x \in 1..n, x <= l \/ l + k < x PROVE text[x].mark \in {"word", "fence"}
  <2>1. text[x] = w[x]
    BY <1>11
  <2>2. x \in 1..((l + d) + z)
    BY <1>1, <1>6
  <2>3. CASE x <= l
    <3>1. x \in 1..l
      BY <1>1, <1>6, <2>3
    <3> QED  BY <1>7, <2>1, <2>2, <3>1
  <2>4. CASE ~(x <= l)
    <3>1. k = d
      BY <1>1, <1>6, <1>10, <1>13, <2>4
    <3>2. l + d < x
      BY <1>13, <2>4, <3>1
    <3> QED  BY <1>9, <2>1, <2>2, <3>2
  <2> QED  BY <2>3, <2>4
<1>14. Surrounds(text, l, doc, k)
  BY <1>1, <1>6, <1>10, <1>11, <1>12, <1>13 DEF Surrounds
<1>15. k = d <=> n >= Len(w) - z
  <2>1. Len(w) - z = l + d
    BY <1>1, <1>5
  <2> QED  BY <1>10, <2>1
<1> QED  BY <1>6, <1>10, <1>14, <1>15 DEF text, IsCut

\* The documents are documents.
LEMMA DocumentsAre ==
  ASSUME AnswersAssumption, NEW d \in Documents
  PROVE  /\ IsDocument(DocumentOf(d)) /\ d.items \in Seq(Item) /\ d.tests \in Seq(Item)
         /\ d.shape = "changes" => IsChanges(DocumentOf(d), d.items, d.tests)
         /\ d.shape # "changes" => d.tests = <<>> /\ (IsFindings(DocumentOf(d), d.items) \/ IsList(DocumentOf(d), d.items))
<1> DEFINE doc == DocumentOf(d)
           items == d.items
           tests == d.tests
<1>1. /\ d.shape \in {"findings", "list", "changes"} /\ items \in Seq(Item) /\ tests \in Seq(Item)
      /\ d.shape # "changes" => tests = <<>>
  BY DEF AnswersAssumption
<1>2. Len(items) \in Nat /\ Len(tests) \in Nat
  BY <1>1, LenProperties
<1>3. d.shape = "findings" => IsFindings(doc, items)
  BY <1>1, FindingsIs DEF DocumentOf
<1>4. d.shape = "list" => IsList(doc, items)
  BY <1>1, ListIs DEF DocumentOf
<1>5. d.shape = "changes" => IsChanges(doc, items, tests)
  BY <1>1, ChangesIs DEF DocumentOf
<1> HIDE DEF doc, items, tests
<1>6. IsDocument(doc)
  <2>1. CASE d.shape = "findings"
    <3>1. IsJson(doc)
      BY <1>1, <1>3, <2>1, FindingsAreJson
    <3>2. /\ doc \in Seq(Tokens) /\ Len(doc) = Len(items) + 5
          /\ doc[1].mark = "object" /\ doc[Len(items) + 5].mark = "endObject"
      BY <1>3, <2>1 DEF IsFindings, Mark
    <3> QED  BY <1>2, <3>1, <3>2 DEF IsDocument, Opens, Closes
  <2>2. CASE d.shape = "list"
    <3>1. IsJson(doc)
      BY <1>1, <1>4, <2>2, ListsAreJson
    <3>2. /\ doc \in Seq(Tokens) /\ Len(doc) = Len(items) + 2
          /\ doc[1].mark = "array" /\ doc[Len(items) + 2].mark = "endArray"
      BY <1>4, <2>2 DEF IsList, Mark
    <3> QED  BY <1>2, <3>1, <3>2 DEF IsDocument, Opens, Closes
  <2>3. CASE d.shape = "changes"
    <3>1. IsJson(doc)
      BY <1>1, <1>5, <2>3, ChangesAreJson
    <3>2. /\ doc \in Seq(Tokens) /\ Len(doc) = Len(items) + Len(tests) + 8
          /\ doc[1].mark = "object" /\ doc[Len(items) + Len(tests) + 8].mark = "endObject"
      BY <1>5, <2>3 DEF IsChanges, Mark
    <3> QED  BY <1>2, <3>1, <3>2 DEF IsDocument, Opens, Closes
  <2> QED  BY <1>1, <2>1, <2>2, <2>3
<1>7. d.shape # "changes" => tests = <<>> /\ (IsFindings(doc, items) \/ IsList(doc, items))
  BY <1>1, <1>3, <1>4
<1> QED  BY <1>1, <1>5, <1>6, <1>7 DEF doc, items, tests

\* Words without brackets are words.
LEMMA PlainIsProse ==
  ASSUME NEW p \in Seq(Token), Positions(p, Opens \cup Closes) = {}
  PROVE  p \in Seq(Prose)
<1>1. Len(p) \in Nat /\ DOMAIN p = 1..Len(p)
  BY LenProperties
<1>2. ASSUME NEW i \in 1..Len(p) PROVE p[i] \in Prose
  <2>1. p[i] \in Token
    BY ElementOfSeq
  <2>2. p[i].mark \notin Opens \cup Closes
    BY <1>1 DEF Positions
  <2>3. p[i].mark = "word"
    BY <2>1, <2>2 DEF Token, Opens, Closes
  <2> QED  BY <2>1, <2>3 DEF Prose, Tokens
<1>3. p = [i \in 1..Len(p) |-> p[i]]
  BY <1>1, LenProperties
<1> DEFINE n == Len(p)
<1> HIDE DEF n
<1>4. p = [i \in 1..n |-> p[i]] /\ n \in Nat /\ \A i \in 1..n : p[i] \in Prose
  BY <1>1, <1>2, <1>3 DEF n
<1> QED  BY <1>4, IsASeq

(***************************************************************************)
(* The invariant                                                           *)
(***************************************************************************)
IsReplyOf(d, p, a, fenced, n) ==
  LET text == WhatIsWritten(p, DocumentOf(d), fenced, a)
      after == Len(a) + (IF fenced THEN 1 ELSE 0)
  IN reply = [by |-> IF d.shape = "changes" THEN "solver" ELSE "challenger", items |-> d.items \o d.tests,
              text |-> SubSeq(text, 1, n), finished |-> n >= Len(text) - after,
              plain |-> Positions(p, Opens \cup Closes) \cup Positions(a, Opens \cup Closes) = {}]

ReplyIsWritten ==
  \E d \in Documents, p \in Prefaces, a \in Afterwords, fenced \in BOOLEAN :
    \E n \in 1..Len(WhatIsWritten(p, DocumentOf(d), fenced, a)) : IsReplyOf(d, p, a, fenced, n)

AnswersInv == ReplyIsWritten /\ reading \in {NotRead, Reading(reply.by, reply.text)}

\* What is read in a reply that is plain.
LEMMA PlainIsReadWhole ==
  ASSUME AnswersAssumption, ReplyIsWritten, reading = Reading(reply.by, reply.text), reply.plain
  PROVE  LET items == reply.items
         IN /\ reading.ok => reply.finished
            /\ reading.ok => reading.items = IF reply.by = "challenger" /\ Len(items) > MaxFindings
                                             THEN SubSeq(items, 1, MaxFindings) ELSE items
            /\ reply.finished /\ Sound(items) =>
                 reading.ok \/ (reply.by # "challenger" /\ items = <<>>)
<1>1. PICK d \in Documents, p \in Prefaces, a \in Afterwords, fenced \in BOOLEAN :
        \E n \in 1..Len(WhatIsWritten(p, DocumentOf(d), fenced, a)) : IsReplyOf(d, p, a, fenced, n)
  BY DEF ReplyIsWritten
<1>2. PICK n \in 1..Len(WhatIsWritten(p, DocumentOf(d), fenced, a)) : IsReplyOf(d, p, a, fenced, n)
  BY <1>1
<1> DEFINE doc == DocumentOf(d)
           f == IF fenced THEN <<Mark("fence")>> ELSE <<>>
           h == p \o f
           e == f \o a
           w == WhatIsWritten(p, doc, fenced, a)
           items == d.items \o d.tests
           text == SubSeq(w, 1, n)
<1>3. /\ reply.by = (IF d.shape = "changes" THEN "solver" ELSE "challenger") /\ reply.items = items
      /\ reply.text = text /\ reply.finished = (n >= Len(w) - (Len(a) + (IF fenced THEN 1 ELSE 0)))
      /\ reply.plain = (Positions(p, Opens \cup Closes) \cup Positions(a, Opens \cup Closes) = {})
  BY <1>2 DEF IsReplyOf
<1>4. p \in Seq(Prose) /\ a \in Seq(Prose)
  <2>1. p \in Seq(Token) /\ a \in Seq(Token)
    BY DEF AnswersAssumption
  <2>2. Positions(p, Opens \cup Closes) = {} /\ Positions(a, Opens \cup Closes) = {}
    BY <1>3
  <2> QED  BY <2>1, <2>2, PlainIsProse
<1>5. f \in Seq(Prose) /\ Len(f) = IF fenced THEN 1 ELSE 0
  <2>1. Mark("fence") \in Prose
    BY DEF Mark, Prose, Tokens
  <2> DEFINE x == Mark("fence")
  <2> HIDE DEF x
  <2>2. <<x>> \in Seq(Prose) /\ Len(<<x>>) = 1 /\ <<>> \in Seq(Prose) /\ Len(<<>>) = 0
    BY <2>1, EmptySeq DEF x
  <2> QED  BY <2>2 DEF x
<1>6. /\ IsDocument(doc) /\ d.items \in Seq(Item) /\ d.tests \in Seq(Item)
      /\ d.shape = "changes" => IsChanges(doc, d.items, d.tests)
      /\ d.shape # "changes" => d.tests = <<>> /\ (IsFindings(doc, d.items) \/ IsList(doc, d.items))
  BY DocumentsAre
<1>7. w = (((p \o f) \o doc) \o f) \o a
  BY DEF WhatIsWritten
<1> HIDE DEF doc, f, w
<1>8. h \in Seq(Prose) /\ e \in Seq(Prose) /\ Len(e) = Len(f) + Len(a)
  BY <1>4, <1>5, ConcatProperties
<1>9. w = (h \o doc) \o e
  <2> DEFINE g == h \o doc
  <2>1. g \in Seq(Tokens) /\ f \in Seq(Tokens) /\ a \in Seq(Tokens)
    <3>1. h \in Seq(Tokens) /\ f \in Seq(Tokens) /\ a \in Seq(Tokens)
      <4>1. Prose \subseteq Tokens
        BY DEF Prose
      <4> HIDE DEF h
      <4> QED  BY <1>4, <1>5, <1>8, <4>1, SeqMonotonic
    <3>2. doc \in Seq(Tokens)
      BY <1>6 DEF IsDocument
    <3> HIDE DEF h
    <3>3. g \in Seq(Tokens)
      BY <3>1, <3>2, ConcatProperties
    <3> QED  BY <3>1, <3>3
  <2>2. w = (g \o f) \o a
    BY <1>7
  <2> HIDE DEF g, h
  <2>3. w = g \o (f \o a)
    BY <2>1, <2>2, ConcatAssociative
  <2> QED  BY <2>3 DEF g
<1> HIDE DEF h, e
<1>10. n \in 1..Len(w)
  BY DEF w, doc
<1>11. PICK k \in 0..Len(doc) : Surrounds(text, Len(h), doc, k) /\ (k = Len(doc) <=> n >= Len(w) - Len(e))
  <2>1. IsDocument(doc) /\ h \in Seq(Prose) /\ e \in Seq(Prose)
    BY <1>6, <1>8
  <2>2. IsCut(w, n, h, doc, e)
    BY <1>9, <1>10, <2>1, CutSurrounds
  <2> QED  BY <2>2 DEF IsCut
<1>12. Len(e) = Len(a) + (IF fenced THEN 1 ELSE 0)
  <2>1. Len(a) \in Nat /\ Len(f) \in Nat
    BY <1>4, <1>5, LenProperties
  <2> QED  BY <1>5, <1>8, <2>1
<1>13. reply.finished = (k = Len(doc))
  BY <1>3, <1>11, <1>12
<1> HIDE DEF text
<1>14. ExtractJsonDocument(text) = IF k = Len(doc) THEN doc ELSE <<>>
  BY <1>6, <1>11, DocumentIsExtracted
<1>15. reading = IF d.shape = "changes" THEN ParseChanges(text) ELSE ParseFindingsOutput(text)
  BY <1>3 DEF Reading
<1>16. ~Unreadable.ok /\ \A s : Read(s).ok /\ Read(s).items = s
  BY DEF Unreadable, Read
<1>17. CASE ~reply.finished
  <2>1. reading = Unreadable
    BY <1>13, <1>14, <1>15, <1>17, NothingIsParsed
  <2> QED  BY <1>16, <1>17, <2>1
<1>18. CASE reply.finished /\ d.shape = "changes"
  <2>1. reading = IF Sound(items) /\ items # <<>> THEN Read(items) ELSE Unreadable
    <3>1. d.items \in Seq(Item) /\ d.tests \in Seq(Item) /\ IsChanges(doc, d.items, d.tests)
      BY <1>6, <1>18
    <3>2. ExtractJsonDocument(text) = doc
      BY <1>13, <1>14, <1>18
    <3>3. ParseChanges(text) = IF Sound(d.items \o d.tests) /\ d.items \o d.tests # <<>>
                               THEN Read(d.items \o d.tests) ELSE Unreadable
      BY ONLY <3>1, <3>2, ChangesAreParsed
    <3> QED  BY <1>15, <1>18, <3>3
  <2>2. reply.by = "solver" /\ reply.by # "challenger"
    BY <1>3, <1>18
  <2> HIDE DEF items
  <2> QED  BY <1>3, <1>16, <1>18, <2>1, <2>2
<1>19. CASE reply.finished /\ d.shape # "changes"
  <2>1. items = d.items
    BY <1>6, <1>19, ConcatEmptySeq
  <2>2. reading = IF Sound(Kept(d.items)) THEN Read(Kept(d.items)) ELSE Unreadable
    BY <1>6, <1>13, <1>14, <1>15, <1>19, FindingsAreParsed
  <2>3. /\ Kept(d.items) = IF Len(d.items) > MaxFindings THEN SubSeq(d.items, 1, MaxFindings) ELSE d.items
        /\ Sound(d.items) => Sound(Kept(d.items))
    BY <1>6, KeptIs DEF AnswersAssumption
  <2>4. reply.by = "challenger" /\ reply.items = d.items
    BY <1>3, <1>19, <2>1
  <2> HIDE DEF items
  <2> QED  BY <1>16, <1>19, <2>2, <2>3, <2>4
<1> QED  BY <1>17, <1>18, <1>19

\* A reply is written once and read once; nothing else is read.  What is read of
\* an answer (the parsers of run_executor.rs) is all of a whole one, and nothing of
\* one that was cut.
THEOREM AnswersReadWhole ==
  AnswersSpec => []AnswersAreReadWhole
<1>1. AnswersInit => AnswersInv
  BY DEF AnswersInit, AnswersAt, AnswersInv, ReplyIsWritten, IsReplyOf
<1>2. AnswersInv /\ [AnswersNext]_answersVars => AnswersInv'
  <2> SUFFICES ASSUME AnswersInv, [AnswersNext]_answersVars PROVE AnswersInv'
    OBVIOUS
  <2>1. reply' = reply /\ reading' \in {reading, Reading(reply.by, reply.text)}
    BY DEF AnswersNext, answersVars
  <2>2. ReplyIsWritten'
    BY <2>1 DEF AnswersInv, ReplyIsWritten, IsReplyOf
  <2> QED  BY <2>1, <2>2 DEF AnswersInv
<1>3. AnswersInv => AnswersAreReadWhole
  <2> SUFFICES ASSUME AnswersInv, reading # NotRead, reply.plain PROVE AnswersAreReadWhole
    BY DEF AnswersAreReadWhole
  <2>1. ReplyIsWritten /\ reading = Reading(reply.by, reply.text)
    BY DEF AnswersInv
  <2> QED  BY <2>1, AnswersAssumption, PlainIsReadWhole DEF AnswersAreReadWhole
<1> QED  BY <1>1, <1>2, <1>3, PTL DEF AnswersSpec

(***************************************************************************)
(* Analyses and contexts                                                   *)
(***************************************************************************)
Analysis == [repo : Repos, at : Nat, text : {"none", "one", "two"}]

\* The last analysis of a repository among some of them.
IsLastOf(i, S) == i \in S /\ \A j \in S : j <= i
AnalysesOf(r) == {i \in DOMAIN analyses : analyses[i].repo = r}
StoredOf(r) == {i \in DOMAIN analyses : analyses[i].repo = r /\ analyses[i].text # "none"}
ContextOf(i) == [repo |-> analyses[i].repo, text |-> analyses[i].text, expires |-> analyses[i].at + ContextLife]

RecallInv ==
  /\ clock \in Nat /\ analyses \in Seq(Analysis)
  /\ \A i \in DOMAIN analyses : analyses[i].at <= clock
  /\ \A i, j \in DOMAIN analyses : i <= j => analyses[i].at <= analyses[j].at
  /\ \A row \in analyzed : \E i \in DOMAIN analyses :
       IsLastOf(i, AnalysesOf(row.repo)) /\ row = [repo |-> analyses[i].repo, at |-> analyses[i].at]
  /\ \A i \in DOMAIN analyses : \E row \in analyzed : row.repo = analyses[i].repo
  /\ \A row \in contexts : \E i \in DOMAIN analyses : IsLastOf(i, StoredOf(row.repo)) /\ row = ContextOf(i)
  /\ \A i \in DOMAIN analyses :
       IsLastOf(i, StoredOf(analyses[i].repo)) /\ analyses[i].at + ContextLife > clock => ContextOf(i) \in contexts

\* Half days and days.
LEMMA DayIs ==
  ASSUME NEW t \in Nat
  PROVE  Day(t) \in Nat /\ 2 * Day(t) <= t /\ t < 2 * Day(t) + 2
BY DEF Day

LEMMA RecallInvIsSpaced ==
  ASSUME RecordsAssumption, RecallInv
  PROVE  AnalysesAreSpaced
<1> SUFFICES ASSUME NEW r \in Repos
             PROVE  LET ages == {clock - analyses[i].at : i \in {j \in DOMAIN analyses : analyses[j].repo = r}}
                    IN /\ (\E a \in ages : a <= 2 * Spacing) => HasAnalyzedSince(r, Spacing)
                       /\ HasAnalyzedSince(r, Spacing) => \E a \in ages : a < 2 * (Spacing + 1)
  BY DEF AnalysesAreSpaced
<1> DEFINE ages == {clock - analyses[i].at : i \in {j \in DOMAIN analyses : analyses[j].repo = r}}
<1>1. clock \in Nat /\ analyses \in Seq(Analysis) /\ Spacing \in Nat /\ DOMAIN analyses = 1..Len(analyses)
  BY LenProperties DEF RecallInv, RecordsAssumption
<1>2. \A i \in DOMAIN analyses : analyses[i].at \in Nat /\ analyses[i].at <= clock
  <2> SUFFICES ASSUME NEW i \in DOMAIN analyses PROVE analyses[i].at \in Nat /\ analyses[i].at <= clock
    OBVIOUS
  <2>1. analyses[i] \in Analysis
    BY <1>1, ElementOfSeq
  <2> QED  BY <2>1 DEF Analysis, RecallInv
<1>3. ASSUME NEW a \in ages, a <= 2 * Spacing PROVE HasAnalyzedSince(r, Spacing)
  <2>1. PICK i \in DOMAIN analyses : analyses[i].repo = r /\ a = clock - analyses[i].at
    OBVIOUS
  <2>2. PICK row \in analyzed : row.repo = r
    BY <2>1 DEF RecallInv
  <2>3. PICK k \in DOMAIN analyses : IsLastOf(k, AnalysesOf(r)) /\ row = [repo |-> analyses[k].repo, at |-> analyses[k].at]
    BY <2>2 DEF RecallInv
  <2>4. analyses[i].at <= analyses[k].at
    BY <2>1, <2>3 DEF RecallInv, IsLastOf, AnalysesOf
  <2> DEFINE t == analyses[k].at
             u == analyses[i].at
  <2>5. t \in Nat /\ u \in Nat /\ row.at = t
    BY <1>2, <2>3
  <2> HIDE DEF t, u
  <2>6. Day(t) \in Nat /\ t < 2 * Day(t) + 2 /\ Day(clock) \in Nat /\ 2 * Day(clock) <= clock
    BY <1>1, <2>5, DayIs
  <2>7. clock - u <= 2 * Spacing /\ u <= t
    BY <1>3, <2>1, <2>4 DEF t, u
  <2>8. Day(t) + Spacing >= Day(clock)
    BY ONLY <1>1, <2>5, <2>6, <2>7
  <2> QED  BY <2>2, <2>5, <2>8 DEF HasAnalyzedSince
<1>4. ASSUME HasAnalyzedSince(r, Spacing) PROVE \E a \in ages : a < 2 * (Spacing + 1)
  <2>1. PICK row \in analyzed : row.repo = r /\ Day(row.at) + Spacing >= Day(clock)
    BY <1>4 DEF HasAnalyzedSince
  <2>2. PICK k \in DOMAIN analyses : IsLastOf(k, AnalysesOf(r)) /\ row = [repo |-> analyses[k].repo, at |-> analyses[k].at]
    BY <2>1 DEF RecallInv
  <2> DEFINE t == analyses[k].at
  <2>3. t \in Nat /\ row.at = t /\ clock - t \in ages
    BY <1>2, <2>2 DEF IsLastOf, AnalysesOf
  <2> HIDE DEF t, ages
  <2>4. Day(t) \in Nat /\ 2 * Day(t) <= t /\ Day(clock) \in Nat /\ clock < 2 * Day(clock) + 2
    BY <1>1, <2>3, DayIs
  <2>5. Day(t) + Spacing >= Day(clock)
    BY <2>1, <2>3
  <2>6. clock - t < 2 * (Spacing + 1)
    BY ONLY <1>1, <2>3, <2>4, <2>5
  <2> QED  BY <2>3, <2>6
<1> QED  BY <1>3, <1>4

LEMMA RecallInvIsCurrent ==
  ASSUME RecordsAssumption, RecallInv
  PROVE  ContextsAreCurrent
<1> SUFFICES ASSUME NEW r \in Repos
             PROVE  LET stored == {i \in DOMAIN analyses : analyses[i].repo = r /\ analyses[i].text # "none"}
                        last == analyses[CHOOSE i \in stored : \A j \in stored : j <= i]
                    IN /\ GetContext(r) = IF stored # {} /\ last.at + ContextLife > clock THEN {last.text} ELSE {}
                       /\ GetContext(r) = {c[2] : c \in {d \in GetSimilarContext : d[1] = r}}
  BY DEF ContextsAreCurrent
<1> DEFINE stored == {i \in DOMAIN analyses : analyses[i].repo = r /\ analyses[i].text # "none"}
           l == CHOOSE i \in stored : \A j \in stored : j <= i
<1>1. clock \in Nat /\ analyses \in Seq(Analysis) /\ DOMAIN analyses = 1..Len(analyses) /\ Len(analyses) \in Nat
  BY LenProperties DEF RecallInv
<1>2. stored = StoredOf(r) /\ stored \subseteq 1..Len(analyses)
  BY <1>1 DEF StoredOf
<1>3. \A i \in DOMAIN analyses : IsLastOf(i, stored) => i = l
  <2> SUFFICES ASSUME NEW i \in DOMAIN analyses, IsLastOf(i, stored) PROVE i = l
    OBVIOUS
  <2>1. i \in stored /\ \A j \in stored : j <= i
    BY DEF IsLastOf
  <2> HIDE DEF stored
  <2>2. l \in stored /\ \A j \in stored : j <= l
    BY <2>1
  <2>3. i \in Nat /\ l \in Nat /\ i <= l /\ l <= i
    BY <1>1, <1>2, <2>1, <2>2
  <2> HIDE DEF l
  <2> QED  BY ONLY <2>3
<1>4. stored # {} => IsLastOf(l, stored)
  <2> SUFFICES ASSUME stored # {} PROVE IsLastOf(l, stored)
    OBVIOUS
  <2> DEFINE n == Len(analyses)
             T == {x \in Nat : \E i \in stored : x = n - i}
  <2> HIDE DEF stored
  <2>1. T \subseteq Nat /\ T # {}
    <3>1. PICK i \in stored : TRUE
      OBVIOUS
    <3>2. n - i \in Nat
      BY <1>1, <1>2
    <3> QED  BY <3>2
  <2>2. PICK m \in T : \A x \in T : m <= x
    <3> HIDE DEF T
    <3> QED  BY <2>1, Least
  <2>3. PICK i \in stored : m = n - i
    BY <2>2
  <2>4. ASSUME NEW j \in stored PROVE j <= i
    <3>1. j \in 1..n /\ i \in 1..n /\ n \in Nat
      BY <1>1, <1>2
    <3>2. n - j \in T
      BY <3>1
    <3>3. n - i <= n - j
      BY <2>2, <2>3, <3>2
    <3> HIDE DEF n
    <3> QED  BY <3>1, <3>3
  <2> QED  BY <2>4 DEF IsLastOf
<1> HIDE DEF l
<1>5. GetContext(r) = IF stored # {} /\ analyses[l].at + ContextLife > clock THEN {analyses[l].text} ELSE {}
  <2> DEFINE rows == {c \in contexts : c.repo = r /\ c.expires > clock}
  <2>1. ASSUME NEW row \in rows
        PROVE  stored # {} /\ row = ContextOf(l) /\ analyses[l].at + ContextLife > clock
    <3>1. PICK i \in DOMAIN analyses : IsLastOf(i, StoredOf(r)) /\ row = ContextOf(i)
      BY DEF RecallInv
    <3>2. i = l /\ stored # {}
      BY <1>2, <1>3, <3>1 DEF IsLastOf
    <3> QED  BY <3>1, <3>2 DEF ContextOf
  <2>2. ASSUME stored # {}, analyses[l].at + ContextLife > clock PROVE ContextOf(l) \in rows
    <3>1. IsLastOf(l, stored) /\ l \in DOMAIN analyses /\ analyses[l].repo = r
      BY <1>4, <2>2 DEF IsLastOf
    <3>2. ContextOf(l) \in contexts
      BY <1>2, <2>2, <3>1 DEF RecallInv
    <3> QED  BY <2>2, <3>1, <3>2 DEF ContextOf
  <2>3. GetContext(r) = {row.text : row \in rows}
    BY DEF GetContext
  <2>4. ContextOf(l).text = analyses[l].text
    BY DEF ContextOf
  <2> HIDE DEF rows, stored
  <2>5. CASE stored # {} /\ analyses[l].at + ContextLife > clock
    <3>1. rows = {ContextOf(l)}
      BY <2>1, <2>2, <2>5
    <3> QED  BY <2>3, <2>4, <2>5, <3>1
  <2>6. CASE ~(stored # {} /\ analyses[l].at + ContextLife > clock)
    <3>1. rows = {}
      BY <2>1, <2>6
    <3> QED  BY <2>3, <2>6, <3>1
  <2> QED  BY <2>5, <2>6
<1>6. GetContext(r) = {c[2] : c \in {d \in GetSimilarContext : d[1] = r}}
  <2> DEFINE told == {c[2] : c \in {d \in GetSimilarContext : d[1] = r}}
  <2>1. ASSUME NEW e \in GetContext(r) PROVE e \in told
    <3>1. PICK row \in contexts : row.repo = r /\ row.expires > clock /\ e = row.text
      BY DEF GetContext
    <3> DEFINE d == <<row.repo, row.text>>
    <3>2. d \in GetSimilarContext /\ d[1] = r /\ d[2] = e
      BY <3>1 DEF GetSimilarContext
    <3> HIDE DEF d
    <3> QED  BY <3>2
  <2>2. ASSUME NEW e \in told PROVE e \in GetContext(r)
    <3>1. PICK d \in GetSimilarContext : d[1] = r /\ e = d[2]
      OBVIOUS
    <3>2. PICK row \in contexts : row.expires > clock /\ d = <<row.repo, row.text>>
      BY DEF GetSimilarContext
    <3>3. row.repo = r /\ row.text = e
      BY <3>1, <3>2
    <3> QED  BY <3>2, <3>3 DEF GetContext
  <2> HIDE DEF told
  <2>3. GetContext(r) = told
    BY <2>1, <2>2
  <2> QED  BY <2>3 DEF told
<1> QED  BY <1>5, <1>6 DEF l

LEMMA RecallInvInit ==
  ASSUME RecallInit
  PROVE  RecallInv
<1>1. analyses = <<>> /\ clock = 0 /\ analyzed = {} /\ contexts = {}
  BY DEF RecallInit
<1>2. analyses \in Seq(Analysis) /\ DOMAIN analyses = {}
  BY <1>1, EmptySeq
<1> QED  BY <1>1, <1>2 DEF RecallInv

LEMMA RecallInvProcessRepo ==
  ASSUME RecordsAssumption, RecallInv, NEW r \in Repos, NEW targeted \in BOOLEAN, ProcessRepo(r, targeted)
  PROVE  RecallInv'
<1> DEFINE n == Len(analyses)
<1>1. PICK text \in {"none", "one", "two"} :
        /\ IF text = "none" THEN UNCHANGED contexts ELSE StoreContext(r, text)
        /\ analyses' = Append(analyses, [repo |-> r, at |-> clock, text |-> text])
  BY DEF ProcessRepo
<1> DEFINE found == [repo |-> r, at |-> clock, text |-> text]
<1>2. clock \in Nat /\ clock' = clock /\ analyses \in Seq(Analysis) /\ n \in Nat /\ DOMAIN analyses = 1..n
  BY LenProperties DEF RecallInv, ProcessRepo
<1>3. found \in Analysis /\ found.repo = r /\ found.at = clock /\ found.text = text
  BY <1>2 DEF Analysis
<1> HIDE DEF found
<1>4. analyses' \in Seq(Analysis)
  BY <1>1, <1>2, <1>3, AppendProperties DEF found
<1>5. Len(analyses') = n + 1
  BY <1>1, <1>2, <1>3, AppendProperties DEF found
<1>6. \A i \in 1..n : analyses'[i] = analyses[i]
  BY <1>1, <1>2, <1>3, AppendProperties DEF found
<1>7. analyses'[n + 1] = found
  BY <1>1, <1>2, <1>3, AppendProperties DEF found
<1>20. PICK last \in Nat : last = n + 1
  BY <1>2
<1>8. /\ DOMAIN analyses' = 1..last /\ last \in 1..last /\ last \in Nat /\ analyses'[last] = found
      /\ \A i \in 1..last : i = last \/ i \in 1..n
      /\ \A i \in 1..n : i \in 1..last /\ i <= last /\ ~(last <= i)
      /\ \A i \in 1..last : i <= last
  BY <1>2, <1>4, <1>5, <1>7, <1>20, LenProperties
<1>9. \A i \in 1..n : analyses[i].at \in Nat
  <2> SUFFICES ASSUME NEW i \in 1..n PROVE analyses[i].at \in Nat
    OBVIOUS
  <2>1. analyses[i] \in Analysis
    BY <1>2, ElementOfSeq
  <2> QED  BY <2>1 DEF Analysis
<1> HIDE DEF n
<1>10. \A i \in DOMAIN analyses' : analyses'[i].at <= clock'
  <2> SUFFICES ASSUME NEW i \in 1..last PROVE analyses'[i].at <= clock
    BY <1>2, <1>8
  <2>1. CASE i = last
    BY <1>2, <1>3, <1>8, <2>1
  <2>2. CASE i \in 1..n
    BY <1>2, <1>6, <2>2 DEF RecallInv
  <2> QED  BY <1>8, <2>1, <2>2
<1>11. \A i, j \in DOMAIN analyses' : i <= j => analyses'[i].at <= analyses'[j].at
  <2> SUFFICES ASSUME NEW i \in 1..last, NEW j \in 1..last, i <= j PROVE analyses'[i].at <= analyses'[j].at
    BY <1>8
  <2>1. CASE j = last
    BY <1>2, <1>3, <1>8, <1>10, <2>1
  <2>2. CASE j # last
    <3>1. i \in 1..n /\ j \in 1..n
      BY <1>8, <2>2
    <3> QED  BY <1>2, <1>6, <3>1 DEF RecallInv
  <2> QED  BY <2>1, <2>2
<1>12. /\ \A q : q # r => AnalysesOf(q)' = AnalysesOf(q)
       /\ IsLastOf(last, AnalysesOf(r)')
  BY <1>2, <1>3, <1>6, <1>8 DEF AnalysesOf, IsLastOf
<1>13. /\ \A q : (q # r \/ text = "none") => StoredOf(q)' = StoredOf(q)
       /\ text # "none" => IsLastOf(last, StoredOf(r)')
       /\ text = "none" => last \notin StoredOf(r)'
  BY <1>2, <1>3, <1>6, <1>8 DEF StoredOf, IsLastOf
<1>14. /\ \A i \in 1..n : ContextOf(i)' = ContextOf(i) /\ i \in DOMAIN analyses'
       /\ ContextOf(last)' = [repo |-> r, text |-> text, expires |-> clock + ContextLife]
  BY <1>2, <1>3, <1>6, <1>8 DEF ContextOf
<1>15. ASSUME NEW row \in analyzed'
       PROVE  \E i \in DOMAIN analyses' :
                /\ IsLastOf(i, AnalysesOf(row.repo)')
                /\ row = [repo |-> analyses'[i].repo, at |-> analyses'[i].at]
  <2>1. \/ row = [repo |-> r, at |-> clock]
        \/ row \in analyzed /\ row.repo # r
    BY <1>15 DEF ProcessRepo, Upsert
  <2>2. CASE row = [repo |-> r, at |-> clock]
    BY <1>3, <1>8, <1>12, <2>2
  <2>3. CASE row \in analyzed /\ row.repo # r
    <3>1. PICK i \in 1..n : IsLastOf(i, AnalysesOf(row.repo)) /\ row = [repo |-> analyses[i].repo, at |-> analyses[i].at]
      BY <1>2, <2>3 DEF RecallInv
    <3> QED  BY <1>6, <1>8, <1>12, <2>3, <3>1
  <2> QED  BY <2>1, <2>2, <2>3
<1>16. \A i \in DOMAIN analyses' : \E row \in analyzed' : row.repo = analyses'[i].repo
  <2> SUFFICES ASSUME NEW i \in 1..last PROVE \E row \in analyzed' : row.repo = analyses'[i].repo
    BY <1>8
  <2>1. [repo |-> r, at |-> clock] \in analyzed' /\ \A row \in analyzed : row.repo # r => row \in analyzed'
    BY DEF ProcessRepo, Upsert
  <2>2. CASE analyses'[i].repo = r
    BY <2>1, <2>2
  <2>3. CASE analyses'[i].repo # r
    <3>1. i \in 1..n
      BY <1>3, <1>8, <2>3
    <3>2. PICK row \in analyzed : row.repo = analyses[i].repo
      BY <1>2, <3>1 DEF RecallInv
    <3> QED  BY <1>6, <2>1, <2>3, <3>1, <3>2
  <2> QED  BY <2>2, <2>3
<1>17. contexts' = IF text = "none" THEN contexts
                   ELSE {old \in contexts : old.repo # r} \cup {ContextOf(last)'}
  BY <1>1, <1>14 DEF StoreContext, Upsert
<1>18. ASSUME NEW row \in contexts'
       PROVE  \E i \in DOMAIN analyses' : IsLastOf(i, StoredOf(row.repo)') /\ row = ContextOf(i)'
  <2>1. \/ text # "none" /\ row = ContextOf(last)'
        \/ row \in contexts /\ (text = "none" \/ row.repo # r)
    BY <1>17
  <2>2. CASE text # "none" /\ row = ContextOf(last)'
    BY <1>8, <1>13, <1>14, <2>2
  <2>3. CASE row \in contexts /\ (text = "none" \/ row.repo # r)
    <3>1. PICK i \in 1..n : IsLastOf(i, StoredOf(row.repo)) /\ row = ContextOf(i)
      BY <1>2, <2>3 DEF RecallInv
    <3> QED  BY <1>13, <1>14, <2>3, <3>1
  <2> QED  BY <2>1, <2>2, <2>3
<1>19. ASSUME NEW i \in DOMAIN analyses', NEW q, q = analyses'[i].repo, IsLastOf(i, StoredOf(q)'),
              analyses'[i].at + ContextLife > clock'
       PROVE  ContextOf(i)' \in contexts'
  <2>1. i \in 1..last /\ i \in StoredOf(q)'
    BY <1>8, <1>19 DEF IsLastOf
  <2>2. CASE i = last
    <3>1. q = r
      BY <1>3, <1>8, <1>19, <2>2
    <3>2. text # "none"
      BY <1>13, <2>1, <2>2, <3>1
    <3> QED  BY <1>17, <2>2, <3>2
  <2>3. CASE i # last
    <3>1. i \in 1..n /\ q = analyses[i].repo /\ analyses'[i] = analyses[i] /\ ContextOf(i)' = ContextOf(i)
      BY <1>6, <1>8, <1>14, <1>19, <2>1, <2>3
    <3>2. text = "none" \/ q # r
      <4> SUFFICES ASSUME text # "none", q = r PROVE FALSE
        OBVIOUS
      <4>1. last \in StoredOf(q)'
        BY <1>13 DEF IsLastOf
      <4>2. last <= i
        BY <1>19, <4>1 DEF IsLastOf
      <4> QED  BY <1>8, <3>1, <4>2
    <3>3. IsLastOf(i, StoredOf(q)) /\ analyses[i].at + ContextLife > clock
      BY <1>2, <1>13, <1>19, <3>1, <3>2
    <3>4. ContextOf(i) \in contexts /\ ContextOf(i).repo = q
      BY <1>2, <3>1, <3>3 DEF RecallInv, ContextOf
    <3> QED  BY <1>17, <3>1, <3>2, <3>4
  <2> QED  BY <2>2, <2>3
<1>21. \A i \in DOMAIN analyses' :
         IsLastOf(i, StoredOf(analyses[i].repo))' /\ analyses'[i].at + ContextLife > clock' => ContextOf(i)' \in contexts'
  <2> SUFFICES ASSUME NEW i \in DOMAIN analyses', IsLastOf(i, StoredOf(analyses[i].repo))',
                      analyses'[i].at + ContextLife > clock'
               PROVE  ContextOf(i)' \in contexts'
    OBVIOUS
  <2>1. PICK q : q = analyses'[i].repo
    OBVIOUS
  <2>2. StoredOf(q)' = StoredOf(analyses[i].repo)'
    BY <2>1 DEF StoredOf
  <2>3. IsLastOf(i, StoredOf(q)')
    BY <2>2 DEF IsLastOf
  <2> QED  BY <1>19, <2>1, <2>3
<1> QED  BY <1>2, <1>4, <1>10, <1>11, <1>15, <1>16, <1>18, <1>21 DEF RecallInv

LEMMA RecallInvNext ==
  ASSUME RecordsAssumption, RecallInv, RecallNext
  PROVE  RecallInv'
<1>1. CASE \E r \in Repos, targeted \in BOOLEAN : ProcessRepo(r, targeted)
  BY <1>1, RecallInvProcessRepo
<1>2. CASE ArchiveExpired
  BY <1>2 DEF ArchiveExpired, RecallInv, AnalysesOf, StoredOf, ContextOf, IsLastOf
<1>3. CASE HalfDay
  <2>1. clock \in Nat /\ clock' = clock + 1 /\ analyzed' = analyzed /\ contexts' = contexts /\ analyses' = analyses
    BY <1>3 DEF HalfDay, RecallInv
  <2>2. \A i \in DOMAIN analyses : analyses[i].at \in Nat
    <3> SUFFICES ASSUME NEW i \in DOMAIN analyses PROVE analyses[i].at \in Nat
      OBVIOUS
    <3>1. analyses[i] \in Analysis
      BY LenProperties, ElementOfSeq DEF RecallInv
    <3> QED  BY <3>1 DEF Analysis
  <2>3. \A i \in DOMAIN analyses : analyses[i].at <= clock'
    BY <2>1, <2>2 DEF RecallInv
  <2>4. \A i \in DOMAIN analyses : analyses[i].at + ContextLife > clock' => analyses[i].at + ContextLife > clock
    BY <2>1, <2>2 DEF RecordsAssumption
  <2>5. \A r : AnalysesOf(r)' = AnalysesOf(r) /\ StoredOf(r)' = StoredOf(r)
    BY <2>1 DEF AnalysesOf, StoredOf
  <2>6. \A i : ContextOf(i)' = ContextOf(i)
    BY <2>1 DEF ContextOf
  <2> QED  BY <2>1, <2>3, <2>4, <2>5, <2>6 DEF RecallInv
<1> QED  BY <1>1, <1>2, <1>3 DEF RecallNext

LEMMA RecallInvStutters ==
  ASSUME RecallInv, UNCHANGED recallVars
  PROVE  RecallInv'
BY DEF recallVars, RecallInv, AnalysesOf, StoredOf, ContextOf, IsLastOf

(***************************************************************************)
(* The rows that a WHERE lets through                                      *)
(***************************************************************************)
\* How rows are chosen, one after the other.
IsChoice(f, list, wanted, S) ==
  /\ f \in [0..Len(list) -> Seq(S)] /\ f[0] = <<>>
  /\ \A k \in 1..Len(list) : f[k] = IF list[k] \in wanted THEN Append(f[k - 1], list[k]) ELSE f[k - 1]

LEMMA ChoiceExists ==
  ASSUME NEW S, NEW list \in Seq(S), NEW wanted
  PROVE  \E f : IsChoice(f, list, wanted, S) /\ Matching(list, wanted) = f[Len(list)]
<1> DEFINE n == Len(list)
           first == <<>>
           V == Seq(S)
           Turn(k, v) == IF list[k] \in wanted THEN Append(v, list[k]) ELSE v
           IsUpto(f) == f = [k \in 0..n |-> IF k = 0 THEN first ELSE Turn(k, f[k - 1])]
           folds == [k \in 1..n |-> [v \in V |-> Turn(k, v)]]
<1>1. n \in Nat
  BY LenProperties
<1>2. first \in V
  BY EmptySeq
<1>3. folds \in [1..n -> [V -> V]]
  <2> SUFFICES ASSUME NEW k \in 1..n, NEW v \in V PROVE Turn(k, v) \in V
    OBVIOUS
  <2>1. list[k] \in S
    BY ElementOfSeq
  <2> QED  BY <2>1, AppendProperties
<1>4. PICK g : IsFold(g, n, V, first, folds)
  <2> HIDE DEF n, folds, first, V
  <2> QED  BY <1>1, <1>2, <1>3, FoldExists
<1>5. g \in [0..n -> V] /\ g[0] = first /\ \A k \in 1..n : g[k] = Turn(k, g[k - 1])
  <2>1. ASSUME NEW k \in 1..n PROVE g[k] = folds[k][g[k - 1]] /\ g[k - 1] \in V
    <3>1. k - 1 \in 0..n
      BY <1>1
    <3> HIDE DEF folds
    <3> QED  BY <1>4, <3>1 DEF IsFold
  <2> HIDE DEF n, Turn
  <2> QED  BY <1>4, <2>1 DEF IsFold
<1>6. IsUpto(g)
  <2>1. \A k \in 0..n : k = 0 \/ k \in 1..n
    BY <1>1
  <2> HIDE DEF n, first, Turn
  <2> QED  BY <1>5, <2>1
<1> DEFINE f == CHOOSE h : IsUpto(h)
<1>7. IsUpto(f)
  <2> HIDE DEF IsUpto
  <2> QED  BY <1>6
<1>8. Matching(list, wanted) = f[n]
  BY DEF Matching
<1> HIDE DEF Turn
<1>9. ASSUME NEW h, IsUpto(h) PROVE h = g
  <2> DEFINE T == {k \in Nat : k \in 0..n => h[k] = g[k]}
  <2>1. 0 \in T
    BY <1>1, <1>5, <1>9
  <2>2. ASSUME NEW k \in Nat, k \in T PROVE k + 1 \in T
    <3> SUFFICES ASSUME k + 1 \in 0..n PROVE h[k + 1] = g[k + 1]
      OBVIOUS
    <3>1. k \in 0..n /\ k + 1 \in 1..n /\ (k + 1) - 1 = k /\ k + 1 # 0
      BY <1>1
    <3>2. h[k] = g[k]
      BY <2>2, <3>1
    <3>3. h[k + 1] = Turn(k + 1, h[k])
      BY <1>9, <3>1
    <3> QED  BY <1>5, <3>1, <3>2, <3>3
  <2> HIDE DEF T
  <2>3. Nat \subseteq T
    BY <2>1, <2>2, Induction
  <2>4. \A k \in 0..n : h[k] = g[k]
    BY <1>1, <2>3 DEF T
  <2>5. DOMAIN h = 0..n /\ h = [k \in 0..n |-> h[k]] /\ g = [k \in 0..n |-> g[k]]
    BY <1>5, <1>9
  <2> QED  BY <2>4, <2>5
<1> HIDE DEF f, IsUpto
<1>10. f = g
  BY <1>7, <1>9
<1> QED  BY <1>5, <1>8, <1>10 DEF IsChoice, Turn

\* Of no rows none is chosen, and of one row more this one may be.
LEMMA MatchingUnfolds ==
  ASSUME NEW S, NEW list \in Seq(S), NEW wanted
  PROVE  /\ Matching(<<>>, wanted) = <<>>
         /\ Matching(list, wanted) \in Seq(S)
         /\ \A e \in S : Matching(Append(list, e), wanted) =
              IF e \in wanted THEN Append(Matching(list, wanted), e) ELSE Matching(list, wanted)
<1>1. Matching(<<>>, wanted) = <<>>
  <2> DEFINE none == <<>>
  <2>1. none \in Seq(S) /\ Len(none) = 0
    BY EmptySeq
  <2>2. PICK f : IsChoice(f, none, wanted, S) /\ Matching(none, wanted) = f[Len(none)]
    BY <2>1, ChoiceExists
  <2> QED  BY <2>1, <2>2 DEF IsChoice
<1>2. PICK f : IsChoice(f, list, wanted, S) /\ Matching(list, wanted) = f[Len(list)]
  BY ChoiceExists
<1>3. Len(list) \in Nat
  BY LenProperties
<1>4. Matching(list, wanted) \in Seq(S)
  BY <1>2, <1>3 DEF IsChoice
<1>5. ASSUME NEW e \in S
      PROVE  Matching(Append(list, e), wanted) = IF e \in wanted THEN Append(Matching(list, wanted), e) ELSE Matching(list, wanted)
  <2> DEFINE more == Append(list, e)
             n == Len(list)
  <2>1. more \in Seq(S)
    BY AppendProperties
  <2>2. Len(more) = n + 1
    BY AppendProperties
  <2>3. \A i \in 1..n : more[i] = list[i]
    BY AppendProperties
  <2>4. more[n + 1] = e
    BY AppendProperties
  <2> HIDE DEF more
  <2>5. PICK g : IsChoice(g, more, wanted, S) /\ Matching(more, wanted) = g[Len(more)]
    BY <2>1, ChoiceExists
  <2> DEFINE T == {k \in Nat : k \in 0..n => g[k] = f[k]}
  <2>6. 0 \in T
    BY <1>2, <2>5 DEF IsChoice
  <2>7. ASSUME NEW k \in Nat, k \in T PROVE k + 1 \in T
    <3> SUFFICES ASSUME k + 1 \in 0..n PROVE g[k + 1] = f[k + 1]
      OBVIOUS
    <3>1. k \in 0..n /\ k + 1 \in 1..n /\ k + 1 \in 1..(n + 1) /\ (k + 1) - 1 = k
      BY <1>3
    <3> DEFINE j == k + 1
    <3>2. g[k] = f[k] /\ more[j] = list[j]
      BY <2>3, <2>7, <3>1
    <3>3. g[j] = IF more[j] \in wanted THEN Append(g[j - 1], more[j]) ELSE g[j - 1]
      BY <2>2, <2>5, <3>1 DEF IsChoice
    <3>4. f[j] = IF list[j] \in wanted THEN Append(f[j - 1], list[j]) ELSE f[j - 1]
      BY <1>2, <3>1 DEF IsChoice
    <3>5. j - 1 = k
      BY <3>1
    <3> HIDE DEF j
    <3>6. g[j] = f[j]
      BY <3>2, <3>3, <3>4, <3>5
    <3> QED  BY <3>6 DEF j
  <2> HIDE DEF T
  <2>8. Nat \subseteq T
    BY <2>6, <2>7, Induction
  <2>9. g[n] = f[n]
    BY <1>3, <2>8 DEF T
  <2> DEFINE j == n + 1
  <2>10. j \in 1..Len(more) /\ j - 1 = n /\ more[j] = e /\ Len(more) = j
    BY <1>3, <2>2, <2>4
  <2> HIDE DEF j
  <2>11. g[j] = IF more[j] \in wanted THEN Append(g[j - 1], more[j]) ELSE g[j - 1]
    BY <2>5, <2>10 DEF IsChoice
  <2>12. Matching(more, wanted) = IF e \in wanted THEN Append(Matching(list, wanted), e) ELSE Matching(list, wanted)
    BY <1>2, <2>5, <2>9, <2>10, <2>11
  <2> QED  BY <2>12 DEF more
<1> QED  BY <1>1, <1>4, <1>5

\* A list that is not empty is one with a row less and its last row.
LEMMA LastRow ==
  ASSUME NEW S, NEW n \in Nat, NEW list \in Seq(S), Len(list) = n + 1
  PROVE  \E rest \in Seq(S), e \in S : Len(rest) = n /\ list = Append(rest, e)
<1> DEFINE rest == SubSeq(list, 1, n)
           e == list[n + 1]
<1>1. \A i \in 1..(n + 1) : list[i] \in S
  BY ElementOfSeq
<1>2. /\ rest \in Seq(S) /\ Len(rest) = (IF 1 <= n THEN (n - 1) + 1 ELSE 0)
      /\ \A i \in 1..((n - 1) + 1) : rest[i] = list[(1 + i) - 1]
  <2>1. 1 \in Int /\ n \in Int
    OBVIOUS
  <2>2. \A i \in 1..n : list[i] \in S
    BY <1>1
  <2> QED  BY ONLY <2>1, <2>2, SubSeqProperties
<1>3. e \in S
  BY <1>1
<1> HIDE DEF rest
<1>4. Len(rest) = n /\ \A i \in 1..n : rest[i] = list[i]
  <2>1. (n - 1) + 1 = n /\ (~(1 <= n) => n = 0) /\ \A i \in 1..n : (1 + i) - 1 = i
    OBVIOUS
  <2> QED  BY <1>2, <2>1
<1> DEFINE more == Append(rest, e)
<1>5. more \in Seq(S)
  BY <1>2, <1>3, AppendProperties
<1>6. Len(more) = Len(rest) + 1
  BY <1>2, <1>3, AppendProperties
<1>7. \A i \in 1..Len(rest) : more[i] = rest[i]
  BY <1>2, <1>3, AppendProperties
<1>8. more[Len(rest) + 1] = e
  BY <1>2, <1>3, AppendProperties
<1> HIDE DEF more
<1>9. Len(more) = Len(list) /\ \A i \in 1..Len(more) : more[i] = list[i]
  BY <1>4, <1>6, <1>7, <1>8
<1>10. more = list
  BY <1>5, <1>9, SeqEqual
<1> QED  BY <1>2, <1>3, <1>4, <1>10 DEF more

(***************************************************************************)
(* Conversations                                                           *)
(***************************************************************************)
\* The rows of a list that is put together, or taken apart.
LEMMA RowsOfParts ==
  ASSUME NEW S, NEW list \in Seq(S), NEW more \in Seq(S)
  PROVE  /\ RowsOf(list \o more) \subseteq RowsOf(list) \cup RowsOf(more)
         /\ list # <<>> => RowsOf(list) \subseteq {Head(list)} \cup RowsOf(Tail(list))
<1>1. /\ Len(list) \in Nat /\ DOMAIN list = 1..Len(list)
      /\ Len(more) \in Nat /\ DOMAIN more = 1..Len(more)
  BY LenProperties
<1>2. ASSUME NEW row \in RowsOf(list \o more) PROVE row \in RowsOf(list) \cup RowsOf(more)
  <2> DEFINE both == list \o more
  <2>1. both \in Seq(S)
    BY ConcatProperties
  <2>2. /\ Len(both) = Len(list) + Len(more)
        /\ \A i \in 1..(Len(list) + Len(more)) : both[i] = IF i <= Len(list) THEN list[i] ELSE more[i - Len(list)]
    BY ConcatProperties
  <2>3. PICK i \in DOMAIN both : row = both[i]
    BY DEF RowsOf
  <2>4. i \in 1..(Len(list) + Len(more))
    BY <2>1, <2>2, <2>3, LenProperties
  <2> HIDE DEF both
  <2>5. CASE i <= Len(list)
    <3>1. i \in 1..Len(list)
      BY <1>1, <2>4, <2>5
    <3> QED  BY <1>1, <2>2, <2>3, <2>4, <2>5, <3>1 DEF RowsOf
  <2>6. CASE ~(i <= Len(list))
    <3>1. i - Len(list) \in 1..Len(more)
      BY <1>1, <2>4, <2>6
    <3> QED  BY <1>1, <2>2, <2>3, <2>4, <2>6, <3>1 DEF RowsOf
  <2> QED  BY <2>5, <2>6
<1>3. ASSUME list # <<>>, NEW row \in RowsOf(list) PROVE row \in {Head(list)} \cup RowsOf(Tail(list))
  <2> DEFINE rest == Tail(list)
  <2>1. rest \in Seq(S) /\ Len(rest) = Len(list) - 1 /\ \A i \in 1..Len(rest) : rest[i] = list[i + 1]
    BY <1>3, HeadTailProperties
  <2>2. DOMAIN rest = 1..Len(rest) /\ Head(list) = list[1]
    BY <2>1, LenProperties
  <2>3. PICK i \in 1..Len(list) : row = list[i]
    BY <1>1, <1>3 DEF RowsOf
  <2> HIDE DEF rest
  <2>4. CASE i = 1
    BY <2>2, <2>3, <2>4
  <2>5. CASE i # 1
    <3> DEFINE k == i - 1
    <3>1. k \in 1..Len(rest) /\ k + 1 = i
      BY <1>1, <2>1, <2>3, <2>5
    <3> HIDE DEF k
    <3>2. rest[k] = row
      BY <2>1, <2>3, <3>1
    <3>3. row \in RowsOf(rest)
      BY <2>2, <3>1, <3>2 DEF RowsOf
    <3> QED  BY <3>3 DEF rest
  <2> QED  BY <2>4, <2>5
<1> QED  BY <1>2, <1>3

Line == [id : Nat, inline : BOOLEAN, edited : BOOLEAN]
Places == {"idle", "first", "inline", "last", "history"}
Visit == [at : Places, items : Seq(Line), todo : Seq(Line)]

InThread(id) == \E k \in DOMAIN thread : thread[k].id = id

\* What a patrol has read is in the table, or is still to be put there.
Collects(state) ==
  /\ state \in Visit
  /\ \A c \in RowsOf(state.items) : c \in RowsOf(state.todo) \/ InThread(c.id)
  /\ state.at \in {"idle", "inline", "history"} => state.todo = <<>>

ThreadInv ==
  /\ remarks \in Seq(Line) /\ thread \in Seq(Line)
  /\ \A i, j \in DOMAIN thread : thread[i].id = thread[j].id => i = j
  /\ reader \in [Readers -> Visit] /\ \A p \in Readers : Collects(reader[p])

LEMMA NoRows ==
  RowsOf(<<>>) = {}
<1>1. DOMAIN <<>> = {}
  OBVIOUS
<1> QED  BY <1>1 DEF RowsOf

LEMMA ThreadInvInit ==
  ASSUME ThreadInit
  PROVE  ThreadInv
<1> DEFINE none == <<>>
<1>1. none \in Seq(Line) /\ DOMAIN none = {} /\ RowsOf(none) = {}
  BY EmptySeq, NoRows
<1>2. remarks = none /\ thread = none /\ reader = [p \in Readers |-> Idling]
  BY DEF ThreadInit
<1>3. Idling = [at |-> "idle", items |-> none, todo |-> none]
  BY DEF Idling
<1> HIDE DEF none
<1>4. Idling \in Visit
  BY <1>1, <1>3 DEF Visit, Places
<1>5. Idling.items = none /\ Idling.todo = none
  BY <1>3
<1>6. Collects(Idling)
  BY <1>1, <1>4, <1>5 DEF Collects, none
<1> QED  BY <1>1, <1>2, <1>4, <1>6 DEF ThreadInv

LEMMA ThreadInvIsWhole ==
  ASSUME ThreadInv
  PROVE  ThreadsAreWhole
<1>1. /\ DOMAIN ConversationContext = DOMAIN thread
      /\ \A i \in DOMAIN thread : ConversationContext[i][1] = thread[i].id
  BY DEF ConversationContext
<1>2. \A i, j \in DOMAIN ConversationContext : ConversationContext[i][1] = ConversationContext[j][1] => i = j
  BY <1>1 DEF ThreadInv
<1>3. ASSUME NEW p \in Readers, reader[p].at = "history", NEW c \in RowsOf(reader[p].items)
      PROVE  \E line \in RowsOf(ConversationContext) : line[1] = c.id
  <2>1. Collects(reader[p]) /\ reader[p].todo = <<>>
    BY <1>3 DEF ThreadInv, Collects
  <2>2. InThread(c.id)
    BY <1>3, <2>1, NoRows DEF Collects
  <2>3. PICK k \in DOMAIN thread : thread[k].id = c.id
    BY <2>2 DEF InThread
  <2> QED  BY <1>1, <2>3 DEF RowsOf
<1> QED  BY <1>2, <1>3 DEF ThreadsAreWhole

\* What was in the table stays there.
LEMMA CollectsStays ==
  ASSUME NEW state, Collects(state), \A id : InThread(id) => InThread(id)'
  PROVE  Collects(state)'
BY DEF Collects

LEMMA ThreadInvReads ==
  ASSUME ThreadInv, NEW p \in Readers, NEW inline \in BOOLEAN, ReadComments(p, inline)
  PROVE  ThreadInv'
<1> DEFINE old == reader[p]
<1>1. PICK failed \in BOOLEAN :
        LET got == IF failed THEN <<>> ELSE Matching(remarks, {c \in RowsOf(remarks) : c.inline = inline})
        IN reader' = [reader EXCEPT ![p] =
             [at |-> IF inline THEN "last" ELSE "first", items |-> @.items \o got, todo |-> got]]
  BY DEF ReadComments
<1> DEFINE got == IF failed THEN <<>> ELSE Matching(remarks, {c \in RowsOf(remarks) : c.inline = inline})
           new == [at |-> IF inline THEN "last" ELSE "first", items |-> old.items \o got, todo |-> got]
<1>2. reader' = [reader EXCEPT ![p] = new] /\ remarks' = remarks /\ thread' = thread
  BY <1>1 DEF ReadComments
<1>3. remarks \in Seq(Line) /\ old \in Visit /\ Collects(old) /\ reader \in [Readers -> Visit]
  BY DEF ThreadInv
<1>4. old.todo = <<>> /\ old.items \in Seq(Line)
  BY <1>3 DEF ReadComments, Collects, Visit
<1>5. got \in Seq(Line)
  BY <1>3, MatchingUnfolds, EmptySeq
<1> HIDE DEF got
<1> DEFINE items == old.items \o got
<1>6. items \in Seq(Line) /\ RowsOf(items) \subseteq RowsOf(old.items) \cup RowsOf(got)
  BY <1>4, <1>5, RowsOfParts, ConcatProperties
<1> HIDE DEF items, old
<1>7. new.items = items /\ new.todo = got /\ new.at \in {"first", "last"}
  BY DEF items
<1>8. new \in Visit
  BY <1>5, <1>6, <1>7 DEF Visit, Places, items
<1> HIDE DEF new
<1>9. \A c \in RowsOf(old.items) : InThread(c.id)
  BY <1>3, <1>4, NoRows DEF Collects
<1>10. Collects(new)
  BY <1>6, <1>7, <1>8, <1>9 DEF Collects
<1>11. \A id : InThread(id)' <=> InThread(id)
  BY <1>2 DEF InThread
<1>12. \A state : Collects(state)' <=> Collects(state)
  BY <1>11 DEF Collects
<1>13. reader' \in [Readers -> Visit] /\ \A q \in Readers : Collects(reader'[q])
  BY <1>2, <1>3, <1>8, <1>10 DEF ThreadInv
<1> QED  BY <1>2, <1>12, <1>13 DEF ThreadInv

LEMMA ThreadInvCollects ==
  ASSUME ThreadInv, NEW p \in Readers, CollectFeedback(p)
  PROVE  ThreadInv'
<1> DEFINE old == reader[p]
<1>1. old \in Visit /\ Collects(old) /\ reader \in [Readers -> Visit] /\ remarks' = remarks
  BY DEF ThreadInv, CollectFeedback
<1>2. old.at \in {"first", "last"} /\ old.items \in Seq(Line) /\ old.todo \in Seq(Line)
  BY <1>1 DEF CollectFeedback, Visit
<1>3. CASE old.todo = <<>>
  <2> DEFINE new == [old EXCEPT !.at = IF @ = "first" THEN "inline" ELSE "history"]
  <2>1. reader' = [reader EXCEPT ![p] = new] /\ thread' = thread
    BY <1>1, <1>3 DEF CollectFeedback
  <2>2. new.items = old.items /\ new.todo = old.todo /\ new.at \in {"inline", "history"}
    BY <1>1 DEF Visit
  <2>3. new \in Visit
    BY <1>1, <2>2 DEF Visit, Places
  <2> HIDE DEF new
  <2>4. Collects(new)
    BY <1>1, <1>3, <2>2, <2>3 DEF Collects
  <2>5. \A id : InThread(id)' <=> InThread(id)
    BY <2>1 DEF InThread
  <2>6. \A state : Collects(state)' <=> Collects(state)
    BY <2>5 DEF Collects
  <2>7. reader' \in [Readers -> Visit] /\ \A q \in Readers : Collects(reader'[q])
    BY <1>1, <2>1, <2>3, <2>4 DEF ThreadInv
  <2> QED  BY <1>1, <2>1, <2>6, <2>7 DEF ThreadInv
<1>4. CASE old.todo # <<>>
  <2> DEFINE rest == Tail(old.todo)
  <2>10. PICK first : first = Head(old.todo)
    OBVIOUS
  <2>11. PICK new : new = [old EXCEPT !.todo = rest]
    OBVIOUS
  <2>1. reader' = [reader EXCEPT ![p] = new] /\ RecordConversation(first)
    BY <1>1, <1>4, <2>10, <2>11 DEF CollectFeedback
  <2>2. first \in Line /\ rest \in Seq(Line) /\ RowsOf(old.todo) \subseteq {first} \cup RowsOf(rest)
    BY <1>2, <1>4, <2>10, HeadTailProperties, RowsOfParts
  <2> HIDE DEF rest
  <2>3. new.items = old.items /\ new.todo = rest /\ new.at = old.at
    BY <1>1, <2>11 DEF Visit
  <2>4. new \in Visit
    BY <1>1, <2>2, <2>11 DEF Visit
  <2>5. thread \in Seq(Line) /\ Len(thread) \in Nat /\ DOMAIN thread = 1..Len(thread)
    BY LenProperties DEF ThreadInv
  <2>6. /\ thread' \in Seq(Line)
        /\ \A i, j \in DOMAIN thread' : thread'[i].id = thread'[j].id => i = j
        /\ \A id : InThread(id) => InThread(id)'
        /\ InThread(first.id)'
    <3>1. CASE \E i \in DOMAIN thread : thread[i].id = first.id
      <4>1. thread' = thread
        BY <2>1, <3>1 DEF RecordConversation
      <4> QED  BY <2>5, <3>1, <4>1 DEF ThreadInv, InThread
    <3>2. CASE ~\E i \in DOMAIN thread : thread[i].id = first.id
      <4> DEFINE more == Append(thread, first)
                 n == Len(thread)
      <4>1. thread' = more
        BY <2>1, <3>2 DEF RecordConversation
      <4>2. more \in Seq(Line)
        BY <2>2, <2>5, AppendProperties
      <4>3. Len(more) = n + 1
        BY <2>2, <2>5, AppendProperties
      <4>4. \A i \in 1..n : more[i] = thread[i]
        BY <2>2, <2>5, AppendProperties
      <4>5. more[n + 1] = first
        BY <2>2, <2>5, AppendProperties
      <4>6. DOMAIN more = 1..(n + 1)
        BY <4>2, <4>3, LenProperties
      <4> HIDE DEF more
      <4>7. \A i \in 1..(n + 1) : i = n + 1 \/ i \in 1..n
        BY <2>5
      <4>8. \A i \in 1..n : i \in 1..(n + 1)
        BY <2>5
      <4>11. n + 1 \in 1..(n + 1)
        BY <2>5
      <4> HIDE DEF n
      <4>9. \A i, j \in DOMAIN more : more[i].id = more[j].id => i = j
        <5>1. \A i \in 1..n : more[i].id # first.id
          BY <2>5, <3>2, <4>4 DEF n
        <5>2. \A i, j \in 1..n : more[i].id = more[j].id => i = j
          BY <2>5, <4>4 DEF n, ThreadInv
        <5> QED  BY <4>5, <4>6, <4>7, <5>1, <5>2
      <4>10. \A id : InThread(id) => InThread(id)'
        BY <2>5, <4>1, <4>4, <4>6, <4>8 DEF InThread, n
      <4> QED  BY <4>1, <4>2, <4>5, <4>6, <4>9, <4>10, <4>11 DEF InThread
    <3> QED  BY <3>1, <3>2
  <2>7. Collects(new)'
    <3> SUFFICES ASSUME NEW c \in RowsOf(new.items) PROVE c \in RowsOf(new.todo) \/ InThread(c.id)'
      BY <1>2, <2>3, <2>4 DEF Collects
    <3>1. c \in RowsOf(old.todo) \/ InThread(c.id)
      BY <1>1, <2>3 DEF Collects
    <3> QED  BY <2>2, <2>3, <2>6, <3>1
  <2>8. ASSUME NEW q \in Readers PROVE Collects(reader[q])'
    <3>1. CASE q = p
      <4>1. reader'[q] = new
        BY <1>1, <2>1, <3>1
      <4> QED  BY <2>7, <4>1 DEF Collects
    <3>2. CASE q # p
      <4>1. reader'[q] = reader[q] /\ Collects(reader[q])
        BY <1>1, <2>1, <3>2 DEF ThreadInv
      <4> QED  BY <2>6, <4>1 DEF Collects
    <3> QED  BY <3>1, <3>2
  <2>9. reader' \in [Readers -> Visit]
    BY <1>1, <2>1, <2>4
  <2> QED  BY <1>1, <2>6, <2>8, <2>9 DEF ThreadInv
<1> QED  BY <1>3, <1>4

LEMMA ThreadInvNext ==
  ASSUME RecordsAssumption, ThreadInv, ThreadNext
  PROVE  ThreadInv'
<1>0. remarks \in Seq(Line) /\ Len(remarks) \in Nat /\ DOMAIN remarks = 1..Len(remarks)
  BY LenProperties DEF ThreadInv
<1>1. ASSUME remarks' \in Seq(Line), UNCHANGED <<thread, reader>> PROVE ThreadInv'
  BY <1>1 DEF ThreadInv, Collects, InThread
<1>2. CASE PeopleRemark
  <2>1. PICK inline \in BOOLEAN : remarks' = Append(remarks, Remark(Len(remarks) + 1, inline))
    BY <1>2 DEF PeopleRemark
  <2>2. Remark(Len(remarks) + 1, inline) \in Line
    BY <1>0 DEF Remark, Line
  <2>3. remarks' \in Seq(Line)
    BY <1>0, <2>1, <2>2, AppendProperties
  <2> QED  BY <1>1, <1>2, <2>3 DEF PeopleRemark
<1>3. CASE PeopleEdit
  <2>1. PICK i \in DOMAIN remarks : remarks' = [remarks EXCEPT ![i].edited = TRUE]
    BY <1>3 DEF PeopleEdit
  <2> DEFINE row == [remarks[i] EXCEPT !.edited = TRUE]
  <2>2. remarks[i] \in Line
    BY <1>0, ElementOfSeq
  <2>3. row \in Line
    BY <2>2 DEF Line
  <2>4. remarks' = [remarks EXCEPT ![i] = row]
    BY <2>1
  <2>5. remarks' \in Seq(Line)
    BY <1>0, <2>3, <2>4, ExceptSeq
  <2> QED  BY <1>1, <1>3, <2>5 DEF PeopleEdit
<1>4. CASE \E p \in Readers : \E inline \in BOOLEAN : ReadComments(p, inline)
  BY <1>4, ThreadInvReads
<1>5. CASE \E p \in Readers : CollectFeedback(p)
  BY <1>5, ThreadInvCollects
<1>6. ASSUME NEW p \in Readers, CheckSinglePr(p) PROVE ThreadInv'
  <2>1. remarks' = remarks /\ thread' = thread /\ reader' = [reader EXCEPT ![p] = Idling]
    BY <1>6 DEF CheckSinglePr
  <2> DEFINE none == <<>>
  <2>2. none \in Seq(Line) /\ RowsOf(none) = {}
    BY EmptySeq, NoRows
  <2>3. Idling = [at |-> "idle", items |-> none, todo |-> none]
    BY DEF Idling
  <2> HIDE DEF none
  <2>4. Idling \in Visit /\ Idling.items = none /\ Idling.todo = none
    BY <2>2, <2>3 DEF Visit, Places
  <2>5. Collects(Idling)
    BY <2>2, <2>4 DEF Collects, none
  <2>6. \A id : InThread(id)' <=> InThread(id)
    BY <2>1 DEF InThread
  <2>7. \A state : Collects(state)' <=> Collects(state)
    BY <2>6 DEF Collects
  <2>8. reader' \in [Readers -> Visit] /\ \A q \in Readers : Collects(reader'[q])
    BY <2>1, <2>4, <2>5 DEF ThreadInv
  <2> QED  BY <2>1, <2>7, <2>8 DEF ThreadInv
<1> QED  BY <1>2, <1>3, <1>4, <1>5, <1>6 DEF ThreadNext

LEMMA ThreadInvStutters ==
  ASSUME ThreadInv, UNCHANGED threadVars
  PROVE  ThreadInv'
BY DEF threadVars, ThreadInv, Collects, InThread

(***************************************************************************)
(* Counting                                                                *)
(***************************************************************************)
PositionsOf(list, wanted) == {i \in DOMAIN list : list[i] \in wanted}

\* A map that is one to one and onto.
IsMatching(f, S, T) ==
  /\ f \in [S -> T]
  /\ \A a, b \in S : f[a] = f[b] => a = b
  /\ \A t \in T : \E s \in S : f[s] = t

LEMMA SameCount ==
  ASSUME NEW S, IsFiniteSet(S), NEW T, NEW f, IsMatching(f, S, T)
  PROVE  IsFiniteSet(T) /\ Cardinality(T) = Cardinality(S)
<1>1. f \in Bijection(S, T)
  BY Fun_IsBij DEF IsMatching
<1>2. ExistsBijection(S, T)
  BY <1>1, Fun_ExistsBij
<1> QED  BY <1>2, FS_Bijection

LEMMA CountMatches ==
  ASSUME NEW S, IsFiniteSet(S)
  PROVE  /\ Cardinality(S) \in Nat
         /\ \E f : IsMatching(f, S, 1..Cardinality(S))
<1>1. Cardinality(S) \in Nat /\ ExistsBijection(1..Cardinality(S), S)
  BY FS_CardinalityType
<1>2. ExistsBijection(S, 1..Cardinality(S))
  BY <1>1, Fun_ExistsBijSymmetric
<1>3. PICK f \in Bijection(S, 1..Cardinality(S)) : TRUE
  BY <1>2, Fun_ExistsBij
<1>4. IsMatching(f, S, 1..Cardinality(S))
  <2> DEFINE upto == 1..Cardinality(S)
  <2> HIDE DEF upto
  <2>0. f \in Bijection(S, upto)
    BY <1>3 DEF upto
  <2>1. f \in [S -> upto] /\ (\A a, b \in S : f[a] = f[b] => a = b) /\ \A t \in upto : \E s \in S : f[s] = t
    BY <2>0, Fun_BijectionProperties
  <2>2. IsMatching(f, S, upto)
    BY <2>1 DEF IsMatching
  <2> QED  BY <2>2 DEF upto
<1> QED  BY <1>1, <1>4

\* Figures that count the members of a set by a key, each key once.
IsTally(figures, whole, key) ==
  /\ \A i \in whole : key[i] \in DOMAIN figures
  /\ \A x \in DOMAIN figures : figures[x] = Cardinality({i \in whole : key[i] = x})

LEMMA SumOfTally ==
  ASSUME NEW whole, IsFiniteSet(whole), NEW figures, NEW key, IsTally(figures, whole, key)
  PROVE  Sum(figures) = Cardinality(whole)
<1> DEFINE part(x) == {i \in whole : key[i] = x}
           number == [x \in DOMAIN figures |-> CHOOSE f : IsMatching(f, part(x), 1..Cardinality(part(x)))]
           pairs == UNION {{x} \X (1..figures[x]) : x \in DOMAIN figures}
           g == [i \in whole |-> <<key[i], number[key[i]][i]>>]
<1>1. ASSUME NEW x \in DOMAIN figures
      PROVE  IsMatching(number[x], part(x), 1..figures[x])
  <2>1. IsFiniteSet(part(x))
    BY FS_Subset
  <2>2. figures[x] = Cardinality(part(x))
    BY DEF IsTally
  <2> HIDE DEF part
  <2>3. \E f : IsMatching(f, part(x), 1..Cardinality(part(x)))
    BY <2>1, CountMatches
  <2> QED  BY <2>2, <2>3
<1> HIDE DEF number
<1>2. \A i \in whole : key[i] \in DOMAIN figures /\ i \in part(key[i])
  BY DEF IsTally
<1>3. ASSUME NEW i \in whole PROVE g[i] \in pairs
  <2>1. PICK x \in DOMAIN figures : x = key[i] /\ i \in part(x)
    BY <1>2
  <2>2. number[x] \in [part(x) -> 1..figures[x]]
    BY <1>1 DEF IsMatching
  <2> HIDE DEF part
  <2>3. number[x][i] \in 1..figures[x]
    BY <2>1, <2>2
  <2> QED  BY <2>1, <2>3
<1>4. ASSUME NEW i \in whole, NEW j \in whole, g[i] = g[j] PROVE i = j
  <2>1. key[i] = key[j] /\ number[key[i]][i] = number[key[i]][j]
    BY <1>4
  <2>2. i \in part(key[i]) /\ j \in part(key[i])
    BY <2>1
  <2> QED  BY <1>1, <1>2, <2>1, <2>2 DEF IsMatching
<1>5. ASSUME NEW t \in pairs PROVE \E i \in whole : g[i] = t
  <2>1. PICK x \in DOMAIN figures : t \in {x} \X (1..figures[x])
    OBVIOUS
  <2>2. PICK k \in 1..figures[x] : t = <<x, k>>
    BY <2>1
  <2>3. PICK i \in part(x) : number[x][i] = k
    BY <1>1 DEF IsMatching
  <2> QED  BY <2>2, <2>3
<1>6. IsMatching(g, whole, pairs)
  <2>1. g \in [whole -> pairs]
    BY <1>3
  <2> HIDE DEF g, pairs
  <2> QED  BY <1>4, <1>5, <2>1 DEF IsMatching
<1> HIDE DEF g
<1>7. Cardinality(pairs) = Cardinality(whole)
  <2> HIDE DEF pairs
  <2> QED  BY <1>6, SameCount
<1> QED  BY <1>7 DEF Sum

\* What a list has of the wanted rows.
IsMatched(list, wanted, found) ==
  /\ Len(found) = Cardinality(PositionsOf(list, wanted)) /\ IsFiniteSet(PositionsOf(list, wanted))
  /\ RowsOf(found) = RowsOf(list) \cap wanted
  /\ RowsOf(list) \subseteq wanted => found = list

LEMMA AppendRow ==
  ASSUME NEW S, NEW list \in Seq(S), NEW e \in S
  PROVE  /\ Append(list, e) \in Seq(S) /\ Len(Append(list, e)) = Len(list) + 1
         /\ RowsOf(Append(list, e)) = RowsOf(list) \cup {e}
         /\ \A wanted : /\ PositionsOf(Append(list, e), wanted) =
                             PositionsOf(list, wanted) \cup (IF e \in wanted THEN {Len(list) + 1} ELSE {})
                        /\ Len(list) + 1 \notin PositionsOf(list, wanted)
<1> DEFINE more == Append(list, e)
           n == Len(list)
<1>0. n \in Nat /\ DOMAIN list = 1..n
  BY LenProperties
<1>1. more \in Seq(S)
  BY AppendProperties
<1>2. Len(more) = n + 1
  BY AppendProperties
<1>3. \A i \in 1..n : more[i] = list[i]
  BY AppendProperties
<1>4. more[n + 1] = e
  BY AppendProperties
<1>5. DOMAIN more = 1..(n + 1)
  BY <1>1, <1>2, LenProperties
<1> HIDE DEF more
<1>6. /\ \A i \in 1..(n + 1) : i = n + 1 \/ i \in 1..n
      /\ \A i \in 1..n : i \in 1..(n + 1)
      /\ n + 1 \in 1..(n + 1) /\ n + 1 \notin 1..n
  BY <1>0
<1> HIDE DEF n
<1>7. RowsOf(more) = RowsOf(list) \cup {e}
  BY <1>0, <1>3, <1>4, <1>5, <1>6 DEF RowsOf
<1>8. ASSUME NEW wanted
      PROVE  /\ PositionsOf(more, wanted) = PositionsOf(list, wanted) \cup (IF e \in wanted THEN {n + 1} ELSE {})
             /\ n + 1 \notin PositionsOf(list, wanted)
  BY <1>0, <1>3, <1>4, <1>5, <1>6 DEF PositionsOf
<1> QED  BY <1>1, <1>2, <1>7, <1>8 DEF more, n

LEMMA MatchingIs ==
  ASSUME NEW S, NEW list \in Seq(S), NEW wanted
  PROVE  IsMatched(list, wanted, Matching(list, wanted))
<1> DEFINE Holds(l) == IsMatched(l, wanted, Matching(l, wanted))
           T == {n \in Nat : \A l \in Seq(S) : Len(l) = n => Holds(l)}
<1>1. 0 \in T
  <2> SUFFICES ASSUME NEW l \in Seq(S), Len(l) = 0 PROVE Holds(l)
    OBVIOUS
  <2> DEFINE none == <<>>
  <2>1. l = none
    BY EmptySeq
  <2>2. Matching(none, wanted) = none /\ Len(none) = 0 /\ DOMAIN none = {} /\ RowsOf(none) = {}
    BY MatchingUnfolds, EmptySeq, NoRows
  <2> HIDE DEF none
  <2>3. PositionsOf(none, wanted) = {}
    BY <2>2 DEF PositionsOf
  <2>4. IsFiniteSet({}) /\ Cardinality({}) = 0
    BY FS_EmptySet
  <2>5. Holds(none)
    BY <2>2, <2>3, <2>4 DEF IsMatched
  <2> HIDE DEF Holds
  <2> QED  BY <2>1, <2>5
<1>2. ASSUME NEW n \in Nat, n \in T PROVE n + 1 \in T
  <2> SUFFICES ASSUME NEW l \in Seq(S), Len(l) = n + 1 PROVE Holds(l)
    BY <1>2
  <2>1. PICK rest \in Seq(S), e \in S : Len(rest) = n /\ l = Append(rest, e)
    BY LastRow
  <2> DEFINE found == Matching(rest, wanted)
             P == PositionsOf(rest, wanted)
  <2>2. IsMatched(rest, wanted, found)
    <3> HIDE DEF Holds
    <3>1. Holds(rest)
      BY <1>2, <2>1
    <3> QED  BY <3>1 DEF Holds
  <2>3. found \in Seq(S) /\ Matching(l, wanted) = IF e \in wanted THEN Append(found, e) ELSE found
    <3>1. /\ found \in Seq(S)
          /\ \A x \in S : Matching(Append(rest, x), wanted) = IF x \in wanted THEN Append(found, x) ELSE found
      BY MatchingUnfolds
    <3> HIDE DEF found, Holds, T
    <3> QED  BY <2>1, <3>1
  <2>4. /\ RowsOf(l) = RowsOf(rest) \cup {e}
        /\ PositionsOf(l, wanted) = P \cup (IF e \in wanted THEN {n + 1} ELSE {})
        /\ n + 1 \notin P
    BY <2>1, AppendRow
  <2>5. Len(found) = Cardinality(P) /\ IsFiniteSet(P) /\ RowsOf(found) = RowsOf(rest) \cap wanted
        /\ (RowsOf(rest) \subseteq wanted => found = rest)
    BY <2>2 DEF IsMatched
  <2> HIDE DEF found, P
  <2>6. CASE e \in wanted
    <3>1. Len(Append(found, e)) = Len(found) + 1 /\ RowsOf(Append(found, e)) = RowsOf(found) \cup {e}
      BY <2>3, AppendRow
    <3>2. IsFiniteSet(P \cup {n + 1}) /\ Cardinality(P \cup {n + 1}) = Cardinality(P) + 1
      BY <2>4, <2>5, FS_AddElement
    <3>3. Matching(l, wanted) = Append(found, e) /\ PositionsOf(l, wanted) = P \cup {n + 1}
      BY <2>3, <2>4, <2>6
    <3>4. RowsOf(l) \subseteq wanted => Append(found, e) = l
      BY <2>1, <2>4, <2>5
    <3>5. RowsOf(Append(found, e)) = RowsOf(l) \cap wanted
      BY <2>4, <2>5, <2>6, <3>1
    <3> QED  BY <2>5, <3>1, <3>2, <3>3, <3>4, <3>5 DEF IsMatched
  <2>7. CASE e \notin wanted
    <3>1. Matching(l, wanted) = found /\ PositionsOf(l, wanted) = P
      BY <2>3, <2>4, <2>7
    <3>2. ~(RowsOf(l) \subseteq wanted) /\ RowsOf(found) = RowsOf(l) \cap wanted
      BY <2>4, <2>5, <2>7
    <3> QED  BY <2>5, <3>1, <3>2 DEF IsMatched
  <2> QED  BY <2>6, <2>7
<1> HIDE DEF Holds
<1>3. Nat \subseteq T
  <2> HIDE DEF T
  <2> QED  BY <1>1, <1>2, Induction
<1>4. Len(list) \in Nat
  BY LenProperties
<1>5. Holds(list)
  BY <1>3, <1>4
<1> QED  BY <1>5 DEF Holds

\* A list from its newest row on.
LEMMA NewestIs ==
  ASSUME NEW S, NEW list \in Seq(S), NEW limit \in Nat
  PROVE  LET n == IF Len(list) < limit THEN Len(list) ELSE limit
         IN /\ Newest(list, limit) \in Seq(S) /\ Len(Newest(list, limit)) = n
            /\ DOMAIN Newest(list, limit) = 1..n /\ n \in Nat /\ n <= Len(list)
            /\ \A i \in 1..n : Newest(list, limit)[i] = list[(Len(list) - i) + 1] /\ (Len(list) - i) + 1 \in 1..Len(list)
<1> DEFINE n == IF Len(list) < limit THEN Len(list) ELSE limit
           l == [i \in 1..n |-> list[(Len(list) - i) + 1]]
<1>1. Len(list) \in Nat
  BY LenProperties
<1>2. n \in Nat /\ n <= Len(list)
  BY <1>1
<1>3. \A i \in 1..n : (Len(list) - i) + 1 \in 1..Len(list)
  BY <1>1, <1>2
<1>4. Newest(list, limit) = l
  BY DEF Newest
<1>5. \A i \in 1..n : list[(Len(list) - i) + 1] \in S
  BY <1>3, ElementOfSeq
<1> HIDE DEF n
<1>6. l \in [1..n -> S] /\ DOMAIN l = 1..n
  BY <1>5
<1>7. l \in Seq(S)
  BY <1>2, <1>6, SeqDef
<1>8. Len(l) = n
  BY <1>2, <1>6, <1>7, LenProperties
<1> QED  BY <1>2, <1>3, <1>4, <1>6, <1>7, <1>8 DEF n

\* The whole list from its newest row on has the same rows as often.
LEMMA NewestCounts ==
  ASSUME NEW S, NEW list \in Seq(S), NEW limit \in Nat, Len(list) <= limit
  PROVE  /\ Newest(list, limit) \in Seq(S) /\ Len(Newest(list, limit)) = Len(list)
         /\ RowsOf(Newest(list, limit)) = RowsOf(list)
         /\ \A wanted : Len(Matching(Newest(list, limit), wanted)) = Len(Matching(list, wanted))
<1> DEFINE m == Newest(list, limit)
           n == Len(list)
<1>1. n \in Nat /\ DOMAIN list = 1..n
  BY LenProperties
<1>2. /\ m \in Seq(S) /\ Len(m) = n /\ DOMAIN m = 1..n
      /\ \A i \in 1..n : m[i] = list[(n - i) + 1] /\ (n - i) + 1 \in 1..n
  <2>1. n = IF n < limit THEN n ELSE limit
    <3>1. \A k \in Nat : k <= limit => k = IF k < limit THEN k ELSE limit
      BY ONLY limit \in Nat
    <3> QED  BY <1>1, <3>1
  <2> QED  BY <2>1, NewestIs DEF n
<1> HIDE DEF m, n
<1>3. \A i \in 1..n : (n - ((n - i) + 1)) + 1 = i
  BY <1>1
<1>4. \A i \in 1..n : m[(n - i) + 1] = list[i] /\ (n - i) + 1 \in 1..n
  BY <1>2, <1>3
<1>5. RowsOf(m) = RowsOf(list)
  BY <1>1, <1>2, <1>4 DEF RowsOf
<1>6. ASSUME NEW wanted PROVE Len(Matching(m, wanted)) = Len(Matching(list, wanted))
  <2> DEFINE P == PositionsOf(list, wanted)
             Q == PositionsOf(m, wanted)
             f == [i \in P |-> (n - i) + 1]
  <2>1. P = {i \in 1..n : list[i] \in wanted} /\ Q = {i \in 1..n : m[i] \in wanted}
    BY <1>1, <1>2 DEF PositionsOf
  <2>2. IsFiniteSet(P) /\ Len(Matching(list, wanted)) = Cardinality(P)
    BY MatchingIs DEF n, IsMatched
  <2>3. Len(Matching(m, wanted)) = Cardinality(Q)
    BY <1>2, MatchingIs DEF IsMatched
  <2> HIDE DEF P, Q
  <2>4. f \in [P -> Q]
    BY <1>4, <2>1
  <2>5. ASSUME NEW a \in P, NEW b \in P, f[a] = f[b] PROVE a = b
    <3>1. a \in 1..n /\ b \in 1..n /\ (n - a) + 1 = (n - b) + 1
      BY <2>1, <2>5
    <3> QED  BY <1>1, <3>1
  <2>6. ASSUME NEW t \in Q PROVE \E s \in P : f[s] = t
    <3>1. (n - t) + 1 \in P
      BY <1>2, <2>1
    <3>2. (n - ((n - t) + 1)) + 1 = t
      BY <1>3, <2>1
    <3> QED  BY <3>1, <3>2
  <2> HIDE DEF f
  <2>7. IsMatching(f, P, Q)
    BY <2>4, <2>5, <2>6 DEF IsMatching
  <2>8. Cardinality(Q) = Cardinality(P)
    BY <2>2, <2>7, SameCount
  <2> QED  BY <2>2, <2>3, <2>8
<1> QED  BY <1>2, <1>5, <1>6 DEF m, n

(***************************************************************************)
(* Lists and figures                                                       *)
(***************************************************************************)
Pull == [repo : Repos, status : Statuses]
RunRow == [repo : Repos, state : RunState]

BoardInv ==
  /\ pulls \in Seq(Pull) /\ Len(pulls) <= MaxPulls
  /\ runs \in Seq(RunRow) /\ Len(runs) <= MaxRuns

LEMMA BoardInvInit ==
  ASSUME RecordsAssumption, BoardInit
  PROVE  BoardInv
<1> DEFINE none == <<>>
<1>1. pulls = none /\ runs = none
  BY DEF BoardInit
<1>2. none \in Seq(Pull) /\ none \in Seq(RunRow) /\ Len(none) = 0
  BY EmptySeq
<1>3. 0 <= MaxPulls /\ 0 <= MaxRuns
  BY DEF RecordsAssumption
<1> HIDE DEF none
<1> QED  BY <1>1, <1>2, <1>3 DEF BoardInv

LEMMA BoardInvNext ==
  ASSUME RecordsAssumption, BoardInv, BoardNext
  PROVE  BoardInv'
<1>0. /\ pulls \in Seq(Pull) /\ Len(pulls) \in Nat /\ DOMAIN pulls = 1..Len(pulls) /\ Len(pulls) <= MaxPulls
      /\ runs \in Seq(RunRow) /\ Len(runs) \in Nat /\ DOMAIN runs = 1..Len(runs) /\ Len(runs) <= MaxRuns
      /\ MaxPulls \in Nat /\ MaxRuns \in Nat
  BY LenProperties DEF BoardInv, RecordsAssumption
<1>1. CASE StartRun \/ FinishRun
  BY <1>1 DEF StartRun, FinishRun, BoardInv
<1>2. ASSUME NEW r \in Repos, RecordPr(r) PROVE BoardInv'
  <2> DEFINE row == [repo |-> r, status |-> "open"]
  <2>1. row \in Pull
    BY DEF Pull, Statuses
  <2>2. pulls' = Append(pulls, row) /\ runs' = runs /\ Len(pulls) < MaxPulls
    BY <1>2 DEF RecordPr
  <2> HIDE DEF row
  <2>3. pulls' \in Seq(Pull)
    BY <1>0, <2>1, <2>2, AppendProperties
  <2>4. Len(pulls') = Len(pulls) + 1
    BY <1>0, <2>1, <2>2, AppendProperties
  <2> QED  BY <1>0, <2>2, <2>3, <2>4 DEF BoardInv
<1>3. ASSUME NEW r \in Repos, InsertRun(r) PROVE BoardInv'
  <2> DEFINE row == [repo |-> r, state |-> "discovered"]
  <2>1. row \in RunRow
    BY DEF RunRow, RunState, ForwardStates
  <2>2. runs' = Append(runs, row) /\ pulls' = pulls /\ Len(runs) < MaxRuns
    BY <1>3 DEF InsertRun
  <2> HIDE DEF row
  <2>3. runs' \in Seq(RunRow)
    BY <1>0, <2>1, <2>2, AppendProperties
  <2>4. Len(runs') = Len(runs) + 1
    BY <1>0, <2>1, <2>2, AppendProperties
  <2> QED  BY <1>0, <2>2, <2>3, <2>4 DEF BoardInv
<1>4. ASSUME NEW i \in DOMAIN pulls, NEW status \in Statuses, UpdatePrStatus(i, status) PROVE BoardInv'
  <2> DEFINE row == [pulls[i] EXCEPT !.status = status]
  <2>1. pulls[i] \in Pull
    BY <1>0, ElementOfSeq
  <2>2. row \in Pull
    BY <2>1 DEF Pull
  <2>3. pulls' = [pulls EXCEPT ![i] = row] /\ runs' = runs
    BY <1>4 DEF UpdatePrStatus
  <2> HIDE DEF row
  <2>4. pulls' \in Seq(Pull)
    BY <1>0, <2>2, <2>3, ExceptSeq
  <2>5. Len(pulls') = Len(pulls)
    BY <1>0, <2>2, <2>3, ExceptSeq
  <2> QED  BY <1>0, <2>3, <2>4, <2>5 DEF BoardInv
<1>5. ASSUME NEW i \in DOMAIN runs, NEW to \in RunState, TransitionRun(i, to) PROVE BoardInv'
  <2> DEFINE row == [runs[i] EXCEPT !.state = to]
  <2>1. runs[i] \in RunRow
    BY <1>0, ElementOfSeq
  <2>2. row \in RunRow
    BY <2>1 DEF RunRow
  <2>3. runs' = [runs EXCEPT ![i] = row] /\ pulls' = pulls
    BY <1>5 DEF TransitionRun
  <2> HIDE DEF row
  <2>4. runs' \in Seq(RunRow)
    BY <1>0, <2>2, <2>3, ExceptSeq
  <2>5. Len(runs') = Len(runs)
    BY <1>0, <2>2, <2>3, ExceptSeq
  <2> QED  BY <1>0, <2>3, <2>4, <2>5 DEF BoardInv
<1> QED  BY <1>1, <1>2, <1>3, <1>4, <1>5 DEF BoardNext, PullsNext, RunsNext

LEMMA BoardInvStutters ==
  ASSUME BoardInv, UNCHANGED boardVars
  PROVE  BoardInv'
BY DEF boardVars, BoardInv

\* The places of the rows of a list that have a status of some.
WithStatus(list, statuses) == {i \in DOMAIN list : list[i].status \in statuses}
OfRepo(list, statuses, r) == {i \in WithStatus(list, statuses) : list[i].repo = r}

LEMMA PullCounts ==
  ASSUME NEW list \in Seq(Pull), NEW statuses, statuses \subseteq Statuses
  PROVE  /\ IsFiniteSet(WithStatus(list, statuses))
         /\ Counted(list, statuses) = Cardinality(WithStatus(list, statuses))
         /\ \A r \in Repos : CountOf(list, r, statuses) = Cardinality(OfRepo(list, statuses, r))
<1>1. DOMAIN list = 1..Len(list)
  BY LenProperties
<1>2. \A i \in DOMAIN list : list[i] \in Pull
  BY <1>1, ElementOfSeq
<1> DEFINE these == [repo : Repos, status : statuses]
<1>3. PositionsOf(list, these) = WithStatus(list, statuses)
  BY <1>2 DEF PositionsOf, WithStatus, Pull
<1>4. IsMatched(list, these, Matching(list, these))
  BY MatchingIs
<1>5. ASSUME NEW r \in Repos PROVE CountOf(list, r, statuses) = Cardinality(OfRepo(list, statuses, r))
  <2> DEFINE those == [repo : {r}, status : statuses]
  <2>1. PositionsOf(list, those) = OfRepo(list, statuses, r)
    BY <1>2 DEF PositionsOf, WithStatus, OfRepo, Pull
  <2>2. IsMatched(list, those, Matching(list, those))
    BY MatchingIs
  <2> QED  BY <2>1, <2>2 DEF CountOf, IsMatched
<1> QED  BY <1>3, <1>4, <1>5 DEF Counted, IsMatched

\* The counts of the repositories add up.
LEMMA ReposAddUp ==
  ASSUME NEW list \in Seq(Pull), NEW statuses, statuses \subseteq Statuses
  PROVE  Sum([r \in {row.repo : row \in RowsOf(list)} |-> CountOf(list, r, statuses)]) = Counted(list, statuses)
<1> DEFINE repos == {row.repo : row \in RowsOf(list)}
           figures == [r \in repos |-> CountOf(list, r, statuses)]
           whole == WithStatus(list, statuses)
           key == [i \in whole |-> list[i].repo]
<1>1. DOMAIN list = 1..Len(list)
  BY LenProperties
<1>2. \A i \in DOMAIN list : list[i] \in Pull /\ list[i] \in RowsOf(list)
  BY <1>1, ElementOfSeq DEF RowsOf
<1>3. \A i \in whole : i \in DOMAIN list
  BY DEF WithStatus
<1>4. \A i \in whole : key[i] \in repos
  BY <1>2, <1>3
<1>5. repos \subseteq Repos
  BY <1>2 DEF RowsOf, Pull
<1>6. ASSUME NEW r \in repos PROVE figures[r] = Cardinality({i \in whole : key[i] = r})
  <2>1. figures[r] = Cardinality(OfRepo(list, statuses, r))
    BY <1>5, PullCounts
  <2>2. OfRepo(list, statuses, r) = {i \in whole : key[i] = r}
    BY DEF OfRepo
  <2> QED  BY <2>1, <2>2
<1>7. DOMAIN figures = repos
  OBVIOUS
<1> HIDE DEF figures, key, whole, repos
<1>8. IsTally(figures, whole, key)
  BY <1>4, <1>6, <1>7 DEF IsTally
<1>9. IsFiniteSet(whole) /\ Counted(list, statuses) = Cardinality(whole)
  BY PullCounts DEF whole
<1>10. Sum(figures) = Counted(list, statuses)
  BY <1>8, <1>9, SumOfTally
<1> QED  BY <1>10 DEF figures, repos

\* Counts of statuses apart add up, and no count is above that of all.
LEMMA StatusesAddUp ==
  ASSUME NEW list \in Seq(Pull), NEW A, NEW B, A \subseteq Statuses, B \subseteq Statuses, A \cap B = {}
  PROVE  /\ Counted(list, A) \in Nat /\ Counted(list, B) \in Nat
         /\ Counted(list, A \cup B) = Counted(list, A) + Counted(list, B)
<1> DEFINE P == WithStatus(list, A)
           Q == WithStatus(list, B)
<1>1. /\ IsFiniteSet(P) /\ Counted(list, A) = Cardinality(P)
      /\ IsFiniteSet(Q) /\ Counted(list, B) = Cardinality(Q)
      /\ Counted(list, A \cup B) = Cardinality(WithStatus(list, A \cup B))
  <2>1. A \cup B \subseteq Statuses
    OBVIOUS
  <2> QED  BY <2>1, PullCounts
<1>2. WithStatus(list, A \cup B) = P \cup Q /\ P \cap Q = {}
  BY DEF WithStatus
<1> HIDE DEF P, Q
<1>3. Cardinality(P) \in Nat /\ Cardinality(Q) \in Nat
  BY <1>1, FS_CardinalityType
<1>4. Cardinality(P \cup Q) = Cardinality(P) + (Cardinality(Q) - Cardinality(P \cap Q))
  BY ONLY <1>1, FS_Union
<1>5. Cardinality({}) = 0
  BY FS_EmptySet
<1>6. Cardinality(P \cap Q) = 0
  BY <1>2, <1>5
<1> DEFINE p == Cardinality(P)
           q == Cardinality(Q)
<1>7. p \in Nat /\ q \in Nat /\ Cardinality(P \cup Q) = p + (q - 0)
  BY <1>3, <1>4, <1>6
<1> HIDE DEF p, q
<1>8. Cardinality(P \cup Q) = p + q
  BY <1>7
<1> QED  BY <1>1, <1>2, <1>7, <1>8 DEF p, q

\* All of a list.
LEMMA AllCounted ==
  ASSUME NEW list \in Seq(Pull)
  PROVE  /\ Matching(list, [repo : Repos, status : Statuses]) = list
         /\ Counted(list, Statuses) = Len(list)
         /\ WithStatus(list, Statuses) = DOMAIN list
<1>1. DOMAIN list = 1..Len(list)
  BY LenProperties
<1>2. \A i \in DOMAIN list : list[i] \in Pull
  BY <1>1, ElementOfSeq
<1>3. RowsOf(list) \subseteq Pull
  BY <1>2 DEF RowsOf
<1>4. Matching(list, Pull) = list
  BY <1>3, MatchingIs DEF IsMatched
<1>5. WithStatus(list, Statuses) = DOMAIN list
  BY <1>2 DEF WithStatus, Pull
<1> QED  BY <1>4, <1>5 DEF Counted, Pull

\* Of a list there are not more rows that are wanted than rows.
LEMMA FewerMatch ==
  ASSUME NEW S, NEW list \in Seq(S), NEW wanted
  PROVE  /\ Matching(list, wanted) \in Seq(S) /\ Len(Matching(list, wanted)) \in Nat
         /\ Len(list) \in Nat /\ Len(Matching(list, wanted)) <= Len(list)
<1>1. Len(list) \in Nat /\ DOMAIN list = 1..Len(list)
  BY LenProperties
<1>2. Matching(list, wanted) \in Seq(S)
  BY MatchingUnfolds
<1>3. Len(Matching(list, wanted)) \in Nat
  BY <1>2, LenProperties
<1>4. Len(Matching(list, wanted)) = Cardinality(PositionsOf(list, wanted))
  BY MatchingIs DEF IsMatched
<1> DEFINE n == Len(list)
<1> HIDE DEF n
<1>5. IsFiniteSet(1..n) /\ Cardinality(1..n) = n
  <2>1. 1 \in Int /\ n \in Int /\ n \in Nat
    BY <1>1 DEF n
  <2>2. IsFiniteSet(1..n) /\ Cardinality(1..n) = IF 1 > n THEN 0 ELSE (n - 1) + 1
    BY ONLY <2>1, FS_Interval
  <2> QED  BY <2>1, <2>2
<1>6. PositionsOf(list, wanted) \in SUBSET (1..n)
  BY <1>1 DEF PositionsOf, n
<1>7. Cardinality(PositionsOf(list, wanted)) <= Cardinality(1..n)
  BY <1>5, <1>6, FS_Subset
<1> QED  BY <1>1, <1>2, <1>3, <1>4, <1>5, <1>7 DEF n

\* What a shorter list shows begins the longer one.
LEMMA FewBeginMany ==
  ASSUME NEW S, NEW list \in Seq(S), NEW k \in Nat, NEW m \in Nat, k <= m \/ Len(list) <= m
  PROVE  Begins(Newest(list, k), Newest(list, m))
<1> DEFINE few == Newest(list, k)
           many == Newest(list, m)
           n == Len(list)
           j == IF n < k THEN n ELSE k
           l == IF n < m THEN n ELSE m
<1>1. n \in Nat
  BY LenProperties
<1>2. Len(many) = l /\ DOMAIN many = 1..l /\ l \in Nat /\ \A i \in 1..l : many[i] = list[(n - i) + 1]
  BY NewestIs
<1>3. Len(few) = j /\ DOMAIN few = 1..j /\ j \in Nat /\ \A i \in 1..j : few[i] = list[(n - i) + 1]
  BY NewestIs
<1>4. j <= l
  <2>1. k <= m \/ n <= m
    OBVIOUS
  <2> HIDE DEF n
  <2> QED  BY <1>1, <2>1
<1> HIDE DEF few, many, n, j, l
<1>5. Len(few) <= Len(many) /\ \A i \in DOMAIN few : few[i] = many[i]
  BY <1>1, <1>2, <1>3, <1>4
<1> QED  BY <1>5 DEF Begins, few, many

\* A list that asks for as many rows as there are, or more, is the whole one.
LEMMA ManyAreAll ==
  ASSUME NEW S, NEW list \in Seq(S), NEW m \in Nat, Len(list) <= m
  PROVE  Newest(list, m) = Newest(list, Len(list))
<1> DEFINE n == Len(list)
<1>1. n \in Nat /\ n <= m
  BY LenProperties
<1>2. (IF n < m THEN n ELSE m) = n /\ (IF n < n THEN n ELSE n) = n
  <2> HIDE DEF n
  <2> QED  BY <1>1
<1> QED  BY <1>2 DEF Newest

\* The newest rows of a list are not more than there are, of no kind.
LEMMA FewerCounted ==
  ASSUME NEW some \in Seq(Pull), NEW all \in Seq(Pull), Begins(some, all)
  PROVE  /\ RowsOf(some) \subseteq RowsOf(all)
         /\ \A statuses \in SUBSET Statuses :
              /\ Counted(some, statuses) \in Nat /\ Counted(all, statuses) \in Nat
              /\ Counted(some, statuses) <= Counted(all, statuses)
         /\ \A r \in Repos : CountOf(some, r, Statuses) <= CountOf(all, r, Statuses)
<1>1. DOMAIN some = 1..Len(some) /\ DOMAIN all = 1..Len(all) /\ Len(some) \in Nat /\ Len(all) \in Nat
  BY LenProperties
<1>2. Len(some) <= Len(all) /\ \A i \in DOMAIN some : some[i] = all[i]
  BY DEF Begins
<1>3. DOMAIN some \subseteq DOMAIN all
  BY <1>1, <1>2
<1>4. RowsOf(some) \subseteq RowsOf(all)
  BY <1>2, <1>3 DEF RowsOf
<1>5. ASSUME NEW statuses \in SUBSET Statuses
      PROVE  /\ Counted(some, statuses) \in Nat /\ Counted(all, statuses) \in Nat
             /\ Counted(some, statuses) <= Counted(all, statuses)
  <2> DEFINE P == WithStatus(some, statuses)
             Q == WithStatus(all, statuses)
  <2>1. IsFiniteSet(P) /\ Counted(some, statuses) = Cardinality(P) /\ IsFiniteSet(Q) /\ Counted(all, statuses) = Cardinality(Q)
    BY PullCounts
  <2>2. P \in SUBSET Q
    BY <1>2, <1>3 DEF WithStatus
  <2> HIDE DEF P, Q
  <2>3. Cardinality(P) \in Nat /\ Cardinality(Q) \in Nat
    BY <2>1, FS_CardinalityType
  <2> QED  BY <2>1, <2>2, <2>3, FS_Subset
<1>6. ASSUME NEW r \in Repos PROVE CountOf(some, r, Statuses) <= CountOf(all, r, Statuses)
  <2> DEFINE P == OfRepo(some, Statuses, r)
             Q == OfRepo(all, Statuses, r)
  <2>1. CountOf(some, r, Statuses) = Cardinality(P) /\ CountOf(all, r, Statuses) = Cardinality(Q)
    BY PullCounts
  <2>2. IsFiniteSet(WithStatus(all, Statuses))
    BY PullCounts
  <2>3. Q \in SUBSET WithStatus(all, Statuses) /\ P \in SUBSET Q
    BY <1>2, <1>3 DEF OfRepo, WithStatus
  <2> HIDE DEF P, Q
  <2>4. IsFiniteSet(Q)
    BY <2>2, <2>3, FS_Subset
  <2> QED  BY <2>1, <2>3, <2>4, FS_Subset
<1> QED  BY <1>4, <1>5, <1>6

\* What GetPrs gives without a filter, for any number of rows.
PullsAre(limit) ==
  LET list == GetPrs(Statuses, limit)
  IN /\ list = Newest(pulls, limit) /\ list \in Seq(Pull) /\ Len(list) = RowsShown(Len(pulls), limit)
     /\ \A statuses \in SUBSET Statuses :
          /\ Counted(list, statuses) \in Nat /\ Counted(pulls, statuses) \in Nat
          /\ Counted(list, statuses) <= Counted(pulls, statuses)
     /\ Len(pulls) <= limit =>
          /\ list = GetPrs(Statuses, Len(pulls)) /\ Len(list) = Len(pulls)
          /\ \A statuses : Counted(list, statuses) = Counted(pulls, statuses)

LEMMA GetPrsGives ==
  ASSUME BoardInv, NEW limit \in Nat
  PROVE  PullsAre(limit)
<1> DEFINE list == Newest(pulls, limit)
           all == Newest(pulls, Len(pulls))
<1>1. pulls \in Seq(Pull) /\ Len(pulls) \in Nat /\ Len(pulls) <= Len(pulls)
  BY LenProperties DEF BoardInv
<1>2. \A n : GetPrs(Statuses, n) = Newest(pulls, n)
  BY <1>1, AllCounted DEF GetPrs
<1>3. list \in Seq(Pull) /\ Len(list) = RowsShown(Len(pulls), limit)
  BY <1>1, NewestIs DEF RowsShown
<1>4. all \in Seq(Pull) /\ \A wanted : Len(Matching(all, wanted)) = Len(Matching(pulls, wanted))
  BY <1>1, NewestCounts
<1>5. Begins(list, all)
  BY <1>1, FewBeginMany
<1>6. Len(pulls) <= limit => list = all
  BY <1>1, ManyAreAll
<1>7. Len(pulls) <= limit => Len(list) = Len(pulls)
  BY <1>1, NewestCounts
<1> HIDE DEF list, all
<1>8. \A statuses : Counted(all, statuses) = Counted(pulls, statuses)
  BY <1>4 DEF Counted
<1>9. \A statuses \in SUBSET Statuses :
        /\ Counted(list, statuses) \in Nat /\ Counted(all, statuses) \in Nat
        /\ Counted(list, statuses) <= Counted(all, statuses)
  BY <1>3, <1>4, <1>5, FewerCounted
<1>10. GetPrs(Statuses, limit) = list /\ GetPrs(Statuses, Len(pulls)) = all
  BY <1>2 DEF list, all
<1> QED  BY <1>3, <1>6, <1>7, <1>8, <1>9, <1>10 DEF PullsAre, list

\* A list of the same rows that asks for fewer of them.
LEMMA PrsBegin ==
  ASSUME BoardInv, NEW filter, NEW few \in Nat, NEW many \in Nat, few <= many
  PROVE  Begins(GetPrs(filter, few), GetPrs(filter, many))
<1>1. Matching(pulls, [repo : Repos, status : filter]) \in Seq(Pull)
  BY FewerMatch DEF BoardInv
<1> QED  BY <1>1, FewBeginMany DEF GetPrs

\* The list of one status, when it asks for as many rows as there are.
LEMMA RunPrsAre ==
  ASSUME BoardInv, NEW status \in Statuses, NEW limit \in Nat, Len(pulls) <= limit
  PROVE  Len(RunPrs(status, limit)) = Counted(pulls, {status})
<1> DEFINE found == Matching(pulls, [repo : Repos, status : {status}])
<1>1. pulls \in Seq(Pull)
  BY DEF BoardInv
<1>2. RunPrs(status, limit) = Newest(found, limit)
  BY DEF RunPrs, GetPrs, Statuses
<1>3. Len(found) = Counted(pulls, {status})
  BY DEF Counted
<1>4. found \in Seq(Pull) /\ Len(found) \in Nat /\ Len(pulls) \in Nat /\ Len(found) <= Len(pulls)
  BY <1>1, FewerMatch
<1> HIDE DEF found
<1>5. Len(found) <= limit
  BY <1>4
<1>6. Len(Newest(found, limit)) = Len(found)
  BY <1>4, <1>5, NewestCounts
<1> QED  BY <1>2, <1>3, <1>6

\* Every pull request is in the list of one status.
LEMMA ListedAddUp ==
  ASSUME BoardInv, NEW limit \in Nat, Len(pulls) <= limit
  PROVE  Sum([status \in Statuses |-> Len(RunPrs(status, limit))]) = Len(pulls)
<1> DEFINE listed == [status \in Statuses |-> Len(RunPrs(status, limit))]
           whole == WithStatus(pulls, Statuses)
           key == [i \in whole |-> pulls[i].status]
<1>1. pulls \in Seq(Pull)
  BY DEF BoardInv
<1>2. IsFiniteSet(whole) /\ Counted(pulls, Statuses) = Cardinality(whole) /\ Counted(pulls, Statuses) = Len(pulls)
  BY <1>1, PullCounts, AllCounted
<1>3. \A i \in whole : key[i] \in Statuses
  BY DEF WithStatus
<1>4. ASSUME NEW status \in Statuses PROVE listed[status] = Cardinality({i \in whole : key[i] = status})
  <2>1. Len(RunPrs(status, limit)) = Counted(pulls, {status})
    BY RunPrsAre
  <2>2. Counted(pulls, {status}) = Cardinality(WithStatus(pulls, {status}))
    BY <1>1, PullCounts
  <2>3. WithStatus(pulls, {status}) = {i \in whole : key[i] = status}
    BY DEF WithStatus
  <2> QED  BY <2>1, <2>2, <2>3
<1>5. DOMAIN listed = Statuses
  OBVIOUS
<1> HIDE DEF listed, key, whole
<1>6. IsTally(listed, whole, key)
  BY <1>3, <1>4, <1>5 DEF IsTally
<1>7. Sum(listed) = Len(pulls)
  BY <1>2, <1>6, SumOfTally
<1> QED  BY <1>7 DEF listed

\* Runs with and without an end.
LEMMA RunsAddUp ==
  ASSUME BoardInv, NEW limit \in Nat
  PROVE  /\ RowsOf(ListInterruptedRuns) = {row \in RowsOf(runs) : row.state \notin TerminalStates}
         /\ Len(runs) <= limit =>
              Len(ListInterruptedRuns) + Sum([state \in TerminalStates |-> Len(RunRuns(state, limit))]) = Len(runs)
<1> DEFINE going == [repo : Repos, state : RunState \
               {"submitted", "blocked", "needs_authorization", "failed", "expired", "cancelled"}]
           ended == [state \in TerminalStates |-> Len(RunRuns(state, limit))]
           whole == {i \in DOMAIN runs : runs[i].state \in TerminalStates}
           key == [i \in whole |-> runs[i].state]
           n == Len(runs)
<1>1. runs \in Seq(RunRow) /\ n \in Nat /\ DOMAIN runs = 1..n
  BY LenProperties DEF BoardInv
<1>2. \A i \in DOMAIN runs : runs[i] \in RunRow
  BY <1>1, ElementOfSeq
<1>3. going = [repo : Repos, state : RunState \ TerminalStates]
  BY DEF TerminalStates, FailClosedStates
<1> HIDE DEF going
<1>4. IsMatched(runs, going, ListInterruptedRuns)
  BY <1>1, MatchingIs DEF ListInterruptedRuns, going
<1>5. RowsOf(ListInterruptedRuns) = {row \in RowsOf(runs) : row.state \notin TerminalStates}
  <2>1. \A row \in RowsOf(runs) : row \in RunRow
    BY <1>2 DEF RowsOf
  <2>2. \A row \in RowsOf(runs) : row \in going <=> row.state \notin TerminalStates
    BY <1>3, <2>1 DEF RunRow
  <2> QED  BY <1>4, <2>2 DEF IsMatched
<1>6. PositionsOf(runs, going) = DOMAIN runs \ whole
  BY <1>2, <1>3 DEF PositionsOf, RunRow
<1>7. IsFiniteSet(1..n) /\ Cardinality(1..n) = n
  <2> HIDE DEF n
  <2>1. 1 \in Int /\ n \in Int /\ n \in Nat
    BY <1>1
  <2>2. IsFiniteSet(1..n) /\ Cardinality(1..n) = IF 1 > n THEN 0 ELSE (n - 1) + 1
    BY ONLY <2>1, FS_Interval
  <2> QED  BY <2>1, <2>2
<1>8. whole \in SUBSET (1..n)
  BY <1>1
<1>9. ASSUME n <= limit, NEW state \in TerminalStates PROVE ended[state] = Cardinality({i \in whole : key[i] = state})
  <2> DEFINE these == [repo : Repos, state : {state}]
             found == Matching(runs, these)
  <2>1. RunRuns(state, limit) = Newest(found, limit)
    BY DEF RunRuns, ListRuns, RunState
  <2>2. IsMatched(runs, these, found)
    BY <1>1, MatchingIs
  <2>3. PositionsOf(runs, these) = {i \in whole : key[i] = state}
    BY <1>2 DEF PositionsOf, RunRow
  <2>4. found \in Seq(RunRow) /\ Len(found) \in Nat /\ Len(found) <= n
    BY <1>1, FewerMatch
  <2> HIDE DEF found, these, n
  <2>5. Len(found) <= limit
    BY <1>1, <1>9, <2>4
  <2>6. Len(Newest(found, limit)) = Len(found)
    BY <2>4, <2>5, NewestCounts
  <2> QED  BY <2>1, <2>2, <2>3, <2>6 DEF IsMatched
<1>10. DOMAIN ended = TerminalStates /\ \A i \in whole : key[i] \in TerminalStates
  OBVIOUS
<1> HIDE DEF ended, whole, key, n
<1>11. n <= limit => IsTally(ended, whole, key)
  BY <1>9, <1>10 DEF IsTally
<1>12. IsFiniteSet(whole)
  BY <1>7, <1>8, FS_Subset
<1>13. n <= limit => Sum(ended) = Cardinality(whole)
  BY <1>11, <1>12, SumOfTally
<1>14. Len(ListInterruptedRuns) = Cardinality((1..n) \ whole)
  BY <1>1, <1>4, <1>6 DEF IsMatched
<1>15. Cardinality((1..n) \ whole) = Cardinality(1..n) - Cardinality((1..n) \cap whole)
  BY ONLY <1>7, FS_Difference
<1>16. (1..n) \cap whole = whole /\ Cardinality(whole) \in Nat
  BY <1>8, <1>12, FS_CardinalityType
<1> DEFINE w == Cardinality(whole)
<1>17. Len(ListInterruptedRuns) = n - w /\ (n <= limit => Sum(ended) = w) /\ w \in Nat
  BY <1>7, <1>13, <1>14, <1>15, <1>16
<1> HIDE DEF w
<1>18. n <= limit => Len(ListInterruptedRuns) + Sum(ended) = n
  BY <1>1, <1>17
<1> QED  BY <1>5, <1>18 DEF ended, n

LEMMA BoardInvLists ==
  ASSUME RecordsAssumption, BoardInv
  PROVE  ListsAgree
<1>1. Limits \subseteq Nat /\ Recent \in Nat
  BY DEF RecordsAssumption
<1>2. ASSUME NEW few \in Limits, NEW many \in Limits, NEW status \in Statuses, few <= many
      PROVE  Begins(RunStatus({status}, few), RunPrs(status, many))
  <2>1. Begins(GetPrs({status}, few), GetPrs({status}, many))
    BY <1>1, <1>2, PrsBegin
  <2>2. status # "all"
    BY DEF Statuses
  <2> QED  BY <2>1, <2>2 DEF RunStatus, RunPrs
<1>3. ASSUME NEW few \in Limits
      PROVE  IF few <= Recent THEN Begins(RunPrs("all", few), RunStats.recent)
                              ELSE Begins(RunStats.recent, RunPrs("all", few))
  <2>1. few \in Nat /\ (few <= Recent \/ Recent <= few)
    BY <1>1
  <2>2. RunPrs("all", few) = GetPrs(Statuses, few) /\ RunStats.recent = GetPrs(Statuses, Recent)
    BY DEF RunPrs, RunStats
  <2>3. CASE few <= Recent
    BY <1>1, <2>1, <2>2, <2>3, PrsBegin
  <2>4. CASE ~(few <= Recent)
    BY <1>1, <2>1, <2>2, <2>4, PrsBegin
  <2> QED  BY <2>3, <2>4
<1> QED  BY <1>2, <1>3 DEF ListsAgree

\* Statuses that exclude each other are not of more pull requests than there are.
LEMMA StatusesFit ==
  ASSUME NEW list \in Seq(Pull)
  PROVE  (Counted(list, {"merged"}) + Counted(list, {"open", "ci_passed"})) + Counted(list, {"closed"}) <= Len(list)
<1> DEFINE M == {"merged"}
           O == {"open", "ci_passed"}
           C == {"closed"}
           MO == M \cup O
           MOC == MO \cup C
           Rest == Statuses \ MOC
<1>1. M \subseteq Statuses /\ O \subseteq Statuses /\ C \subseteq Statuses /\ M \cap O = {} /\ MO \cap C = {}
  BY DEF Statuses
<1> HIDE DEF M, O, C
<1>2. MO \subseteq Statuses /\ MOC \subseteq Statuses
  BY <1>1
<1>3. MOC \cap Rest = {} /\ MOC \cup Rest = Statuses /\ Rest \subseteq Statuses
  BY <1>2
<1> HIDE DEF MO, MOC, Rest
<1>4. Counted(list, M) \in Nat /\ Counted(list, O) \in Nat /\ Counted(list, M \cup O) = Counted(list, M) + Counted(list, O)
  BY <1>1, StatusesAddUp
<1>5. Counted(list, C) \in Nat /\ Counted(list, MO \cup C) = Counted(list, MO) + Counted(list, C)
  BY <1>1, <1>2, StatusesAddUp
<1>6. Counted(list, Rest) \in Nat /\ Counted(list, MOC \cup Rest) = Counted(list, MOC) + Counted(list, Rest)
  BY <1>2, <1>3, StatusesAddUp
<1>7. Len(list) = Counted(list, MOC \cup Rest)
  BY <1>3, AllCounted
<1> DEFINE a == Counted(list, M)
           b == Counted(list, O)
           c == Counted(list, C)
           d == Counted(list, Rest)
<1>8. a \in Nat /\ b \in Nat /\ c \in Nat /\ d \in Nat /\ Len(list) = ((a + b) + c) + d
  BY <1>4, <1>5, <1>6, <1>7 DEF MO, MOC
<1> HIDE DEF a, b, c, d
<1>9. (a + b) + c <= Len(list)
  BY <1>8
<1> QED  BY <1>9 DEF a, b, c, M, O, C

\* What the leaderboard counts: the pull requests of the list it asks for.
BoardCounts(limit) ==
  LET board == Leaderboard(limit)
      list == GetPrs(Statuses, limit * BoardShare)
  IN /\ DOMAIN board = {row.repo : row \in RowsOf(list)}
     /\ Sum([r \in DOMAIN board |-> board[r].total]) = Len(list)
     /\ Sum([r \in DOMAIN board |-> board[r].merged]) = Counted(list, {"merged"})
     /\ Sum([r \in DOMAIN board |-> board[r].closed]) = Counted(list, {"closed"})
     /\ \A r \in DOMAIN board : board[r].total = CountOf(list, r, Statuses)

LEMMA LeaderboardCounts ==
  ASSUME BoardInv, NEW limit, limit * BoardShare \in Nat
  PROVE  BoardCounts(limit)
<1> DEFINE list == GetPrs(Statuses, limit * BoardShare)
           board == Leaderboard(limit)
           repos == DOMAIN board
           names == {row.repo : row \in RowsOf(list)}
           M == {"merged"}
           C == {"closed"}
<1>1. M \subseteq Statuses /\ C \subseteq Statuses /\ Statuses \subseteq Statuses
  BY DEF Statuses
<1>2. list \in Seq(Pull)
  BY GetPrsGives DEF PullsAre
<1> HIDE DEF list, M, C
<1>3. /\ repos = names
      /\ \A r \in names : /\ board[r].total = CountOf(list, r, Statuses)
                          /\ board[r].merged = CountOf(list, r, M)
                          /\ board[r].closed = CountOf(list, r, C)
  BY DEF Leaderboard, ByRepo, list, M, C
<1>4. /\ Sum([r \in names |-> CountOf(list, r, Statuses)]) = Counted(list, Statuses)
      /\ Sum([r \in names |-> CountOf(list, r, M)]) = Counted(list, M)
      /\ Sum([r \in names |-> CountOf(list, r, C)]) = Counted(list, C)
  BY <1>1, <1>2, ReposAddUp
<1>5. Counted(list, Statuses) = Len(list)
  BY <1>2, AllCounted
<1> HIDE DEF names, repos, board
<1>6. /\ [r \in repos |-> board[r].total] = [r \in names |-> CountOf(list, r, Statuses)]
      /\ [r \in repos |-> board[r].merged] = [r \in names |-> CountOf(list, r, M)]
      /\ [r \in repos |-> board[r].closed] = [r \in names |-> CountOf(list, r, C)]
  BY <1>3
<1>7. /\ Sum([r \in repos |-> board[r].total]) = Len(list)
      /\ Sum([r \in repos |-> board[r].merged]) = Counted(list, M)
      /\ Sum([r \in repos |-> board[r].closed]) = Counted(list, C)
  BY <1>4, <1>5, <1>6
<1> QED  BY <1>3, <1>7 DEF BoardCounts, list, M, C, names, repos, board

\* GET /api/repos counts among no more rows than the leaderboard.
LEMMA RepoCountsFit ==
  ASSUME RecordsAssumption, BoardInv, NEW limit \in Limits, NEW r \in DOMAIN RepoCounts(limit)
  PROVE  r \in DOMAIN Leaderboard(limit) /\ RepoCounts(limit)[r].total <= Leaderboard(limit)[r].total
<1> DEFINE k == limit * RepoShare
           m == limit * BoardShare
           some == GetPrs(Statuses, k)
           list == GetPrs(Statuses, m)
<1>1. limit \in Nat /\ BoardShare \in Nat /\ RepoShare \in Nat /\ RepoShare <= BoardShare
  BY DEF RecordsAssumption
<1>2. k \in Nat /\ m \in Nat /\ k <= m
  BY ONLY <1>1
<1> HIDE DEF k, m
<1>3. Begins(some, list) /\ some \in Seq(Pull) /\ list \in Seq(Pull)
  BY <1>2, PrsBegin, GetPrsGives DEF PullsAre
<1>4. BoardCounts(limit)
  BY <1>2, LeaderboardCounts DEF m
<1>5. /\ DOMAIN Leaderboard(limit) = {row.repo : row \in RowsOf(list)}
      /\ \A x \in DOMAIN Leaderboard(limit) : Leaderboard(limit)[x].total = CountOf(list, x, Statuses)
  BY <1>4 DEF BoardCounts, m
<1>6. r \in {row.repo : row \in RowsOf(some)} /\ RepoCounts(limit)[r].total = CountOf(some, r, Statuses)
  BY DEF RepoCounts, ByRepo, k
<1> HIDE DEF some, list
<1>7. RowsOf(some) \subseteq RowsOf(list) /\ \A x \in Repos : CountOf(some, x, Statuses) <= CountOf(list, x, Statuses)
  BY <1>3, FewerCounted
<1>8. r \in {row.repo : row \in RowsOf(list)}
  BY <1>6, <1>7
<1>9. r \in Repos
  <2>1. PICK i \in DOMAIN list : r = list[i].repo
    BY <1>8 DEF RowsOf
  <2>2. list[i] \in Pull
    BY <1>3, <2>1, ElementOfSeq, LenProperties
  <2> QED  BY <2>1, <2>2 DEF Pull
<1> QED  BY <1>5, <1>6, <1>7, <1>8, <1>9

LEMMA BoardInvCounts ==
  ASSUME RecordsAssumption, BoardInv
  PROVE  CountsAgree
<1> DEFINE n == Len(pulls)
           M == {"merged"}
           C == {"closed"}
           O == {"open", "ci_passed"}
           dash == GetPrs(Statuses, Everything)
           shown == Dashboard
<1>1. M \in SUBSET Statuses /\ C \in SUBSET Statuses /\ O \in SUBSET Statuses
  BY DEF Statuses
<1>2. pulls \in Seq(Pull) /\ n \in Nat /\ Everything \in Nat /\ Limits \subseteq Nat /\ BoardShare \in Nat
  BY LenProperties DEF BoardInv, RecordsAssumption
<1>3. PullsAre(Everything)
  BY <1>2, GetPrsGives
<1>4. /\ Metrics.submitted = n /\ Metrics.merged = Counted(pulls, M) /\ RunStats.figures.merged = Counted(pulls, M)
  BY DEF Metrics, RunStats, GetStats, M
<1>5. /\ shown.total = Len(dash) /\ shown.merged = Counted(dash, M) /\ shown.open = Counted(dash, O)
      /\ shown.repos = Cardinality({row.repo : row \in RowsOf(dash)})
  BY DEF Dashboard, M, O, dash
<1>6. /\ Len(dash) = RowsShown(n, Everything) /\ Counted(dash, M) <= Counted(pulls, M)
      /\ n <= Everything => /\ dash = GetPrs(Statuses, n) /\ Len(dash) = n
                            /\ \A statuses : Counted(dash, statuses) = Counted(pulls, statuses)
  BY <1>1, <1>3 DEF PullsAre
<1> HIDE DEF n, dash, shown, M, C, O
<1>7. /\ shown.total = RowsShown(n, Everything) /\ shown.merged <= Counted(pulls, M)
      /\ n <= Everything => shown.merged = Counted(pulls, M)
  BY <1>5, <1>6
<1>8. (Counted(pulls, M) + Counted(pulls, O)) + Counted(pulls, C) <= n
  BY <1>2, StatusesFit DEF M, O, C, n
<1>9. ASSUME NEW limit \in Limits
      PROVE  LET board == Leaderboard(limit)
                 repos == DOMAIN board
                 total == Sum([r \in repos |-> board[r].total])
                 merged == Sum([r \in repos |-> board[r].merged])
                 closed == Sum([r \in repos |-> board[r].closed])
                 listed == [status \in Statuses |-> Len(RunPrs(status, limit))]
             IN /\ total = RowsShown(n, limit * BoardShare) /\ merged <= Counted(pulls, M)
                /\ \A r \in DOMAIN RepoCounts(limit) : r \in repos /\ RepoCounts(limit)[r].total <= board[r].total
                /\ n <= limit => Sum(listed) = n
                /\ total = n =>
                     /\ merged = Counted(pulls, M)
                     /\ n <= limit => listed["closed"] = closed
                     /\ n <= Everything =>
                          /\ shown.repos = Cardinality(repos)
                          /\ shown.merged + shown.open + closed <= shown.total
  <2> DEFINE board == Leaderboard(limit)
             repos == DOMAIN board
             total == Sum([r \in repos |-> board[r].total])
             merged == Sum([r \in repos |-> board[r].merged])
             closed == Sum([r \in repos |-> board[r].closed])
             listed == [status \in Statuses |-> Len(RunPrs(status, limit))]
             m == limit * BoardShare
             list == GetPrs(Statuses, m)
  <2>1. limit \in Nat /\ BoardShare \in Nat
    BY <1>2
  <2>2. m \in Nat
    BY ONLY <2>1
  <2>3. \A r \in DOMAIN RepoCounts(limit) : r \in repos /\ RepoCounts(limit)[r].total <= board[r].total
    BY RepoCountsFit
  <2>4. BoardCounts(limit)
    BY <2>2, LeaderboardCounts
  <2>5. /\ repos = {row.repo : row \in RowsOf(list)}
        /\ total = Len(list) /\ merged = Counted(list, M) /\ closed = Counted(list, C)
    BY <2>4 DEF BoardCounts, M, C
  <2>6. n <= limit => Sum(listed) = n
    BY <2>1, ListedAddUp DEF n
  <2>7. n <= limit => listed["closed"] = Counted(pulls, C)
    <3>1. "closed" \in Statuses
      BY DEF Statuses
    <3>2. n <= limit => Len(RunPrs("closed", limit)) = Counted(pulls, C)
      BY <2>1, <3>1, RunPrsAre DEF n, C
    <3> QED  BY <3>1, <3>2
  <2> HIDE DEF m
  <2>8. PullsAre(m)
    BY <2>2, GetPrsGives
  <2>9. Len(list) = RowsShown(n, m) /\ Counted(list, M) <= Counted(pulls, M)
    BY <1>1, <2>8 DEF PullsAre, n
  <2>10. n <= m => list = GetPrs(Statuses, n) /\ \A statuses : Counted(list, statuses) = Counted(pulls, statuses)
    BY <2>8 DEF PullsAre, n
  <2>11. total = n => n <= m
    BY <1>2, <2>2, <2>5, <2>9 DEF RowsShown
  <2> HIDE DEF board, repos, total, merged, closed, listed, list
  <2>12. total = RowsShown(n, m) /\ merged <= Counted(pulls, M)
    BY <2>5, <2>9
  <2>13. total = n => merged = Counted(pulls, M) /\ closed = Counted(pulls, C) /\ list = GetPrs(Statuses, n)
    BY <2>5, <2>10, <2>11
  <2>14. ASSUME total = n, n <= Everything
         PROVE  shown.repos = Cardinality(repos) /\ shown.merged + shown.open + closed <= shown.total
    <3>1. dash = list
      BY <1>6, <2>13, <2>14
    <3>2. shown.repos = Cardinality(repos)
      BY <1>5, <2>5, <3>1
    <3>3. shown.merged = Counted(pulls, M) /\ shown.open = Counted(pulls, O) /\ closed = Counted(pulls, C) /\ shown.total = n
      BY <1>5, <1>6, <2>13, <2>14
    <3> QED  BY <1>8, <3>2, <3>3
  <2> QED  BY <2>3, <2>6, <2>7, <2>12, <2>13, <2>14 DEF board, repos, total, merged, closed, listed, m
<1> QED  BY <1>4, <1>7, <1>9 DEF CountsAgree, shown

LEMMA BoardInvRuns ==
  ASSUME RecordsAssumption, BoardInv
  PROVE  RunsAgree
<1>1. Limits \subseteq Nat /\ 0 \in Nat
  BY DEF RecordsAssumption
<1>2. \A limit \in Nat :
        /\ RowsOf(ListInterruptedRuns) = {row \in RowsOf(runs) : row.state \notin TerminalStates}
        /\ Len(runs) <= limit =>
             Len(ListInterruptedRuns) + Sum([state \in TerminalStates |-> Len(RunRuns(state, limit))]) = Len(runs)
  BY RunsAddUp
<1> QED  BY <1>1, <1>2 DEF RunsAgree

LEMMA BoardInvAgrees ==
  ASSUME RecordsAssumption, BoardInv
  PROVE  FiguresAgree
BY BoardInvLists, BoardInvCounts, BoardInvRuns DEF FiguresAgree

RecordsInv == RecallInv /\ ThreadInv /\ BoardInv

\* What orchestrator/memory.rs reads is what was written to it: an analysis counts
\* for the days asked for, a context for its life, a classification is given every
\* comment once, and all lists and figures are of the same rows, cut to the newest
\* where a number of rows is asked for, however long the tables are.
THEOREM RecordsReadBack == RecordsSpec => []RecordsAreRecalled
<1> USE RecordsAssumption
<1>1. RecordsInit => RecordsInv
  BY RecallInvInit, ThreadInvInit, BoardInvInit DEF RecordsInit, RecordsInv
<1>2. ASSUME RecordsInv, [RecordsNext]_recordsVars PROVE RecordsInv'
  <2>1. CASE RecallNext /\ UNCHANGED <<threadVars, boardVars>>
    <3>1. UNCHANGED threadVars /\ UNCHANGED boardVars
      BY <2>1
    <3>2. RecallInv'
      BY <1>2, <2>1, RecallInvNext DEF RecordsInv
    <3> QED  BY <1>2, <3>1, <3>2, ThreadInvStutters, BoardInvStutters DEF RecordsInv
  <2>2. CASE ThreadNext /\ UNCHANGED <<recallVars, boardVars>>
    <3>1. UNCHANGED recallVars /\ UNCHANGED boardVars
      BY <2>2
    <3>2. ThreadInv'
      BY <1>2, <2>2, ThreadInvNext DEF RecordsInv
    <3> QED  BY <1>2, <3>1, <3>2, RecallInvStutters, BoardInvStutters DEF RecordsInv
  <2>3. CASE BoardNext /\ UNCHANGED <<recallVars, threadVars>>
    <3>1. UNCHANGED recallVars /\ UNCHANGED threadVars
      BY <2>3
    <3>2. BoardInv'
      BY <1>2, <2>3, BoardInvNext DEF RecordsInv
    <3> QED  BY <1>2, <3>1, <3>2, RecallInvStutters, ThreadInvStutters DEF RecordsInv
  <2>4. CASE UNCHANGED recordsVars
    <3>1. UNCHANGED recallVars /\ UNCHANGED threadVars /\ UNCHANGED boardVars
      BY <2>4 DEF recordsVars
    <3> QED  BY <1>2, <3>1, RecallInvStutters, ThreadInvStutters, BoardInvStutters DEF RecordsInv
  <2> QED  BY <1>2, <2>1, <2>2, <2>3, <2>4 DEF RecordsNext
<1>3. RecordsInv => RecordsAreRecalled
  BY RecallInvIsSpaced, RecallInvIsCurrent, ThreadInvIsWhole, BoardInvAgrees DEF RecordsInv, RecordsAreRecalled
<1> QED  BY <1>1, <1>2, <1>3, PTL DEF RecordsSpec
=============================================================================
