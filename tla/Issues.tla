------------------------------- MODULE Issues -------------------------------
(***************************************************************************)
(* Solving the issues of a repository (issues/solver.rs, and               *)
(* process_repo_issues of orchestrator/pipeline.rs): issues are listed by  *)
(* label group, each one's timeline is asked for a linked pull request, and *)
(* the easiest are solved one after the other.  Meanwhile people and other  *)
(* solvers take issues, and nothing but GitHub's timeline remembers that    *)
(* an issue has a fix.                                                     *)
(***************************************************************************)
EXTENDS Naturals, Sequences, FiniteSets

CONSTANTS
  Solvers,      \* processes that solve issues
  Issues,       \* numbers of the issues
  Groups,       \* the label groups, in the order they are asked for
  LabelsOf,     \* label groups of every issue
  Complexity,   \* estimate_complexity
  MaxSolved,    \* max_prs of a round
  MaxRounds,    \* bound: rounds in a behaviour
  MaxActs       \* bound: things people do in a behaviour

ASSUME IssuesAssumption ==
  /\ Issues \subseteq Nat /\ IsFiniteSet(Issues)
  /\ Complexity \in [Issues -> Nat] /\ MaxSolved \in Nat

VARIABLES
  tracker,      \* the issues on GitHub
  solving,      \* what every solver holds
  fixes,        \* pull requests of ours, with what the solver knew
  rounds,       \* history: rounds that were begun
  acts          \* history: what people did

issuesVars == <<tracker, solving, fixes, rounds, acts>>

NotSolving == [at |-> "idle"]

IssuesInit ==
  /\ tracker = [i \in Issues |-> [free |-> TRUE, linked |-> FALSE, long |-> FALSE]]
  /\ solving = [s \in Solvers |-> NotSolving]
  /\ fixes = {} /\ rounds = 0 /\ acts = 0

Solving(s, what) == solving' = [solving EXCEPT ![s] = what]

StartRound(s) ==
  /\ solving[s] = NotSolving /\ rounds < MaxRounds
  /\ rounds' = rounds + 1
  /\ Solving(s, [at |-> "list", round |-> rounds + 1, group |-> 1, found |-> <<>>])
  /\ UNCHANGED <<tracker, fixes, acts>>

\* list_issues: open, with nobody assigned, with the label; newest first.
Listed(labelled) ==
  LET hits == {i \in Issues : tracker[i].free /\ labelled[i]}
  IN [k \in 1..Cardinality(hits) |->
        CHOOSE i \in hits : Cardinality({j \in hits : j > i}) = k - 1]

\* Seeded fault: an issue with two labels is kept twice.
NewOnesTwice(found, listed) == found \o listed

\* An issue is pushed unless its number is there.
NewOnes(found, listed) ==
  LET Upto[k \in 0..Len(listed)] ==
        IF k = 0 THEN found
        ELSE LET before == Upto[k - 1]
             IN IF \E i \in 1..Len(before) : before[i] = listed[k] THEN before ELSE Append(before, listed[k])
  IN Upto[Len(listed)]

Listing(s, found) ==
  IF solving[s].group < Len(Groups)
  THEN Solving(s, [solving[s] EXCEPT !.group = @ + 1, !.found = found])
  ELSE IF found = <<>> THEN Solving(s, [solving[s] EXCEPT !.at = "list any"])
  ELSE Solving(s, [at |-> "check", round |-> solving[s].round, left |-> found, kept |-> <<>>])

\* One label group; a list that cannot be read is passed over.
ListGroup(s, ok) ==
  /\ solving[s].at = "list"
  /\ LET group == Groups[solving[s].group]
         listed == Listed([i \in Issues |-> group \in LabelsOf[i]])
     IN Listing(s, IF ok THEN NewOnes(solving[s].found, listed) ELSE solving[s].found)
  /\ UNCHANGED <<tracker, fixes, rounds, acts>>

\* No label hits: any open issue.
ListAny(s, ok) ==
  /\ solving[s].at = "list any"
  /\ LET listed == IF ok THEN Listed([i \in Issues |-> TRUE]) ELSE <<>>
     IN IF listed = <<>> THEN Solving(s, NotSolving)
        ELSE Solving(s, [at |-> "check", round |-> solving[s].round, left |-> listed, kept |-> <<>>])
  /\ UNCHANGED <<tracker, fixes, rounds, acts>>

\* Sorted by complexity, the order of the lists kept among equals, and cut.
Easiest(kept) ==
  LET Before(j, k) == \/ Complexity[kept[j].issue] < Complexity[kept[k].issue]
                      \/ Complexity[kept[j].issue] = Complexity[kept[k].issue] /\ j < k
      Rank(k) == 1 + Cardinality({j \in 1..Len(kept) : Before(j, k)})
      sorted == [n \in 1..Len(kept) |-> kept[CHOOSE k \in 1..Len(kept) : Rank(k) = n]]
  IN IF Len(sorted) > MaxSolved THEN SubSeq(sorted, 1, MaxSolved) ELSE sorted

\* has_linked_pr: the first page of the timeline, which names every pull request
\* that mentions the issue; what cannot be read mentions none.  The limit on the
\* complexity is the largest there is, so that filter_solvable leaves out none.
CheckTimeline(s, ok) ==
  /\ solving[s].at = "check"
  /\ LET issue == Head(solving[s].left)
         blind == ~ok \/ tracker[issue].long
         kept == IF tracker[issue].linked /\ ~blind THEN solving[s].kept
                 ELSE Append(solving[s].kept, [issue |-> issue, blind |-> blind,
                                               fixes |-> {f \in fixes : f.issue = issue}])
     IN IF Len(solving[s].left) > 1
        THEN Solving(s, [solving[s] EXCEPT !.left = Tail(@), !.kept = kept])
        ELSE IF Easiest(kept) = <<>> THEN Solving(s, NotSolving)
        ELSE Solving(s, [at |-> "solve", round |-> solving[s].round, issues |-> Easiest(kept)])
  /\ UNCHANGED <<tracker, fixes, rounds, acts>>

\* solve_issue_deep, the generator, the admission and the pull request, for the
\* next issue: nothing comes of it, or a pull request that mentions the issue.
SolveNext(s, opened) ==
  /\ solving[s].at = "solve"
  /\ LET next == Head(solving[s].issues)
     IN IF opened
        THEN /\ fixes' = fixes \cup {[issue |-> next.issue, number |-> Cardinality(fixes) + 1,
                                      round |-> solving[s].round, blind |-> next.blind,
                                      known |-> {f.number : f \in next.fixes}]}
             /\ tracker' = [tracker EXCEPT ![next.issue].linked = TRUE]
        ELSE UNCHANGED <<fixes, tracker>>
  /\ IF Len(solving[s].issues) = 1 THEN Solving(s, NotSolving)
     ELSE Solving(s, [solving[s] EXCEPT !.issues = Tail(@)])
  /\ UNCHANGED <<rounds, acts>>

\* The process dies, or record_pr fails and ends the round.
RoundEnds(s) ==
  /\ solving[s].at = "solve"
  /\ Solving(s, NotSolving)
  /\ UNCHANGED <<tracker, fixes, rounds, acts>>

\* People take and close issues and give them back, open pull requests for
\* them, and talk until the timeline has a second page.
PeopleAct(i) ==
  /\ acts < MaxActs /\ acts' = acts + 1
  /\ \/ tracker' = [tracker EXCEPT ![i].free = ~@]
     \/ ~tracker[i].linked /\ tracker' = [tracker EXCEPT ![i].linked = TRUE]
     \/ ~tracker[i].long /\ tracker' = [tracker EXCEPT ![i].long = TRUE]
  /\ UNCHANGED <<solving, fixes, rounds>>

IssuesNext ==
  \/ \E s \in Solvers :
       \/ StartRound(s) \/ RoundEnds(s)
       \/ \E ok \in BOOLEAN :
            ListGroup(s, ok) \/ ListAny(s, ok) \/ CheckTimeline(s, ok) \/ SolveNext(s, ok)
  \/ \E i \in Issues : PeopleAct(i)

IssuesSpec == IssuesInit /\ [][IssuesNext]_issuesVars

\* An issue gets a second pull request from us only in another round, and only
\* if that round read its timeline before the first was opened, could not read
\* it, or read a first page that is full: whatever labels an issue has, and
\* however rounds of several processes overlap (fetch_solvable_issues).
OneFixPerIssue ==
  \A f, g \in fixes : f.issue = g.issue /\ f.number < g.number =>
    f.round # g.round /\ (g.blind \/ f.number \notin g.known)
=============================================================================
