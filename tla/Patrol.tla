------------------------------- MODULE Patrol -------------------------------
(***************************************************************************)
(* The patrol of an open pull request (pr/patrol.rs): it reads the live     *)
(* pull request and its comments, asks the model what each wants, pushes    *)
(* fixes to the branch and answers questions.  It remembers nothing of what *)
(* it did: every visit starts from the comments that GitHub lists, its own  *)
(* answers among them.                                                     *)
(***************************************************************************)
EXTENDS Naturals, Sequences

CONSTANTS
  Patrols,      \* processes that patrol
  MaxComments,  \* bound: comments people and bots leave
  MaxVisits     \* bound: visits in a behaviour

VARIABLES
  pull,         \* state of the pull request
  comments,     \* its comments, in order
  pushes,       \* history: fixes pushed, with the comment each answers
  remembered,   \* pr_conversations: comments recorded
  visit,        \* what every patrol holds
  visits        \* history: visits that are left

patrolVars == <<pull, comments, pushes, remembered, visit, visits>>

\* A general comment has no file.  What a comment is about is left to the
\* model's classification.
Comment(by, inline) == [by |-> by, inline |-> inline, answers |-> 0]
Ids == 1..Len(comments)
NoVisit == [at |-> "idle"]
Actions == {"code_change", "style_fix", "question", "approve", "reject", "handled"}

PatrolInit ==
  /\ pull = "open" /\ comments = <<>> /\ pushes = {} /\ remembered = {}
  /\ visit = [p \in Patrols |-> NoVisit]
  /\ visits = MaxVisits

Visiting(p, what) == visit' = [visit EXCEPT ![p] = what]

\* check_single_pr: the live state, once per visit.
CheckLive(p) ==
  /\ visit[p] = NoVisit /\ visits > 0
  /\ visits' = visits - 1
  /\ IF pull = "open" THEN Visiting(p, [at |-> "collect"]) ELSE UNCHANGED visit
  /\ UNCHANGED <<pull, comments, pushes, remembered>>

\* Seeded fault: our own comments are feedback too.
IsFeedbackFromAll(c) == comments[c].by # "bot"

\* Bots and ourselves are no feedback.
IsFeedback(c) == comments[c].by \notin {"us", "bot"}

\* collect_feedback: two lists, one for general and one for inline comments;
\* a list that cannot be read counts as empty.  Each item is remembered, once.
Collect(p, general, inline) ==
  LET items == {c \in Ids : IsFeedback(c) /\ (IF comments[c].inline THEN inline ELSE general)}
  IN /\ visit[p].at = "collect"
     /\ remembered' = remembered \cup items
     /\ IF items = {} THEN Visiting(p, NoVisit)
        ELSE Visiting(p, [at |-> "classify", items |-> items])
     /\ UNCHANGED <<pull, comments, pushes, visits>>

\* classify_feedback_with_context: the model fails or gives no list, and every
\* item asks for a code change; or it answers for some of the items.
\* A rejection among the answers ends the visit.
Classify(p) ==
  /\ visit[p].at = "classify"
  /\ \E asked \in SUBSET visit[p].items : \E action \in [asked -> Actions] :
       LET actionable == {c \in asked : action[c] \in {"code_change", "style_fix", "question"}}
       IN IF actionable = {} \/ \E c \in asked : action[c] = "reject"
          THEN Visiting(p, NoVisit)
          ELSE Visiting(p, [at |-> "act", todo |-> {<<c, action[c]>> : c \in actionable}])
  /\ UNCHANGED <<pull, comments, pushes, remembered, visits>>

Done(p, item) ==
  LET todo == visit[p].todo \ {item}
  IN Visiting(p, IF todo = {} THEN NoVisit ELSE [visit[p] EXCEPT !.todo = todo])

\* handle_code_fix: an inline comment names the file; the fix is pushed to the
\* head branch that was read at the start of the visit, or anything fails.
HandleCodeFix(p, item, pushed) ==
  /\ visit[p].at = "act" /\ item \in visit[p].todo
  /\ item[2] \in {"code_change", "style_fix"}
  /\ IF pushed /\ comments[item[1]].inline
     THEN pushes' = pushes \cup {item[1]} ELSE UNCHANGED pushes
  /\ Done(p, item)
  /\ UNCHANGED <<pull, comments, remembered, visits>>

\* handle_question: a general comment of ours, without a mark.
HandleQuestion(p, item, answered) ==
  /\ visit[p].at = "act" /\ item \in visit[p].todo
  /\ item[2] = "question"
  /\ IF answered
     THEN comments' = Append(comments, [Comment("us", FALSE) EXCEPT !.answers = item[1]])
     ELSE UNCHANGED comments
  /\ Done(p, item)
  /\ UNCHANGED <<pull, pushes, remembered, visits>>

\* Somebody comments, and the pull request is closed or opened again.
SomebodyComments ==
  /\ Len(SelectSeq(comments, LAMBDA c : c.by # "us")) < MaxComments
  /\ \E by \in {"maintainer", "bot"}, inline \in BOOLEAN :
       comments' = Append(comments, Comment(by, inline))
  /\ UNCHANGED <<pull, pushes, remembered, visit, visits>>

PullChanges ==
  /\ pull' = IF pull = "open" THEN "closed" ELSE "open"
  /\ UNCHANGED <<comments, pushes, remembered, visit, visits>>

VisitStep(p) ==
  \/ CheckLive(p)
  \/ \E general, inline \in BOOLEAN : Collect(p, general, inline)
  \/ Classify(p)
  \/ \E c \in Ids, action \in Actions, ok \in BOOLEAN :
       HandleCodeFix(p, <<c, action>>, ok) \/ HandleQuestion(p, <<c, action>>, ok)

PatrolNext == (\E p \in Patrols : VisitStep(p)) \/ SomebodyComments \/ PullChanges

PatrolSpec == PatrolInit /\ [][PatrolNext]_patrolVars

\* Neither a fix nor an answer is ever the reaction to a comment of a bot or of
\* our own, over any number of visits that find our earlier answers among the
\* comments: two programs never talk to each other (collect_feedback), and the
\* remembered conversation holds other people's words only.
AnswersArePeoples ==
  /\ \A c \in pushes \cup remembered : comments[c].by = "maintainer"
  /\ \A c \in Ids : comments[c].by = "us" => comments[comments[c].answers].by = "maintainer"
=============================================================================
