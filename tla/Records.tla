------------------------------ MODULE Records ------------------------------
(***************************************************************************)
(* What orchestrator/memory.rs remembers besides runs, outcomes and the     *)
(* audit ledger, and what is read of it: which repositories were analyzed   *)
(* and what was found there, the conversations of pull requests, and the    *)
(* pull requests, executions and runs that web/mod.rs and the commands      *)
(* list and count.  A table is a set of rows with a key, or the sequence of *)
(* its rows where the order of insertion is read.  Moments are half days.   *)
(***************************************************************************)
EXTENDS Naturals, Sequences, FiniteSets, RunStates

CONSTANTS
  Repos,        \* repositories
  Spacing,      \* days between analyses: the 7 of has_analyzed_since
  ContextLife,  \* moments a context lives: the 72 hours of store_context
  LastClock,    \* bound on the clock
  MaxAnalyses,  \* bound: analyses
  Readers,      \* patrols
  MaxRemarks,   \* bound: comments of people
  MaxPulls,     \* bound: pull requests
  MaxRuns,      \* bound: executions, and runs
  Limits,       \* rows a command asks for: its --limit
  Recent,       \* rows `stats' asks for: 5
  BoardShare,   \* rows `leaderboard' asks for, to each of its limit: 5
  RepoShare,    \* rows GET /api/repos asks for, to each of its limit: 3
  Everything    \* rows GET /api/stats asks for: 10,000

VARIABLES
  clock,        \* the wall clock
  analyzed,     \* analyzed_repos
  contexts,     \* working_memory
  analyses,     \* history: what analyses found
  remarks,      \* the comments at the host, by people
  thread,       \* pr_conversations
  reader,       \* what every patrol is doing
  pulls,        \* submitted_prs
  executions,   \* run_log: whether the row is finished
  runs          \* contribution_runs

ASSUME RecordsAssumption ==
  /\ Spacing \in Nat /\ ContextLife \in Nat /\ LastClock \in Nat /\ MaxAnalyses \in Nat /\ MaxRemarks \in Nat
  /\ MaxPulls \in Nat /\ MaxRuns \in Nat /\ Limits \subseteq Nat /\ Recent \in Nat /\ Everything \in Nat
  /\ BoardShare \in Nat /\ RepoShare \in 0..BoardShare

recallVars == <<clock, analyzed, contexts, analyses>>
threadVars == <<remarks, thread, reader>>
boardVars == <<pulls, executions, runs>>
recordsVars == <<recallVars, threadVars, boardVars>>

\* The rows of a list, and those of them that a WHERE lets through, in their order.
RowsOf(list) == {list[i] : i \in DOMAIN list}
Matching(list, wanted) ==
  LET From[k \in 0..Len(list)] ==
        IF k = 0 THEN <<>> ELSE IF list[k] \in wanted THEN Append(From[k - 1], list[k]) ELSE From[k - 1]
  IN From[Len(list)]

\* INSERT OR REPLACE.
Upsert(table, row) == {old \in table : old.repo # row.repo} \cup {row}

(***************************************************************************)
(* Analyses and their context                                              *)
(***************************************************************************)
Day(t) == t \div 2

\* Seeded fault: the day of the cutoff itself does not count.
HasAnalyzedSinceDays(r, days) == \E row \in analyzed : row.repo = r /\ Day(row.at) + days > Day(clock)

\* The row has an RFC 3339 text, with a T between day and time, and datetime()
\* gives one with a blank, which sorts before T: on equal days the row is later.
HasAnalyzedSince(r, days) == \E row \in analyzed : row.repo = r /\ Day(row.at) + days >= Day(clock)

GetContext(r) == {row.text : row \in {c \in contexts : c.repo = r /\ c.expires > clock}}

\* All repositories have one language here.
GetSimilarContext == {<<row.repo, row.text>> : row \in {c \in contexts : c.expires > clock}}

StoreContext(r, text) == contexts' = Upsert(contexts, [repo |-> r, text |-> text, expires |-> clock + ContextLife])

\* process_repo: a hunt skips what was analyzed lately, `target' does not ask.
\* The context is of findings, and that it is not stored is only logged.
ProcessRepo(r, targeted) ==
  /\ Len(analyses) < MaxAnalyses
  /\ targeted \/ ~HasAnalyzedSince(r, Spacing)
  /\ analyzed' = Upsert(analyzed, [repo |-> r, at |-> clock])
  /\ \E text \in {"none", "one", "two"} :
       /\ IF text = "none" THEN UNCHANGED contexts ELSE StoreContext(r, text)
       /\ analyses' = Append(analyses, [repo |-> r, at |-> clock, text |-> text])
  /\ UNCHANGED clock

ArchiveExpired ==
  /\ contexts' = {row \in contexts : row.expires > clock}
  /\ UNCHANGED <<clock, analyzed, analyses>>

HalfDay == clock < LastClock /\ clock' = clock + 1 /\ UNCHANGED <<analyzed, contexts, analyses>>

RecallInit == clock = 0 /\ analyzed = {} /\ contexts = {} /\ analyses = <<>>
RecallNext ==
  \/ \E r \in Repos, targeted \in BOOLEAN : ProcessRepo(r, targeted)
  \/ ArchiveExpired
  \/ HalfDay

\* has_analyzed_since never forgets an analysis of the days asked for and never
\* counts one older than a day more, although it compares texts of two formats.
AnalysesAreSpaced ==
  \A r \in Repos :
    LET ages == {clock - analyses[i].at : i \in {j \in DOMAIN analyses : analyses[j].repo = r}}
    IN /\ (\E a \in ages : a <= 2 * Spacing) => HasAnalyzedSince(r, Spacing)
       /\ HasAnalyzedSince(r, Spacing) => \E a \in ages : a < 2 * (Spacing + 1)

\* The context of a repository is what its last analysis that stored one found,
\* until that is ContextLife old and whether or not anything was archived.
ContextsAreCurrent ==
  \A r \in Repos :
    LET stored == {i \in DOMAIN analyses : analyses[i].repo = r /\ analyses[i].text # "none"}
        last == analyses[CHOOSE i \in stored : \A j \in stored : j <= i]
    IN /\ GetContext(r) = IF stored # {} /\ last.at + ContextLife > clock THEN {last.text} ELSE {}
       /\ GetContext(r) = {c[2] : c \in {d \in GetSimilarContext : d[1] = r}}

(***************************************************************************)
(* Conversations                                                           *)
(***************************************************************************)
\* A row's `seen' is the text; the host numbers both kinds of comments.
Remark(id, inline) == [id |-> id, inline |-> inline, edited |-> FALSE]

Idling == [at |-> "idle", items |-> <<>>, todo |-> <<>>]

\* INSERT OR IGNORE.
RecordConversation(row) ==
  thread' = IF \E i \in DOMAIN thread : thread[i].id = row.id THEN thread ELSE Append(thread, row)

\* The list of one kind of comments; a list that cannot be read counts as empty.
ReadComments(p, inline) ==
  /\ reader[p].at = IF inline THEN "inline" ELSE "idle"
  /\ \E failed \in BOOLEAN :
       LET got == IF failed THEN <<>> ELSE Matching(remarks, {c \in RowsOf(remarks) : c.inline = inline})
       IN reader' = [reader EXCEPT ![p] =
            [at |-> IF inline THEN "last" ELSE "first", items |-> @.items \o got, todo |-> got]]
  /\ UNCHANGED <<remarks, thread>>

\* One turn of a loop of collect_feedback, or the step past the loop.
CollectFeedback(p) ==
  /\ reader[p].at \in {"first", "last"}
  /\ IF reader[p].todo = <<>>
     THEN /\ reader' = [reader EXCEPT ![p].at = IF @ = "first" THEN "inline" ELSE "history"]
          /\ UNCHANGED thread
     ELSE /\ RecordConversation(Head(reader[p].todo))
          /\ reader' = [reader EXCEPT ![p].todo = Tail(@)]
  /\ UNCHANGED remarks

\* get_conversation_context, whose text the classification is given.
ConversationContext == [i \in DOMAIN thread |-> <<thread[i].id, thread[i].edited>>]

CheckSinglePr(p) ==
  /\ reader[p].at = "history"
  /\ reader' = [reader EXCEPT ![p] = Idling]
  /\ UNCHANGED <<remarks, thread>>

PeopleRemark ==
  /\ Len(remarks) < MaxRemarks
  /\ \E inline \in BOOLEAN : remarks' = Append(remarks, Remark(Len(remarks) + 1, inline))
  /\ UNCHANGED <<thread, reader>>
PeopleEdit ==
  /\ \E i \in DOMAIN remarks : remarks' = [remarks EXCEPT ![i].edited = TRUE]
  /\ UNCHANGED <<thread, reader>>

ThreadInit == remarks = <<>> /\ thread = <<>> /\ reader = [p \in Readers |-> Idling]
ThreadNext ==
  \/ PeopleRemark \/ PeopleEdit
  \/ \E p \in Readers :
       (\E inline \in BOOLEAN : ReadComments(p, inline)) \/ CollectFeedback(p) \/ CheckSinglePr(p)

\* What a classification is given as history has every comment it classifies,
\* and no comment twice, however the visits of several patrols interleave.
ThreadsAreWhole ==
  /\ \A i, j \in DOMAIN ConversationContext : ConversationContext[i][1] = ConversationContext[j][1] => i = j
  /\ \A p \in Readers : reader[p].at = "history" =>
       \A c \in RowsOf(reader[p].items) : \E line \in RowsOf(ConversationContext) : line[1] = c.id

(***************************************************************************)
(* Lists and figures                                                       *)
(***************************************************************************)
Statuses == {"open", "merged", "closed", "ci_passed", "ci_failed", "ci_timeout"}

Newest(list, limit) == [i \in 1..(IF Len(list) < limit THEN Len(list) ELSE limit) |-> list[Len(list) - i + 1]]
Counted(list, statuses) == Len(Matching(list, [repo : Repos, status : statuses]))

\* The filter is a set of statuses: one, or all for no filter.
GetPrs(filter, limit) == Newest(Matching(pulls, [repo : Repos, status : filter]), limit)

\* SQL counts; `prs_closed', total_findings and total_errors are never there.
GetStats == [submitted |-> Len(pulls), merged |-> Counted(pulls, {"merged"}),
             total_runs |-> Len(executions)]

\* `prs', `status' and /api/prs, and what `stats' and /metrics tell.
RunPrs(status, limit) == GetPrs(IF status = "all" THEN Statuses ELSE {status}, limit)
RunStatus(filter, limit) == GetPrs(filter, limit)
RunStats == [figures |-> GetStats, recent |-> GetPrs(Statuses, Recent)]
Metrics == [runs |-> GetStats.total_runs, submitted |-> GetStats.submitted, merged |-> GetStats.merged,
            findings |-> 0, errors |-> 0]

\* GET /api/stats.
Dashboard ==
  LET list == GetPrs(Statuses, Everything)
  IN [total |-> Len(list), repos |-> Cardinality({row.repo : row \in RowsOf(list)}),
      merged |-> Counted(list, {"merged"}), open |-> Counted(list, {"open", "ci_passed"}),
      passed |-> Counted(list, {"ci_passed"})]

\* GET /api/repos, before it is sorted and cut, and the rows of `leaderboard':
\* counts by repository among the newest rows.
CountOf(list, r, statuses) == Len(Matching(list, [repo : {r}, status : statuses]))
ByRepo(list) ==
  [r \in {row.repo : row \in RowsOf(list)} |->
     [total |-> CountOf(list, r, Statuses), merged |-> CountOf(list, r, {"merged"}),
      closed |-> CountOf(list, r, {"closed"})]]
RepoCounts(limit) == ByRepo(GetPrs(Statuses, limit * RepoShare))
Leaderboard(limit) == ByRepo(GetPrs(Statuses, limit * BoardShare))

ListRuns(repos, states, limit) ==
  Newest(Matching(runs, [repo : repos, state : states]), limit)

\* `runs', whose state has to be one.
RunRuns(state, limit) == IF state \in RunState THEN ListRuns(Repos, {state}, limit) ELSE <<>>

\* The states are written out a second time in the SQL text.
ListInterruptedRuns ==
  Matching(runs, [repo : Repos, state : RunState \
    {"submitted", "blocked", "needs_authorization", "failed", "expired", "cancelled"}])

StartRun == Len(executions) < MaxRuns /\ executions' = Append(executions, FALSE) /\ UNCHANGED <<pulls, runs>>
\* A run that ends early or with an error leaves its row as it is.
FinishRun ==
  /\ \E i \in DOMAIN executions : ~executions[i] /\ executions' = [executions EXCEPT ![i] = TRUE]
  /\ UNCHANGED <<pulls, runs>>
RecordPr(r) ==
  /\ Len(pulls) < MaxPulls
  /\ pulls' = Append(pulls, [repo |-> r, status |-> "open"])
  /\ UNCHANGED <<executions, runs>>
UpdatePrStatus(i, status) ==
  pulls[i].status # status /\ pulls' = [pulls EXCEPT ![i].status = status] /\ UNCHANGED <<executions, runs>>
InsertRun(r) ==
  /\ Len(runs) < MaxRuns
  /\ runs' = Append(runs, [repo |-> r, state |-> "discovered"])
  /\ UNCHANGED <<pulls, executions>>
TransitionRun(i, to) ==
  CanTransition(runs[i].state, to) /\ runs' = [runs EXCEPT ![i].state = to] /\ UNCHANGED <<pulls, executions>>

BoardInit == pulls = <<>> /\ executions = <<>> /\ runs = <<>>
PullsNext ==
  \/ \E r \in Repos : RecordPr(r)
  \/ \E i \in DOMAIN pulls, status \in Statuses : UpdatePrStatus(i, status)
RunsNext ==
  \/ StartRun \/ FinishRun
  \/ \E r \in Repos : InsertRun(r)
  \/ \E i \in DOMAIN runs, to \in RunState : TransitionRun(i, to)
BoardNext == PullsNext \/ RunsNext

\* The sum of figures: as many pairs as there are numbers up to each of them.
Sum(figures) == Cardinality(UNION {{x} \X (1..figures[x]) : x \in DOMAIN figures})

\* Of so many rows, those that a list of no more than limit shows.
RowsShown(n, limit) == IF n < limit THEN n ELSE limit
Begins(few, many) == Len(few) <= Len(many) /\ \A i \in DOMAIN few : few[i] = many[i]

\* Lists of the same pull requests show the newest ones in one order, whatever
\* number of rows each asks for: the shorter list begins the longer one.
ListsAgree ==
  \A few \in Limits :
    /\ \A status \in Statuses, many \in Limits :
         few <= many => Begins(RunStatus({status}, few), RunPrs(status, many))
    /\ IF few <= Recent THEN Begins(RunPrs("all", few), RunStats.recent)
                        ELSE Begins(RunStats.recent, RunPrs("all", few))

\* A count that SQL makes is of all pull requests.  Those that a command makes of
\* a list are of its newest rows: fewer, never more, and the same figures as soon
\* as the list has every row.
CountsAgree ==
  LET submitted == Metrics.submitted
  IN /\ Dashboard.total = RowsShown(submitted, Everything) /\ Dashboard.merged <= Metrics.merged
     /\ submitted <= Everything => Dashboard.merged = Metrics.merged
     /\ \A limit \in Limits :
          LET board == Leaderboard(limit)
              repos == DOMAIN board
              total == Sum([r \in repos |-> board[r].total])
              merged == Sum([r \in repos |-> board[r].merged])
              closed == Sum([r \in repos |-> board[r].closed])
              listed == [status \in Statuses |-> Len(RunPrs(status, limit))]
          IN /\ total = RowsShown(submitted, limit * BoardShare) /\ merged <= RunStats.figures.merged
             /\ \A r \in DOMAIN RepoCounts(limit) : r \in repos /\ RepoCounts(limit)[r].total <= board[r].total
             /\ submitted <= limit => Sum(listed) = submitted
             /\ total = submitted =>
                  /\ merged = RunStats.figures.merged
                  /\ submitted <= limit => listed["closed"] = closed
                  /\ submitted <= Everything =>
                       /\ Dashboard.repos = Cardinality(repos)
                       /\ Dashboard.merged + Dashboard.open + closed <= Dashboard.total

\* The runs without an end and, by state, those with one are all runs, the latter
\* in lists that ask for no fewer rows than there are.
RunsAgree ==
  /\ RowsOf(ListInterruptedRuns) = {run \in RowsOf(runs) : run.state \notin TerminalStates}
  /\ \A limit \in Limits : Len(runs) <= limit =>
       Len(ListInterruptedRuns) + Sum([state \in TerminalStates |-> Len(RunRuns(state, limit))]) = Len(runs)

\* The lists and figures of all commands are of the same rows, but for what the
\* number of rows asked for leaves out: `stats' shows five pull requests, the
\* leaderboard counts the newest of five to a row, the dashboard the newest 10,000.
FiguresAgree == ListsAgree /\ CountsAgree /\ RunsAgree

RecordsInit == RecallInit /\ ThreadInit /\ BoardInit
RecordsNext ==
  \/ RecallNext /\ UNCHANGED <<threadVars, boardVars>>
  \/ ThreadNext /\ UNCHANGED <<recallVars, boardVars>>
  \/ BoardNext /\ UNCHANGED <<recallVars, threadVars>>
RecordsSpec == RecordsInit /\ [][RecordsNext]_recordsVars

\* What is read of the memory is what was written to it: analyses within the
\* days asked for, contexts within their life, whole conversations, and lists and
\* figures of the same rows, cut to the newest where a number of rows is asked for.
RecordsAreRecalled == AnalysesAreSpaced /\ ContextsAreCurrent /\ ThreadsAreWhole /\ FiguresAgree
=============================================================================
