------------------------------- MODULE Dream -------------------------------
(***************************************************************************)
(* What the program learns from its pull requests (orchestrator/memory.rs): *)
(* outcomes are recorded when a pull request is opened and when it is found *)
(* closed (pr/patrol.rs), the preferences of a repository are computed from *)
(* them, and a dream consolidates the preferences of all repositories.      *)
(*                                                                         *)
(* The threads of one process share a Memory, whose mutex protects every   *)
(* call and the whole of run_dream.  The process may die anywhere; what it *)
(* wrote stays.                                                            *)
(***************************************************************************)
EXTENDS Naturals, FiniteSets

CONSTANTS
  Threads,      \* threads that share the Memory
  Pulls,        \* pull requests that can be opened
  RepoOf,       \* the repository of each
  KindOf,       \* the contribution type of each
  NoRow,        \* no row for that key
  MaxOutcomes,  \* bound: outcomes recorded in a behaviour
  MaxDreams,    \* bound: dreams in a behaviour
  MaxCrashes    \* bound: crashes in a behaviour

ASSUME DreamAssumption == NoRow \notin {"open", "closed", "merged"}

VARIABLES
  outcomes,     \* pr_outcomes: outcome per pull request
  preferences,  \* repo_preferences: a row per repository
  meta,         \* dream_meta: last dream, dream lock
  upstream,     \* state of the pull requests on GitHub
  db,           \* the thread that holds the mutex, or NoRow
  learning,     \* what every thread is doing
  torn,         \* history: repositories whose update was cut off by a crash
  left          \* history: outcomes, dreams and crashes that are left

dreamVars == <<outcomes, preferences, meta, upstream, db, learning, torn, left>>

Kinds == {KindOf[p] : p \in Pulls}
LearnedRepos == {RepoOf[p] : p \in Pulls}
NotLearning == [at |-> "idle"]

DreamInit ==
  /\ outcomes = [p \in Pulls |-> NoRow]
  /\ preferences = [r \in LearnedRepos |-> NoRow]
  /\ meta = [last |-> "never", lock |-> FALSE]
  /\ upstream = [p \in Pulls |-> "unopened"]
  /\ db = NoRow
  /\ learning = [t \in Threads |-> NotLearning]
  /\ torn = {}
  /\ left = [outcomes |-> MaxOutcomes, dreams |-> MaxDreams, crashes |-> MaxCrashes]

Rows(r) == {p \in Pulls : RepoOf[p] = r /\ outcomes[p] # NoRow}
Of(rows, kind) == {p \in rows : KindOf[p] = kind}
With(rows, set) == {p \in rows : outcomes[p] \in set}

\* update_repo_preferences: one merge is enough to prefer a kind, one closed
\* pull request to reject it.
Tally(rows) ==
  [preferred |-> {KindOf[p] : p \in With(rows, {"merged"})},
   rejected |-> {KindOf[p] : p \in With(rows, {"closed"})}]

\* run_dream: at least half of a kind merged; at least two and none merged.
\* Pull requests that are still open count.
Profile(rows) ==
  LET merged(k) == Cardinality(With(Of(rows, k), {"merged"}))
      total(k) == Cardinality(Of(rows, k))
      kinds == {KindOf[p] : p \in rows}
  IN [preferred |-> {k \in kinds : 2 * merged(k) >= total(k)},
      rejected |-> {k \in kinds : total(k) >= 2 /\ merged(k) = 0}]

Doing(t, what) == learning' = [learning EXCEPT ![t] = what]

(***************************************************************************)
(* Outcomes                                                                *)
(***************************************************************************)
\* process_repo opened a pull request; it is recorded as open.
OpenedOne(t, p) ==
  /\ learning[t] = NotLearning /\ left.outcomes > 0 /\ upstream[p] = "unopened"
  /\ upstream' = [upstream EXCEPT ![p] = "open"]
  /\ Doing(t, [at |-> "insert", pull |-> p, outcome |-> "open"])
  /\ left' = [left EXCEPT !.outcomes = @ - 1]
  /\ UNCHANGED <<outcomes, preferences, meta, db, torn>>

\* analyze_closed_pr, for a row whose status is not open: what GitHub says now
\* is recorded later, and what is not merged counts as closed, a pull request
\* whose checks failed and that is open too.
AnalyzeClosed(t, p) ==
  /\ learning[t] = NotLearning /\ left.outcomes > 0 /\ upstream[p] # "unopened"
  /\ Doing(t, [at |-> "insert", pull |-> p,
               outcome |-> IF upstream[p] = "merged" THEN "merged" ELSE "closed"])
  /\ left' = [left EXCEPT !.outcomes = @ - 1]
  /\ UNCHANGED <<outcomes, preferences, meta, upstream, db, torn>>

\* record_outcome, first scope of the lock: the row is there.
InsertOutcome(t) ==
  /\ learning[t].at = "insert" /\ db = NoRow
  /\ outcomes' = [outcomes EXCEPT ![learning[t].pull] = learning[t].outcome]
  /\ Doing(t, [at |-> "update", repo |-> RepoOf[learning[t].pull],
               rows |-> Rows(RepoOf[learning[t].pull])])
  /\ UNCHANGED <<preferences, meta, upstream, db, torn, left>>

\* Seeded fault: the preferences are computed from the rows there were before
\* the lock was released.
UpdatePreferencesStale(t) ==
  /\ learning[t].at = "update" /\ db = NoRow
  /\ preferences' = [preferences EXCEPT ![learning[t].repo] = Tally(learning[t].rows)]
  /\ torn' = torn \ {learning[t].repo}
  /\ Doing(t, NotLearning)
  /\ UNCHANGED <<outcomes, meta, upstream, db, left>>

\* Second scope: the rows are read again and the preferences replaced.
UpdatePreferences(t) ==
  /\ learning[t].at = "update" /\ db = NoRow
  /\ preferences' = [preferences EXCEPT ![learning[t].repo] = Tally(Rows(learning[t].repo))]
  /\ torn' = torn \ {learning[t].repo}
  /\ Doing(t, NotLearning)
  /\ UNCHANGED <<outcomes, meta, upstream, db, left>>

(***************************************************************************)
(* Dreams                                                                  *)
(***************************************************************************)
\* should_dream: a day since the last dream and no dream lock; the number of
\* sessions is left open.  `dream --force' goes on whatever the gates say.
AskDream(t, force) ==
  /\ learning[t] = NotLearning /\ db = NoRow /\ left.dreams > 0
  /\ force \/ (meta.last # "today" /\ ~meta.lock)
  /\ Doing(t, [at |-> "dream"])
  /\ left' = [left EXCEPT !.dreams = @ - 1]
  /\ UNCHANGED <<outcomes, preferences, meta, upstream, db, torn>>

\* run_dream takes the mutex and keeps it; the dream lock is set whatever it
\* was, and the repositories are listed.
StartDream(t) ==
  /\ learning[t].at = "dream" /\ db = NoRow
  /\ db' = t
  /\ meta' = [meta EXCEPT !.lock = TRUE]
  /\ Doing(t, [at |-> "profile", repos |-> {r \in LearnedRepos : Rows(r) # {}}])
  /\ UNCHANGED <<outcomes, preferences, upstream, torn, left>>

\* One repository: read and written while the mutex is held.
DreamOf(t, r) ==
  /\ learning[t].at = "profile" /\ r \in learning[t].repos
  /\ preferences' = [preferences EXCEPT ![r] = Profile(Rows(r))]
  /\ torn' = torn \ {r}
  /\ Doing(t, [learning[t] EXCEPT !.repos = @ \ {r}])
  /\ UNCHANGED <<outcomes, meta, upstream, db, left>>

\* The time of the dream, the session counter and the dream lock, in that
\* order.
EndDream(t) ==
  /\ learning[t].at = "profile" /\ learning[t].repos = {}
  /\ meta' = [last |-> "today", lock |-> FALSE]
  /\ db' = NoRow
  /\ Doing(t, NotLearning)
  /\ UNCHANGED <<outcomes, preferences, upstream, torn, left>>

\* A statement of the dream fails: the mutex is released, the dream lock is not.
DreamFails(t) ==
  /\ learning[t].at = "profile"
  /\ db' = NoRow
  /\ Doing(t, NotLearning)
  /\ UNCHANGED <<outcomes, preferences, meta, upstream, torn, left>>

(***************************************************************************)
(* Everybody else                                                          *)
(***************************************************************************)
\* Maintainers merge, close and reopen.
MaintainerDecides(p) ==
  /\ \/ upstream[p] = "open" /\ upstream' = [upstream EXCEPT ![p] = "merged"]
     \/ upstream[p] = "open" /\ upstream' = [upstream EXCEPT ![p] = "closed"]
     \/ upstream[p] = "closed" /\ upstream' = [upstream EXCEPT ![p] = "open"]
  /\ UNCHANGED <<outcomes, preferences, meta, db, learning, torn, left>>

DayPasses ==
  /\ meta.last = "today"
  /\ meta' = [meta EXCEPT !.last = "earlier"]
  /\ UNCHANGED <<outcomes, preferences, upstream, db, learning, torn, left>>

\* The process dies: the mutex and everything in memory are gone.
DreamerCrashes ==
  /\ left.crashes > 0
  /\ db' = NoRow
  /\ torn' = torn \cup {learning[t].repo : t \in {u \in Threads : learning[u].at = "update"}}
  /\ learning' = [t \in Threads |-> NotLearning]
  /\ left' = [left EXCEPT !.crashes = @ - 1]
  /\ UNCHANGED <<outcomes, preferences, meta, upstream>>

Learn(t) ==
  \/ \E p \in Pulls : OpenedOne(t, p) \/ AnalyzeClosed(t, p)
  \/ InsertOutcome(t) \/ UpdatePreferences(t)

DreamOn(t) ==
  \/ \E force \in BOOLEAN : AskDream(t, force)
  \/ StartDream(t) \/ (\E r \in LearnedRepos : DreamOf(t, r))
  \/ EndDream(t) \/ DreamFails(t)

DreamNext ==
  \/ \E t \in Threads : Learn(t) \/ DreamOn(t)
  \/ \E p \in Pulls : MaintainerDecides(p)
  \/ DayPasses \/ DreamerCrashes

DreamSpec == DreamInit /\ [][DreamNext]_dreamVars

\* The preferences that filter findings and score contributions speak of the
\* outcomes there are, not of those one thread once read: unless an update is
\* under way or a crash cut one off, they are the tally or the profile of the
\* recorded rows (record_outcome releases the lock in between).
PreferencesAreCurrent ==
  \A r \in LearnedRepos \ torn :
    (\A t \in Threads : learning[t].at = "update" => learning[t].repo # r) =>
      IF Rows(r) = {} THEN preferences[r] = NoRow
      ELSE preferences[r] \in {Tally(Rows(r)), Profile(Rows(r))}
=============================================================================
