---------------------------- MODULE ServiceProofs ---------------------------
(***************************************************************************)
(* Proofs about the services around a run, for any number of threads,      *)
(* callers, patrols and cleanups: what is learned from pull requests, what is*)
(* kept of old answers of the models, which forks a cleanup deletes, whom a *)
(* patrol answers, and what a contribution holds of an answer.             *)
(***************************************************************************)
EXTENDS Dream, Llm, Mcp, Patrol, Issues, Runner, Analysis, Generator, InductionLemmas,
        FiniteSetTheorems, SequenceTheorems, TLAPS

(***************************************************************************)
(* What is learned (Dream): the preferences of a repository are computed from*)
(* the outcomes there are, although recording an outcome releases the lock *)
(* between its two statements.                                             *)
(***************************************************************************)
Updating(r) == \E t \in Threads : learning[t].at = "update" /\ learning[t].repo = r

\* The preferences of a repository say what its rows do.
Current(r) ==
  IF Rows(r) = {} THEN preferences[r] = NoRow
  ELSE preferences[r] \in {Tally(Rows(r)), Profile(Rows(r))}

\* Rows(r) # {}, of a table given.
HasRows(table, r) == \E p \in Pulls : RepoOf[p] = r /\ table[p] # NoRow

TablesInv ==
  /\ DOMAIN outcomes = Pulls
  /\ DOMAIN preferences = LearnedRepos

\* A row is inserted with an outcome, and what is updated or profiled has rows.
ThreadsInv ==
  /\ learning = [t \in Threads |-> learning[t]]
  /\ \A t \in Threads :
       /\ learning[t].at = "insert" =>
            /\ learning[t].pull \in Pulls
            /\ learning[t].outcome \in {"open", "closed", "merged"}
       /\ learning[t].at = "update" =>
            /\ learning[t].repo \in LearnedRepos
            /\ HasRows(outcomes, learning[t].repo)
       /\ learning[t].at = "profile" =>
            /\ DOMAIN learning[t] = {"at", "repos"}
            /\ \A r \in learning[t].repos : r \in LearnedRepos /\ HasRows(outcomes, r)

CurrentInv == \A r \in LearnedRepos \ torn : Updating(r) \/ Current(r)

DreamInv == TablesInv /\ ThreadsInv /\ CurrentInv

(***************************************************************************)
(* One thread moves                                                        *)
(***************************************************************************)
\* What a thread may hold, by the rows there are after the step.
LEMMA ThreadMoves ==
  ASSUME ThreadsInv, NEW t \in Threads, NEW what, Doing(t, what),
         \A r : HasRows(outcomes, r) => HasRows(outcomes', r),
         what.at = "insert" =>
           what.pull \in Pulls /\ what.outcome \in {"open", "closed", "merged"},
         what.at = "update" => what.repo \in LearnedRepos /\ HasRows(outcomes', what.repo),
         what.at = "profile" =>
           /\ DOMAIN what = {"at", "repos"}
           /\ \A r \in what.repos : r \in LearnedRepos /\ HasRows(outcomes', r)
  PROVE  ThreadsInv'
<1>1. learning' = [u \in Threads |-> learning'[u]]
  BY DEF ThreadsInv, Doing
<1>2. ASSUME NEW u \in Threads, u # t PROVE learning'[u] = learning[u]
  BY <1>2 DEF ThreadsInv, Doing
<1>3. learning'[t] = what
  BY DEF ThreadsInv, Doing
<1>4. ASSUME NEW u \in Threads
      PROVE  /\ learning'[u].at = "insert" =>
                  /\ learning'[u].pull \in Pulls
                  /\ learning'[u].outcome \in {"open", "closed", "merged"}
             /\ learning'[u].at = "update" =>
                  /\ learning'[u].repo \in LearnedRepos
                  /\ HasRows(outcomes', learning'[u].repo)
             /\ learning'[u].at = "profile" =>
                  /\ DOMAIN learning'[u] = {"at", "repos"}
                  /\ \A r \in learning'[u].repos : r \in LearnedRepos /\ HasRows(outcomes', r)
  <2>1. CASE u = t
    BY <1>3, <2>1
  <2>2. CASE u # t
    BY <1>2, <2>2 DEF ThreadsInv
  <2> QED BY <2>1, <2>2
<1> QED BY <1>1, <1>4 DEF ThreadsInv

\* A repository of a recorded outcome has rows.
LEMMA RowsThere ==
  ASSUME NEW r
  PROVE  Rows(r) # {} <=> HasRows(outcomes, r)
BY DEF Rows, HasRows

\* Nothing that the preferences depend on changes, and no update ends.
LEMMA CurrentStays ==
  ASSUME DreamInv, NEW t \in Threads, NEW what, Doing(t, what), learning[t].at # "update",
         UNCHANGED <<outcomes, preferences, torn>>
  PROVE  CurrentInv'
<1>2. ASSUME NEW r PROVE Current(r)' <=> Current(r)
  BY DEF Current, Rows, Tally, Profile, With, Of
<1>3. ASSUME NEW r, Updating(r) PROVE Updating(r)'
  <2>1. PICK u \in Threads : learning[u].at = "update" /\ learning[u].repo = r
    BY <1>3 DEF Updating
  <2>2. learning'[u] = learning[u]
    BY <2>1 DEF Doing, DreamInv, ThreadsInv
  <2> QED BY <2>1, <2>2 DEF Updating
<1> QED BY <1>2, <1>3 DEF CurrentInv, DreamInv

\* A thread that is not updating goes on, and no table changes.
LEMMA QuietStep ==
  ASSUME DreamInv, NEW t \in Threads, NEW what, Doing(t, what), learning[t].at # "update",
         UNCHANGED <<outcomes, preferences, torn>>,
         what.at = "insert" =>
           what.pull \in Pulls /\ what.outcome \in {"open", "closed", "merged"},
         what.at # "update",
         what.at = "profile" =>
           /\ DOMAIN what = {"at", "repos"}
           /\ \A r \in what.repos : r \in LearnedRepos /\ HasRows(outcomes, r)
  PROVE  DreamInv'
<1>2. ThreadsInv'
  BY ThreadMoves DEF DreamInv
<1>3. CurrentInv'
  BY CurrentStays
<1> QED BY <1>2, <1>3 DEF DreamInv, TablesInv

(***************************************************************************)
(* Outcomes                                                                *)
(***************************************************************************)
LEMMA OpenedOneKeeps ==
  ASSUME DreamInv, NEW t \in Threads, NEW p \in Pulls, OpenedOne(t, p)
  PROVE  DreamInv'
<1> DEFINE what == [at |-> "insert", pull |-> p, outcome |-> "open"]
<1>1. what.at = "insert" /\ what.pull = p /\ what.outcome = "open"
  OBVIOUS
<1>2. Doing(t, what) /\ learning[t].at # "update" /\ UNCHANGED <<outcomes, preferences, torn>>
  BY DEF OpenedOne, NotLearning
<1> HIDE DEF what
<1> QED BY <1>1, <1>2, QuietStep

LEMMA AnalyzeClosedKeeps ==
  ASSUME DreamInv, NEW t \in Threads, NEW p \in Pulls, AnalyzeClosed(t, p)
  PROVE  DreamInv'
<1> DEFINE outcome == IF upstream[p] = "merged" THEN "merged" ELSE "closed"
           what == [at |-> "insert", pull |-> p, outcome |-> outcome]
<1>1. what.at = "insert" /\ what.pull = p /\ what.outcome \in {"open", "closed", "merged"}
  OBVIOUS
<1>2. Doing(t, what) /\ learning[t].at # "update" /\ UNCHANGED <<outcomes, preferences, torn>>
  BY DEF AnalyzeClosed, NotLearning
<1> HIDE DEF what
<1> QED BY <1>1, <1>2, QuietStep

\* Tally and profile of a repository depend on its own rows only.
LEMMA SameSummaries ==
  ASSUME NEW r, Rows(r)' = Rows(r), \A q \in Rows(r) : outcomes'[q] = outcomes[q]
  PROVE  Tally(Rows(r))' = Tally(Rows(r)) /\ Profile(Rows(r))' = Profile(Rows(r))
<1> DEFINE theirs == Rows(r)
<1>1. ASSUME NEW some \in SUBSET theirs, NEW set
      PROVE  {q \in some : outcomes'[q] \in set} = {q \in some : outcomes[q] \in set}
  OBVIOUS
<1>2. Tally(Rows(r))' = Tally(Rows(r))
  BY <1>1 DEF Tally, With
<1>3. Profile(Rows(r))' = Profile(Rows(r))
  <2> DEFINE Merged(table, k) ==
        Cardinality({q \in {p \in theirs : KindOf[p] = k} : table[q] \in {"merged"}})
             Summary(table) ==
        LET kinds == {KindOf[p] : p \in theirs}
            total(k) == Cardinality({p \in theirs : KindOf[p] = k})
        IN [preferred |-> {k \in kinds : 2 * Merged(table, k) >= total(k)},
            rejected |-> {k \in kinds : total(k) >= 2 /\ Merged(table, k) = 0}]
  <2>1. ASSUME NEW k PROVE Merged(outcomes', k) = Merged(outcomes, k)
    <3> DEFINE some == {p \in theirs : KindOf[p] = k}
    <3>1. some \in SUBSET theirs
      OBVIOUS
    <3>2. {q \in some : outcomes'[q] \in {"merged"}} = {q \in some : outcomes[q] \in {"merged"}}
      BY <1>1, <3>1
    <3> QED BY <3>2
  <2>2. Profile(Rows(r)) = Summary(outcomes) /\ Profile(Rows(r))' = Summary(outcomes')
    BY Zenon DEF Profile, With, Of
  <2> HIDE DEF Merged
  <2>3. Summary(outcomes') = Summary(outcomes)
    <3> DEFINE kinds == {KindOf[p] : p \in theirs}
               total(k) == Cardinality({p \in theirs : KindOf[p] = k})
    <3> HIDE DEF kinds, total
    <3>1. {k \in kinds : 2 * Merged(outcomes', k) >= total(k)}
            = {k \in kinds : 2 * Merged(outcomes, k) >= total(k)}
      BY <2>1
    <3>2. {k \in kinds : total(k) >= 2 /\ Merged(outcomes', k) = 0}
            = {k \in kinds : total(k) >= 2 /\ Merged(outcomes, k) = 0}
      BY <2>1
    <3> QED BY <3>1, <3>2, Zenon DEF kinds, total
  <2> QED BY <2>2, <2>3
<1> QED BY <1>2, <1>3

LEMMA InsertOutcomeKeeps ==
  ASSUME DreamInv, NEW t \in Threads, InsertOutcome(t)
  PROVE  DreamInv'
<1> DEFINE p == learning[t].pull
           repo == RepoOf[p]
           what == [at |-> "update", repo |-> repo, rows |-> Rows(repo)]
<1>1. /\ p \in Pulls /\ learning[t].outcome # NoRow
      /\ outcomes' = [outcomes EXCEPT ![p] = learning[t].outcome]
  BY DreamAssumption DEF InsertOutcome, DreamInv, ThreadsInv
<1>2. TablesInv'
  BY <1>1 DEF InsertOutcome, DreamInv, TablesInv
<1>3. repo \in LearnedRepos
  BY <1>1 DEF LearnedRepos
<1>4. /\ \A r : HasRows(outcomes, r) => HasRows(outcomes', r)
      /\ HasRows(outcomes', repo)
  BY <1>1 DEF HasRows, DreamInv, TablesInv
<1>5. what.at = "update" /\ what.repo = repo /\ Doing(t, what)
  BY DEF InsertOutcome
<1> HIDE DEF what
<1>6. ThreadsInv'
  BY <1>3, <1>4, <1>5, ThreadMoves DEF DreamInv
<1>7. learning'[t].at = "update" /\ learning'[t].repo = repo
  BY <1>5 DEF Doing, DreamInv, ThreadsInv
<1>8. ASSUME NEW r \in LearnedRepos, r \notin torn', r # repo
      PROVE  Updating(r)' \/ Current(r)'
  <2>1. Updating(r) \/ Current(r)
    BY <1>8 DEF InsertOutcome, DreamInv, CurrentInv
  <2>2. \A q \in Pulls : RepoOf[q] = r => outcomes'[q] = outcomes[q]
    BY <1>1, <1>8 DEF DreamInv, TablesInv
  <2>3. Current(r) => Current(r)'
    <3>1. Rows(r)' = Rows(r)
      BY <2>2 DEF Rows
    <3>2. \A q \in Rows(r) : outcomes'[q] = outcomes[q]
      BY <2>2 DEF Rows
    <3>3. preferences' = preferences
      BY DEF InsertOutcome
    <3> QED BY <3>1, <3>2, <3>3, SameSummaries DEF Current
  <2>4. ASSUME NEW u \in Threads, learning[u].at = "update", learning[u].repo = r
        PROVE  Updating(r)'
    <3>1. learning'[u] = learning[u]
      BY <2>4, <1>5 DEF Doing, InsertOutcome, DreamInv, ThreadsInv
    <3> QED BY <3>1, <2>4 DEF Updating
  <2> QED BY <2>1, <2>3, <2>4 DEF Updating
<1>9. CurrentInv'
  <2>1. ASSUME NEW r, r = repo PROVE Updating(r)'
    BY <1>7, <2>1 DEF Updating
  <2> QED BY <1>8, <2>1 DEF CurrentInv
<1> QED BY <1>2, <1>6, <1>9 DEF DreamInv

\* The tally or the profile of what the rows are now.
LEMMA PreferencesReplaced ==
  ASSUME DreamInv, NEW r \in LearnedRepos, Rows(r) # {}, NEW profile,
         profile \in {Tally(Rows(r)), Profile(Rows(r))},
         preferences' = [preferences EXCEPT ![r] = profile], UNCHANGED outcomes,
         torn' = torn \ {r}, NEW t \in Threads, NEW what, Doing(t, what),
         learning[t].at = "update" => learning[t].repo = r
  PROVE  TablesInv' /\ CurrentInv'
<1>1. TablesInv'
  BY DEF DreamInv, TablesInv
<1>2. \A s : Rows(s)' = Rows(s)
  BY DEF Rows
<1>3. Current(r)'
  <2>1. Rows(r)' # {} /\ preferences'[r] = profile
    BY <1>2 DEF DreamInv, TablesInv
  <2>2. Tally(Rows(r))' = Tally(Rows(r)) /\ Profile(Rows(r))' = Profile(Rows(r))
    BY <1>2 DEF Tally, Profile, With, Of
  <2> QED BY <2>1, <2>2 DEF Current
<1>4. ASSUME NEW s \in LearnedRepos, s \notin torn', s # r
      PROVE  Updating(s)' \/ Current(s)'
  <2>1. Updating(s) \/ Current(s)
    BY <1>4 DEF DreamInv, CurrentInv
  <2>2. preferences'[s] = preferences[s]
    BY <1>4 DEF DreamInv, TablesInv
  <2>3. Tally(Rows(s))' = Tally(Rows(s)) /\ Profile(Rows(s))' = Profile(Rows(s))
    BY <1>2 DEF Tally, Profile, With, Of
  <2>4. Current(s) => Current(s)'
    BY <1>2, <2>2, <2>3 DEF Current
  <2>5. ASSUME NEW u \in Threads, learning[u].at = "update", learning[u].repo = s
        PROVE  Updating(s)'
    <3>1. learning'[u] = learning[u]
      BY <1>4, <2>5 DEF Doing, DreamInv, ThreadsInv
    <3> QED BY <3>1, <2>5 DEF Updating
  <2> QED BY <2>1, <2>4, <2>5 DEF Updating
<1> QED BY <1>1, <1>3, <1>4 DEF CurrentInv

LEMMA UpdatePreferencesKeeps ==
  ASSUME DreamInv, NEW t \in Threads, UpdatePreferences(t)
  PROVE  DreamInv'
<1> DEFINE r == learning[t].repo
<1>1. r \in LearnedRepos /\ Rows(r) # {}
  BY RowsThere DEF UpdatePreferences, DreamInv, ThreadsInv
<1>2. /\ preferences' = [preferences EXCEPT ![r] = Tally(Rows(r))]
      /\ torn' = torn \ {r} /\ Doing(t, NotLearning) /\ UNCHANGED outcomes
  BY DEF UpdatePreferences
<1>3. TablesInv' /\ CurrentInv'
  BY <1>1, <1>2, PreferencesReplaced
<1>5. ThreadsInv'
  BY <1>2, ThreadMoves DEF DreamInv, NotLearning
<1> QED BY <1>3, <1>5 DEF DreamInv

(***************************************************************************)
(* Dreams                                                                  *)
(***************************************************************************)
LEMMA StartDreamKeeps ==
  ASSUME DreamInv, NEW t \in Threads, StartDream(t)
  PROVE  DreamInv'
<1> DEFINE repos == {r \in LearnedRepos : Rows(r) # {}}
           what == [at |-> "profile", repos |-> repos]
<1>1. what.at = "profile" /\ what.repos = repos /\ DOMAIN what = {"at", "repos"}
  OBVIOUS
<1>2. Doing(t, what) /\ learning[t].at # "update" /\ UNCHANGED <<outcomes, preferences, torn>>
  BY DEF StartDream
<1>3. \A r \in repos : r \in LearnedRepos /\ HasRows(outcomes, r)
  BY RowsThere
<1> HIDE DEF what
<1> QED BY <1>1, <1>2, <1>3, QuietStep

LEMMA DreamOfKeeps ==
  ASSUME DreamInv, NEW t \in Threads, NEW r \in LearnedRepos, DreamOf(t, r)
  PROVE  DreamInv'
<1> DEFINE rest == learning[t].repos \ {r}
           what == [learning[t] EXCEPT !.repos = rest]
<1>1. /\ learning[t].at = "profile" /\ r \in learning[t].repos
      /\ DOMAIN learning[t] = {"at", "repos"} /\ Rows(r) # {}
  BY RowsThere DEF DreamOf, DreamInv, ThreadsInv
<1>2. /\ preferences' = [preferences EXCEPT ![r] = Profile(Rows(r))]
      /\ torn' = torn \ {r} /\ UNCHANGED outcomes /\ Doing(t, what)
  BY DEF DreamOf
<1>3. what.at = "profile" /\ what.repos = rest /\ DOMAIN what = {"at", "repos"}
  BY <1>1
<1>4. \A s \in rest : s \in LearnedRepos /\ HasRows(outcomes, s)
  BY <1>1 DEF DreamInv, ThreadsInv
<1> HIDE DEF what, rest
<1>5. TablesInv' /\ CurrentInv'
  BY <1>1, <1>2, PreferencesReplaced
<1>7. ThreadsInv'
  BY <1>2, <1>3, <1>4, ThreadMoves DEF DreamInv
<1> QED BY <1>5, <1>7 DEF DreamInv

(***************************************************************************)
(* Crashes                                                                 *)
(***************************************************************************)
\* An update that a crash cuts off is remembered as torn.
LEMMA CrashKeeps ==
  ASSUME DreamInv, DreamerCrashes
  PROVE  DreamInv'
<1>1. /\ torn' = torn \cup {learning[t].repo : t \in {u \in Threads : learning[u].at = "update"}}
      /\ learning' = [t \in Threads |-> NotLearning]
      /\ UNCHANGED <<outcomes, preferences>>
  BY DEF DreamerCrashes
<1>2. TablesInv' /\ ThreadsInv'
  BY <1>1 DEF DreamInv, TablesInv, ThreadsInv, NotLearning
<1>3. ASSUME NEW r PROVE Current(r)' <=> Current(r)
  BY <1>1 DEF Current, Rows, Tally, Profile, With, Of
<1>4. ASSUME NEW r \in LearnedRepos, r \notin torn' PROVE Current(r)
  <2>1. ~Updating(r) /\ r \notin torn
    BY <1>1, <1>4 DEF Updating
  <2> QED BY <2>1 DEF DreamInv, CurrentInv
<1> QED BY <1>2, <1>3, <1>4 DEF DreamInv, CurrentInv

(***************************************************************************)
(* The theorem                                                             *)
(***************************************************************************)
LEMMA DreamInitEstablishesInv == DreamInit => DreamInv
<1> SUFFICES ASSUME DreamInit PROVE DreamInv
  OBVIOUS
<1>1. TablesInv /\ ThreadsInv
  BY DEF DreamInit, TablesInv, ThreadsInv, NotLearning
<1>2. \A r \in LearnedRepos : Rows(r) = {} /\ preferences[r] = NoRow
  BY DEF DreamInit, Rows
<1> QED BY <1>1, <1>2 DEF DreamInv, CurrentInv, Current

LEMMA DreamNextKeepsInv == DreamInv /\ [DreamNext]_dreamVars => DreamInv'
<1> SUFFICES ASSUME DreamInv, [DreamNext]_dreamVars PROVE DreamInv'
  OBVIOUS
<1>1. ASSUME NEW t \in Threads, Learn(t) PROVE DreamInv'
  BY <1>1, OpenedOneKeeps, AnalyzeClosedKeeps, InsertOutcomeKeeps, UpdatePreferencesKeeps
  DEF Learn
<1>2. ASSUME NEW t \in Threads, DreamOn(t) PROVE DreamInv'
  <2>1. CASE \E force \in BOOLEAN : AskDream(t, force)
    <3> DEFINE what == [at |-> "dream"]
    <3>1. /\ Doing(t, what) /\ what.at = "dream" /\ learning[t].at # "update"
          /\ UNCHANGED <<outcomes, preferences, torn>>
      BY <2>1 DEF AskDream, NotLearning
    <3> HIDE DEF what
    <3> QED BY <3>1, QuietStep
  <2>2. CASE EndDream(t) \/ DreamFails(t)
    <3>1. /\ Doing(t, NotLearning) /\ learning[t].at # "update"
          /\ UNCHANGED <<outcomes, preferences, torn>>
      BY <2>2 DEF EndDream, DreamFails
    <3>2. NotLearning.at = "idle"
      BY DEF NotLearning
    <3> QED BY <3>1, <3>2, QuietStep
  <2>3. CASE StartDream(t)
    BY <2>3, StartDreamKeeps
  <2>4. CASE \E r \in LearnedRepos : DreamOf(t, r)
    BY <2>4, DreamOfKeeps
  <2> QED BY <1>2, <2>1, <2>2, <2>3, <2>4 DEF DreamOn
<1>3. CASE UNCHANGED <<outcomes, preferences, learning, torn>>
  <2>1. TablesInv' /\ ThreadsInv'
    BY <1>3 DEF DreamInv, TablesInv, ThreadsInv
  <2>2. ASSUME NEW r PROVE (Current(r)' <=> Current(r)) /\ (Updating(r)' <=> Updating(r))
    BY <1>3 DEF Current, Updating, Rows, Tally, Profile, With, Of
  <2> QED BY <1>3, <2>1, <2>2 DEF DreamInv, CurrentInv
<1>4. CASE DreamerCrashes
  BY <1>4, CrashKeeps
<1>5. CASE DayPasses \/ (\E p \in Pulls : MaintainerDecides(p)) \/ UNCHANGED dreamVars
  BY <1>3, <1>5 DEF DayPasses, MaintainerDecides, dreamVars
<1> QED BY <1>1, <1>2, <1>4, <1>5 DEF DreamNext

\* However the threads interleave between the two scopes of the lock, and
\* wherever a dream falls, the preferences of a repository without an update
\* under way or cut off are those of its recorded outcomes (record_outcome).
THEOREM PreferencesStayCurrent == DreamSpec => []PreferencesAreCurrent
<1>1. DreamInv => PreferencesAreCurrent
  BY DEF DreamInv, CurrentInv, Updating, Current, PreferencesAreCurrent
<1>2. DreamSpec => []DreamInv
  BY DreamInitEstablishesInv, DreamNextKeepsInv, PTL DEF DreamSpec
<1> QED BY <1>1, <1>2, PTL

(***************************************************************************)
(* Old answers (Llm): an old answer is the primary model's own.  The promise*)
(* is about answers that were given; what makes it inductive is what the rows*)
(* of the cache hold, and that a chat never looks there.                   *)
(***************************************************************************)
\* What a call holds: every step of a call but the first works on this record.
Held == [at : {"look", "ask", "stream"}, prompt : Prompts, chat : BOOLEAN,
         model : Nat, attempt : Nat]

CallsTypeOK ==
  /\ today \in Nat
  /\ asking \in [Callers -> {NoCall} \cup Held]

\* Every row was written by the primary and lasts Ttl days.
RowsArePrimarys ==
  \A q \in Prompts : llmCache[q] # NoEntry =>
    /\ llmCache[q].by = Models[1].name
    /\ llmCache[q].day \in Nat
    /\ llmCache[q].expires = llmCache[q].day + Ttl

ChatsLookNowhere == \A c \in Callers : asking[c].at = "look" => ~asking[c].chat

\* The inductive invariant.
LlmInv ==
  /\ CallsTypeOK
  /\ llmCache \in [Prompts -> {llmCache[q] : q \in Prompts}]
  /\ RowsArePrimarys
  /\ ChatsLookNowhere
  /\ CachedAnswersArePrimarys

-----------------------------------------------------------------------------
\* A call that runs holds a record.
LEMMA RunningHolds ==
  ASSUME CallsTypeOK, NEW c \in Callers, asking[c].at # "idle"
  PROVE  asking[c] \in Held
BY DEF CallsTypeOK, NoCall

\* Giving an answer of today, and writing a row that is the primary's if any.
LEMMA AnswerKeepsInv ==
  ASSUME LlmInv, NEW c \in Callers, NEW text, NEW stored \in BOOLEAN,
         asking[c] \in Held, Answer(c, text, stored), today' = today
  PROVE  LlmInv'
<1>1. /\ today \in Nat /\ Ttl \in Nat
      /\ asking' = [asking EXCEPT ![c] = NoCall]
  BY LlmAssumption DEF LlmInv, CallsTypeOK, Answer, Give, Asking
<1>2. CallsTypeOK'
  BY <1>1 DEF LlmInv, CallsTypeOK
<1>3. ChatsLookNowhere'
  <2>1. SUFFICES ASSUME NEW d \in Callers, asking'[d].at = "look" PROVE ~asking'[d].chat
    BY DEF ChatsLookNowhere
  <2>2. d # c
    BY <1>1, <2>1 DEF NoCall, LlmInv, CallsTypeOK
  <2> QED
    BY <1>1, <2>1, <2>2 DEF LlmInv, ChatsLookNowhere, CallsTypeOK
<1>4. RowsArePrimarys' /\ llmCache' \in [Prompts -> {llmCache'[q] : q \in Prompts}]
  <2> DEFINE new == [text |-> text, by |-> Models[asking[c].model].name, day |-> today,
                     expires |-> today + Ttl]
  <2>1. CASE stored /\ asking[c].model = 1 /\ ~asking[c].chat
    <3>1. llmCache' = [llmCache EXCEPT ![asking[c].prompt] = new]
      BY <2>1 DEF Answer
    <3>2. /\ new.by = Models[1].name /\ new.day = today /\ new.expires = today + Ttl
      BY <2>1
    <3>3. /\ \A q \in Prompts : llmCache'[q] = IF q = asking[c].prompt THEN new ELSE llmCache[q]
          /\ llmCache' \in [Prompts -> {llmCache'[q] : q \in Prompts}]
      BY <3>1 DEF LlmInv
    <3> HIDE DEF new
    <3> QED
      BY <1>1, <3>2, <3>3 DEF LlmInv, RowsArePrimarys
  <2>2. CASE ~(stored /\ asking[c].model = 1 /\ ~asking[c].chat)
    <3>1. llmCache' = llmCache
      BY <2>2 DEF Answer
    <3> QED
      BY <3>1 DEF LlmInv, RowsArePrimarys
  <2> QED
    BY <2>1, <2>2
<1>5. CachedAnswersArePrimarys'
  <2> DEFINE a == [prompt |-> asking[c].prompt, text |-> text, by |-> Models[asking[c].model].name,
                   chat |-> asking[c].chat, day |-> today, returned |-> today]
  <2>1. given' = given \cup {a} /\ a.day = today /\ a.returned = today
    BY DEF Answer, Give
  <2> HIDE DEF a
  <2> QED
    BY <1>1, <2>1 DEF LlmInv, CachedAnswersArePrimarys
<1> QED
  BY <1>2, <1>3, <1>4, <1>5 DEF LlmInv

\* A step of one call that neither gives an answer nor touches the cache.
LEMMA QuietCallKeepsInv ==
  ASSUME LlmInv, NEW c \in Callers, NEW what \in {NoCall} \cup Held,
         what.at = "look" => ~what.chat,
         Asking(c, what), UNCHANGED <<llmCache, today, given>>
  PROVE  LlmInv'
<1>1. asking' = [asking EXCEPT ![c] = what]
  BY DEF Asking
<1>2. CallsTypeOK'
  BY <1>1 DEF LlmInv, CallsTypeOK
<1>3. ChatsLookNowhere'
  BY <1>1 DEF LlmInv, CallsTypeOK, ChatsLookNowhere
<1> QED
  BY <1>2, <1>3 DEF LlmInv, RowsArePrimarys, CachedAnswersArePrimarys

\* The next attempt, the next model, or no answer at all.
LEMMA AttemptKeepsInv ==
  ASSUME LlmInv, NEW c \in Callers, asking[c] \in Held, NEW model \in Nat, NEW attempt \in Nat,
         Attempt(c, model, attempt), UNCHANGED <<llmCache, today, given>>
  PROVE  LlmInv'
<1> DEFINE next == [at |-> "ask", prompt |-> asking[c].prompt, chat |-> asking[c].chat,
                    model |-> model, attempt |-> attempt]
<1>1. next \in Held /\ next.at = "ask"
  BY DEF Held
<1>2. Asking(c, next)
  BY DEF Attempt
<1> HIDE DEF next
<1> QED
  BY <1>1, <1>2, QuietCallKeepsInv

LEMMA NextModelKeepsInv ==
  ASSUME LlmInv, NEW c \in Callers, asking[c] \in Held, NextModel(c),
         UNCHANGED <<llmCache, today, given>>
  PROVE  LlmInv'
<1>1. asking[c].model + 1 \in Nat
  BY DEF Held
<1>2. NoCall.at # "look"
  BY DEF NoCall
<1> QED
  BY <1>1, <1>2, QuietCallKeepsInv, AttemptKeepsInv DEF NextModel

LEMMA FailKeepsInv ==
  ASSUME LlmInv, NEW c \in Callers, asking[c] \in Held, NEW error, Fail(c, error),
         UNCHANGED <<llmCache, today, given>>
  PROVE  LlmInv'
<1>1. asking[c].model \in Nat /\ asking[c].attempt + 1 \in Nat
  BY DEF Held
<1> QED
  BY <1>1, AttemptKeepsInv, NextModelKeepsInv DEF Fail

LEMMA CallKeepsInv ==
  ASSUME LlmInv, NEW c \in Callers, NEW q \in Prompts, NEW chat \in BOOLEAN, Call(c, q, chat)
  PROVE  LlmInv'
<1> DEFINE first == [at |-> IF chat THEN "ask" ELSE "look", prompt |-> q, chat |-> chat,
                     model |-> 1, attempt |-> 0]
<1>1. first \in Held /\ (first.at = "look" => ~first.chat)
  BY DEF Held
<1>2. Asking(c, first) /\ UNCHANGED <<llmCache, today, given>>
  BY DEF Call
<1> HIDE DEF first
<1> QED
  BY <1>1, <1>2, QuietCallKeepsInv

\* A row that has not expired answers with the primary's own words of the last
\* Ttl days, to a completion.
LEMMA LookUpKeepsInv ==
  ASSUME LlmInv, NEW c \in Callers, NEW readable \in BOOLEAN, LookUp(c, readable)
  PROVE  LlmInv'
<1> DEFINE row == llmCache[asking[c].prompt]
<1>1. /\ asking[c] \in Held /\ ~asking[c].chat /\ asking[c].prompt \in Prompts
      /\ llmCache' = llmCache /\ today' = today
  BY RunningHolds DEF LookUp, LlmInv, ChatsLookNowhere, Held
<1>2. CASE ~readable
  BY <1>1, <1>2, NextModelKeepsInv DEF LookUp
<1>3. CASE readable /\ row # NoEntry /\ row.expires > today
  <2> DEFINE a == [prompt |-> asking[c].prompt, text |-> row.text, by |-> row.by,
                   chat |-> asking[c].chat, day |-> row.day, returned |-> today]
  <2>1. /\ today \in Nat /\ Ttl \in Nat
        /\ asking' = [asking EXCEPT ![c] = NoCall]
        /\ given' = given \cup {a}
    BY <1>3, LlmAssumption DEF LookUp, Give, Asking, LlmInv, CallsTypeOK
  <2>2. row.by = Models[1].name /\ row.day \in Nat /\ row.expires = row.day + Ttl
    BY <1>1, <1>3 DEF LlmInv, RowsArePrimarys
  <2>3. CachedAnswersArePrimarys'
    <3>1. /\ a.by = row.by /\ a.chat = asking[c].chat
          /\ a.day = row.day /\ a.returned = today
      OBVIOUS
    <3>2. today - row.day < Ttl
      BY <1>3, <2>1, <2>2
    <3> HIDE DEF a
    <3> QED
      BY <1>1, <2>1, <2>2, <3>1, <3>2 DEF LlmInv, CachedAnswersArePrimarys
  <2>4. CallsTypeOK'
    BY <1>1, <2>1 DEF LlmInv, CallsTypeOK
  <2>5. ChatsLookNowhere'
    <3>1. SUFFICES ASSUME NEW d \in Callers, asking'[d].at = "look" PROVE ~asking'[d].chat
      BY DEF ChatsLookNowhere
    <3>2. d # c
      BY <2>1, <3>1 DEF NoCall, LlmInv, CallsTypeOK
    <3> QED
      BY <2>1, <3>1, <3>2 DEF LlmInv, ChatsLookNowhere, CallsTypeOK
  <2> QED
    BY <1>1, <2>3, <2>4, <2>5 DEF LlmInv, RowsArePrimarys
<1>4. CASE readable /\ ~(row # NoEntry /\ row.expires > today)
  <2> DEFINE ask == [asking[c] EXCEPT !.at = "ask"]
  <2>1. ask \in Held /\ ask.at = "ask"
    BY <1>1 DEF Held
  <2>2. Asking(c, ask) /\ UNCHANGED <<llmCache, today, given>>
    BY <1>1, <1>4 DEF LookUp
  <2> HIDE DEF ask
  <2> QED
    BY <2>1, <2>2, QuietCallKeepsInv
<1> QED
  BY <1>2, <1>3, <1>4

LEMMA RequestKeepsInv ==
  ASSUME LlmInv, NEW c \in Callers, NEW wire \in Wires, NEW stored \in BOOLEAN,
         Request(c, wire, stored)
  PROVE  LlmInv'
<1>1. asking[c] \in Held /\ today' = today
  BY RunningHolds DEF Request, LlmInv
<1>2. PICK r : \/ Answer(c, r, stored)
               \/ Asking(c, [asking[c] EXCEPT !.at = "stream"]) /\ UNCHANGED <<llmCache, given>>
               \/ Fail(c, r) /\ UNCHANGED <<llmCache, given>>
  BY DEF Request
<1> DEFINE stream == [asking[c] EXCEPT !.at = "stream"]
<1>3. stream \in Held /\ stream.at = "stream"
  BY <1>1 DEF Held
<1> HIDE DEF stream
<1>4. CASE Asking(c, stream) /\ UNCHANGED <<llmCache, given>>
  BY <1>1, <1>3, <1>4, QuietCallKeepsInv
<1> QED
  BY <1>1, <1>2, <1>4, AnswerKeepsInv, FailKeepsInv DEF stream

LEMMA StreamKeepsInv ==
  ASSUME LlmInv, NEW c \in Callers, NEW text, NEW stored \in BOOLEAN, Stream(c, text, stored)
  PROVE  LlmInv'
<1>1. asking[c] \in Held /\ today' = today
  BY RunningHolds DEF Stream, LlmInv
<1> QED
  BY <1>1, AnswerKeepsInv, FailKeepsInv DEF Stream

\* Rows only go, and days only come.
LEMMA HousekeepingKeepsInv ==
  ASSUME LlmInv, ClearCache \/ PruneExpired \/ NextDay
  PROVE  LlmInv'
<1>1. /\ asking' = asking /\ given' = given /\ today' \in Nat
      /\ llmCache' \in [Prompts -> {llmCache'[q] : q \in Prompts}]
      /\ \A q \in Prompts : llmCache'[q] \in {NoEntry, llmCache[q]}
  BY DEF LlmInv, CallsTypeOK, ClearCache, PruneExpired, NextDay
<1>2. CallsTypeOK' /\ ChatsLookNowhere'
  BY <1>1 DEF LlmInv, CallsTypeOK, ChatsLookNowhere
<1>3. RowsArePrimarys' /\ CachedAnswersArePrimarys'
  BY <1>1 DEF LlmInv, RowsArePrimarys, CachedAnswersArePrimarys
<1> QED
  BY <1>1, <1>2, <1>3 DEF LlmInv

LEMMA LlmInitEstablishesInv == LlmInit => LlmInv
BY DEF LlmInit, LlmInv, CallsTypeOK, RowsArePrimarys, ChatsLookNowhere,
       CachedAnswersArePrimarys, NoCall

LEMMA LlmNextKeepsInv == LlmInv /\ [LlmNext]_llmVars => LlmInv'
<1>1. SUFFICES ASSUME LlmInv, LlmNext \/ UNCHANGED llmVars PROVE LlmInv'
  OBVIOUS
<1>2. CASE UNCHANGED llmVars
  BY <1>1, <1>2 DEF llmVars, LlmInv, CallsTypeOK, RowsArePrimarys, ChatsLookNowhere,
                    CachedAnswersArePrimarys
<1>3. CASE ClearCache \/ PruneExpired \/ NextDay
  BY <1>1, <1>3, HousekeepingKeepsInv
<1>4. ASSUME NEW c \in Callers,
             \/ \E q \in Prompts, chat \in BOOLEAN : Call(c, q, chat)
             \/ \E readable \in BOOLEAN : LookUp(c, readable)
             \/ \E wire \in Wires, stored \in BOOLEAN : Request(c, wire, stored)
             \/ \E text \in {"whole", "partial", "empty"}, stored \in BOOLEAN :
                  Stream(c, text, stored)
      PROVE LlmInv'
  BY <1>1, <1>4, CallKeepsInv, LookUpKeepsInv, RequestKeepsInv, StreamKeepsInv
<1> QED
  BY <1>1, <1>2, <1>3, <1>4 DEF LlmNext

\* However callers overlap and whatever fails, an answer of an earlier day is
\* one the primary model gave to a completion within the time the cache keeps
\* it (llm/provider.rs create_llm_provider_with_config).
THEOREM LlmCacheIsPrimarys == LlmSpec => []CachedAnswersArePrimarys
<1>1. LlmInv => CachedAnswersArePrimarys
  BY DEF LlmInv
<1> QED
  BY LlmInitEstablishesInv, LlmNextKeepsInv, <1>1, PTL DEF LlmSpec

(***************************************************************************)
(* Cleanups (Mcp): a cleanup decides by rows that it read long ago.  The   *)
(* invariant says what remains true of its decision: every pull request of a*)
(* doomed fork is one that the property gives up, because only what the patrol*)
(* took for missing is ever recorded as closed.                            *)
(***************************************************************************)
CleanupStates == {Idle} \cup [at : {"listed"}, forks : SUBSET {ForkOf[d] : d \in Drafts}]
              \cup [at : {"asks", "deletes"}, doomed : SUBSET {ForkOf[d] : d \in Drafts}]

ShapesOK ==
  /\ forks \subseteq {ForkOf[d] : d \in Drafts}
  /\ drafts \in [Drafts -> {"none", "open", "closed", "merged", "hidden"}]
  /\ rows \in [Drafts -> {"none", "open", "closed"}]
  /\ patrolling \in {Idle} \cup [at : {"checks"}, todo : SUBSET Drafts, missing : SUBSET Drafts]
  /\ cleaning \in [Cleaners -> CleanupStates]

\* What is recorded as closed, or is about to be, was missing to the patrol.
ClosedWasMissing ==
  /\ \A d \in Drafts : rows[d] = "closed" => d \in unseen
  /\ patrolling # Idle => patrolling.missing \subseteq unseen

\* Every pull request of a doomed fork was missing or not recorded.
DoomedIsUnseen ==
  \A c \in Cleaners : cleaning[c].at \in {"asks", "deletes"} =>
    \A d \in Drafts : ForkOf[d] \in cleaning[c].doomed => d \in unseen

\* The inductive invariant.
McpInv == ShapesOK /\ ClosedWasMissing /\ DoomedIsUnseen /\ SeenForksAreKept

-----------------------------------------------------------------------------
LEMMA McpInitEstablishesInv == McpInit => McpInv
<1>1. SUFFICES ASSUME NEW grant \in BOOLEAN, McpAt(grant) PROVE McpInv
  BY DEF McpInit
<1>2. ShapesOK
  BY <1>1 DEF McpAt, ShapesOK, CleanupStates, Idle
<1>3. ClosedWasMissing /\ DoomedIsUnseen /\ SeenForksAreKept
  BY <1>1 DEF McpAt, ClosedWasMissing, DoomedIsUnseen, SeenForksAreKept, Idle
<1> QED
  BY <1>2, <1>3 DEF McpInv

\* The pipeline, the maintainers and the other tools add forks and move pull
\* requests that have one.
LEMMA OthersKeepInv ==
  ASSUME McpInv, NEW d \in Drafts,
         \/ OpenDraft(d) \/ RecordPr(d) \/ PublisherDies(d)
         \/ \E state \in {"open", "closed", "merged", "hidden"} : MaintainerActs(d, state)
         \/ \E tool \in {"fork_repo", "close_pr"} : CallTool(tool, d)
  PROVE  McpInv'
<1>1. /\ patrolling' = patrolling /\ cleaning' = cleaning /\ unseen' = unseen
  BY DEF OpenDraft, RecordPr, PublisherDies, MaintainerActs, CallTool
<1>2. /\ rows' \in [Drafts -> {"none", "open", "closed"}]
      /\ \A e \in Drafts : rows'[e] = "closed" => rows[e] = "closed"
  BY DEF OpenDraft, RecordPr, PublisherDies, MaintainerActs, CallTool, McpInv, ShapesOK
<1>3. /\ forks' \subseteq {ForkOf[e] : e \in Drafts} /\ forks \subseteq forks'
      /\ drafts' \in [Drafts -> {"none", "open", "closed", "merged", "hidden"}]
      /\ \A e \in Drafts : drafts'[e] = "open" => drafts[e] = "open" \/ ForkOf[e] \in forks'
  BY DEF OpenDraft, RecordPr, PublisherDies, MaintainerActs, CallTool, McpInv, ShapesOK
<1>4. ShapesOK' /\ ClosedWasMissing' /\ DoomedIsUnseen'
  BY <1>1, <1>2, <1>3 DEF McpInv, ShapesOK, ClosedWasMissing, DoomedIsUnseen
<1>5. SeenForksAreKept'
  BY <1>1, <1>3 DEF McpInv, SeenForksAreKept
<1> QED
  BY <1>4, <1>5 DEF McpInv

\* The patrol records as closed what it put aside as missing.
LEMMA PatrolKeepsInv ==
  ASSUME McpInv,
         \/ StartPatrol \/ EndPatrol
         \/ \E d \in Drafts : \E said \in Says(d) : CheckSinglePr(d, said)
  PROVE  McpInv'
<1>1. /\ forks' = forks /\ drafts' = drafts /\ cleaning' = cleaning /\ unseen \subseteq unseen'
  BY DEF StartPatrol, EndPatrol, CheckSinglePr
<1>2. DoomedIsUnseen' /\ SeenForksAreKept'
  BY <1>1 DEF McpInv, DoomedIsUnseen, SeenForksAreKept
<1>3. CASE StartPatrol
  <2>1. /\ patrolling' = [at |-> "checks", todo |-> {d \in Drafts : rows[d] = "open"}, missing |-> {}]
        /\ rows' = rows /\ unseen' = unseen
    BY <1>3 DEF StartPatrol
  <2> QED
    BY <1>1, <1>2, <2>1 DEF McpInv, ShapesOK, ClosedWasMissing
<1>4. CASE EndPatrol
  <2>1. /\ patrolling # Idle /\ patrolling' = Idle /\ unseen' = unseen
        /\ rows' = [d \in Drafts |-> IF d \in patrolling.missing THEN "closed" ELSE rows[d]]
    BY <1>4 DEF EndPatrol
  <2> QED
    BY <1>1, <1>2, <2>1 DEF McpInv, ShapesOK, ClosedWasMissing
<1>5. ASSUME NEW d \in Drafts, NEW said \in Says(d), CheckSinglePr(d, said) PROVE McpInv'
  <2>1. /\ patrolling \in [at : {"checks"}, todo : SUBSET Drafts, missing : SUBSET Drafts]
        /\ rows' = rows
    BY <1>5 DEF CheckSinglePr, McpInv, ShapesOK
  <2>2. /\ patrolling' \in [at : {"checks"}, todo : SUBSET Drafts, missing : SUBSET Drafts]
        /\ patrolling'.missing \subseteq patrolling.missing \cup unseen'
    <3> DEFINE missing == IF IsMissing(said) THEN patrolling.missing \cup {d} ELSE patrolling.missing
    <3>1. patrolling' = [[patrolling EXCEPT !.todo = @ \ {d}] EXCEPT !.missing = missing]
      BY <1>5, <2>1, Zenon DEF CheckSinglePr
    <3>2. missing \subseteq Drafts /\ missing \subseteq patrolling.missing \cup unseen'
      BY <1>5, <2>1 DEF CheckSinglePr, IsMissing
    <3>3. patrolling.todo \ {d} \subseteq Drafts
      BY <2>1
    <3> HIDE DEF missing
    <3>4. [patrolling EXCEPT !.todo = @ \ {d}]
            \in [at : {"checks"}, todo : SUBSET Drafts, missing : SUBSET Drafts]
      BY <2>1, <3>3
    <3> QED
      BY <3>1, <3>2, <3>4
  <2>3. patrolling.missing \subseteq unseen
    BY <2>1 DEF McpInv, ClosedWasMissing, Idle
  <2> QED
    BY <1>1, <1>2, <2>1, <2>2, <2>3 DEF McpInv, ShapesOK, ClosedWasMissing
<1> QED
  BY <1>3, <1>4, <1>5

\* A fork is doomed only if each of its pull requests was missing or is not
\* recorded.
LEMMA DoomedIsMissing ==
  ASSUME McpInv, NEW c \in Cleaners, NEW listed, NEW d \in Drafts,
         ForkOf[d] \in Doomed(c, listed), rows[d] # "none"
  PROVE  d \in unseen
<1>1. rows[d] # "open"
  BY DEF Doomed, Recorded
<1> QED
  BY <1>1 DEF McpInv, ShapesOK, ClosedWasMissing

LEMMA ReadRowsKeepsInv ==
  ASSUME McpInv, NEW c \in Cleaners, ReadRows(c)
  PROVE  McpInv'
<1> DEFINE listed == IF c = "mcp" THEN cleaning[c].forks ELSE {}
           doomed == Doomed(c, listed)
           after == IF doomed = {} THEN Idle
                    ELSE [at |-> IF c = "cli" THEN "asks" ELSE "deletes", doomed |-> doomed]
<1>1. /\ cleaning' = [cleaning EXCEPT ![c] = after]
      /\ unseen' = unseen \cup {d \in Drafts : rows[d] = "none"}
      /\ forks' = forks /\ drafts' = drafts /\ rows' = rows /\ patrolling' = patrolling
  BY DEF ReadRows
<1>2. \A d \in Drafts : ForkOf[d] \in doomed => d \in unseen'
  BY <1>1, DoomedIsMissing
<1>3. listed \subseteq {ForkOf[d] : d \in Drafts}
  BY DEF ReadRows, McpInv, ShapesOK, CleanupStates, Cleaners, Idle
<1>4. doomed \subseteq {ForkOf[d] : d \in Drafts}
  BY <1>3 DEF Doomed
<1> HIDE DEF doomed, listed
<1>5. after \in CleanupStates /\ (after.at \in {"asks", "deletes"} => after.doomed = doomed)
  BY <1>4 DEF CleanupStates, Idle
<1> HIDE DEF after
<1>6. ShapesOK'
  BY <1>1, <1>5 DEF McpInv, ShapesOK
<1>7. DoomedIsUnseen'
  <2>1. SUFFICES ASSUME NEW b \in Cleaners, cleaning'[b].at \in {"asks", "deletes"},
                        NEW d \in Drafts, ForkOf[d] \in cleaning'[b].doomed
                 PROVE d \in unseen'
    BY DEF DoomedIsUnseen
  <2>2. CASE b = c
    BY <1>1, <1>2, <1>5, <2>1, <2>2 DEF McpInv, ShapesOK
  <2>3. CASE b # c
    BY <1>1, <2>1, <2>3 DEF McpInv, ShapesOK, DoomedIsUnseen
  <2> QED
    BY <2>2, <2>3
<1>8. ClosedWasMissing' /\ SeenForksAreKept'
  BY <1>1 DEF McpInv, ClosedWasMissing, SeenForksAreKept
<1> QED
  BY <1>6, <1>7, <1>8 DEF McpInv

\* A cleaner that holds a smaller decision, or none; forks may go if every pull
\* request of theirs is unseen.
LEMMA CleaningKeepsInv ==
  ASSUME McpInv, NEW c \in Cleaners, NEW after \in CleanupStates,
         after.at \in {"asks", "deletes"} =>
           cleaning[c].at \in {"asks", "deletes"} /\ after.doomed \subseteq cleaning[c].doomed,
         cleaning' = [cleaning EXCEPT ![c] = after],
         forks' \subseteq forks,
         \A d \in Drafts : ForkOf[d] \in forks \ forks' => d \in unseen,
         UNCHANGED <<drafts, rows, patrolling, unseen>>
  PROVE  McpInv'
<1>1. ShapesOK'
  BY DEF McpInv, ShapesOK
<1>2. DoomedIsUnseen'
  <2>1. SUFFICES ASSUME NEW b \in Cleaners, cleaning'[b].at \in {"asks", "deletes"},
                        NEW d \in Drafts, ForkOf[d] \in cleaning'[b].doomed
                 PROVE d \in unseen'
    BY DEF DoomedIsUnseen
  <2> QED
    BY <2>1 DEF McpInv, ShapesOK, DoomedIsUnseen
<1>3. ClosedWasMissing' /\ SeenForksAreKept'
  BY DEF McpInv, ClosedWasMissing, SeenForksAreKept
<1> QED
  BY <1>1, <1>2, <1>3 DEF McpInv

LEMMA CleanupKeepsInv ==
  ASSUME McpInv,
         \/ ListForks \/ DryRun \/ \E yes \in BOOLEAN : Answered("cli", yes)
         \/ \E c \in Cleaners, d \in Drafts, deleted \in BOOLEAN : DeleteFork(c, ForkOf[d], deleted)
  PROVE  McpInv'
<1>1. Idle \in CleanupStates /\ Idle.at = "idle" /\ "mcp" \in Cleaners /\ "cli" \in Cleaners
  BY DEF CleanupStates, Idle, Cleaners
<1>2. CASE ListForks
  <2> DEFINE after == [at |-> "listed", forks |-> forks]
  <2>1. after \in CleanupStates /\ after.at = "listed"
    BY DEF CleanupStates, McpInv, ShapesOK
  <2>2. /\ cleaning' = [cleaning EXCEPT !["mcp"] = after] /\ forks' = forks
        /\ UNCHANGED <<drafts, rows, patrolling, unseen>>
    BY <1>2 DEF ListForks
  <2> HIDE DEF after
  <2> QED
    BY <1>1, <2>1, <2>2, CleaningKeepsInv
<1>3. CASE DryRun
  BY <1>1, <1>3, CleaningKeepsInv DEF DryRun
<1>4. ASSUME NEW yes \in BOOLEAN, Answered("cli", yes) PROVE McpInv'
  <2> DEFINE after == [cleaning["cli"] EXCEPT !.at = "deletes"]
  <2>1. /\ cleaning["cli"] \in [at : {"asks", "deletes"}, doomed : SUBSET {ForkOf[d] : d \in Drafts}]
        /\ UNCHANGED <<forks, drafts, rows, patrolling, unseen>>
    BY <1>1, <1>4 DEF Answered, McpInv, ShapesOK, CleanupStates, Idle
  <2>2. after \in CleanupStates /\ after.doomed = cleaning["cli"].doomed
    BY <2>1 DEF CleanupStates
  <2>3. \/ cleaning' = [cleaning EXCEPT !["cli"] = after]
        \/ cleaning' = [cleaning EXCEPT !["cli"] = Idle]
    BY <1>4 DEF Answered
  <2>4. cleaning["cli"].at \in {"asks", "deletes"}
    BY <2>1
  <2> HIDE DEF after
  <2> QED
    BY <1>1, <2>1, <2>2, <2>3, <2>4, CleaningKeepsInv
<1>5. ASSUME NEW c \in Cleaners, NEW d \in Drafts, NEW deleted \in BOOLEAN,
             DeleteFork(c, ForkOf[d], deleted)
      PROVE McpInv'
  <2> DEFINE staying == cleaning[c].doomed \ {ForkOf[d]}
             after == [cleaning[c] EXCEPT !.doomed = staying]
  <2>1. /\ cleaning[c] \in [at : {"asks", "deletes"}, doomed : SUBSET {ForkOf[e] : e \in Drafts}]
        /\ cleaning[c].at = "deletes" /\ ForkOf[d] \in cleaning[c].doomed
        /\ forks' \subseteq forks /\ forks \ forks' \subseteq {ForkOf[d]}
        /\ UNCHANGED <<drafts, rows, patrolling, unseen>>
    BY <1>5 DEF DeleteFork, McpInv, ShapesOK, CleanupStates, Idle
  <2>2. after \in CleanupStates /\ after.doomed \subseteq cleaning[c].doomed
    BY <2>1 DEF CleanupStates
  <2>3. \/ cleaning' = [cleaning EXCEPT ![c] = after]
        \/ cleaning' = [cleaning EXCEPT ![c] = Idle]
    BY <1>5 DEF DeleteFork
  <2>4. \A e \in Drafts : ForkOf[e] \in forks \ forks' => e \in unseen
    BY <2>1 DEF McpInv, DoomedIsUnseen
  <2> HIDE DEF after, staying
  <2> QED
    BY <1>1, <2>1, <2>2, <2>3, <2>4, CleaningKeepsInv
<1> QED
  BY <1>2, <1>3, <1>4, <1>5

LEMMA McpNextKeepsInv == McpInv /\ [McpNext]_mcpVars => McpInv'
<1>1. SUFFICES ASSUME McpInv, McpNext \/ UNCHANGED mcpVars PROVE McpInv'
  OBVIOUS
<1>2. CASE UNCHANGED mcpVars
  BY <1>1, <1>2 DEF mcpVars, McpInv, ShapesOK, ClosedWasMissing, DoomedIsUnseen, SeenForksAreKept
<1>3. CASE McpNext
  BY <1>1, <1>3, OthersKeepInv, PatrolKeepsInv, ReadRowsKeepsInv, CleanupKeepsInv DEF McpNext
<1> QED
  BY <1>1, <1>2, <1>3

\* No cleanup takes the fork from under an open pull request that was recorded
\* when it read the rows and that the patrol could see (mcp/server.rs
\* cleanup_forks, cli/commands/cleanup.rs).
THEOREM ForksOfSeenPullsStay == McpSpec => []SeenForksAreKept
<1>1. McpInv => SeenForksAreKept
  BY DEF McpInv
<1> QED
  BY McpInitEstablishesInv, McpNextKeepsInv, <1>1, PTL DEF McpSpec

(***************************************************************************)
(* Patrols (Patrol): a patrol acts on comments that it collected and classified*)
(* earlier; people, bots and other patrols comment meanwhile.              *)
(***************************************************************************)
\* The numbers of the comments that people left.
PeoplesIds == {c \in Ids : comments[c].by = "maintainer"}

PatrolComment == [by : {"us", "bot", "maintainer"}, inline : BOOLEAN, answers : Nat]

\* What a visit of a patrol may hold.
Visits ==
  {NoVisit, [at |-> "collect"]}
    \cup [at : {"classify"}, items : SUBSET PeoplesIds]
    \cup [at : {"act"}, todo : SUBSET (PeoplesIds \X Actions)]

PatrolInv ==
  /\ comments \in Seq(PatrolComment)
  /\ pushes \subseteq PeoplesIds /\ remembered \subseteq PeoplesIds
  /\ \A c \in Ids : comments[c].by = "us" => comments[c].answers \in PeoplesIds
  /\ visit \in [Patrols -> Visits]

\* A comment that is left keeps its number and its author, and so do those before it.
LEMMA CommentsStay ==
  ASSUME PatrolInv, NEW c \in PatrolComment, comments' = Append(comments, c),
         c.by = "us" => c.answers \in PeoplesIds
  PROVE  /\ PeoplesIds \subseteq PeoplesIds'
         /\ Visits \subseteq Visits'
         /\ (comments \in Seq(PatrolComment))'
         /\ (\A i \in Ids : comments[i].by = "us" => comments[i].answers \in PeoplesIds)'
<1>1. /\ comments \in Seq(PatrolComment) /\ Len(comments) \in Nat
      /\ comments' \in Seq(PatrolComment)
      /\ Len(comments') = Len(comments) + 1
      /\ comments'[Len(comments) + 1] = c
      /\ \A i \in 1..Len(comments) : comments'[i] = comments[i]
  BY AppendProperties, LenProperties DEF PatrolInv
<1>2. PeoplesIds \subseteq PeoplesIds'
  BY <1>1 DEF PeoplesIds, Ids
<1>3. Visits \subseteq Visits'
  BY <1>2 DEF Visits, NoVisit
<1>4. ASSUME NEW i \in Ids', comments'[i].by = "us" PROVE comments'[i].answers \in PeoplesIds'
  <2>1. CASE i = Len(comments) + 1
    BY <1>1, <1>2, <1>4, <2>1
  <2>2. CASE i # Len(comments) + 1
    <3>1. i \in Ids /\ comments'[i] = comments[i]
      BY <1>1, <2>2 DEF Ids
    <3> QED  BY <3>1, <1>2, <1>4 DEF PatrolInv
  <2> QED  BY <2>1, <2>2
<1> QED  BY <1>1, <1>2, <1>3, <1>4

\* The rows of the memory, the visits of the patrols and our comments go by comments of
\* people: what they collected stays collected while others comment.
LEMMA PatrolInvHolds == PatrolSpec => []PatrolInv
<1>1. PatrolInit => PatrolInv
  <2>1. <<>> \in Seq(PatrolComment) /\ 1..Len(<<>>) = {}
    OBVIOUS
  <2> QED  BY <2>1 DEF PatrolInit, PatrolInv, Visits, Ids
<1>2. PatrolInv /\ [PatrolNext]_patrolVars => PatrolInv'
  <2> SUFFICES ASSUME PatrolInv, [PatrolNext]_patrolVars
               PROVE  PatrolInv'
    OBVIOUS
  <2>1. ASSUME NEW p \in Patrols, UNCHANGED <<comments, pushes, remembered>>,
               NEW v \in Visits, visit' = [visit EXCEPT ![p] = v] \/ visit' = visit
        PROVE  PatrolInv'
    BY <2>1 DEF PatrolInv, Visits, PeoplesIds, Ids
  <2>2. ASSUME NEW p \in Patrols, CheckLive(p) PROVE PatrolInv'
    <3>1. [at |-> "collect"] \in Visits
      BY DEF Visits
    <3> QED  BY <2>1, <2>2, <3>1 DEF CheckLive, Visiting
  <2>3. ASSUME NEW p \in Patrols, NEW general \in BOOLEAN, NEW inline \in BOOLEAN, Collect(p, general, inline)
        PROVE  PatrolInv'
    <3> DEFINE items == {c \in Ids : IsFeedback(c) /\ (IF comments[c].inline THEN inline ELSE general)}
    <3>1. items \subseteq PeoplesIds
      <4>1. ASSUME NEW c \in items PROVE c \in PeoplesIds
        <5>1. c \in 1..Len(comments) /\ comments[c] \in PatrolComment
          BY ElementOfSeq DEF PatrolInv, Ids
        <5> QED  BY <5>1 DEF PeoplesIds, Ids, IsFeedback, PatrolComment
      <4> QED  BY <4>1
    <3>2. {NoVisit, [at |-> "classify", items |-> items]} \subseteq Visits
      BY <3>1 DEF Visits
    <3>3. remembered' = remembered \cup items /\ UNCHANGED <<comments, pushes>>
          /\ \E v \in {NoVisit, [at |-> "classify", items |-> items]} : visit' = [visit EXCEPT ![p] = v]
      BY <2>3 DEF Collect, Visiting
    <3> HIDE DEF items
    <3>4. visit' \in [Patrols -> Visits] /\ remembered' \subseteq PeoplesIds
      BY <3>1, <3>2, <3>3 DEF PatrolInv
    <3> QED  BY <3>3, <3>4 DEF PatrolInv, Visits, PeoplesIds, Ids
  <2>4. ASSUME NEW p \in Patrols, Classify(p) PROVE PatrolInv'
    <3>1. visit[p].items \subseteq PeoplesIds
      BY <2>4 DEF Classify, PatrolInv, Visits, NoVisit
    <3>2. PICK asked \in SUBSET visit[p].items : \E action \in [asked -> Actions] :
            \E v \in {NoVisit, [at |-> "act",
                                todo |-> {<<c, action[c]>> : c \in {d \in asked : action[d] \in {"code_change", "style_fix", "question"}}}]} :
              visit' = [visit EXCEPT ![p] = v]
      BY <2>4 DEF Classify, Visiting
    <3>3. PICK action \in [asked -> Actions] :
            \E v \in {NoVisit, [at |-> "act",
                                todo |-> {<<c, action[c]>> : c \in {d \in asked : action[d] \in {"code_change", "style_fix", "question"}}}]} :
              visit' = [visit EXCEPT ![p] = v]
      BY <3>2
    <3> DEFINE todo == {<<c, action[c]>> : c \in {d \in asked : action[d] \in {"code_change", "style_fix", "question"}}}
    <3>4. todo \subseteq PeoplesIds \X Actions
      BY <3>1
    <3>5. {NoVisit, [at |-> "act", todo |-> todo]} \subseteq Visits
      BY <3>4 DEF Visits
    <3> QED  BY <3>3, <3>5, <2>1, <2>4 DEF Classify
  <2>5. ASSUME NEW p \in Patrols, NEW item, visit[p].at = "act"
        PROVE  /\ visit[p].todo \subseteq PeoplesIds \X Actions
               /\ Done(p, item) => \E v \in Visits : visit' = [visit EXCEPT ![p] = v]
    <3>1. visit[p] \in [at : {"act"}, todo : SUBSET (PeoplesIds \X Actions)]
      BY <2>5 DEF PatrolInv, Visits, NoVisit
    <3> DEFINE todo == visit[p].todo \ {item}
    <3>2. [visit[p] EXCEPT !.todo = todo] \in [at : {"act"}, todo : SUBSET (PeoplesIds \X Actions)]
      BY <3>1
    <3>3. {NoVisit, [visit[p] EXCEPT !.todo = todo]} \subseteq Visits
      BY <3>2 DEF Visits
    <3>4. Done(p, item) => \E v \in {NoVisit, [visit[p] EXCEPT !.todo = todo]} : visit' = [visit EXCEPT ![p] = v]
      BY DEF Done, Visiting
    <3> QED  BY <3>1, <3>3, <3>4
  <2>6. ASSUME NEW p \in Patrols, NEW c \in Ids, NEW action \in Actions, NEW ok \in BOOLEAN,
               HandleCodeFix(p, <<c, action>>, ok)
        PROVE  PatrolInv'
    <3>1. /\ \E v \in Visits : visit' = [visit EXCEPT ![p] = v]
          /\ c \in PeoplesIds
      BY <2>5, <2>6 DEF HandleCodeFix
    <3>2. pushes' \subseteq PeoplesIds /\ UNCHANGED <<comments, remembered>>
      BY <3>1, <2>6 DEF HandleCodeFix, PatrolInv
    <3>3. visit' \in [Patrols -> Visits]
      BY <3>1 DEF PatrolInv
    <3> QED  BY <3>2, <3>3 DEF PatrolInv, Visits, PeoplesIds, Ids
  <2>7. ASSUME NEW p \in Patrols, NEW c \in Ids, NEW action \in Actions, NEW ok \in BOOLEAN,
               HandleQuestion(p, <<c, action>>, ok)
        PROVE  PatrolInv'
    <3>1. PICK v \in Visits : visit' = [visit EXCEPT ![p] = v]
      BY <2>5, <2>7 DEF HandleQuestion
    <3>2. c \in PeoplesIds
      BY <2>5, <2>7 DEF HandleQuestion
    <3>3. CASE ok
      <4> DEFINE n == [Comment("us", FALSE) EXCEPT !.answers = c]
      <4>1. comments' = Append(comments, n) /\ UNCHANGED <<pushes, remembered>>
        BY <2>7, <3>3 DEF HandleQuestion
      <4>2. n \in PatrolComment /\ n.answers = c
        <5>3. ASSUME NEW d, d \in [by : {"us"}, inline : {FALSE}, answers : {0}]
              PROVE  [d EXCEPT !.answers = c] \in [by : {"us"}, inline : {FALSE}, answers : {c}]
          BY <5>3
        <5>4. Comment("us", FALSE) \in [by : {"us"}, inline : {FALSE}, answers : {0}]
          BY DEF Comment
        <5>1. n \in [by : {"us"}, inline : {FALSE}, answers : {c}]
          BY <5>3, <5>4
        <5>2. c \in Nat
          BY <3>2, LenProperties DEF PeoplesIds, Ids, PatrolInv
        <5> QED  BY <5>1, <5>2 DEF PatrolComment
      <4>3. /\ PeoplesIds \subseteq PeoplesIds' /\ Visits \subseteq Visits'
            /\ (comments \in Seq(PatrolComment))'
            /\ (\A i \in Ids : comments[i].by = "us" => comments[i].answers \in PeoplesIds)'
        BY <4>1, <4>2, <3>2, CommentsStay
      <4>4. visit' \in [Patrols -> Visits']
        BY <3>1, <4>3 DEF PatrolInv
      <4> QED  BY <4>1, <4>3, <4>4 DEF PatrolInv
    <3>4. CASE ~ok
      BY <2>1, <2>7, <3>1, <3>4 DEF HandleQuestion
    <3> QED  BY <3>3, <3>4
  <2>8. CASE SomebodyComments
    <3>1. PICK by \in {"maintainer", "bot"}, inline \in BOOLEAN : comments' = Append(comments, Comment(by, inline))
      BY <2>8 DEF SomebodyComments
    <3>2. Comment(by, inline) \in PatrolComment /\ Comment(by, inline).by # "us"
      BY DEF Comment, PatrolComment
    <3>3. /\ PeoplesIds \subseteq PeoplesIds' /\ Visits \subseteq Visits'
          /\ (comments \in Seq(PatrolComment))'
          /\ (\A i \in Ids : comments[i].by = "us" => comments[i].answers \in PeoplesIds)'
      BY <3>1, <3>2, CommentsStay
    <3> QED  BY <2>8, <3>3 DEF SomebodyComments, PatrolInv
  <2>9. CASE PullChanges
    BY <2>9 DEF PullChanges, PatrolInv, Visits, PeoplesIds, Ids
  <2>10. CASE UNCHANGED patrolVars
    BY <2>10 DEF patrolVars, PatrolInv, Visits, PeoplesIds, Ids
  <2> QED  BY <2>2, <2>3, <2>4, <2>6, <2>7, <2>8, <2>9, <2>10 DEF PatrolNext, VisitStep
<1> QED  BY <1>1, <1>2, PTL DEF PatrolSpec

\* Whatever bots, maintainers and other patrols write while a patrol visits a pull
\* request: it changes files and answers for comments of people only (patrol.rs collects
\* the feedback once, then acts on what it holds).
THEOREM PatrolsAnswerPeople == PatrolSpec => []AnswersArePeoples
<1>1. PatrolInv => AnswersArePeoples
  BY DEF PatrolInv, AnswersArePeoples, PeoplesIds
<1> QED  BY <1>1, PatrolInvHolds, PTL

(***************************************************************************)
(* The issues that get a fix (Issues): lists name an issue once, rounds have *)
(* numbers of their own, and what a timeline that was read does not name had *)
(* no pull request of ours.                                                *)
(***************************************************************************)

\* The elements of a finite set in a total order: every rank is taken, and by one.
LEMMA RanksAreTaken ==
  ASSUME NEW S, IsFiniteSet(S), NEW below \in [S -> SUBSET S],
         \A x \in S : x \notin below[x],
         \A x, y \in S : \/ x = y
                         \/ x \in below[y] /\ below[x] \subseteq below[y]
                         \/ y \in below[x] /\ below[y] \subseteq below[x]
  PROVE  /\ Cardinality(S) \in Nat
         /\ \A n \in 0..Cardinality(S) - 1 : \E x \in S : Cardinality(below[x]) = n
<1> DEFINE n == Cardinality(S)
           rank == [x \in S |-> Cardinality(below[x])]
<1>1. n \in Nat
  BY FS_CardinalityType
<1>2. ASSUME NEW x \in S PROVE IsFiniteSet(below[x]) /\ rank[x] \in 0..n - 1
  <2>1. IsFiniteSet(S \ {x}) /\ Cardinality(S \ {x}) = n - 1
    BY FS_RemoveElement
  <2>2. below[x] \subseteq S \ {x}
    OBVIOUS
  <2>3. IsFiniteSet(below[x]) /\ Cardinality(below[x]) <= n - 1
    BY <2>1, <2>2, FS_Subset
  <2>4. Cardinality(below[x]) \in Nat
    BY <2>3, FS_CardinalityType
  <2> QED  BY <1>1, <2>3, <2>4
<1>3. ASSUME NEW x \in S, NEW y \in S, x \in below[y], below[x] \subseteq below[y]
      PROVE  rank[x] # rank[y]
  <2>1. IsFiniteSet(below[y]) /\ below[x] # below[y]
    BY <1>2, <1>3
  <2>2. Cardinality(below[y]) # Cardinality(below[x])
    BY <1>3, <2>1, FS_Subset
  <2> QED  BY <2>2
<1>4. ASSUME NEW x \in S, NEW y \in S, rank[x] = rank[y] PROVE x = y
  BY <1>3, <1>4
<1> HIDE DEF rank, n
<1>5. rank \in Injection(S, 0..n - 1)
  <2>1. rank \in [S -> 0..n - 1]
    BY <1>2 DEF rank
  <2> QED  BY <2>1, <1>4 DEF Injection, IsInjective
<1>6. IsFiniteSet(0..n - 1) /\ Cardinality(0..n - 1) = n
  BY <1>1, FS_Interval
<1>7. rank \in Surjection(S, 0..n - 1)
  BY <1>5, <1>6, FS_Injection DEF n
<1>8. \A m \in 0..n - 1 : \E x \in S : rank[x] = m
  BY <1>7 DEF Surjection
<1> QED  BY <1>1, <1>8 DEF rank, n

\* Of larger numbers fewer are larger.
LEMMA LargerOnes ==
  ASSUME NEW H, H \subseteq Nat, NEW i \in H, NEW j \in H, i > j
  PROVE  i \in {k \in H : k > j} /\ {k \in H : k > i} \subseteq {k \in H : k > j}
<1>1. \A k \in H : k > i => k > j
  OBVIOUS
<1> QED  BY <1>1

IsListOf(list, S) ==
  /\ list \in Seq(S)
  /\ \A k, l \in 1..Len(list) : list[k] = list[l] => k = l

\* A list of the host names every issue it finds once.
LEMMA ListsAreSets ==
  ASSUME NEW labelled
  PROVE  IsListOf(Listed(labelled), Issues)
<1> DEFINE hits == {i \in Issues : tracker[i].free /\ labelled[i]}
           below == [i \in hits |-> {j \in hits : j > i}]
           n == Cardinality(hits)
           Is(i, k) == Cardinality({j \in hits : j > i}) = k - 1
           list == [k \in 1..n |-> CHOOSE i \in hits : Is(i, k)]
<1>1. hits \subseteq Issues /\ hits \subseteq Nat
  BY IssuesAssumption
<1>2. IsFiniteSet(hits)
  BY <1>1, IssuesAssumption, FS_Subset
<1>3. Listed(labelled) = list
  BY DEF Listed
<1> HIDE DEF hits
<1>4. below \in [hits -> SUBSET hits]
  OBVIOUS
<1>5. \A i \in hits : i \notin below[i]
  BY <1>1
<1>6. ASSUME NEW i \in hits, NEW j \in hits
      PROVE  \/ i = j
             \/ i \in below[j] /\ below[i] \subseteq below[j]
             \/ j \in below[i] /\ below[j] \subseteq below[i]
  <2>1. i \in Nat /\ j \in Nat /\ \A k \in hits : k \in Nat
    BY <1>1
  <2>2. below[i] = {k \in hits : k > i} /\ below[j] = {k \in hits : k > j}
    OBVIOUS
  <2>3. i = j \/ i > j \/ j > i
    BY <2>1
  <2>4. ASSUME i > j PROVE i \in below[j] /\ below[i] \subseteq below[j]
    BY ONLY <1>1, <2>2, <2>4, LargerOnes
  <2>5. ASSUME j > i PROVE j \in below[i] /\ below[j] \subseteq below[i]
    BY ONLY <1>1, <2>2, <2>5, LargerOnes
  <2> QED  BY <2>3, <2>4, <2>5
<1> HIDE DEF below
<1>7. n \in Nat /\ \A m \in 0..n - 1 : \E i \in hits : Cardinality(below[i]) = m
  BY <1>2, <1>4, <1>5, <1>6, RanksAreTaken
<1> HIDE DEF n
<1>8. ASSUME NEW k \in 1..n
      PROVE  /\ (CHOOSE i \in hits : Is(i, k)) \in hits
             /\ Is((CHOOSE i \in hits : Is(i, k)), k)
  <2>1. k - 1 \in 0..n - 1
    BY <1>7
  <2>2. \E i \in hits : Is(i, k)
    BY <1>7, <2>1 DEF below
  <2> HIDE DEF Is
  <2> QED  BY <2>2
<1>9. \A k \in 1..n : list[k] \in hits /\ Is(list[k], k)
  <2> HIDE DEF Is
  <2> QED  BY <1>8
<1>10. list \in Seq(hits) /\ Len(list) = n
  <2> HIDE DEF Is
  <2>1. list \in [1..n -> hits]
    BY <1>9
  <2> HIDE DEF list
  <2> QED  BY <1>7, <2>1
<1> HIDE DEF list
<1>11. list \in Seq(Issues)
  BY <1>1, <1>10, SeqMonotonic
<1>12. ASSUME NEW k \in 1..Len(list), NEW l \in 1..Len(list), list[k] = list[l] PROVE k = l
  <2>1. Is(list[k], k) /\ Is(list[k], l)
    BY <1>9, <1>10, <1>12
  <2> QED  BY <1>7, <1>10, <2>1
<1> QED  BY <1>3, <1>11, <1>12 DEF IsListOf

\* What is deduplicated stays deduplicated.
LEMMA NewOnesAreNew ==
  ASSUME NEW found, IsListOf(found, Issues), NEW listed \in Seq(Issues)
  PROVE  IsListOf(NewOnes(found, listed), Issues)
<1> DEFINE n == Len(listed)
           Has(before, k) == \E i \in 1..Len(before) : before[i] = listed[k]
           IsUpto(f) == f = [k \in 0..n |->
             IF k = 0 THEN found
             ELSE LET before == f[k - 1] IN IF Has(before, k) THEN before ELSE Append(before, listed[k])]
           V == Seq(Issues)
           step == [k \in 1..n |-> [before \in V |-> IF Has(before, k) THEN before ELSE Append(before, listed[k])]]
           T == {s \in V : IsListOf(s, Issues)}
<1>1. n \in Nat /\ found \in V /\ \A k \in 1..n : listed[k] \in Issues
  BY LenProperties, ElementOfSeq DEF IsListOf
<1>2. step \in [1..n -> [V -> V]]
  BY <1>1, AppendProperties
<1>3. PICK g : IsFold(g, n, V, found, step)
  <2> HIDE DEF n, step, V
  <2> QED  BY <1>1, <1>2, FoldExists
<1>4. IsUpto(g)
  <2> HIDE DEF Has
  <2>1. /\ g \in [0..n -> V] /\ g[0] = found
        /\ \A k \in 1..n : g[k] = IF Has(g[k - 1], k) THEN g[k - 1] ELSE Append(g[k - 1], listed[k])
    <3>1. ASSUME NEW k \in 1..n PROVE g[k] = step[k][g[k - 1]] /\ g[k - 1] \in V
      <4>1. k - 1 \in 0..n
        BY <1>1
      <4> QED  BY <1>3, <4>1 DEF IsFold
    <3> QED  BY <1>3, <3>1 DEF IsFold
  <2> HIDE DEF V, n
  <2>2. \A k \in 0..n : k = 0 \/ k \in 1..n
    BY <1>1
  <2> QED  BY <2>1, <2>2
<1> DEFINE f == CHOOSE h : IsUpto(h)
<1>5. IsUpto(f)
  <2> HIDE DEF IsUpto
  <2> QED  BY <1>4
<1>6. NewOnes(found, listed) = f[n]
  BY DEF NewOnes
<1> HIDE DEF f
<1> DEFINE S == {k \in Nat : k <= n => f[k] \in T}
<1>7. 0 \in S
  BY <1>1, <1>5
<1>8. ASSUME NEW k \in Nat, k \in S, k + 1 <= n PROVE f[k + 1] \in T
  <2> DEFINE before == f[k]
  <2>1. before \in T /\ k + 1 \in 1..n
    BY <1>1, <1>8
  <2>2. f[k + 1] = IF Has(before, k + 1) THEN before ELSE Append(before, listed[k + 1])
    <3>1. k + 1 \in 0..n /\ k + 1 # 0 /\ (k + 1) - 1 = k
      BY <1>8
    <3> HIDE DEF Has
    <3> QED  BY <1>5, <3>1
  <2> HIDE DEF before
  <2>3. CASE Has(before, k + 1)
    BY <2>1, <2>2, <2>3
  <2>4. CASE ~Has(before, k + 1)
    <3>1. before \in Seq(Issues) /\ listed[k + 1] \in Issues /\ Len(before) \in Nat
      BY <1>1, <2>1, LenProperties
    <3> DEFINE after == Append(before, listed[k + 1])
    <3>2. /\ after \in Seq(Issues) /\ Len(after) = Len(before) + 1
          /\ \A i \in 1..Len(before) : after[i] = before[i]
          /\ after[Len(before) + 1] = listed[k + 1]
      BY <3>1, AppendProperties
    <3> HIDE DEF after
    <3>3. \A i \in 1..Len(before) : before[i] # listed[k + 1]
      BY <2>4
    <3>4. \A i, j \in 1..Len(after) : after[i] = after[j] => i = j
      BY <2>1, <3>1, <3>2, <3>3 DEF IsListOf
    <3> QED  BY <2>2, <2>4, <3>2, <3>4 DEF IsListOf, after
  <2> QED  BY <2>3, <2>4
<1>9. \A k \in Nat : k \in S => k + 1 \in S
  <2> HIDE DEF T
  <2> QED  BY <1>8
<1> HIDE DEF S
<1>10. n \in S
  BY <1>1, <1>7, <1>9, Induction
<1> QED  BY <1>1, <1>6, <1>10 DEF S
(***************************************************************************)
(* The rounds                                                              *)
(***************************************************************************)
\* What a round keeps of an issue: with what it knew of our pull requests for it.
Kept == [issue : Issues, blind : BOOLEAN, fixes : SUBSET fixes]

\* Issues to solve: none twice, and of one whose timeline was read no pull request was
\* there.
IsTodo(todo) ==
  /\ todo \in Seq(Kept)
  /\ \A k \in 1..Len(todo) : todo[k].blind \/ todo[k].fixes = {}
  /\ \A k, l \in 1..Len(todo) : todo[k].issue = todo[l].issue => k = l

\* A round that has opened nothing.
IsFresh(round) == \A f \in fixes : f.round # round

RoundOK(w) ==
  \/ w = NotSolving
  \/ /\ w \in [at : {"list", "list any"}, round : 0..rounds, group : Nat, found : Seq(Issues)]
     /\ IsListOf(w.found, Issues) /\ IsFresh(w.round)
  \/ /\ w \in [at : {"check"}, round : 0..rounds, left : Seq(Issues), kept : Seq(Kept)]
     /\ IsListOf(w.left, Issues) /\ w.left # <<>> /\ IsTodo(w.kept) /\ IsFresh(w.round)
     /\ \A k \in 1..Len(w.kept), l \in 1..Len(w.left) : w.kept[k].issue # w.left[l]
  \/ /\ w \in [at : {"solve"}, round : 0..rounds, issues : Seq(Kept)]
     /\ IsTodo(w.issues) /\ w.issues # <<>>
     /\ \A f \in fixes, k \in 1..Len(w.issues) : f.round = w.round => f.issue # w.issues[k].issue

FixesOK ==
  /\ IsFiniteSet(fixes)
  /\ \A f \in fixes : /\ f.issue \in Issues /\ f.round \in 0..rounds /\ f.number \in Nat
                      /\ f.blind \/ f.known = {}
                      /\ tracker[f.issue].linked
  /\ \A f, g \in fixes : f.round = g.round /\ f.issue = g.issue => f = g

IssuesInv ==
  /\ rounds \in Nat
  /\ tracker \in [Issues -> [free : BOOLEAN, linked : BOOLEAN, long : BOOLEAN]]
  /\ DOMAIN solving = Solvers /\ solving = [s \in Solvers |-> solving[s]]
  /\ \A s \in Solvers : RoundOK(solving[s])
  /\ \A s, t \in Solvers :
       s # t /\ solving[s] # NotSolving /\ solving[t] # NotSolving => solving[s].round # solving[t].round
  /\ FixesOK

\* A round that opened nothing meanwhile goes on.
LEMMA RoundsGoOn ==
  ASSUME NEW w, RoundOK(w), fixes \subseteq fixes', rounds \in Nat, rounds' \in Nat, rounds <= rounds',
         w # NotSolving => \A f \in fixes' \ fixes : f.round # w.round
  PROVE  RoundOK(w)'
<1>1. CASE w = NotSolving
  BY <1>1 DEF RoundOK, NotSolving
<1>2. /\ Kept \subseteq Kept' /\ 0..rounds \subseteq 0..rounds'
      /\ \A todo : todo \in Seq(Kept) => todo \in Seq(Kept')
  <2>1. Kept \subseteq Kept'
    BY DEF Kept
  <2> QED  BY <2>1, SeqMonotonic
<1>3. CASE w # NotSolving
  <2>1. \A f \in fixes' : f \in fixes \/ f.round # w.round
    BY <1>3
  <2>2. \A todo : IsTodo(todo) => IsTodo(todo)'
    BY <1>2 DEF IsTodo
  <2>3. IsFresh(w.round) => IsFresh(w.round)'
    BY <2>1 DEF IsFresh
  <2> QED  BY <1>2, <1>3, <2>1, <2>2, <2>3 DEF RoundOK
<1> QED  BY <1>1, <1>3

\* One solver moves, and opens nothing.
LEMMA SolverMoves ==
  ASSUME IssuesInv, NEW s \in Solvers, NEW w, RoundOK(w),
         w = NotSolving \/ (solving[s] # NotSolving /\ w.round = solving[s].round),
         solving' = [solving EXCEPT ![s] = w], UNCHANGED <<tracker, fixes, rounds>>
  PROVE  IssuesInv'
<1>1. ASSUME NEW t \in Solvers PROVE solving'[t] = IF t = s THEN w ELSE solving[t]
  BY DEF IssuesInv
<1>2. \A v : RoundOK(v) => RoundOK(v)'
  <2>1. ASSUME NEW v, RoundOK(v) PROVE RoundOK(v)'
    BY <2>1, RoundsGoOn DEF IssuesInv
  <2> QED  BY <2>1
<1>3. \A t \in Solvers : RoundOK(solving[t])'
  BY <1>1, <1>2 DEF IssuesInv
<1>4. DOMAIN solving' = Solvers /\ solving' = [t \in Solvers |-> solving'[t]]
  BY DEF IssuesInv
<1>5. FixesOK'
  BY DEF IssuesInv, FixesOK
<1>6. \A t, u \in Solvers :
        t # u /\ solving'[t] # NotSolving /\ solving'[u] # NotSolving => solving'[t].round # solving'[u].round
  BY <1>1 DEF IssuesInv
<1> QED  BY <1>3, <1>4, <1>5, <1>6 DEF IssuesInv, NotSolving

\* The easiest issues are some of those that were kept, each of them once.
LEMMA EasiestAreKept ==
  ASSUME NEW kept, IsTodo(kept)
  PROVE  /\ IsTodo(Easiest(kept))
         /\ \A k \in 1..Len(Easiest(kept)) : \E l \in 1..Len(kept) : Easiest(kept)[k] = kept[l]
<1> DEFINE n == Len(kept)
           Easier(j, k) == \/ Complexity[kept[j].issue] < Complexity[kept[k].issue]
                           \/ Complexity[kept[j].issue] = Complexity[kept[k].issue] /\ j < k
           Rank(k) == 1 + Cardinality({j \in 1..n : Easier(j, k)})
           at == [m \in 1..n |-> CHOOSE k \in 1..n : Rank(k) = m]
           sorted == [m \in 1..n |-> kept[CHOOSE k \in 1..n : Rank(k) = m]]
           below == [k \in 1..n |-> {j \in 1..n : Easier(j, k)}]
<1>1. n \in Nat /\ \A k \in 1..n : kept[k] \in Kept /\ Complexity[kept[k].issue] \in Nat
  <2>1. n \in Nat /\ \A k \in 1..n : kept[k] \in Kept
    BY LenProperties, ElementOfSeq DEF IsTodo
  <2> QED  BY <2>1, IssuesAssumption DEF Kept
<1>2. Easiest(kept) = IF Len(sorted) > MaxSolved THEN SubSeq(sorted, 1, MaxSolved) ELSE sorted
  BY DEF Easiest
<1>3. IsFiniteSet(1..n) /\ Cardinality(1..n) = n
  <2>1. IsFiniteSet(1..n) /\ Cardinality(1..n) = IF 1 > n THEN 0 ELSE n - 1 + 1
    BY <1>1, FS_Interval
  <2>2. n \in Nat
    BY <1>1
  <2> HIDE DEF n
  <2> QED  BY ONLY <2>1, <2>2
<1>4. below \in [1..n -> SUBSET (1..n)]
  OBVIOUS
<1>5. \A k \in 1..n : k \notin below[k]
  BY <1>1
<1>6. ASSUME NEW j \in 1..n, NEW k \in 1..n, Easier(j, k) PROVE j \in below[k] /\ below[j] \subseteq below[k]
  <2>1. ASSUME NEW l \in 1..n, Easier(l, j) PROVE Easier(l, k)
    BY <1>1, <1>6, <2>1
  <2> QED  BY <1>6, <2>1
<1>7. \A j, k \in 1..n : j = k \/ Easier(j, k) \/ Easier(k, j)
  BY <1>1
<1> HIDE DEF below, Easier
<1>8. \A m \in 0..n - 1 : \E k \in 1..n : Cardinality(below[k]) = m
  <2> DEFINE S == 1..n
  <2>1. IsFiniteSet(S) /\ Cardinality(S) = n /\ below \in [S -> SUBSET S] /\ \A k \in S : k \notin below[k]
    BY <1>3, <1>4, <1>5
  <2>2. ASSUME NEW j \in S, NEW k \in S
        PROVE  \/ j = k
               \/ j \in below[k] /\ below[j] \subseteq below[k]
               \/ k \in below[j] /\ below[k] \subseteq below[j]
    <3>1. j \in 1..n /\ k \in 1..n
      OBVIOUS
    <3>2. j = k \/ Easier(j, k) \/ Easier(k, j)
      BY <1>7, <3>1
    <3>3. CASE Easier(j, k)
      BY <1>6, <3>1, <3>3
    <3>4. CASE Easier(k, j)
      BY <1>6, <3>1, <3>4
    <3> QED  BY <3>2, <3>3, <3>4
  <2> HIDE DEF S, n
  <2>3. \A m \in 0..Cardinality(S) - 1 : \E k \in S : Cardinality(below[k]) = m
    BY ONLY <2>1, <2>2, RanksAreTaken
  <2> QED  BY <2>1, <2>3 DEF S
<1>9. ASSUME NEW m \in 1..n PROVE at[m] \in 1..n /\ Rank(at[m]) = m
  <2>0. m - 1 \in 0..n - 1
    <3>1. n \in Nat
      BY <1>1
    <3> HIDE DEF n
    <3> QED  BY ONLY <3>1
  <2>1. PICK k \in 1..n : Cardinality(below[k]) = m - 1
    BY ONLY <1>8, <2>0
  <2>2. Rank(k) = m
    BY <1>1, <2>1 DEF below
  <2> HIDE DEF Rank
  <2> QED  BY <2>2
<1>10. \A m \in 1..n : sorted[m] = kept[at[m]]
  OBVIOUS
<1>11. \A l, m \in 1..n : at[l] = at[m] => l = m
  BY <1>9
<1>12. sorted \in Seq(Kept) /\ Len(sorted) = n
  <2>1. sorted \in [1..n -> Kept]
    BY <1>1, <1>9
  <2> HIDE DEF sorted
  <2> QED  BY <1>1, <2>1
<1> HIDE DEF at, sorted
<1>13. PICK size \in 0..n : /\ Easiest(kept) \in Seq(Kept) /\ Len(Easiest(kept)) = size
                            /\ \A m \in 1..size : Easiest(kept)[m] = sorted[m]
  <2>1. CASE Len(sorted) > MaxSolved
    <3>1. MaxSolved \in 0..n /\ \A i \in 1..MaxSolved : sorted[i] \in Kept
      BY <1>1, <1>12, <2>1, ElementOfSeq, IssuesAssumption
    <3> DEFINE some == SubSeq(sorted, 1, MaxSolved)
    <3>2. /\ some \in Seq(Kept) /\ Len(some) = IF 1 <= MaxSolved THEN MaxSolved - 1 + 1 ELSE 0
          /\ \A i \in 1..MaxSolved - 1 + 1 : some[i] = sorted[1 + i - 1]
      BY <3>1, SubSeqProperties
    <3> HIDE DEF some
    <3>3. some \in Seq(Kept) /\ Len(some) = MaxSolved /\ \A i \in 1..MaxSolved : some[i] = sorted[i]
      BY <3>1, <3>2
    <3>4. Easiest(kept) = some
      BY <1>2, <2>1 DEF some
    <3> QED  BY <3>1, <3>3, <3>4
  <2>2. CASE ~(Len(sorted) > MaxSolved)
    BY <1>1, <1>2, <1>12, <2>2
  <2> QED  BY <2>1, <2>2
<1>14. \A m \in 1..size : at[m] \in 1..n /\ Easiest(kept)[m] = kept[at[m]]
  <2>1. \A m \in 1..size : m \in 1..n
    <3>1. n \in Nat
      BY <1>1
    <3> HIDE DEF n
    <3> QED  BY ONLY <3>1, <1>13
  <2> QED  BY <2>1, <1>9, <1>10, <1>13
<1>15. \A l, m \in 1..size : Easiest(kept)[l].issue = Easiest(kept)[m].issue => l = m
  <2> SUFFICES ASSUME NEW l \in 1..size, NEW m \in 1..size,
                      Easiest(kept)[l].issue = Easiest(kept)[m].issue
               PROVE  l = m
    OBVIOUS
  <2>1. at[l] = at[m]
    BY <1>14 DEF IsTodo
  <2> QED  BY <1>1, <1>11, <1>13, <2>1
<1>16. IsTodo(Easiest(kept))
  BY <1>13, <1>14, <1>15 DEF IsTodo
<1> QED  BY <1>13, <1>14, <1>16
\* A list of labels was read, or could not be.
LEMMA ListedIssues ==
  ASSUME IssuesInv, NEW s \in Solvers, NEW ok, ListGroup(s, ok) \/ ListAny(s, ok)
  PROVE  IssuesInv'
<1> DEFINE w == solving[s]
<1>1. /\ w # NotSolving
      /\ w \in [at : {"list", "list any"}, round : 0..rounds, group : Nat, found : Seq(Issues)]
      /\ IsListOf(w.found, Issues) /\ IsFresh(w.round)
  <2>1. w.at \in {"list", "list any"} /\ RoundOK(w)
    BY DEF IssuesInv, ListGroup, ListAny
  <2> HIDE DEF w
  <2>2. NotSolving.at = "idle"
    BY DEF NotSolving
  <2>3. w # NotSolving
    BY <2>1, <2>2
  <2> QED  BY <2>1, <2>3 DEF RoundOK
<1>2. UNCHANGED <<tracker, fixes, rounds>>
  BY DEF ListGroup, ListAny
<1>3. ASSUME NEW v, RoundOK(v), v = NotSolving \/ v.round = w.round, Solving(s, v) PROVE IssuesInv'
  BY <1>1, <1>2, <1>3, SolverMoves DEF Solving
<1>4. RoundOK(NotSolving)
  BY DEF RoundOK
<1>5. ASSUME NEW rest, IsListOf(rest, Issues), rest # <<>>
      PROVE  RoundOK([at |-> "check", round |-> w.round, left |-> rest, kept |-> <<>>])
  <2> DEFINE v == [at |-> "check", round |-> w.round, left |-> rest, kept |-> <<>>]
  <2>1. <<>> \in Seq(Kept) /\ Len(<<>>) = 0
    OBVIOUS
  <2>2. /\ v \in [at : {"check"}, round : 0..rounds, left : Seq(Issues), kept : Seq(Kept)]
        /\ v.left = rest /\ v.kept = <<>> /\ v.round = w.round
    BY <1>1, <1>5, <2>1 DEF IsListOf
  <2>3. IsTodo(<<>>)
    BY <2>1 DEF IsTodo
  <2> HIDE DEF v
  <2> DEFINE Apart == \A k \in 1..Len(v.kept), l \in 1..Len(v.left) : v.kept[k].issue # v.left[l]
  <2>4. Apart
    BY <2>1, <2>2
  <2>5. IsListOf(v.left, Issues) /\ v.left # <<>> /\ IsTodo(v.kept) /\ IsFresh(v.round)
    BY <1>1, <1>5, <2>2, <2>3
  <2>6. RoundOK(v) <=> \/ v = NotSolving
                      \/ /\ v \in [at : {"list", "list any"}, round : 0..rounds, group : Nat, found : Seq(Issues)]
                         /\ IsListOf(v.found, Issues) /\ IsFresh(v.round)
                      \/ /\ v \in [at : {"check"}, round : 0..rounds, left : Seq(Issues), kept : Seq(Kept)]
                         /\ IsListOf(v.left, Issues) /\ v.left # <<>> /\ IsTodo(v.kept) /\ IsFresh(v.round)
                         /\ Apart
                      \/ /\ v \in [at : {"solve"}, round : 0..rounds, issues : Seq(Kept)]
                         /\ IsTodo(v.issues) /\ v.issues # <<>>
                         /\ \A f \in fixes, k \in 1..Len(v.issues) : f.round = v.round => f.issue # v.issues[k].issue
    BY DEF RoundOK
  <2> HIDE DEF Apart
  <2> QED  BY <2>2, <2>4, <2>5, <2>6 DEF v
<1>6. CASE ListGroup(s, ok)
  <2> DEFINE listed == Listed([i \in Issues |-> Groups[w.group] \in LabelsOf[i]])
             found == IF ok THEN NewOnes(w.found, listed) ELSE w.found
  <2>1. Listing(s, found)
    BY <1>6 DEF ListGroup
  <2>2. IsListOf(found, Issues)
    BY <1>1, ListsAreSets, NewOnesAreNew DEF IsListOf
  <2> HIDE DEF found
  <2> DEFINE next == [w EXCEPT !.group = @ + 1, !.found = found]
             any == [w EXCEPT !.at = "list any"]
  <2>3. ASSUME NEW g \in Nat
        PROVE  LET v == [w EXCEPT !.group = g, !.found = found]
               IN /\ v \in [at : {"list", "list any"}, round : 0..rounds, group : Nat, found : Seq(Issues)]
                  /\ v.found = found /\ v.round = w.round
    <3> HIDE DEF w
    <3> QED  BY <1>1, <2>2 DEF IsListOf
  <2>4. RoundOK(next) /\ next.round = w.round
    <3>1. w.group + 1 \in Nat
      <4>1. w.group \in Nat
        BY <1>1
      <4> QED  BY ONLY <4>1
    <3>2. /\ next \in [at : {"list", "list any"}, round : 0..rounds, group : Nat, found : Seq(Issues)]
          /\ next.found = found /\ next.round = w.round
      <4> HIDE DEF w
      <4> QED  BY ONLY <2>3, <3>1, Zenon
    <3> HIDE DEF next, w
    <3> QED  BY <1>1, <2>2, <3>2 DEF RoundOK
  <2>5. RoundOK(any) /\ any.round = w.round
    <3>1. /\ any \in [at : {"list", "list any"}, round : 0..rounds, group : Nat, found : Seq(Issues)]
          /\ any.found = w.found /\ any.round = w.round
      <4> HIDE DEF w
      <4> QED  BY <1>1
    <3> HIDE DEF any, w
    <3> QED  BY <1>1, <3>1 DEF RoundOK
  <2> HIDE DEF w
  <2>6. \/ Solving(s, next)
        \/ Solving(s, any)
        \/ found # <<>> /\ Solving(s, [at |-> "check", round |-> w.round, left |-> found, kept |-> <<>>])
    BY <2>1 DEF Listing, w
  <2>7. [at |-> "check", round |-> w.round, left |-> found, kept |-> <<>>].round = w.round
    OBVIOUS
  <2> HIDE DEF next, any
  <2> QED  BY <1>3, <1>5, <2>2, <2>4, <2>5, <2>6, <2>7
<1>7. CASE ListAny(s, ok)
  <2> DEFINE listed == IF ok THEN Listed([i \in Issues |-> TRUE]) ELSE <<>>
             check == [at |-> "check", round |-> w.round, left |-> listed, kept |-> <<>>]
  <2>1. listed = <<>> \/ IsListOf(listed, Issues)
    BY ListsAreSets
  <2>2. IF listed = <<>> THEN Solving(s, NotSolving) ELSE Solving(s, check)
    BY <1>7 DEF ListAny
  <2>3. check.round = w.round
    OBVIOUS
  <2> HIDE DEF listed, w
  <2>4. CASE listed = <<>>
    BY <1>3, <1>4, <2>2, <2>4
  <2>5. CASE listed # <<>>
    <3>1. RoundOK(check)
      BY <1>5, <2>1, <2>5
    <3> HIDE DEF check
    <3> QED  BY <1>3, <2>2, <2>3, <2>5, <3>1
  <2> QED  BY <2>4, <2>5
<1> QED  BY <1>6, <1>7

\* The timeline of an issue was read, or could not be.
LEMMA CheckedIssue ==
  ASSUME IssuesInv, NEW s \in Solvers, NEW ok \in BOOLEAN, CheckTimeline(s, ok)
  PROVE  IssuesInv'
<1> DEFINE w == solving[s]
           issue == Head(w.left)
           blind == ~ok \/ tracker[issue].long
           entry == [issue |-> issue, blind |-> blind, fixes |-> {f \in fixes : f.issue = issue}]
           kept == IF tracker[issue].linked /\ ~blind THEN w.kept ELSE Append(w.kept, entry)
<1>1. /\ w # NotSolving
      /\ w \in [at : {"check"}, round : 0..rounds, left : Seq(Issues), kept : Seq(Kept)]
      /\ IsListOf(w.left, Issues) /\ w.left # <<>> /\ IsTodo(w.kept) /\ IsFresh(w.round)
      /\ \A k \in 1..Len(w.kept), l \in 1..Len(w.left) : w.kept[k].issue # w.left[l]
  <2>1. w.at = "check" /\ RoundOK(w)
    BY DEF IssuesInv, CheckTimeline
  <2> HIDE DEF w
  <2>2. w # NotSolving
    BY <2>1 DEF NotSolving
  <2> QED  BY <2>1, <2>2 DEF RoundOK
<1>2. /\ Len(w.left) \in Nat /\ Len(w.left) >= 1 /\ issue = w.left[1] /\ issue \in Issues
      /\ Tail(w.left) \in Seq(Issues) /\ Len(Tail(w.left)) = Len(w.left) - 1
      /\ \A l \in 1..Len(w.left) - 1 : Tail(w.left)[l] = w.left[l + 1]
  <2> DEFINE rest == w.left
  <2>1. rest \in Seq(Issues) /\ rest # <<>>
    BY <1>1
  <2>2. issue = Head(rest)
    OBVIOUS
  <2> HIDE DEF rest, issue
  <2>3. /\ Len(rest) \in Nat /\ Len(rest) >= 1 /\ Head(rest) = rest[1] /\ Head(rest) \in Issues
        /\ Tail(rest) \in Seq(Issues) /\ Len(Tail(rest)) = Len(rest) - 1
        /\ \A l \in 1..Len(rest) - 1 : Tail(rest)[l] = rest[l + 1]
    BY <2>1, HeadTailProperties, EmptySeq
  <2> QED  BY <2>2, <2>3 DEF rest
<1>3. tracker[issue] \in [free : BOOLEAN, linked : BOOLEAN, long : BOOLEAN]
  BY <1>2 DEF IssuesInv
<1>4. entry \in Kept /\ entry.issue = issue
  BY <1>2, <1>3 DEF Kept
<1>5. ~tracker[issue].linked => entry.fixes = {}
  BY DEF IssuesInv, FixesOK
<1>6. Len(w.kept) \in Nat /\ w.kept \in Seq(Kept)
  BY <1>1, LenProperties
<1>7. Solving(s, IF Len(w.left) > 1 THEN [w EXCEPT !.left = Tail(@), !.kept = kept]
                 ELSE IF Easiest(kept) = <<>> THEN NotSolving
                 ELSE [at |-> "solve", round |-> w.round, issues |-> Easiest(kept)])
      /\ UNCHANGED <<tracker, fixes, rounds>>
  BY DEF CheckTimeline
<1>8. IsTodo(kept) /\ \A k \in 1..Len(kept), l \in 2..Len(w.left) : kept[k].issue # w.left[l]
  <2>0. \A l \in 2..Len(w.left) : l \in 1..Len(w.left) /\ w.left[l] # issue
    BY <1>1, <1>2 DEF IsListOf
  <2>1. CASE tracker[issue].linked /\ ~blind
    BY <1>1, <2>0, <2>1
  <2>2. CASE ~(tracker[issue].linked /\ ~blind)
    <3> DEFINE more == Append(w.kept, entry)
               old == w.kept
    <3>1. entry.blind \/ entry.fixes = {}
      BY <1>5, <2>2
    <3> HIDE DEF entry
    <3>2. old \in Seq(Kept) /\ entry \in Kept /\ Len(old) \in Nat /\ more = Append(old, entry)
      BY <1>4, <1>6
    <3>3. \A k \in 1..Len(old) : old[k].issue # entry.issue
      BY <1>1, <1>2, <1>4
    <3>4. IsTodo(old)
      BY <1>1
    <3> HIDE DEF more, old
    <3>5. /\ more \in Seq(Kept) /\ Len(more) = Len(old) + 1
          /\ \A k \in 1..Len(old) : more[k] = old[k]
          /\ more[Len(old) + 1] = entry
      BY <3>2, AppendProperties
    <3>6. \A k \in 1..Len(more) : k \in 1..Len(old) \/ k = Len(old) + 1
      BY <3>2, <3>5
    <3>7. IsTodo(more)
      <4>1. \A k \in 1..Len(more) : more[k].blind \/ more[k].fixes = {}
        BY <3>1, <3>4, <3>5, <3>6 DEF IsTodo
      <4>2. ASSUME NEW k \in 1..Len(more), NEW l \in 1..Len(more), more[k].issue = more[l].issue
            PROVE  k = l
        BY <3>3, <3>4, <3>5, <3>6, <4>2 DEF IsTodo
      <4> QED  BY <3>5, <4>1, <4>2 DEF IsTodo
    <3>8. ASSUME NEW k \in 1..Len(more), NEW l \in 2..Len(w.left) PROVE more[k].issue # w.left[l]
      <4>1. CASE k \in 1..Len(old)
        BY <1>1, <2>0, <3>5, <4>1 DEF old
      <4>2. CASE k = Len(old) + 1
        BY <1>4, <2>0, <3>5, <4>2
      <4> QED  BY <3>6, <4>1, <4>2
    <3>9. kept = more
      BY <2>2 DEF more
    <3> HIDE DEF kept
    <3> QED  BY <3>7, <3>8, <3>9
  <2> QED  BY <2>1, <2>2
<1> HIDE DEF w, kept, issue
<1>9. ASSUME Len(w.left) > 1
      PROVE  RoundOK([w EXCEPT !.left = Tail(@), !.kept = kept])
             /\ [w EXCEPT !.left = Tail(@), !.kept = kept].round = w.round
  <2> DEFINE v == [w EXCEPT !.left = Tail(@), !.kept = kept]
  <2>1. /\ v \in [at : {"check"}, round : 0..rounds, left : Seq(Issues), kept : Seq(Kept)]
        /\ v.left = Tail(w.left) /\ v.kept = kept /\ v.round = w.round
    BY <1>1, <1>2, <1>8 DEF IsTodo
  <2> HIDE DEF v
  <2>2. Tail(w.left) # <<>>
    <3> DEFINE tail == Tail(w.left)
               n == Len(w.left)
    <3>1. n \in Nat /\ n > 1 /\ Len(tail) = n - 1
      BY <1>2, <1>9
    <3> HIDE DEF tail, n
    <3>2. Len(tail) # 0
      BY ONLY <3>1
    <3>3. tail # <<>>
      BY ONLY <3>2
    <3> QED  BY <3>3 DEF tail
  <2> DEFINE tail == Tail(w.left)
  <2>3. \A l \in 1..Len(tail) : l + 1 \in 2..Len(w.left) /\ tail[l] = w.left[l + 1]
    BY <1>2
  <2>4. IsListOf(tail, Issues)
    <3>1. \A l, m \in 2..Len(w.left) : w.left[l] = w.left[m] => l = m
      BY <1>1, <1>2 DEF IsListOf
    <3>2. ASSUME NEW l \in 1..Len(tail), NEW m \in 1..Len(tail), tail[l] = tail[m] PROVE l = m
      <4>1. l + 1 = m + 1 /\ l \in Nat /\ m \in Nat
        BY <2>3, <3>1, <3>2
      <4> QED  BY <4>1
    <3> QED  BY <1>2, <3>2 DEF IsListOf
  <2>5. \A k \in 1..Len(kept), l \in 1..Len(tail) : kept[k].issue # tail[l]
    BY <1>8, <2>3
  <2> QED  BY <1>1, <1>8, <2>1, <2>2, <2>4, <2>5 DEF RoundOK, v
<1>10. ASSUME Easiest(kept) # <<>>
       PROVE  RoundOK([at |-> "solve", round |-> w.round, issues |-> Easiest(kept)])
  <2> DEFINE todo == Easiest(kept)
             v == [at |-> "solve", round |-> w.round, issues |-> todo]
  <2>1. IsTodo(todo)
    BY <1>8, EasiestAreKept
  <2> HIDE DEF todo
  <2>2. /\ v \in [at : {"solve"}, round : 0..rounds, issues : Seq(Kept)]
        /\ v.issues = todo /\ v.round = w.round
    BY <1>1, <2>1 DEF IsTodo
  <2> HIDE DEF v
  <2>3. RoundOK(v)
    BY <1>1, <1>10, <2>1, <2>2 DEF RoundOK, IsFresh, todo
  <2> QED  BY <2>3 DEF v, todo
<1>11. [at |-> "solve", round |-> w.round, issues |-> Easiest(kept)].round = w.round
  OBVIOUS
<1>12. RoundOK(NotSolving)
  BY DEF RoundOK
<1>13. ASSUME NEW v, RoundOK(v), v = NotSolving \/ v.round = w.round, Solving(s, v) PROVE IssuesInv'
  BY <1>1, <1>7, <1>13, SolverMoves DEF Solving, w
<1>14. CASE Len(w.left) > 1
  BY <1>7, <1>9, <1>13, <1>14
<1>15. CASE ~(Len(w.left) > 1) /\ Easiest(kept) = <<>>
  BY <1>7, <1>12, <1>13, <1>15
<1>16. CASE ~(Len(w.left) > 1) /\ Easiest(kept) # <<>>
  BY <1>7, <1>10, <1>11, <1>13, <1>16
<1> QED  BY <1>14, <1>15, <1>16

\* A round begins: its number is new.
LEMMA RoundBegins ==
  ASSUME IssuesInv, NEW s \in Solvers, StartRound(s)
  PROVE  IssuesInv'
<1> SUFFICES ASSUME NEW v, v = [at |-> "list", round |-> rounds + 1, group |-> 1, found |-> <<>>]
             PROVE  IssuesInv'
  OBVIOUS
<1>1. /\ rounds \in Nat /\ rounds' = rounds + 1 /\ rounds' \in Nat /\ rounds <= rounds'
      /\ solving' = [solving EXCEPT ![s] = v] /\ UNCHANGED <<tracker, fixes>>
  BY DEF IssuesInv, StartRound, Solving
<1>2. \A u : RoundOK(u) => RoundOK(u)'
  <2>1. ASSUME NEW u, RoundOK(u) PROVE RoundOK(u)'
    BY <1>1, <2>1, RoundsGoOn
  <2> QED  BY <2>1
<1>3. ASSUME NEW t \in Solvers PROVE solving'[t] = IF t = s THEN v ELSE solving[t]
  BY <1>1 DEF IssuesInv
<1>4. v.round = rounds + 1 /\ v.found = <<>>
  OBVIOUS
<1>5. IsListOf(<<>>, Issues)
  <2>1. <<>> \in Seq(Issues) /\ Len(<<>>) = 0
    OBVIOUS
  <2> QED  BY <2>1 DEF IsListOf
<1>6. v \in [at : {"list", "list any"}, round : 0..rounds', group : Nat, found : Seq(Issues)]
  <2>1. rounds + 1 \in 0..rounds' /\ <<>> \in Seq(Issues)
    BY <1>1
  <2> QED  BY <2>1
<1>7. IsFresh(v.round)'
  <2>1. \A f \in fixes : f.round \in 0..rounds
    BY DEF IssuesInv, FixesOK
  <2> QED  BY ONLY <1>1, <1>4, <2>1 DEF IsFresh
<1>8. RoundOK(v)'
  <2>1. v \in [at : {"list", "list any"}, round : 0..rounds, group : Nat, found : Seq(Issues)]'
    BY <1>6
  <2>2. IsListOf(v.found, Issues)'
    BY <1>4, <1>5 DEF IsListOf
  <2> QED  BY ONLY <2>1, <2>2, <1>7 DEF RoundOK
<1>9. \A t \in Solvers : RoundOK(solving[t])'
  BY <1>2, <1>3, <1>8 DEF IssuesInv
<1>10. \A t \in Solvers : solving[t] # NotSolving => solving[t].round \in 0..rounds
  BY DEF IssuesInv, RoundOK
<1>11. \A t, u \in Solvers :
         t # u /\ solving'[t] # NotSolving /\ solving'[u] # NotSolving => solving'[t].round # solving'[u].round
  <2>1. \A t \in Solvers : solving[t] # NotSolving => solving[t].round # rounds + 1
    BY <1>1, <1>10
  <2> QED  BY <1>3, <1>4, <2>1 DEF IssuesInv
<1>12. DOMAIN solving' = Solvers /\ solving' = [t \in Solvers |-> solving'[t]]
  BY <1>1 DEF IssuesInv
<1>13. FixesOK'
  BY <1>1 DEF IssuesInv, FixesOK
<1> QED  BY <1>1, <1>9, <1>11, <1>12, <1>13 DEF IssuesInv, NotSolving

\* An issue was solved, or nothing came of it.
LEMMA SolvedIssue ==
  ASSUME IssuesInv, NEW s \in Solvers, NEW opened \in BOOLEAN, SolveNext(s, opened)
  PROVE  IssuesInv'
<1> DEFINE w == solving[s]
           todo == w.issues
           next == Head(todo)
           new == [issue |-> next.issue, number |-> Cardinality(fixes) + 1, round |-> w.round,
                   blind |-> next.blind, known |-> {f.number : f \in next.fixes}]
           v == IF Len(todo) = 1 THEN NotSolving ELSE [w EXCEPT !.issues = Tail(@)]
<1>1. /\ w # NotSolving /\ rounds \in Nat
      /\ w \in [at : {"solve"}, round : 0..rounds, issues : Seq(Kept)]
      /\ IsTodo(todo) /\ todo # <<>>
      /\ \A f \in fixes, k \in 1..Len(todo) : f.round = w.round => f.issue # todo[k].issue
  <2>1. w.at = "solve" /\ RoundOK(w) /\ rounds \in Nat
    BY DEF IssuesInv, SolveNext
  <2> HIDE DEF w
  <2>2. NotSolving.at = "idle"
    BY DEF NotSolving
  <2>3. w # NotSolving
    BY <2>1, <2>2
  <2> QED  BY <2>1, <2>3 DEF RoundOK
<1>2. /\ solving' = [solving EXCEPT ![s] = v] /\ UNCHANGED rounds
      /\ IF opened
         THEN fixes' = fixes \cup {new} /\ tracker' = [tracker EXCEPT ![next.issue].linked = TRUE]
         ELSE UNCHANGED <<fixes, tracker>>
  BY DEF SolveNext, Solving
<1>3. /\ Len(todo) \in Nat /\ Len(todo) >= 1 /\ next = todo[1] /\ next \in Kept
      /\ Tail(todo) \in Seq(Kept) /\ Len(Tail(todo)) = Len(todo) - 1
      /\ \A l \in 1..Len(todo) - 1 : Tail(todo)[l] = todo[l + 1]
  <2>1. todo \in Seq(Kept) /\ todo # <<>>
    BY <1>1
  <2>2. next = Head(todo)
    OBVIOUS
  <2> HIDE DEF todo, next
  <2>3. /\ Len(todo) \in Nat /\ Len(todo) >= 1 /\ Head(todo) = todo[1] /\ Head(todo) \in Kept
        /\ Tail(todo) \in Seq(Kept) /\ Len(Tail(todo)) = Len(todo) - 1
        /\ \A l \in 1..Len(todo) - 1 : Tail(todo)[l] = todo[l + 1]
    BY <2>1, HeadTailProperties, EmptySeq
  <2> QED  BY <2>2, <2>3
<1>4. next.issue \in Issues /\ (next.blind \/ next.fixes = {})
  BY <1>1, <1>3 DEF IsTodo, Kept
<1>5. /\ new.issue = next.issue /\ new.round = w.round /\ new.blind = next.blind
      /\ new.known = {f.number : f \in next.fixes}
  OBVIOUS
<1>6. new.blind \/ new.known = {}
  BY <1>4, <1>5
<1>7. \A f \in fixes : f.round = w.round => f.issue # next.issue
  BY <1>1, <1>3
<1>8. w.round \in 0..rounds
  BY <1>1
<1> HIDE DEF new
<1>9. fixes \subseteq fixes' /\ \A f \in fixes' \ fixes : f = new
  BY <1>2
<1>10. FixesOK'
  <2>0. IsFiniteSet(fixes) /\ new.number \in Nat
    <3>1. IsFiniteSet(fixes)
      BY DEF IssuesInv, FixesOK
    <3>2. Cardinality(fixes) \in Nat
      BY <3>1, FS_CardinalityType
    <3> QED  BY <3>1, <3>2 DEF new
  <2>1. CASE ~opened
    BY <1>2, <2>1 DEF IssuesInv, FixesOK
  <2>2. CASE opened
    <3>1. fixes' = fixes \cup {new} /\ tracker' = [tracker EXCEPT ![next.issue].linked = TRUE]
      BY <1>2, <2>2
    <3> DEFINE i == next.issue
    <3>2. i \in Issues
      BY <1>4
    <3>3. \A j \in Issues : j = i \/ tracker[j].linked => tracker'[j].linked
      <4> HIDE DEF i
      <4>1. tracker' = [tracker EXCEPT ![i].linked = TRUE]
        BY <3>1 DEF i
      <4>2. tracker[i] \in [free : BOOLEAN, linked : BOOLEAN, long : BOOLEAN]
        BY <3>2 DEF IssuesInv
      <4>3. [tracker[i] EXCEPT !.linked = TRUE].linked = TRUE
        BY <4>2
      <4>4. \A j \in Issues : tracker'[j] = IF j = i THEN [tracker[i] EXCEPT !.linked = TRUE] ELSE tracker[j]
        BY <3>2, <4>1 DEF IssuesInv
      <4> QED  BY <4>3, <4>4
    <3>4. \A f \in fixes' : /\ f.issue \in Issues /\ f.round \in 0..rounds' /\ f.number \in Nat
                            /\ f.blind \/ f.known = {}
                            /\ tracker'[f.issue].linked
      BY <1>2, <1>4, <1>5, <1>6, <1>8, <2>0, <3>1, <3>2, <3>3 DEF IssuesInv, FixesOK
    <3>5. \A f, g \in fixes' : f.round = g.round /\ f.issue = g.issue => f = g
      BY <1>5, <1>7, <3>1 DEF IssuesInv, FixesOK
    <3>6. IsFiniteSet(fixes')
      BY <2>0, <3>1, FS_AddElement
    <3> QED  BY <3>4, <3>5, <3>6 DEF FixesOK
  <2> QED  BY <2>1, <2>2
<1>11. tracker' \in [Issues -> [free : BOOLEAN, linked : BOOLEAN, long : BOOLEAN]]
  <2> DEFINE i == next.issue
  <2>1. i \in Issues
    BY <1>4
  <2>2. tracker' = [tracker EXCEPT ![i].linked = TRUE] \/ tracker' = tracker
    BY <1>2
  <2>3. [tracker[i] EXCEPT !.linked = TRUE] \in [free : BOOLEAN, linked : BOOLEAN, long : BOOLEAN]
    <3> DEFINE t == tracker[i]
    <3>1. t \in [free : BOOLEAN, linked : BOOLEAN, long : BOOLEAN]
      BY <2>1 DEF IssuesInv
    <3> HIDE DEF t, i
    <3>2. [t EXCEPT !.linked = TRUE] \in [free : BOOLEAN, linked : BOOLEAN, long : BOOLEAN]
      BY ONLY <3>1
    <3> QED  BY <3>2 DEF t
  <2> HIDE DEF i
  <2>4. CASE tracker' = [tracker EXCEPT ![i].linked = TRUE]
    <3> DEFINE b == [tracker[i] EXCEPT !.linked = TRUE]
    <3>1. tracker' = [tracker EXCEPT ![i] = b] /\ b \in [free : BOOLEAN, linked : BOOLEAN, long : BOOLEAN]
      BY <2>1, <2>3, <2>4
    <3> HIDE DEF b
    <3> QED  BY <2>1, <3>1 DEF IssuesInv
  <2> QED  BY <2>2, <2>4 DEF IssuesInv
<1>12. \A t \in Solvers : t # s => \A x : x = solving[t] => RoundOK(x)'
  <2> SUFFICES ASSUME NEW t \in Solvers, t # s PROVE \A x : x = solving[t] => RoundOK(x)'
    OBVIOUS
  <2> DEFINE u == solving[t]
  <2>1. RoundOK(u) /\ (u # NotSolving => u.round # w.round)
    BY <1>1 DEF IssuesInv
  <2>3. u # NotSolving => \A f \in fixes' \ fixes : f.round # u.round
    BY <1>5, <1>9, <2>1
  <2>4. fixes \subseteq fixes' /\ rounds \in Nat /\ rounds' \in Nat /\ rounds <= rounds'
    BY <1>1, <1>2, <1>9
  <2>5. \A x : x = u => RoundOK(x)'
    <3> SUFFICES ASSUME NEW x, x = u PROVE RoundOK(x)'
      OBVIOUS
    <3>1. RoundOK(x) /\ (x # NotSolving => \A f \in fixes' \ fixes : f.round # x.round)
      BY <2>1, <2>3
    <3> QED  BY <2>4, <3>1, RoundsGoOn
  <2> QED  BY <2>5
<1>13. v = NotSolving \/ v.round = w.round
  BY <1>1
<1>14. \A x : x = v => RoundOK(x)'
  <2>1. CASE Len(todo) = 1
    <3>1. \A x : x = NotSolving => RoundOK(x)'
      BY DEF RoundOK, NotSolving
    <3> QED  BY <2>1, <3>1
  <2>2. CASE Len(todo) # 1
    <3> DEFINE tail == Tail(todo)
               u == [w EXCEPT !.issues = Tail(@)]
    <3>1. Kept \subseteq Kept'
      BY <1>9 DEF Kept
    <3>2. tail \in Seq(Kept') /\ tail # <<>>
      <4> DEFINE n == Len(todo)
      <4>1. n \in Nat /\ n >= 1 /\ n # 1 /\ Len(tail) = n - 1 /\ tail \in Seq(Kept)
        BY <1>3, <2>2
      <4> HIDE DEF n, tail
      <4>2. Len(tail) # 0
        BY ONLY <4>1
      <4> QED  BY <3>1, <4>1, <4>2, SeqMonotonic
    <3>3. \A l \in 1..Len(tail) : l + 1 \in 1..Len(todo) /\ l + 1 # 1 /\ tail[l] = todo[l + 1]
      <4> DEFINE n == Len(todo)
      <4>1. n \in Nat /\ Len(tail) = n - 1 /\ \A l \in 1..n - 1 : tail[l] = todo[l + 1]
        BY <1>3
      <4> HIDE DEF n, tail
      <4>2. \A l \in 1..Len(tail) : l + 1 \in 1..n /\ l + 1 # 1 /\ tail[l] = todo[l + 1]
        BY ONLY <4>1
      <4> QED  BY <4>2 DEF n
    <3>4. \A l, m \in 1..Len(tail) : tail[l].issue = tail[m].issue => l = m
      <4> SUFFICES ASSUME NEW l \in 1..Len(tail), NEW m \in 1..Len(tail), tail[l].issue = tail[m].issue
                   PROVE  l = m
        OBVIOUS
      <4>1. l + 1 = m + 1
        BY <1>1, <3>3 DEF IsTodo
      <4>2. l \in Nat /\ m \in Nat
        OBVIOUS
      <4> QED  BY ONLY <4>1, <4>2
    <3>5. \A l \in 1..Len(tail) : tail[l].blind \/ tail[l].fixes = {}
      BY <1>1, <3>3 DEF IsTodo
    <3>6. \A l \in 1..Len(tail) : tail[l].issue # next.issue
      <4> SUFFICES ASSUME NEW l \in 1..Len(tail), tail[l].issue = next.issue PROVE FALSE
        OBVIOUS
      <4>1. 1 \in 1..Len(todo) /\ l + 1 \in 1..Len(todo) /\ todo[l + 1].issue = todo[1].issue
        BY <1>3, <3>3
      <4>2. l + 1 = 1
        BY <1>1, <4>1 DEF IsTodo
      <4> QED  BY <3>3, <4>2
    <3>7. \A f \in fixes', k \in 1..Len(tail) : f.round = w.round => f.issue # tail[k].issue
      <4> SUFFICES ASSUME NEW f \in fixes', NEW k \in 1..Len(tail), f.round = w.round
                   PROVE  f.issue # tail[k].issue
        OBVIOUS
      <4>1. CASE f \in fixes
        BY <1>1, <3>3, <4>1
      <4>2. CASE f \notin fixes
        BY <1>5, <1>9, <3>6, <4>2
      <4> QED  BY <4>1, <4>2
    <3>8. /\ u \in [at : {"solve"}, round : 0..rounds', issues : Seq(Kept')]
          /\ u.issues = tail /\ u.round = w.round
      <4>1. rounds' = rounds
        BY <1>2
      <4> DEFINE x == w
      <4>2. x \in [at : {"solve"}, round : 0..rounds, issues : Seq(Kept)] /\ u = [x EXCEPT !.issues = tail]
        BY <1>1
      <4> HIDE DEF x, tail, u
      <4>3. x.round = w.round
        BY DEF x
      <4> QED  BY <3>2, <4>1, <4>2, <4>3
    <3> HIDE DEF u, tail
    <3>9. v = u
      BY <2>2 DEF u
    <3> HIDE DEF v, w
    <3>10. ASSUME NEW x, x = u PROVE RoundOK(x)'
      <4> DEFINE xs == x.issues
      <4>1. x \in [at : {"solve"}, round : 0..rounds', issues : Seq(Kept')] /\ xs = tail /\ x.round = w.round
        BY <3>8, <3>10
      <4>2. /\ xs \in Seq(Kept') /\ xs # <<>>
            /\ \A l \in 1..Len(xs) : xs[l].blind \/ xs[l].fixes = {}
            /\ \A l, m \in 1..Len(xs) : xs[l].issue = xs[m].issue => l = m
            /\ \A f \in fixes', k \in 1..Len(xs) : f.round = x.round => f.issue # xs[k].issue
        BY <3>2, <3>4, <3>5, <3>7, <4>1
      <4>3. IsTodo(xs)'
        BY <4>2 DEF IsTodo
      <4> QED  BY <4>1, <4>2, <4>3 DEF RoundOK
    <3> QED  BY <3>9, <3>10
  <2> QED  BY <2>1, <2>2
<1> HIDE DEF v, w
<1>15. \A t \in Solvers : solving'[t] = IF t = s THEN v ELSE solving[t]
  BY <1>2 DEF IssuesInv
<1>16. \A t \in Solvers : RoundOK(solving[t])'
  <2> SUFFICES ASSUME NEW t \in Solvers PROVE RoundOK(solving[t])'
    OBVIOUS
  <2>1. CASE t = s
    <3>1. solving'[t] = v
      BY <1>15, <2>1
    <3>2. \A x : x = solving'[t] => RoundOK(x)'
      BY <1>14, <3>1
    <3> QED  BY ONLY <3>2
  <2>2. CASE t # s
    <3>1. \A x : x = solving'[t] => RoundOK(x)'
      BY <1>12, <1>15, <2>2
    <3> QED  BY ONLY <3>1
  <2> QED  BY <2>1, <2>2
<1>17. \A t, u \in Solvers :
         t # u /\ solving'[t] # NotSolving /\ solving'[u] # NotSolving => solving'[t].round # solving'[u].round
  BY <1>1, <1>13, <1>15 DEF IssuesInv, w
<1>18. DOMAIN solving' = Solvers /\ solving' = [t \in Solvers |-> solving'[t]]
  BY <1>2 DEF IssuesInv
<1> QED  BY <1>1, <1>2, <1>10, <1>11, <1>16, <1>17, <1>18 DEF IssuesInv, NotSolving

\* What people do unlinks nothing.
LEMMA PeopleTakeIssues ==
  ASSUME IssuesInv, NEW i \in Issues, PeopleAct(i)
  PROVE  IssuesInv'
<1> DEFINE T == [free : BOOLEAN, linked : BOOLEAN, long : BOOLEAN]
<1>1. /\ UNCHANGED <<solving, fixes, rounds>>
      /\ \/ tracker' = [tracker EXCEPT ![i].free = ~@]
         \/ tracker' = [tracker EXCEPT ![i].linked = TRUE]
         \/ tracker' = [tracker EXCEPT ![i].long = TRUE]
  BY DEF PeopleAct
<1>2. tracker \in [Issues -> T] /\ tracker[i] \in T
  BY DEF IssuesInv
<1>3. PICK b \in T : tracker' = [tracker EXCEPT ![i] = b] /\ (tracker[i].linked => b.linked)
  <2>1. tracker[i].free \in BOOLEAN
    BY <1>2
  <2> DEFINE t == tracker[i]
  <2>2. CASE tracker' = [tracker EXCEPT ![i].free = ~@]
    <3> DEFINE b == [t EXCEPT !.free = ~@]
    <3>1. b \in T /\ (t.linked => b.linked)
      BY <1>2
    <3>2. tracker' = [tracker EXCEPT ![i] = b]
      BY <2>2
    <3> QED  BY <3>1, <3>2
  <2>3. CASE tracker' = [tracker EXCEPT ![i].linked = TRUE]
    <3> DEFINE b == [t EXCEPT !.linked = TRUE]
    <3>1. b \in T /\ (t.linked => b.linked)
      BY <1>2
    <3>2. tracker' = [tracker EXCEPT ![i] = b]
      BY <2>3
    <3> QED  BY <3>1, <3>2
  <2>4. CASE tracker' = [tracker EXCEPT ![i].long = TRUE]
    <3> DEFINE b == [t EXCEPT !.long = TRUE]
    <3>1. b \in T /\ (t.linked => b.linked)
      BY <1>2
    <3>2. tracker' = [tracker EXCEPT ![i] = b]
      BY <2>4
    <3> QED  BY <3>1, <3>2
  <2> QED  BY <1>1, <2>2, <2>3, <2>4
<1>4. tracker' \in [Issues -> T] /\ \A j \in Issues : tracker[j].linked => tracker'[j].linked
  BY <1>2, <1>3
<1>5. FixesOK'
  BY <1>1, <1>4 DEF IssuesInv, FixesOK
<1>6. \A s \in Solvers : RoundOK(solving[s])'
  <2>1. ASSUME NEW v, RoundOK(v) PROVE RoundOK(v)'
    BY <1>1, <2>1, RoundsGoOn DEF IssuesInv
  <2> QED  BY <1>1, <2>1 DEF IssuesInv
<1> QED  BY <1>1, <1>4, <1>5, <1>6 DEF IssuesInv, NotSolving

\* The invariant of the rounds: a round that runs has a number of its own, an issue is
\* nowhere twice in it, and what it read as free of pull requests had none of ours.
THEOREM IssuesInvHolds == IssuesSpec => []IssuesInv
<1>1. ASSUME IssuesInit PROVE IssuesInv
  <2>1. fixes = {} /\ rounds = 0 /\ solving = [s \in Solvers |-> NotSolving]
    BY <1>1 DEF IssuesInit
  <2>2. tracker \in [Issues -> [free : BOOLEAN, linked : BOOLEAN, long : BOOLEAN]]
    BY <1>1 DEF IssuesInit
  <2>3. IsFiniteSet(fixes)
    BY <2>1, FS_EmptySet
  <2> QED  BY <2>1, <2>2, <2>3 DEF IssuesInv, FixesOK, RoundOK, NotSolving
<1>2. ASSUME IssuesInv, [IssuesNext]_issuesVars PROVE IssuesInv'
  <2>1. ASSUME NEW s \in Solvers, StartRound(s) PROVE IssuesInv'
    BY <1>2, <2>1, RoundBegins
  <2>2. ASSUME NEW s \in Solvers, RoundEnds(s) PROVE IssuesInv'
    <3>1. RoundOK(NotSolving)
      BY DEF RoundOK
    <3> QED  BY <1>2, <2>2, <3>1, SolverMoves DEF RoundEnds, Solving
  <2>3. ASSUME NEW s \in Solvers, NEW ok \in BOOLEAN, ListGroup(s, ok) \/ ListAny(s, ok) PROVE IssuesInv'
    BY <1>2, <2>3, ListedIssues
  <2>4. ASSUME NEW s \in Solvers, NEW ok \in BOOLEAN, CheckTimeline(s, ok) PROVE IssuesInv'
    BY <1>2, <2>4, CheckedIssue
  <2>5. ASSUME NEW s \in Solvers, NEW opened \in BOOLEAN, SolveNext(s, opened) PROVE IssuesInv'
    BY <1>2, <2>5, SolvedIssue
  <2>6. ASSUME NEW i \in Issues, PeopleAct(i) PROVE IssuesInv'
    BY <1>2, <2>6, PeopleTakeIssues
  <2>7. CASE UNCHANGED issuesVars
    <3>1. UNCHANGED <<tracker, solving, fixes, rounds>>
      BY <2>7 DEF issuesVars
    <3>2. \A s \in Solvers : RoundOK(solving[s])'
      <4>1. ASSUME NEW v, RoundOK(v) PROVE RoundOK(v)'
        BY <1>2, <3>1, <4>1, RoundsGoOn DEF IssuesInv
      <4> QED  BY <1>2, <3>1, <4>1 DEF IssuesInv
    <3>3. FixesOK'
      BY <1>2, <3>1 DEF IssuesInv, FixesOK
    <3> QED  BY <1>2, <3>1, <3>2, <3>3 DEF IssuesInv, NotSolving
  <2>8. CASE IssuesNext
    BY <2>1, <2>2, <2>3, <2>4, <2>5, <2>6, <2>8 DEF IssuesNext
  <2> QED  BY <1>2, <2>7, <2>8
<1> QED  BY <1>1, <1>2, PTL DEF IssuesSpec

\* Whatever the labels, the order of the lists and the rounds of however many solvers:
\* a second pull request of ours for an issue is another round's, which did not know
\* of the first or did not see the timeline that names it (issues/solver.rs).
THEOREM IssuesGetOneFix == IssuesSpec => []OneFixPerIssue
<1>1. ASSUME IssuesInv PROVE OneFixPerIssue
  <2> SUFFICES ASSUME NEW f \in fixes, NEW g \in fixes, f.issue = g.issue, f.number < g.number
               PROVE  f.round # g.round /\ (g.blind \/ f.number \notin g.known)
    BY DEF OneFixPerIssue
  <2>1. g.blind \/ g.known = {}
    BY <1>1 DEF IssuesInv, FixesOK
  <2>2. f.round = g.round => f.number = g.number
    BY <1>1 DEF IssuesInv, FixesOK
  <2>3. f.number # g.number
    <3>1. f.number \in Nat /\ g.number \in Nat
      BY <1>1 DEF IssuesInv, FixesOK
    <3> QED  BY <3>1
  <2> QED  BY <2>1, <2>2, <2>3
<1> QED  BY <1>1, IssuesInvHolds, PTL

(***************************************************************************)
(* The verdicts of the commands (Runner): the child is that of the first   *)
(* command left, its limit lies within its time and the run's, and what is *)
(* left of a reproduction tells which commands have passed.                *)
(***************************************************************************)

(***************************************************************************)
(* The commands                                                            *)
(***************************************************************************)
\* Every command has one class.
LEMMA ClassIsOne ==
  ASSUME NEW argv
  PROVE  Class(argv) \in {"safe", "approval", "forbidden"}
<1>1. PythonModule(argv.word) \in {"safe", "approval", "forbidden"}
  BY DEF PythonModule
<1>2. PackageScript(argv.word) \in {"safe", "approval", "forbidden"}
  BY DEF PackageScript
<1>3. ToolClass(argv) \in {"safe", "approval", "forbidden"}
  BY <1>1, <1>2 DEF ToolClass
<1> QED  BY <1>3 DEF Class

\* What the gate lets through may run, and has time left.
LEMMA WhatRunsIsAllowed ==
  ASSUME NEW argv, Gate(argv) = "ran"
  PROVE  Allowed(argv) /\ Left(stage.ends) # 0
<1>1. Class(argv) # "forbidden" /\ ~(Class(argv) = "approval" /\ ~setup.allow)
  BY DEF Gate
<1>2. Allowed(argv)
  BY <1>1, ClassIsOne DEF Allowed
<1>3. Class(argv) # "forbidden"
  BY <1>1
<1> QED  BY <1>1, <1>2 DEF Gate

\* A sequence, of whatever.
IsSomeSeq(s) == \E S : s \in Seq(S)

LEMMA Appended ==
  ASSUME NEW s, IsSomeSeq(s), NEW e
  PROVE  /\ IsSomeSeq(Append(s, e)) /\ Len(s) \in Nat /\ Len(Append(s, e)) = Len(s) + 1
         /\ \A i \in 1..Len(s) : Append(s, e)[i] = s[i]
         /\ Append(s, e)[Len(s) + 1] = e
<1>1. PICK S : s \in Seq(S)
  BY DEF IsSomeSeq
<1> DEFINE T == S \cup {e}
<1>2. s \in Seq(T) /\ e \in T
  BY <1>1, SeqMonotonic
<1> HIDE DEF T
<1>3. Append(s, e) \in Seq(T) /\ Len(s) \in Nat
  BY <1>2, AppendProperties, LenProperties
<1> QED  BY <1>2, <1>3, AppendProperties DEF IsSomeSeq

(***************************************************************************)
(* The invariant                                                           *)
(***************************************************************************)
InTime(o) == o.child.ended <= o.child.began + CommandTime /\ o.child.ended <= RunTime

OutcomeOK(o) ==
  /\ o.result # "skipped" => Allowed(o.argv)
  /\ o.result = "pass" => o.child.at = "passed" /\ InTime(o)

StageInv ==
  /\ stage = [at |-> stage.at, ends |-> stage.ends, left |-> stage.left]
  /\ stage.at \in {"planned", "reproduce", "checks", "resolve", "error"}
  /\ stage.ends \in Nat /\ stage.ends <= RunTime

Children == [at : {"runs", "passed", "failed", "killed"}, began : Nat, limit : Nat, ended : Nat, held : BOOLEAN]

\* The child is that of the first command left, which may run; its limit lies within
\* its time and before the run expires, and what ended by itself did so by then.
ChildInv ==
  \/ child = NoChild
  \/ /\ child \in Children
     /\ stage.left # <<>> /\ Allowed(Head(stage.left).argv)
     /\ child.limit <= child.began + CommandTime /\ child.limit <= RunTime
     /\ child.at = "runs" => runClock <= child.limit
     /\ child.at \in {"passed", "failed"} => child.ended <= child.limit

\* The commands of a reproduction from the m-th on.
IsRest(rest, m) ==
  /\ rest \in Seq({Repros[k] : k \in 1..Len(setup.commands)})
  /\ Len(rest) = Len(setup.commands) - m
  /\ \A k \in 1..Len(rest) : rest[k] = Repros[m + k]

HasPassed(k) ==
  \E i \in 1..Len(commandOutcomes) :
    /\ commandOutcomes[i].stage = "resolve" /\ commandOutcomes[i].argv = setup.commands[k]
    /\ commandOutcomes[i].result = "pass"

HasReproduced ==
  \E i \in 1..Len(commandOutcomes) :
    /\ commandOutcomes[i].stage = "reproduce"
    /\ commandOutcomes[i].child.at = "failed" /\ InTime(commandOutcomes[i])

VerdictInv ==
  /\ verdict \in [reproduced : BOOLEAN, resolved : BOOLEAN]
  /\ verdict.reproduced => HasReproduced
  /\ verdict.resolved => stage.at = "resolve"
  /\ stage.at = "resolve" =>
       \E m \in 0..Len(setup.commands) :
         /\ IsRest(stage.left, m)
         /\ verdict.resolved => \A k \in 1..m : HasPassed(k)

RunnerInv ==
  /\ setup \in Setups /\ runClock \in Nat
  /\ StageInv /\ ChildInv /\ VerdictInv
  /\ IsSomeSeq(commandOutcomes) /\ \A i \in 1..Len(commandOutcomes) : OutcomeOK(commandOutcomes[i])

\* What is left after one command.
LEMMA RestGoesOn ==
  ASSUME RunnerInv, NEW m \in 0..Len(setup.commands), IsRest(stage.left, m), stage.left # <<>>
  PROVE  /\ m + 1 \in 0..Len(setup.commands) /\ IsRest(Tail(stage.left), m + 1)
         /\ Head(stage.left).argv = setup.commands[m + 1]
<1> DEFINE rest == stage.left
           n == Len(setup.commands)
           R == {Repros[k] : k \in 1..n}
           repros == Repros
<1>1. n \in Nat
  <2>1. \E S : setup.commands \in Seq(S)
    BY RunnerAssumption DEF RunnerInv
  <2> QED  BY <2>1, LenProperties
<1>2. rest \in Seq(R) /\ Len(rest) = n - m /\ rest # <<>> /\ \A k \in 1..Len(rest) : rest[k] = repros[m + k]
  BY DEF IsRest
<1>3. \A k \in 1..n : repros[k].argv = setup.commands[k]
  BY DEF Repros, Repro
<1>4. IsRest(Tail(rest), m + 1) <=> /\ Tail(rest) \in Seq(R) /\ Len(Tail(rest)) = n - (m + 1)
                                    /\ \A k \in 1..Len(Tail(rest)) : Tail(rest)[k] = repros[(m + 1) + k]
  BY DEF IsRest
<1> HIDE DEF rest, n, R, repros
<1>5. /\ Len(rest) \in Nat /\ Len(rest) # 0 /\ Head(rest) = rest[1]
      /\ Tail(rest) \in Seq(R) /\ Len(Tail(rest)) = Len(rest) - 1
      /\ \A k \in 1..Len(Tail(rest)) : Tail(rest)[k] = rest[k + 1]
  BY <1>2, HeadTailProperties, EmptySeq, LenProperties
<1>6. m + 1 \in 0..n /\ m \in Nat /\ m + 1 \in 1..n
  BY <1>1, <1>2, <1>5 DEF n
<1>7. ASSUME NEW k \in 1..Len(Tail(rest)) PROVE Tail(rest)[k] = repros[(m + 1) + k]
  <2>1. k + 1 \in 1..Len(rest) /\ m + (k + 1) = (m + 1) + k
    BY <1>5, <1>6
  <2> QED  BY <1>2, <1>5, <2>1
<1>8. Head(rest) = repros[m + 1]
  BY <1>2, <1>5
<1>9. Len(Tail(rest)) = n - (m + 1)
  BY ONLY <1>1, <1>2, <1>5, <1>6
<1> QED  BY <1>3, <1>4, <1>5, <1>6, <1>7, <1>8, <1>9 DEF rest, n

\* The outcome of a command is recorded.
LEMMA OutcomeRecorded ==
  ASSUME RunnerInv, stage.left # <<>>, NEW gate, NEW passed \in BOOLEAN, NEW timedOut \in BOOLEAN,
         Record(gate, passed, timedOut), UNCHANGED <<setup, runClock>>, child' = NoChild,
         gate = "ran" => /\ Allowed(Head(stage.left).argv)
                         /\ passed => child.at = "passed"
                         /\ ~passed /\ ~timedOut => child.at = "failed"
                         /\ child.at \in {"passed", "failed"} =>
                              child.ended <= child.began + CommandTime /\ child.ended <= RunTime
  PROVE  RunnerInv'
<1> DEFINE item == Head(stage.left)
           result == IF gate # "ran" THEN "skipped" ELSE IF passed THEN "pass" ELSE "fail"
           o == [argv |-> item.argv, stage |-> stage.at, result |-> result, child |-> child]
           n == Len(commandOutcomes)
<1>1. commandOutcomes' = Append(commandOutcomes, o)
  BY DEF Record
<1>2. /\ o.argv = item.argv /\ o.stage = stage.at /\ o.result = result /\ o.child = child
  OBVIOUS
<1> HIDE DEF o
<1>3. /\ IsSomeSeq(commandOutcomes') /\ n \in Nat /\ Len(commandOutcomes') = n + 1
      /\ \A i \in 1..n : commandOutcomes'[i] = commandOutcomes[i]
      /\ commandOutcomes'[n + 1] = o
  <2>1. IsSomeSeq(commandOutcomes)
    BY DEF RunnerInv
  <2> QED  BY ONLY <1>1, <2>1, Appended
<1> HIDE DEF n
<1>4. \A i \in 1..Len(commandOutcomes') : i \in 1..n \/ i = n + 1
  BY <1>3
<1>5. 1..n \subseteq 1..Len(commandOutcomes') /\ n + 1 \in 1..Len(commandOutcomes')
  BY <1>3
<1>6. OutcomeOK(o)
  BY <1>2 DEF OutcomeOK, InTime
<1>7. \A i \in 1..Len(commandOutcomes') : OutcomeOK(commandOutcomes'[i])
  BY <1>3, <1>4, <1>6 DEF RunnerInv, n
<1>8. \A i \in 1..Len(commandOutcomes') : OutcomeOK(commandOutcomes[i])'
  BY <1>7 DEF OutcomeOK, InTime, Allowed
<1>9. stage' = [at |-> stage.at, ends |-> stage.ends, left |-> Tail(stage.left)]
  BY DEF Record, RunnerInv, StageInv
<1>10. stage'.at = stage.at /\ stage'.ends = stage.ends /\ stage'.left = Tail(stage.left)
  BY <1>9
<1>11. StageInv'
  BY <1>9, <1>10 DEF RunnerInv, StageInv
<1>12. \A k : HasPassed(k) => HasPassed(k)'
  BY <1>3, <1>5 DEF HasPassed, n
<1>13. HasReproduced => HasReproduced'
  BY <1>3, <1>5 DEF HasReproduced, InTime, n
<1>14. verdict' = CASE stage.at = "reproduce" ->
                         [verdict EXCEPT !.reproduced = @ \/ (gate = "ran" /\ ~timedOut /\ ~passed)]
                    [] stage.at = "resolve" -> [verdict EXCEPT !.resolved = @ /\ gate = "ran" /\ passed]
                    [] OTHER -> verdict
  BY DEF Record
<1>15. verdict \in [reproduced : BOOLEAN, resolved : BOOLEAN]
  BY DEF RunnerInv, VerdictInv
<1>16. CASE stage.at = "reproduce"
  <2> DEFINE ran == gate = "ran" /\ ~timedOut /\ ~passed
  <2>0. ran \in BOOLEAN
    OBVIOUS
  <2>1. verdict' = [reproduced |-> verdict.reproduced \/ ran, resolved |-> verdict.resolved]
    <3>1. verdict' = [verdict EXCEPT !.reproduced = @ \/ ran]
      BY <1>14, <1>16
    <3> HIDE DEF ran
    <3> QED  BY ONLY <3>1, <1>15
  <2>2. ran => HasReproduced'
    <3>1. ran => o.stage = "reproduce" /\ o.child.at = "failed" /\ InTime(o)
      BY <1>2, <1>16 DEF InTime
    <3> HIDE DEF ran
    <3> QED  BY <1>3, <1>5, <3>1 DEF HasReproduced, InTime
  <2>3. ~verdict.resolved
    BY <1>16 DEF RunnerInv, VerdictInv
  <2> HIDE DEF ran
  <2>4. verdict' \in [reproduced : BOOLEAN, resolved : BOOLEAN]
        /\ verdict'.reproduced = (verdict.reproduced \/ ran) /\ verdict'.resolved = verdict.resolved
    BY ONLY <2>0, <2>1, <1>15
  <2>5. verdict'.reproduced => HasReproduced'
    BY <1>13, <2>2, <2>4 DEF RunnerInv, VerdictInv
  <2>6. VerdictInv'
    BY <1>10, <1>16, <2>3, <2>4, <2>5 DEF VerdictInv
  <2> QED  BY <1>3, <1>8, <1>11, <2>6 DEF RunnerInv, ChildInv, NoChild
<1>17. CASE stage.at = "resolve"
  <2> DEFINE ran == gate = "ran" /\ passed
  <2>0. ran \in BOOLEAN
    OBVIOUS
  <2>1. verdict' = [reproduced |-> verdict.reproduced, resolved |-> verdict.resolved /\ ran]
    <3>1. verdict' = [verdict EXCEPT !.resolved = @ /\ ran]
      BY <1>14, <1>17
    <3> HIDE DEF ran
    <3> QED  BY ONLY <3>1, <1>15
  <2>2. PICK m \in 0..Len(setup.commands) :
          IsRest(stage.left, m) /\ (verdict.resolved => \A k \in 1..m : HasPassed(k))
    BY <1>17 DEF RunnerInv, VerdictInv
  <2>3. /\ m + 1 \in 0..Len(setup.commands) /\ IsRest(Tail(stage.left), m + 1)
        /\ item.argv = setup.commands[m + 1]
    BY <2>2, RestGoesOn
  <2>4. ran => HasPassed(m + 1)'
    <3>1. ran => o.stage = "resolve" /\ o.argv = setup.commands[m + 1] /\ o.result = "pass"
      BY <1>2, <1>17, <2>3
    <3> HIDE DEF ran
    <3> QED  BY <1>3, <1>5, <3>1 DEF HasPassed
  <2> HIDE DEF ran
  <2>5. verdict' \in [reproduced : BOOLEAN, resolved : BOOLEAN]
        /\ verdict'.reproduced = verdict.reproduced /\ verdict'.resolved = (verdict.resolved /\ ran)
    BY ONLY <2>0, <2>1, <1>15
  <2>6. IsRest(stage.left, m + 1)'
    <3>1. setup' = setup /\ Repros' = Repros /\ stage'.left = Tail(stage.left)
      BY <1>10 DEF Repros
    <3>2. IsRest(Tail(stage.left), m + 1)
      BY <2>3
    <3> QED  BY ONLY <3>1, <3>2 DEF IsRest
  <2>7. verdict'.resolved => \A k \in 1..m + 1 : HasPassed(k)'
    <3>1. \A k \in 1..m + 1 : k \in 1..m \/ k = m + 1
      OBVIOUS
    <3>2. ran /\ verdict.resolved => \A k \in 1..m + 1 : HasPassed(k)'
      BY <1>12, <2>2, <2>4, <3>1
    <3> QED  BY <2>5, <3>2
  <2>8. VerdictInv'
    BY <1>10, <1>13, <1>17, <2>3, <2>5, <2>6, <2>7 DEF RunnerInv, VerdictInv
  <2> QED  BY <1>3, <1>8, <1>11, <2>8 DEF RunnerInv, ChildInv, NoChild
<1>18. CASE stage.at \notin {"reproduce", "resolve"}
  <2>1. verdict' = verdict
    BY <1>14, <1>18
  <2>2. VerdictInv'
    BY <1>10, <1>13, <1>18, <2>1 DEF RunnerInv, VerdictInv
  <2> QED  BY <1>3, <1>8, <1>11, <2>2 DEF RunnerInv, ChildInv, NoChild
<1> QED  BY <1>16, <1>17, <1>18

\* The gate skips a command.
LEMMA Skipped ==
  ASSUME RunnerInv, Skip
  PROVE  RunnerInv'
<1> DEFINE gate == Gate(Head(stage.left).argv)
<1>1. /\ stage.left # <<>> /\ gate # "ran" /\ Record(gate, FALSE, FALSE)
      /\ UNCHANGED <<setup, runClock>> /\ child' = NoChild
  BY DEF Skip
<1> HIDE DEF gate
<1> QED  BY <1>1, OutcomeRecorded

\* What the stages are about stays as it is.
LEMMA StagesStay ==
  ASSUME StageInv, VerdictInv, UNCHANGED <<setup, stage, commandOutcomes, verdict>>
  PROVE  StageInv' /\ VerdictInv'
<1>1. StageInv'
  BY DEF StageInv
<1>2. HasReproduced => HasReproduced'
  BY DEF HasReproduced, InTime
<1>3. \A k : HasPassed(k) => HasPassed(k)'
  BY DEF HasPassed
<1>4. ASSUME NEW m, IsRest(stage.left, m) PROVE IsRest(stage.left, m)'
  BY <1>4 DEF IsRest, Repros
<1>5. VerdictInv'
  <2>1. stage.at = "resolve" => \E m \in 0..Len(setup.commands) :
          IsRest(stage.left, m)' /\ (verdict.resolved => \A k \in 1..m : HasPassed(k)')
    BY <1>3, <1>4 DEF VerdictInv
  <2> QED  BY <1>2, <2>1 DEF VerdictInv
<1> QED  BY <1>1, <1>5

\* A child starts, with a limit.
LEMMA Spawned ==
  ASSUME RunnerInv, Spawn
  PROVE  RunnerInv'
<1> DEFINE c == [at |-> "runs", began |-> runClock, limit |-> TimeLimit, ended |-> 0, held |-> FALSE]
<1>1. /\ stage.left # <<>> /\ Gate(Head(stage.left).argv) = "ran" /\ child' = c
      /\ UNCHANGED <<setup, stage, runClock, commandOutcomes, verdict>>
  BY DEF Spawn
<1>2. Allowed(Head(stage.left).argv) /\ Left(stage.ends) # 0
  BY <1>1, WhatRunsIsAllowed
<1>3. runClock \in Nat /\ stage.ends \in Nat /\ stage.ends <= RunTime /\ CommandTime \in Nat /\ RunTime \in Nat
  BY RunnerAssumption DEF RunnerInv, StageInv
<1>4. stage.ends > runClock
  BY <1>2 DEF Left
<1>5. /\ TimeLimit \in Nat /\ runClock <= TimeLimit /\ TimeLimit <= runClock + CommandTime
      /\ TimeLimit <= RunTime
  BY <1>3, <1>4 DEF TimeLimit, MinOf, Left
<1> DEFINE limit == TimeLimit
<1> HIDE DEF limit
<1>6. c \in Children /\ c.at = "runs" /\ c.began = runClock /\ c.limit = TimeLimit
  BY <1>3, <1>5 DEF Children
<1> HIDE DEF c
<1>7. ChildInv'
  BY <1>1, <1>2, <1>5, <1>6 DEF ChildInv, Allowed
<1>8. StageInv' /\ VerdictInv'
  BY <1>1, StagesStay DEF RunnerInv
<1>9. \A i \in 1..Len(commandOutcomes') : OutcomeOK(commandOutcomes[i])'
  BY <1>1 DEF RunnerInv, OutcomeOK, InTime, Allowed
<1> QED  BY <1>1, <1>7, <1>8, <1>9 DEF RunnerInv

\* Steps of the child alone.
LEMMA ChildMoves ==
  ASSUME RunnerInv, UNCHANGED <<setup, stage, commandOutcomes, verdict>>, runClock' \in Nat, ChildInv'
  PROVE  RunnerInv'
<1>1. StageInv' /\ VerdictInv'
  BY StagesStay DEF RunnerInv
<1>2. \A i \in 1..Len(commandOutcomes') : OutcomeOK(commandOutcomes[i])'
  BY DEF RunnerInv, OutcomeOK, InTime, Allowed
<1> QED  BY <1>1, <1>2 DEF RunnerInv

\* A child that ends, is killed, leaves a process behind or is rid of it.
LEMMA ChildSteps ==
  ASSUME RunnerInv,
         \/ \E how \in {"passed", "failed"} : Exit(how)
         \/ TimesOut \/ LeavesProcess \/ ReleasesPipes
  PROVE  RunnerInv'
<1>1. /\ UNCHANGED <<setup, stage, commandOutcomes, verdict>> /\ runClock' = runClock /\ runClock \in Nat
      /\ child # NoChild
  BY DEF RunnerInv, Exit, TimesOut, LeavesProcess, ReleasesPipes, NoChild
<1> SUFFICES ASSUME NEW c, c = child PROVE RunnerInv'
  OBVIOUS
<1>2. /\ c \in Children
      /\ stage.left # <<>> /\ Allowed(Head(stage.left).argv)
      /\ c.limit <= c.began + CommandTime /\ c.limit <= RunTime
      /\ c.at = "runs" => runClock <= c.limit
      /\ c.at \in {"passed", "failed"} => c.ended <= c.limit
  BY <1>1 DEF RunnerInv, ChildInv
<1>3. PICK d \in Children : /\ child' = d /\ d.began = c.began /\ d.limit = c.limit
                            /\ \/ d.at = c.at /\ d.ended = c.ended
                               \/ c.at = "runs" /\ d.at \in {"passed", "failed"} /\ d.ended = runClock
                               \/ d.at = "killed"
  <2>1. ASSUME NEW how \in {"passed", "failed"}, Exit(how)
        PROVE  LET d == [c EXCEPT !.at = how, !.ended = runClock]
               IN /\ d \in Children /\ child' = d /\ d.began = c.began /\ d.limit = c.limit
                  /\ d.at = how /\ d.ended = runClock /\ c.at = "runs"
    BY <1>1, <1>2, <2>1 DEF Exit, Children
  <2>2. ASSUME TimesOut
        PROVE  LET d == [c EXCEPT !.at = "killed"]
               IN /\ d \in Children /\ child' = d /\ d.began = c.began /\ d.limit = c.limit /\ d.at = "killed"
    BY <1>2, <2>2 DEF TimesOut, Children
  <2>3. ASSUME NEW b \in BOOLEAN, child' = [child EXCEPT !.held = b]
        PROVE  LET d == [c EXCEPT !.held = b]
               IN /\ d \in Children /\ child' = d /\ d.began = c.began /\ d.limit = c.limit
                  /\ d.at = c.at /\ d.ended = c.ended
    BY <1>2, <2>3 DEF Children
  <2>4. LeavesProcess => child' = [child EXCEPT !.held = TRUE]
    BY DEF LeavesProcess
  <2>5. ReleasesPipes => child' = [child EXCEPT !.held = FALSE]
    BY DEF ReleasesPipes
  <2>6. CASE \E how \in {"passed", "failed"} : Exit(how)
    <3>1. PICK how \in {"passed", "failed"} : Exit(how)
      BY <2>6
    <3> QED  BY <2>1, <3>1
  <2>7. CASE TimesOut
    BY <2>2, <2>7
  <2>8. CASE LeavesProcess
    BY <2>3, <2>4, <2>8
  <2>9. CASE ReleasesPipes
    BY <2>3, <2>5, <2>9
  <2> QED  BY <2>6, <2>7, <2>8, <2>9
<1>4. ChildInv'
  BY <1>1, <1>2, <1>3 DEF ChildInv, Allowed
<1> QED  BY <1>1, <1>4, ChildMoves

\* Time passes, of a child that runs only to its limit.
LEMMA Ticked ==
  ASSUME RunnerInv, Tick
  PROVE  RunnerInv'
<1>1. /\ UNCHANGED <<setup, stage, child, commandOutcomes, verdict>> /\ runClock \in Nat
      /\ runClock' = runClock + 1 /\ (child.at = "runs" => runClock < child.limit)
  BY DEF RunnerInv, Tick
<1>2. child # NoChild => child.limit \in Nat
  BY DEF RunnerInv, ChildInv, Children
<1>3. ChildInv'
  BY <1>1, <1>2 DEF RunnerInv, ChildInv, Allowed
<1> QED  BY <1>1, <1>3, ChildMoves

\* The outcome of a child that has ended is reported.
LEMMA Reported ==
  ASSUME RunnerInv, Report
  PROVE  RunnerInv'
<1>1. /\ child.at \in {"passed", "failed", "killed"}
      /\ Record("ran", child.at = "passed", child.at = "killed")
      /\ child' = NoChild /\ UNCHANGED <<setup, runClock>>
  BY DEF Report
<1>2. /\ child \in Children
      /\ stage.left # <<>> /\ Allowed(Head(stage.left).argv)
      /\ child.limit <= child.began + CommandTime /\ child.limit <= RunTime
      /\ child.at \in {"passed", "failed"} => child.ended <= child.limit
  BY <1>1 DEF RunnerInv, ChildInv, NoChild
<1>3. child.at \in {"passed", "failed"} =>
        child.ended <= child.began + CommandTime /\ child.ended <= RunTime
  BY <1>2, RunnerAssumption DEF Children
<1> DEFINE passed == child.at = "passed"
           timedOut == child.at = "killed"
<1>4. /\ passed \in BOOLEAN /\ timedOut \in BOOLEAN /\ Record("ran", passed, timedOut)
      /\ (passed => child.at = "passed") /\ (~passed /\ ~timedOut => child.at = "failed")
  BY <1>1
<1> HIDE DEF passed, timedOut
<1> QED  BY <1>1, <1>2, <1>3, <1>4, OutcomeRecorded

\* A program was not found.
LEMMA NotSpawned ==
  ASSUME RunnerInv, SpawnFails
  PROVE  RunnerInv'
<1>1. /\ child = NoChild /\ stage.left # <<>> /\ UNCHANGED <<setup, child, runClock, commandOutcomes>>
      /\ IF stage.at = "checks"
         THEN stage' = [stage EXCEPT !.at = "error", !.left = <<>>] /\ UNCHANGED verdict
         ELSE /\ stage' = [stage EXCEPT !.left = Tail(@)]
              /\ verdict' = IF stage.at = "resolve" THEN [verdict EXCEPT !.resolved = FALSE] ELSE verdict
  BY DEF SpawnFails
<1>2. stage = [at |-> stage.at, ends |-> stage.ends, left |-> stage.left]
      /\ verdict \in [reproduced : BOOLEAN, resolved : BOOLEAN]
  BY DEF RunnerInv, StageInv, VerdictInv
<1>3. ChildInv'
  BY <1>1 DEF ChildInv
<1>4. \A i \in 1..Len(commandOutcomes') : OutcomeOK(commandOutcomes[i])'
  BY <1>1 DEF RunnerInv, OutcomeOK, InTime, Allowed
<1>5. (HasReproduced => HasReproduced') /\ \A k : HasPassed(k) => HasPassed(k)'
  BY <1>1 DEF HasReproduced, InTime, HasPassed
<1>6. StageInv' /\ VerdictInv'
  <2>1. CASE stage.at = "checks"
    <3>1. stage' = [at |-> "error", ends |-> stage.ends, left |-> <<>>] /\ verdict' = verdict
      BY <1>1, <1>2, <2>1
    <3>2. stage'.at = "error" /\ stage'.ends = stage.ends /\ stage'.left = <<>>
      BY <3>1
    <3>3. StageInv'
      BY <3>1, <3>2 DEF RunnerInv, StageInv
    <3> QED  BY <1>5, <2>1, <3>1, <3>2, <3>3 DEF RunnerInv, VerdictInv
  <2>2. CASE stage.at # "checks"
    <3>1. stage' = [at |-> stage.at, ends |-> stage.ends, left |-> Tail(stage.left)]
      BY <1>1, <1>2, <2>2
    <3>2. stage'.at = stage.at /\ stage'.ends = stage.ends /\ stage'.left = Tail(stage.left)
      BY <3>1
    <3>3. StageInv'
      BY <3>1, <3>2 DEF RunnerInv, StageInv
    <3>4. CASE stage.at = "resolve"
      <4>1. verdict' \in [reproduced : BOOLEAN, resolved : BOOLEAN]
            /\ verdict'.reproduced = verdict.reproduced /\ verdict'.resolved = FALSE
        BY <1>1, <1>2, <2>2, <3>4
      <4>2. PICK m \in 0..Len(setup.commands) : IsRest(stage.left, m)
        BY <3>4 DEF RunnerInv, VerdictInv
      <4>3. m + 1 \in 0..Len(setup.commands) /\ IsRest(Tail(stage.left), m + 1)
        BY <1>1, <4>2, RestGoesOn
      <4>4. IsRest(stage.left, m + 1)' /\ m + 1 \in 0..Len(setup'.commands)
        BY <1>1, <3>2, <4>3 DEF IsRest, Repros
      <4>5. VerdictInv'
        BY <1>5, <3>2, <3>4, <4>1, <4>4 DEF RunnerInv, VerdictInv
      <4> QED  BY <3>3, <4>5
    <3>5. CASE stage.at # "resolve"
      <4>1. verdict' = verdict
        BY <1>1, <2>2, <3>5
      <4>2. VerdictInv'
        BY <1>5, <3>2, <3>5, <4>1 DEF RunnerInv, VerdictInv
      <4> QED  BY <3>3, <4>2
    <3> QED  BY <3>4, <3>5
  <2> QED  BY <2>1, <2>2
<1> QED  BY <1>1, <1>3, <1>4, <1>6 DEF RunnerInv

\* A stage begins, before the run expires.
LEMMA StageStarted ==
  ASSUME RunnerInv, NEW at \in {"reproduce", "checks", "resolve"}, StartStage(at)
  PROVE  RunnerInv'
<1>1. /\ child = NoChild /\ UNCHANGED <<setup, child, runClock, commandOutcomes>>
      /\ \/ /\ runClock < RunTime /\ at # "resolve"
            /\ stage' = [at |-> at, ends |-> Deadline,
                         left |-> IF at = "reproduce" THEN Repros ELSE PlanChecks(setup.manifests)]
         \/ at = "resolve" /\ stage' = [stage EXCEPT !.at = at, !.left = Repros]
  BY DEF StartStage
<1>2. verdict' = [verdict EXCEPT !.resolved = at = "resolve" /\ Repros # <<>>]
  BY DEF StartStage
<1>3. stage = [at |-> stage.at, ends |-> stage.ends, left |-> stage.left]
      /\ stage.ends \in Nat /\ stage.ends <= RunTime
      /\ verdict \in [reproduced : BOOLEAN, resolved : BOOLEAN]
  BY DEF RunnerInv, StageInv, VerdictInv
<1>4. ChildInv'
  BY <1>1 DEF ChildInv
<1>5. \A i \in 1..Len(commandOutcomes') : OutcomeOK(commandOutcomes[i])'
  BY <1>1 DEF RunnerInv, OutcomeOK, InTime, Allowed
<1>6. HasReproduced => HasReproduced'
  BY <1>1 DEF HasReproduced, InTime
<1>7. PICK ends, rest : /\ ends \in Nat /\ ends <= RunTime
                        /\ stage' = [at |-> at, ends |-> ends, left |-> rest]
                        /\ at = "resolve" => rest = Repros
  <2>1. CASE at # "resolve"
    <3>1. runClock < RunTime /\ runClock \in Nat /\ RunTime \in Nat /\ StageTime \in Nat
      BY <1>1, <2>1, RunnerAssumption DEF RunnerInv
    <3>2. Deadline \in Nat /\ Deadline <= RunTime
      BY <3>1 DEF Deadline, MinOf, Left
    <3> QED  BY <1>1, <2>1, <3>2
  <2>2. CASE at = "resolve"
    <3>1. stage' = [at |-> at, ends |-> stage.ends, left |-> Repros]
      BY <1>1, <1>3, <2>2
    <3> QED  BY <1>3, <3>1
  <2> QED  BY <2>1, <2>2
<1>8. stage'.at = at /\ stage'.ends = ends /\ stage'.left = rest
  BY <1>7
<1>9. StageInv'
  BY <1>7, <1>8 DEF StageInv
<1>10. verdict' \in [reproduced : BOOLEAN, resolved : BOOLEAN]
       /\ verdict'.reproduced = verdict.reproduced /\ (verdict'.resolved => at = "resolve")
  <2> DEFINE b == at = "resolve" /\ Repros # <<>>
  <2>1. b \in BOOLEAN /\ verdict' = [verdict EXCEPT !.resolved = b] /\ (b => at = "resolve")
    BY <1>2
  <2> HIDE DEF b
  <2> QED  BY ONLY <1>3, <2>1
<1>11. at = "resolve" => IsRest(stage.left, 0)' /\ 0 \in 0..Len(setup'.commands)
  <2> DEFINE n == Len(setup.commands)
             R == {Repros[k] : k \in 1..n}
  <2>1. n \in Nat
    <3>1. \E S : setup.commands \in Seq(S)
      BY RunnerAssumption DEF RunnerInv
    <3> QED  BY <3>1, LenProperties
  <2>2. Repros = [k \in 1..n |-> Repros[k]]
    BY DEF Repros
  <2> DEFINE repros == Repros
  <2> HIDE DEF n, repros
  <2>3. repros \in Seq(R) /\ Len(repros) = n
    <3>1. repros \in [1..n -> R]
      BY <2>2 DEF repros
    <3> HIDE DEF R
    <3> QED  BY <2>1, <3>1
  <2>4. setup' = setup /\ Repros' = Repros
    BY <1>1 DEF Repros
  <2>5. \A k \in 1..n : 0 + k = k
    BY <2>1
  <2>6. at = "resolve" => stage'.left = repros
    BY <1>7, <1>8 DEF repros
  <2> QED  BY <2>1, <2>3, <2>4, <2>5, <2>6 DEF IsRest, n, repros
<1>12. VerdictInv'
  <2>1. at = "resolve" => \E m \in 0..Len(setup'.commands) :
          /\ IsRest(stage.left, m)'
          /\ verdict'.resolved => \A k \in 1..m : HasPassed(k)'
    <3>1. \A k \in 1..0 : HasPassed(k)'
      OBVIOUS
    <3> QED  BY <1>11, <3>1
  <2> QED  BY <1>6, <1>8, <1>10, <2>1 DEF RunnerInv, VerdictInv
<1> QED  BY <1>1, <1>4, <1>5, <1>9, <1>12 DEF RunnerInv

\* The invariant of the runner.
THEOREM RunnerInvHolds == RunnerSpec => []RunnerInv
<1>1. ASSUME RunnerInit PROVE RunnerInv
  <2>1. /\ setup \in Setups /\ stage = [at |-> "planned", ends |-> 0, left |-> <<>>]
        /\ child = NoChild /\ runClock = 0 /\ commandOutcomes = <<>>
        /\ verdict = [reproduced |-> FALSE, resolved |-> FALSE]
    BY <1>1 DEF RunnerInit, RunnerAt
  <2>2. IsSomeSeq(commandOutcomes) /\ Len(commandOutcomes) = 0
    <3>1. <<>> \in Seq({}) /\ Len(<<>>) = 0
      OBVIOUS
    <3> QED  BY <2>1, <3>1 DEF IsSomeSeq
  <2>3. StageInv /\ VerdictInv
    BY <2>1, RunnerAssumption DEF StageInv, VerdictInv
  <2> QED  BY <2>1, <2>2, <2>3 DEF RunnerInv, ChildInv
<1>2. ASSUME RunnerInv, [RunnerNext]_runnerVars PROVE RunnerInv'
  <2>1. CASE UNCHANGED runnerVars
    <3>1. UNCHANGED <<setup, stage, child, runClock, commandOutcomes, verdict>>
      BY <2>1 DEF runnerVars
    <3>2. ChildInv' /\ runClock' \in Nat
      BY <1>2, <3>1 DEF RunnerInv, ChildInv, Allowed
    <3> QED  BY <1>2, <3>1, <3>2, ChildMoves
  <2>2. CASE RunnerNext
    BY <1>2, <2>2, StageStarted, Skipped, Spawned, NotSpawned, ChildSteps, Reported, Ticked DEF RunnerNext
  <2> QED  BY <1>2, <2>1, <2>2
<1> QED  BY <1>1, <1>2, PTL DEF RunnerSpec

\* Whatever the commands, the times and how long a process left behind holds the
\* pipes: a check that passed and a reproduction that is resolved were allowed to run
\* and ended by themselves in time, and what reproduced the bug did so too.
THEOREM RunnerVerdictsAreEarned == RunnerSpec => []VerdictsAreEarned
<1>1. ASSUME RunnerInv PROVE VerdictsAreEarned
  <2> DEFINE n == Len(commandOutcomes)
             At(at) == {i \in 1..n : commandOutcomes[i].stage = at}
  <2>1. \A i \in 1..n : OutcomeOK(commandOutcomes[i])
    BY <1>1 DEF RunnerInv
  <2>2. ASSUME verdict.reproduced
        PROVE  \E i \in At("reproduce") : commandOutcomes[i].child.at = "failed" /\ InTime(commandOutcomes[i])
    BY <1>1, <2>2 DEF RunnerInv, VerdictInv, HasReproduced
  <2>3. ASSUME verdict.resolved, stage.left = <<>>, NEW k \in DOMAIN setup.commands
        PROVE  \E i \in At("resolve") :
                 commandOutcomes[i].argv = setup.commands[k] /\ commandOutcomes[i].result = "pass"
    <3>1. PICK m \in 0..Len(setup.commands) : IsRest(stage.left, m) /\ \A l \in 1..m : HasPassed(l)
      BY <1>1, <2>3 DEF RunnerInv, VerdictInv
    <3>2. Len(setup.commands) \in Nat /\ DOMAIN setup.commands = 1..Len(setup.commands)
      <4>1. \E S : setup.commands \in Seq(S)
        BY <1>1, RunnerAssumption DEF RunnerInv
      <4> QED  BY <4>1, LenProperties
    <3>3. Len(setup.commands) - m = 0
      <4>1. Len(stage.left) = Len(setup.commands) - m
        BY <3>1 DEF IsRest
      <4>2. Len(stage.left) = 0
        BY <2>3
      <4> QED  BY ONLY <4>1, <4>2
    <3>4. k \in 1..m
      BY <3>2, <3>3
    <3> QED  BY <3>1, <3>4 DEF HasPassed
  <2> QED  BY <2>1, <2>2, <2>3 DEF VerdictsAreEarned, OutcomeOK, InTime
<1> QED  BY <1>1, RunnerInvHolds, PTL

(***************************************************************************)
(* The findings of an analysis (Analysis): what is joined in the order of the *)
(* configuration has the findings of an analyzer before those of the next, *)
(* and of each file and title the first stays.                             *)
(***************************************************************************)

(***************************************************************************)
(* The findings of the analyzers, joined                                   *)
(***************************************************************************)
FoundBy(n) == {analyzers[n].found[i] : i \in 1..Len(analyzers[n].found)}

\* What the analyzers hold are lists.
AnswersInv ==
  /\ DOMAIN analyzers = Numbers
  /\ \A n \in Numbers :
       /\ analyzers[n] = [at |-> analyzers[n].at, attempt |-> analyzers[n].attempt, found |-> analyzers[n].found]
       /\ analyzers[n].found \in Seq(FoundBy(n))

\* The first k analyzers have these findings, and one analyzer's before the next one's.
IsJoinOf(s, k, F) ==
  /\ s \in Seq(F)
  /\ \A i \in 1..Len(s) : \E m \in 1..k : s[i] \in FoundBy(m)
  /\ \A n \in 1..k : \A f \in FoundBy(n) :
       \E j \in 1..Len(s) : s[j] = f /\ \A i \in 1..j : \E m \in 1..n : s[i] \in FoundBy(m)

LEMMA JoinGoesOn ==
  ASSUME NEW F, NEW k \in Nat, NEW s, IsJoinOf(s, k, F), NEW found \in Seq(F),
         FoundBy(k + 1) = {found[i] : i \in 1..Len(found)}
  PROVE  IsJoinOf(s \o found, k + 1, F)
<1> DEFINE t == s \o found
           n == Len(s)
           l == Len(found)
<1>1. /\ s \in Seq(F) /\ n \in Nat /\ l \in Nat /\ t \in Seq(F) /\ Len(t) = n + l
      /\ \A i \in 1..n + l : t[i] = IF i <= n THEN s[i] ELSE found[i - n]
  BY ConcatProperties, LenProperties DEF IsJoinOf
<1> HIDE DEF t
<1>2. \A i \in 1..n : i \in 1..Len(t) /\ t[i] = s[i]
  BY <1>1
<1>3. ASSUME NEW i \in 1..l PROVE n + i \in 1..Len(t) /\ t[n + i] = found[i]
  <2>1. n + i \in 1..n + l /\ ~(n + i <= n) /\ (n + i) - n = i
    BY <1>1
  <2> QED  BY <1>1, <2>1
<1>4. \A i \in 1..Len(t) : i \in 1..n \/ (i > n /\ i - n \in 1..l /\ t[i] = found[i - n])
  BY <1>1
<1> HIDE DEF n, l
<1>5. ASSUME NEW i \in 1..Len(t) PROVE \E m \in 1..k + 1 : t[i] \in FoundBy(m)
  <2>1. CASE i \in 1..n
    <3>1. PICK m \in 1..k : s[i] \in FoundBy(m)
      BY <2>1 DEF IsJoinOf, n
    <3> QED  BY <1>2, <2>1, <3>1
  <2>2. CASE i - n \in 1..l /\ t[i] = found[i - n]
    <3>1. t[i] \in FoundBy(k + 1)
      BY <2>2 DEF l
    <3> QED  BY <3>1
  <2> QED  BY <1>4, <2>1, <2>2
<1>6. ASSUME NEW a \in 1..k + 1, NEW f \in FoundBy(a)
      PROVE  \E j \in 1..Len(t) : t[j] = f /\ \A i \in 1..j : \E m \in 1..a : t[i] \in FoundBy(m)
  <2>1. CASE a \in 1..k
    <3>1. PICK j \in 1..n : s[j] = f /\ \A i \in 1..j : \E m \in 1..a : s[i] \in FoundBy(m)
      BY <2>1 DEF IsJoinOf, n
    <3>2. \A i \in 1..j : i \in 1..n
      BY <1>1
    <3> QED  BY <1>2, <3>1, <3>2
  <2>2. CASE a = k + 1
    <3>1. PICK i \in 1..l : found[i] = f
      BY <2>2 DEF l
    <3>2. n + i \in 1..Len(t) /\ t[n + i] = f
      BY <1>3, <3>1
    <3>3. \A h \in 1..n + i : h \in 1..Len(t)
      BY <3>2, <1>1
    <3> QED  BY <1>5, <2>2, <3>2, <3>3
  <2> QED  BY <2>1, <2>2
<1>7. IsJoinOf(t, k + 1, F)
  BY <1>1, <1>5, <1>6 DEF IsJoinOf
<1> QED  BY <1>7 DEF t

\* The findings of all the analyzers, in their order.
LEMMA AllAreJoined ==
  ASSUME AnswersInv
  PROVE  \E F : IsJoinOf(Joined([n \in Numbers |-> n]), Len(Analyzers), F)
<1> DEFINE order == [n \in Numbers |-> n]
           size == Len(Analyzers)
           F == UNION {FoundBy(n) : n \in Numbers}
           V == Seq(F)
           found == [n \in Numbers |-> analyzers[n].found]
           step == [k \in 1..size |-> [s \in V |-> s \o found[k]]]
           IsUpto(f) == f = [k \in 0..size |-> IF k = 0 THEN <<>> ELSE f[k - 1] \o analyzers[order[k]].found]
<1>1. size \in Nat /\ Numbers = 1..size
  BY AnalysisAssumption DEF Numbers
<1>2. \A n \in Numbers : found[n] = analyzers[n].found /\ found[n] \in V
  <2>1. ASSUME NEW n \in Numbers PROVE analyzers[n].found \in V
    <3>1. FoundBy(n) \subseteq F /\ analyzers[n].found \in Seq(FoundBy(n))
      BY DEF AnswersInv
    <3> QED  BY <3>1, SeqMonotonic
  <2> QED  BY <2>1
<1>3. order \in Seq(Nat) /\ Len(order) = size
  <2>1. order \in [1..size -> Nat]
    BY <1>1
  <2> HIDE DEF order
  <2> QED  BY <1>1, <2>1
<1> HIDE DEF found, F
<1>4. step \in [1..size -> [V -> V]]
  BY <1>1, <1>2, ConcatProperties
<1>5. <<>> \in V
  OBVIOUS
<1>6. PICK g : IsFold(g, size, V, <<>>, step)
  <2> HIDE DEF size, step, V
  <2> QED  BY <1>1, <1>4, <1>5, FoldExists
<1>7. IsUpto(g)
  <2>1. \A k \in 1..size : k - 1 \in 0..size /\ g[k - 1] \in V /\ g[k] = g[k - 1] \o analyzers[order[k]].found
    <3>1. ASSUME NEW k \in 1..size
          PROVE  k - 1 \in 0..size /\ g[k - 1] \in V /\ g[k] = g[k - 1] \o analyzers[order[k]].found
      <4>1. k - 1 \in 0..size
        BY <1>1
      <4>2. g[k - 1] \in V /\ g[k] = step[k][g[k - 1]]
        BY <1>6, <4>1 DEF IsFold
      <4>3. order[k] = k /\ found[k] = analyzers[k].found
        BY <1>1, <1>2
      <4> QED  BY <4>1, <4>2, <4>3
    <3> QED  BY <3>1
  <2>2. g \in [0..size -> V] /\ g[0] = <<>>
    BY <1>6 DEF IsFold
  <2>3. \A k \in 0..size : k = 0 \/ k \in 1..size
    BY <1>1
  <2> HIDE DEF V, size, order
  <2> QED  BY <2>1, <2>2, <2>3
<1> DEFINE f == CHOOSE h : IsUpto(h)
<1>8. IsUpto(f)
  <2> HIDE DEF IsUpto
  <2> QED  BY <1>7
<1>9. Joined(order) = f[size]
  BY <1>3 DEF Joined
<1> HIDE DEF f
<1> DEFINE S == {k \in Nat : k <= size => IsJoinOf(f[k], k, F)}
<1>10. 0 \in S
  <2>1. f[0] = <<>> /\ Len(<<>>) = 0
    BY <1>1, <1>8
  <2>2. IsJoinOf(<<>>, 0, F)
    BY <1>5 DEF IsJoinOf
  <2> QED  BY <2>1, <2>2
<1>11. ASSUME NEW k \in Nat, k \in S, k + 1 <= size PROVE IsJoinOf(f[k + 1], k + 1, F)
  <2>1. IsJoinOf(f[k], k, F) /\ k + 1 \in Numbers /\ k + 1 \in 0..size /\ k + 1 # 0 /\ (k + 1) - 1 = k
    BY <1>1, <1>11
  <2>2. f[k + 1] = f[k] \o found[k + 1]
    BY <1>2, <1>8, <2>1
  <2>3. found[k + 1] \in Seq(F) /\ FoundBy(k + 1) = {found[k + 1][i] : i \in 1..Len(found[k + 1])}
    BY <1>2, <2>1 DEF FoundBy
  <2> QED  BY <2>1, <2>2, <2>3, JoinGoesOn
<1>12. \A k \in Nat : k \in S => k + 1 \in S
  BY <1>11
<1> HIDE DEF S
<1>13. size \in S
  BY <1>1, <1>10, <1>12, Induction
<1>14. IsJoinOf(f[size], size, F)
  BY <1>1, <1>13 DEF S
<1> QED  BY <1>9, <1>14

(***************************************************************************)
(* What is left of them                                                    *)
(***************************************************************************)
KeyOf(f) == <<f.file, f.title>>

\* Of the first k findings, for every file and title the first, once.
IsFirstsOf(t, all, k, F) ==
  /\ t \in Seq(F)
  /\ \A i \in 1..k : \E j \in 1..Len(t) : KeyOf(t[j]) = KeyOf(all[i])
  /\ \A j \in 1..Len(t) : \E i \in 1..k : t[j] = all[i] /\ \A h \in 1..(i - 1) : KeyOf(all[h]) # KeyOf(all[i])
  /\ \A i, j \in 1..Len(t) : KeyOf(t[i]) = KeyOf(t[j]) => i = j

LEMMA FirstsGoOn ==
  ASSUME NEW F, NEW all \in Seq(F), NEW k \in Nat, k + 1 <= Len(all), NEW t, IsFirstsOf(t, all, k, F)
  PROVE  IsFirstsOf(IF \E i \in 1..k : KeyOf(all[i]) = KeyOf(all[k + 1]) THEN t ELSE Append(t, all[k + 1]),
                    all, k + 1, F)
<1>0. \A i \in 1..k + 1 : i \in 1..k \/ i = k + 1
  OBVIOUS
<1>1. CASE \E i \in 1..k : KeyOf(all[i]) = KeyOf(all[k + 1])
  <2> HIDE DEF KeyOf
  <2>1. PICK h \in 1..k : KeyOf(all[h]) = KeyOf(all[k + 1])
    BY <1>1
  <2>2. \A i \in 1..k + 1 : \E j \in 1..Len(t) : KeyOf(t[j]) = KeyOf(all[i])
    BY <1>0, <2>1 DEF IsFirstsOf
  <2>3. 1..k \subseteq 1..k + 1
    OBVIOUS
  <2>4. \A j \in 1..Len(t) :
          \E i \in 1..k + 1 : t[j] = all[i] /\ \A g \in 1..(i - 1) : KeyOf(all[g]) # KeyOf(all[i])
    BY <2>3 DEF IsFirstsOf
  <2>5. IsFirstsOf(t, all, k + 1, F)
    BY <2>2, <2>4 DEF IsFirstsOf
  <2> QED  BY <1>1, <2>5
<1>2. CASE ~\E i \in 1..k : KeyOf(all[i]) = KeyOf(all[k + 1])
  <2> DEFINE e == all[k + 1]
             u == Append(t, e)
             n == Len(t)
  <2>1. t \in Seq(F) /\ e \in F
    BY ElementOfSeq DEF IsFirstsOf
  <2>2. /\ u \in Seq(F) /\ n \in Nat /\ Len(u) = n + 1 /\ u[n + 1] = e
        /\ \A j \in 1..n : u[j] = t[j]
    BY <2>1, AppendProperties, LenProperties
  <2> HIDE DEF u, n, KeyOf
  <2>3. \A j \in 1..Len(u) : j \in 1..n \/ j = n + 1
    BY <2>2
  <2>4. 1..n \subseteq 1..Len(u) /\ n + 1 \in 1..Len(u) /\ 1..k \subseteq 1..k + 1 /\ k + 1 \in 1..k + 1
    BY <2>2
  <2>5. \A i \in 1..k + 1 : \E j \in 1..Len(u) : KeyOf(u[j]) = KeyOf(all[i])
    BY <1>0, <2>2, <2>4 DEF IsFirstsOf, n
  <2>6. ASSUME NEW j \in 1..Len(u)
        PROVE  \E i \in 1..k + 1 : u[j] = all[i] /\ \A h \in 1..(i - 1) : KeyOf(all[h]) # KeyOf(all[i])
    <3>1. CASE j \in 1..n
      <4>1. PICK i \in 1..k : t[j] = all[i] /\ \A h \in 1..(i - 1) : KeyOf(all[h]) # KeyOf(all[i])
        BY <3>1 DEF IsFirstsOf, n
      <4> QED  BY <2>2, <2>4, <3>1, <4>1
    <3>2. CASE j = n + 1
      <4>1. (k + 1) - 1 = k
        OBVIOUS
      <4> QED  BY <1>2, <2>2, <2>4, <3>2, <4>1
    <3> QED  BY <2>3, <3>1, <3>2
  <2>7. \A j \in 1..n : KeyOf(u[j]) # KeyOf(e)
    <3>1. \A j \in 1..n : \E i \in 1..k : t[j] = all[i]
      BY DEF IsFirstsOf, n
    <3> QED  BY <1>2, <2>2, <3>1
  <2>8. ASSUME NEW i \in 1..Len(u), NEW j \in 1..Len(u), KeyOf(u[i]) = KeyOf(u[j]) PROVE i = j
    <3>1. \A a, b \in 1..n : KeyOf(u[a]) = KeyOf(u[b]) => a = b
      BY <2>2 DEF IsFirstsOf, n
    <3> QED  BY <2>2, <2>3, <2>7, <2>8, <3>1
  <2>9. IsFirstsOf(u, all, k + 1, F)
    BY <2>2, <2>5, <2>6, <2>8 DEF IsFirstsOf
  <2> QED  BY <1>2, <2>9 DEF u
<1> QED  BY <1>1, <1>2

LEMMA FirstsStay ==
  ASSUME NEW F, NEW all \in Seq(F)
  PROVE  IsFirstsOf(Deduplicated(all), all, Len(all), F)
<1> DEFINE size == Len(all)
           V == Seq(F)
           Seen(k) == \E i \in 1..(k - 1) : KeyOf(all[i]) = KeyOf(all[k])
           step == [k \in 1..size |-> [t \in V |-> IF Seen(k) THEN t ELSE Append(t, all[k])]]
           IsUpto(f) == f = [k \in 0..size |-> IF k = 0 THEN <<>>
                                               ELSE IF Seen(k) THEN f[k - 1]
                                               ELSE Append(f[k - 1], all[k])]
<1>1. size \in Nat /\ \A k \in 1..size : all[k] \in F
  BY LenProperties, ElementOfSeq
<1>2. step \in [1..size -> [V -> V]]
  <2> HIDE DEF Seen
  <2> QED  BY <1>1, AppendProperties
<1>3. <<>> \in V
  OBVIOUS
<1>4. PICK g : IsFold(g, size, V, <<>>, step)
  <2> HIDE DEF size, step, V
  <2> QED  BY <1>1, <1>2, <1>3, FoldExists
<1>5. IsUpto(g)
  <2> HIDE DEF Seen
  <2>1. ASSUME NEW k \in 1..size
        PROVE  g[k] = IF Seen(k) THEN g[k - 1] ELSE Append(g[k - 1], all[k])
    <3>1. k - 1 \in 0..size
      BY <1>1
    <3>2. g[k - 1] \in V /\ g[k] = step[k][g[k - 1]]
      BY <1>4, <3>1 DEF IsFold
    <3> QED  BY <3>2
  <2>2. g \in [0..size -> V] /\ g[0] = <<>>
    BY <1>4 DEF IsFold
  <2>3. \A k \in 0..size : k = 0 \/ k \in 1..size
    BY <1>1
  <2> HIDE DEF V, size
  <2> QED  BY <2>1, <2>2, <2>3
<1> DEFINE f == CHOOSE h : IsUpto(h)
<1>6. IsUpto(f)
  <2> HIDE DEF IsUpto
  <2> QED  BY <1>5
<1>7. Deduplicated(all) = f[size]
  BY DEF Deduplicated, KeyOf
<1> HIDE DEF f
<1> DEFINE S == {k \in Nat : k <= size => IsFirstsOf(f[k], all, k, F)}
<1>8. 0 \in S
  <2>1. f[0] = <<>> /\ Len(<<>>) = 0
    BY <1>1, <1>6
  <2>2. IsFirstsOf(<<>>, all, 0, F)
    BY <1>3 DEF IsFirstsOf
  <2> QED  BY <2>1, <2>2
<1>9. ASSUME NEW k \in Nat, k \in S, k + 1 <= size PROVE IsFirstsOf(f[k + 1], all, k + 1, F)
  <2>1. IsFirstsOf(f[k], all, k, F) /\ k + 1 \in 0..size /\ k + 1 # 0 /\ (k + 1) - 1 = k
    BY <1>1, <1>9
  <2>2. f[k + 1] = IF \E i \in 1..k : KeyOf(all[i]) = KeyOf(all[k + 1]) THEN f[k] ELSE Append(f[k], all[k + 1])
    BY <1>6, <2>1
  <2> QED  BY <1>9, <2>1, <2>2, FirstsGoOn
<1>10. \A k \in Nat : k \in S => k + 1 \in S
  BY <1>9
<1> HIDE DEF S
<1>11. size \in S
  BY <1>1, <1>8, <1>10, Induction
<1> QED  BY <1>1, <1>7, <1>11 DEF S

\* FindingsAreStable, of a result.
StableAs(all) ==
  LET Same(f, g) == f.file = g.file /\ f.title = g.title
      result == {all[i] : i \in 1..Len(all)}
  IN /\ \A n \in Numbers : \A f \in FoundBy(n) :
          \E g \in result : Same(f, g) /\ \E m \in 1..n : g \in FoundBy(m)
     /\ \A g \in result : \A n \in Numbers : \A f \in FoundBy(n) :
          Same(f, g) => \E m \in 1..n : g \in FoundBy(m)
     /\ \A i, j \in 1..Len(all) : Same(all[i], all[j]) => i = j

\* What is joined in the order of the configuration and deduplicated is stable.
LEMMA JoinIsStable ==
  ASSUME AnswersInv, NEW joined, joined = Deduplicated(Joined([n \in Numbers |-> n]))
  PROVE  StableAs(joined)
<1> DEFINE all == Joined([n \in Numbers |-> n])
           size == Len(Analyzers)
<1>1. PICK F : IsJoinOf(all, size, F)
  BY AllAreJoined
<1>2. size \in Nat /\ Numbers = 1..size
  BY AnalysisAssumption DEF Numbers
<1> HIDE DEF all, size
<1>3. all \in Seq(F) /\ Len(all) \in Nat
  BY <1>1, LenProperties DEF IsJoinOf
<1>4. IsFirstsOf(joined, all, Len(all), F)
  BY <1>3, FirstsStay DEF all
<1>5. ASSUME NEW n \in Numbers, NEW f \in FoundBy(n), NEW j \in 1..Len(joined),
             KeyOf(joined[j]) = KeyOf(f)
      PROVE  \E m \in 1..n : joined[j] \in FoundBy(m)
  <2>1. PICK a \in 1..Len(all) : all[a] = f /\ \A i \in 1..a : \E m \in 1..n : all[i] \in FoundBy(m)
    BY <1>1, <1>2 DEF IsJoinOf
  <2>2. PICK i \in 1..Len(all) : joined[j] = all[i] /\ \A h \in 1..(i - 1) : KeyOf(all[h]) # KeyOf(all[i])
    BY <1>4 DEF IsFirstsOf
  <2>3. a \notin 1..(i - 1)
    BY <1>5, <2>1, <2>2
  <2>4. i \in 1..a
    BY <1>3, <2>3
  <2> QED  BY <2>1, <2>2, <2>4
<1>6. ASSUME NEW n \in Numbers, NEW f \in FoundBy(n)
      PROVE  \E j \in 1..Len(joined) : KeyOf(joined[j]) = KeyOf(f)
  <2>1. PICK a \in 1..Len(all) : all[a] = f
    BY <1>1, <1>2 DEF IsJoinOf
  <2> QED  BY <1>4, <2>1 DEF IsFirstsOf
<1>7. \A i, j \in 1..Len(joined) : KeyOf(joined[i]) = KeyOf(joined[j]) => i = j
  BY <1>4 DEF IsFirstsOf
<1>8. \A f, g : KeyOf(f) = KeyOf(g) <=> f.file = g.file /\ f.title = g.title
  BY DEF KeyOf
<1> HIDE DEF KeyOf
<1> DEFINE Same(f, g) == f.file = g.file /\ f.title = g.title
           result == {joined[i] : i \in 1..Len(joined)}
<1>9. ASSUME NEW n \in Numbers, NEW f \in FoundBy(n)
      PROVE  \E g \in result : Same(f, g) /\ \E m \in 1..n : g \in FoundBy(m)
  <2>1. PICK j \in 1..Len(joined) : KeyOf(joined[j]) = KeyOf(f)
    BY <1>6, <1>9
  <2>2. \E m \in 1..n : joined[j] \in FoundBy(m)
    BY <1>5, <1>9, <2>1
  <2>3. Same(f, joined[j]) /\ joined[j] \in result
    BY <1>8, <2>1
  <2> QED  BY <2>2, <2>3
<1>10. ASSUME NEW g \in result, NEW n \in Numbers, NEW f \in FoundBy(n), Same(f, g)
       PROVE  \E m \in 1..n : g \in FoundBy(m)
  <2>1. PICK j \in 1..Len(joined) : joined[j] = g
    OBVIOUS
  <2>2. KeyOf(joined[j]) = KeyOf(f)
    BY <1>8, <1>10, <2>1
  <2> QED  BY <1>5, <1>10, <2>1, <2>2
<1>11. \A i, j \in 1..Len(joined) : Same(joined[i], joined[j]) => i = j
  BY <1>7, <1>8
<1> QED  BY <1>9, <1>10, <1>11 DEF StableAs

LEMMA AnswerIsKept ==
  ASSUME NEW x, NEW y, NEW z, NEW at, NEW found, NEW r, r = [at |-> x, attempt |-> y, found |-> z],
         NEW q, q = [r EXCEPT !.at = at, !.found = found]
  PROVE  q = [at |-> at, attempt |-> y, found |-> found]
<1> DEFINE s == [r EXCEPT !.at = at]
<1>1. s = [at |-> at, attempt |-> y, found |-> z]
  OBVIOUS
<1>2. q = [s EXCEPT !.found = found]
  OBVIOUS
<1> HIDE DEF s
<1> QED  BY <1>1, <1>2

\* Whatever the analyzers answer, in whatever order and after however many pauses.
THEOREM AnalysisIsStable == AnalysisSpec => []FindingsAreStable
<1> DEFINE Inv == AnswersInv /\ (phase = "done" => StableAs(findings))
<1>0. ASSUME AnswersInv, UNCHANGED analyzers PROVE AnswersInv'
  BY <1>0 DEF AnswersInv, FoundBy
<1>1. ASSUME AnalysisInit PROVE Inv
  <2>1. analyzers = [n \in Numbers |-> [at |-> "ask", attempt |-> 0, found |-> <<>>]] /\ phase # "done"
    BY <1>1 DEF AnalysisInit
  <2>2. \A n \in Numbers : <<>> \in Seq(FoundBy(n))
    OBVIOUS
  <2>3. AnswersInv
    BY <2>1, <2>2 DEF AnswersInv
  <2> QED  BY <2>1, <2>3
<1>2. ASSUME Inv, DOMAIN analyzers' = Numbers,
             \A n \in Numbers :
               /\ analyzers'[n] = [at |-> analyzers'[n].at, attempt |-> analyzers'[n].attempt,
                                   found |-> analyzers'[n].found]
               /\ analyzers'[n].found = analyzers[n].found,
             phase' # "done" \/ UNCHANGED <<phase, findings>>
      PROVE  Inv'
  <2>1. Numbers = 1..Len(Analyzers) /\ Len(Analyzers) \in Nat
    BY AnalysisAssumption DEF Numbers
  <2>2. \A n \in Numbers : FoundBy(n)' = FoundBy(n) /\ \A m \in 1..n : m \in Numbers
    BY <1>2, <2>1 DEF FoundBy
  <2>3. AnswersInv'
    BY <1>2, <2>2 DEF AnswersInv
  <2>4. CASE phase' # "done"
    BY <2>3, <2>4
  <2>5. CASE UNCHANGED <<phase, findings>>
    <3> DEFINE By == [n \in Numbers |-> FoundBy(n)]
               Same(f, g) == f.file = g.file /\ f.title = g.title
               result == {findings[i] : i \in 1..Len(findings)}
               Unique == \A i, j \in 1..Len(findings) : Same(findings[i], findings[j]) => i = j
    <3>1. StableAs(findings) <=>
            /\ \A n \in Numbers : \A f \in By[n] : \E g \in result : Same(f, g) /\ \E m \in 1..n : g \in By[m]
            /\ \A g \in result : \A n \in Numbers : \A f \in By[n] : Same(f, g) => \E m \in 1..n : g \in By[m]
            /\ Unique
      BY <2>2 DEF StableAs
    <3>2. By' = By /\ result' = result /\ Unique' = Unique
      BY <2>2, <2>5
    <3>3. StableAs(findings)' <=>
            /\ \A n \in Numbers : \A f \in By'[n] : \E g \in result' : Same(f, g) /\ \E m \in 1..n : g \in By'[m]
            /\ \A g \in result' : \A n \in Numbers : \A f \in By'[n] : Same(f, g) => \E m \in 1..n : g \in By'[m]
            /\ Unique'
      BY <2>2 DEF StableAs
    <3> HIDE DEF By, result, Unique
    <3>4. StableAs(findings) => StableAs(findings)'
      BY ONLY <3>1, <3>2, <3>3
    <3> QED  BY <1>2, <2>3, <2>5, <3>4
  <2> QED  BY <1>2, <2>4, <2>5
<1>3. ASSUME Inv, [AnalysisNext]_analysisVars PROVE Inv'
  <2>0. /\ DOMAIN analyzers = Numbers
        /\ \A n \in Numbers :
             /\ analyzers[n] = [at |-> analyzers[n].at, attempt |-> analyzers[n].attempt, found |-> analyzers[n].found]
             /\ analyzers[n].found \in Seq(FoundBy(n))
    BY <1>3 DEF AnswersInv
  <2>1. ASSUME NEW ok \in BOOLEAN, GetFileTree(ok) PROVE Inv'
    BY <1>0, <1>3, <2>1 DEF GetFileTree
  <2>2. ASSUME NEW f \in Selected, StartFetch(f) \/ \E ok \in BOOLEAN : Fetched(f, ok) PROVE Inv'
    <3>1. UNCHANGED <<phase, findings, analyzers>>
      BY <2>2 DEF StartFetch, Fetched
    <3> HIDE DEF Inv
    <3> QED  BY <1>2, <1>3, <2>0, <3>1
  <2>3. ASSUME BuildContext PROVE Inv'
    BY <1>0, <1>3, <2>3 DEF BuildContext
  <2>4. ASSUME JoinFindings PROVE Inv'
    <3>1. findings' = Deduplicated(Joined([n \in Numbers |-> n])) /\ UNCHANGED analyzers
      BY <2>4 DEF JoinFindings
    <3>2. StableAs(findings')
      BY <1>3, <3>1, JoinIsStable
    <3>3. StableAs(findings)'
      <4>1. \A n : FoundBy(n)' = FoundBy(n)
        BY <3>1 DEF FoundBy
      <4> QED  BY <3>2, <4>1 DEF StableAs
    <3> QED  BY <1>0, <1>3, <3>1, <3>3
  <2>5. ASSUME NEW n \in Numbers, NEW found \in Findings[n], AnalyzerAnswers(n, found) PROVE Inv'
    <3>1. phase' # "done" /\ analyzers' = [analyzers EXCEPT ![n].at = "ended", ![n].found = found]
      BY <2>5 DEF AnalyzerAnswers
    <3>2. found \in Seq({found[i] : i \in 1..Len(found)})
      <4>1. found \in Seq({found[i] : i \in DOMAIN found})
        BY AnalysisAssumption DEF Numbers
      <4>2. DOMAIN found = 1..Len(found)
        BY <4>1, LenProperties
      <4> QED  BY <4>1, <4>2
    <3> DEFINE a == [at |-> "ended", attempt |-> analyzers[n].attempt, found |-> found]
    <3>3. analyzers' = [analyzers EXCEPT ![n] = a]
      <4> DEFINE r == analyzers[n]
                 q == [r EXCEPT !.at = "ended", !.found = found]
      <4>1. r = [at |-> r.at, attempt |-> r.attempt, found |-> r.found]
        BY <2>0
      <4>2. analyzers' = [analyzers EXCEPT ![n] = q]
        BY <2>0, <3>1
      <4> HIDE DEF r
      <4>3. q = [at |-> "ended", attempt |-> r.attempt, found |-> found]
        <5> DEFINE x == r.at
                   y == r.attempt
                   z == r.found
        <5>1. r = [at |-> x, attempt |-> y, found |-> z]
          BY <4>1
        <5> HIDE DEF x, y, z
        <5>2. q = [r EXCEPT !.at = "ended", !.found = found]
          OBVIOUS
        <5> HIDE DEF q
        <5>3. q = [at |-> "ended", attempt |-> y, found |-> found]
          BY ONLY <5>1, <5>2, AnswerIsKept
        <5> QED  BY <5>3 DEF y
      <4>4. a = [at |-> "ended", attempt |-> r.attempt, found |-> found]
        BY DEF r
      <4> QED  BY ONLY <4>2, <4>3, <4>4
    <3>4. \A m \in Numbers : analyzers'[m] = IF m = n THEN a ELSE analyzers[m]
      BY <2>0, <3>3
    <3>5. a = [at |-> a.at, attempt |-> a.attempt, found |-> a.found] /\ a.found = found
      OBVIOUS
    <3> HIDE DEF a
    <3>6. \A m \in Numbers : analyzers'[m].found \in Seq(FoundBy(m)')
      BY <2>0, <3>2, <3>4, <3>5 DEF FoundBy
    <3>7. AnswersInv'
      BY <2>0, <3>3, <3>4, <3>5, <3>6 DEF AnswersInv
    <3> QED  BY <3>1, <3>7
  <2>6. ASSUME NEW n \in Numbers, NEW at, NEW attempt,
               analyzers' = [analyzers EXCEPT ![n].at = at] \/ analyzers' = [analyzers EXCEPT ![n].at = at, ![n].attempt = attempt],
               phase' # "done" \/ UNCHANGED <<phase, findings>>
        PROVE  Inv'
    <3>1. PICK b : analyzers' = [analyzers EXCEPT ![n] = [at |-> at, attempt |-> b, found |-> analyzers[n].found]]
      BY <2>0, <2>6
    <3> DEFINE a == [at |-> at, attempt |-> b, found |-> analyzers[n].found]
    <3>2. DOMAIN analyzers' = Numbers /\ \A m \in Numbers : analyzers'[m] = IF m = n THEN a ELSE analyzers[m]
      BY <2>0, <3>1
    <3>3. a = [at |-> a.at, attempt |-> a.attempt, found |-> a.found] /\ a.found = analyzers[n].found
      OBVIOUS
    <3> HIDE DEF a, Inv
    <3> QED  BY <1>2, <1>3, <2>0, <2>6, <3>2, <3>3
  <2>7. ASSUME NEW n \in Numbers, \E transient \in BOOLEAN : AnalyzerFails(n, transient) PROVE Inv'
    <3>1. /\ phase' # "done"
          /\ \/ analyzers' = [analyzers EXCEPT ![n].at = "pause", ![n].attempt = @ + 1]
             \/ analyzers' = [analyzers EXCEPT ![n].at = "ended"]
      BY <2>7 DEF AnalyzerFails
    <3>2. \E at, attempt : \/ analyzers' = [analyzers EXCEPT ![n].at = at]
                           \/ analyzers' = [analyzers EXCEPT ![n].at = at, ![n].attempt = attempt]
      BY <3>1
    <3> HIDE DEF Inv
    <3> QED  BY <2>6, <3>1, <3>2
  <2>8. ASSUME NEW n \in Numbers, AsksAgain(n) PROVE Inv'
    <3>1. UNCHANGED <<phase, findings>> /\ analyzers' = [analyzers EXCEPT ![n].at = "ask"]
      BY <2>8 DEF AsksAgain
    <3> HIDE DEF Inv
    <3> QED  BY <2>6, <3>1
  <2>9. CASE UNCHANGED analysisVars
    <3>1. UNCHANGED <<phase, findings, analyzers>>
      BY <2>9 DEF analysisVars
    <3> HIDE DEF Inv
    <3> QED  BY <1>2, <1>3, <2>0, <3>1
  <2>10. CASE AnalysisNext
    <3> HIDE DEF Inv
    <3> QED  BY <2>1, <2>2, <2>3, <2>4, <2>5, <2>7, <2>8, <2>10 DEF AnalysisNext
  <2> QED  BY <1>3, <2>9, <2>10
<1>4. Inv => FindingsAreStable
  BY DEF FindingsAreStable, StableAs, FoundBy
<1> QED  BY <1>1, <1>3, <1>4, PTL DEF AnalysisSpec

(***************************************************************************)
(* A contribution is what an answer of the model says (Generator): each of  *)
(* the four strategies puts an edit in place, or it is open out.  The proof *)
(* goes by the words of lines and texts: how they are put together of those *)
(* of their parts, that white space adds none, and that each strategy takes *)
(* away a block of lines whose words, but for those around the search, are  *)
(* those of the search or overlap with them.                               *)
(***************************************************************************)
WordSeqs == Seq(Vocabulary)

\* The words of a line, gathered from its start.
IsLineWords(f, line) ==
  /\ f \in [0..Len(line) -> WordSeqs]
  /\ f[0] = <<>>
  /\ \A k \in 1..Len(line) : f[k] = IF line[k] = Gap THEN f[k - 1] ELSE Append(f[k - 1], line[k])
  /\ LineWords(line) = f[Len(line)]

\* There is such a gathering for every line.
LEMMA LineWordsUnfold ==
  ASSUME NEW line \in Lines
  PROVE  \E f : IsLineWords(f, line)
<1> DEFINE n == Len(line)
           V == WordSeqs
           IsUpto(f) == f = [k \in 0..n |->
             IF k = 0 THEN <<>>
             ELSE IF line[k] = Gap THEN f[k - 1] ELSE Append(f[k - 1], line[k])]
           Next(was, k) == IF line[k] = Gap THEN was ELSE Append(was, line[k])
           folds == [k \in 1..n |-> [was \in V |-> Next(was, k)]]
<1>1. n \in Nat /\ \A k \in 1..n : line[k] # Gap => line[k] \in Vocabulary
  BY LenProperties DEF Lines
<1>2. <<>> \in V
  BY EmptySeq DEF WordSeqs
<1>3. \A k \in 1..n, was \in V : Next(was, k) \in V
  <2> SUFFICES ASSUME NEW k \in 1..n, NEW was \in V PROVE Next(was, k) \in V
    OBVIOUS
  <2>1. line[k] # Gap => Append(was, line[k]) \in V
    BY <1>1, AppendProperties DEF WordSeqs
  <2> QED  BY <2>1
<1>4. folds \in [1..n -> [V -> V]]
  <2> HIDE DEF Next, n, V
  <2> QED  BY <1>3
<1>5. PICK g : IsFold(g, n, V, <<>>, folds)
  <2> HIDE DEF n, folds, V
  <2> QED  BY <1>1, <1>2, <1>4, FoldExists
<1>6. /\ g \in [0..n -> V] /\ g[0] = <<>>
      /\ \A k \in 1..n : g[k] = Next(g[k - 1], k)
  <2>1. ASSUME NEW k \in 1..n PROVE g[k] = folds[k][g[k - 1]] /\ g[k - 1] \in V
    <3>1. k - 1 \in 0..n
      BY <1>1
    <3> HIDE DEF V, folds
    <3> QED  BY <1>5, <3>1 DEF IsFold
  <2> HIDE DEF Next, n, V
  <2> QED  BY <1>5, <2>1 DEF IsFold
<1>7. IsUpto(g)
  <2>1. \A k \in 0..n : k = 0 \/ k \in 1..n
    BY <1>1
  <2>2. g = [k \in 0..n |-> IF k = 0 THEN <<>> ELSE Next(g[k - 1], k)]
    <3> HIDE DEF Next, n, V
    <3> QED  BY <1>6, <2>1
  <2> HIDE DEF n
  <2> QED  BY ONLY <2>2
<1> DEFINE f == CHOOSE h : IsUpto(h)
<1>8. IsUpto(f)
  <2> HIDE DEF IsUpto
  <2> QED  BY <1>7
<1>9. LineWords(line) = f[n]
  BY DEF LineWords
<1> HIDE DEF f
<1>10. f[0] = <<>> /\ \A k \in 1..n : f[k] = Next(f[k - 1], k)
  <2>1. f = [k \in 0..n |-> IF k = 0 THEN <<>> ELSE Next(f[k - 1], k)]
    BY ONLY <1>8
  <2>2. 0 \in 0..n /\ \A k \in 1..n : k \in 0..n /\ k # 0
    BY <1>1
  <2> HIDE DEF n, Next
  <2> QED  BY <2>1, <2>2
<1>11. \A k \in 0..n : f[k] \in V
  <2> DEFINE T == {i \in Nat : i <= n => f[i] \in V}
  <2>1. 0 \in T
    BY <1>2, <1>10
  <2>2. ASSUME NEW k \in Nat, k \in T, k + 1 <= n PROVE f[k + 1] \in V
    <3>1. k + 1 \in 1..n /\ (k + 1) - 1 = k /\ f[k] \in V
      BY <1>1, <2>2
    <3>2. f[k + 1] = Next(f[k], k + 1)
      <4> HIDE DEF Next, n, V
      <4> QED  BY <1>10, <3>1
    <3> HIDE DEF Next, n, V
    <3> QED  BY <1>3, <3>1, <3>2
  <2>3. \A k \in Nat : k \in T => k + 1 \in T
    BY <2>2
  <2> HIDE DEF T
  <2>4. Nat \subseteq T
    BY <2>1, <2>3, Induction
  <2> QED  BY <1>1, <2>4 DEF T
<1>12. f \in [0..n -> V]
  <2>1. f = [k \in 0..n |-> IF k = 0 THEN <<>> ELSE Next(f[k - 1], k)]
    BY ONLY <1>8
  <2> HIDE DEF n, Next, V
  <2> QED  BY <1>11, <2>1
<1>13. IsLineWords(f, line)
  BY <1>9, <1>10, <1>12 DEF IsLineWords
<1> QED  BY <1>13

\* The words of a line are words.
LEMMA LineWordsType ==
  ASSUME NEW line \in Lines
  PROVE  LineWords(line) \in WordSeqs
<1>1. PICK f : IsLineWords(f, line)
  BY LineWordsUnfold
<1>2. Len(line) \in Nat
  BY LenProperties DEF Lines
<1> QED  BY <1>1, <1>2 DEF IsLineWords

\* A word behind two sequences is behind the second.
LEMMA AppendOfConcat ==
  ASSUME NEW a \in WordSeqs, NEW b \in WordSeqs, NEW w \in Vocabulary
  PROVE  Append(a \o b, w) = a \o Append(b, w)
<1>1. a \in Seq(Vocabulary) /\ b \in Seq(Vocabulary)
  BY DEF WordSeqs
<1>2. a \o b \in Seq(Vocabulary) /\ <<w>> \in Seq(Vocabulary)
  BY <1>1, ConcatProperties
<1>3. Append(a \o b, w) = (a \o b) \o <<w>> /\ Append(b, w) = b \o <<w>>
  BY <1>1, <1>2, AppendIsConcat
<1>4. (a \o b) \o <<w>> = a \o (b \o <<w>>)
  BY <1>1, <1>2, ConcatAssociative
<1> QED  BY <1>3, <1>4

\* What a line holds up to a place says which words it has up to there.
LEMMA LineWordsAgree ==
  ASSUME NEW a \in Lines, NEW b \in Lines, NEW f, NEW g, IsLineWords(f, a), IsLineWords(g, b),
         NEW m \in Nat, m <= Len(a), m <= Len(b), \A k \in 1..m : a[k] = b[k]
  PROVE  f[m] = g[m]
<1> DEFINE T == {i \in Nat : i <= m => f[i] = g[i]}
<1>0. Len(a) \in Nat /\ Len(b) \in Nat
  BY LenProperties DEF Lines
<1>1. 0 \in T
  BY DEF IsLineWords
<1>2. ASSUME NEW k \in Nat, k \in T, k + 1 <= m PROVE f[k + 1] = g[k + 1]
  <2>1. k + 1 \in 1..m /\ k + 1 \in 1..Len(a) /\ k + 1 \in 1..Len(b) /\ (k + 1) - 1 = k /\ f[k] = g[k]
    BY <1>0, <1>2
  <2>2. a[k + 1] = b[k + 1]
    BY <2>1
  <2>3. f[k + 1] = IF a[k + 1] = Gap THEN f[k] ELSE Append(f[k], a[k + 1])
    BY <2>1 DEF IsLineWords
  <2>4. g[k + 1] = IF b[k + 1] = Gap THEN g[k] ELSE Append(g[k], b[k + 1])
    BY <2>1 DEF IsLineWords
  <2> QED  BY <2>1, <2>2, <2>3, <2>4
<1>3. \A k \in Nat : k \in T => k + 1 \in T
  BY <1>2
<1> HIDE DEF T
<1>4. m \in T
  BY <1>1, <1>3, Induction
<1> QED  BY <1>4 DEF T

\* A line made of two has the words of the first and then those of the second.
LEMMA LineWordsOfConcat ==
  ASSUME NEW a \in Lines, NEW b \in Lines
  PROVE  a \o b \in Lines /\ LineWords(a \o b) = LineWords(a) \o LineWords(b)
<1> DEFINE c == a \o b
<1>1. /\ c \in Lines /\ Len(c) = Len(a) + Len(b)
      /\ Len(a) \in Nat /\ Len(b) \in Nat
      /\ \A k \in 1..Len(a) : c[k] = a[k]
      /\ \A k \in 1..Len(b) : c[Len(a) + k] = b[k]
  <2>1. Len(a) \in Nat /\ Len(b) \in Nat
    BY LenProperties DEF Lines
  <2>2. c \in Lines /\ Len(c) = Len(a) + Len(b)
    BY ConcatProperties DEF Lines
  <2>3. \A k \in 1..(Len(a) + Len(b)) : c[k] = IF k <= Len(a) THEN a[k] ELSE b[k - Len(a)]
    BY ConcatProperties DEF Lines
  <2>4. \A k \in 1..Len(a) : k \in 1..(Len(a) + Len(b)) /\ k <= Len(a)
    BY <2>1
  <2>5. \A k \in 1..Len(b) : Len(a) + k \in 1..(Len(a) + Len(b)) /\ ~(Len(a) + k <= Len(a)) /\ (Len(a) + k) - Len(a) = k
    BY <2>1
  <2> HIDE DEF c
  <2> QED  BY <2>1, <2>2, <2>3, <2>4, <2>5
<1> HIDE DEF c
<1>2. PICK f : IsLineWords(f, a)
  BY LineWordsUnfold
<1>3. PICK g : IsLineWords(g, b)
  BY LineWordsUnfold
<1>4. PICK h : IsLineWords(h, c)
  BY <1>1, LineWordsUnfold
<1>5. h[Len(a)] = LineWords(a)
  <2>1. h[Len(a)] = f[Len(a)]
    <3>1. Len(a) <= Len(a) /\ Len(a) <= Len(c) /\ \A k \in 1..Len(a) : c[k] = a[k]
      BY <1>1
    <3>2. f[Len(a)] = h[Len(a)]
      BY ONLY <1>1, <1>2, <1>4, <3>1, a \in Lines, LineWordsAgree
    <3> QED  BY <3>2
  <2> QED  BY <1>2, <2>1 DEF IsLineWords
<1>6. LineWords(a) \in WordSeqs /\ \A k \in 0..Len(b) : g[k] \in WordSeqs
  BY <1>3, LineWordsType DEF IsLineWords
<1> DEFINE T == {i \in Nat : i <= Len(b) => h[Len(a) + i] = LineWords(a) \o g[i]}
<1>7. 0 \in T
  <2>1. g[0] = <<>> /\ Len(a) + 0 = Len(a)
    BY <1>1, <1>3 DEF IsLineWords
  <2>2. LineWords(a) \o <<>> = LineWords(a)
    BY <1>6, ConcatEmptySeq DEF WordSeqs
  <2> QED  BY <1>5, <2>1, <2>2
<1>8. ASSUME NEW k \in Nat, k \in T, k + 1 <= Len(b) PROVE h[Len(a) + (k + 1)] = LineWords(a) \o g[k + 1]
  <2>1. /\ k + 1 \in 1..Len(b) /\ (k + 1) - 1 = k /\ k \in 0..Len(b)
        /\ Len(a) + (k + 1) \in 1..Len(c) /\ (Len(a) + (k + 1)) - 1 = Len(a) + k
        /\ h[Len(a) + k] = LineWords(a) \o g[k]
    BY <1>1, <1>8
  <2>2. c[Len(a) + (k + 1)] = b[k + 1]
    BY <1>1, <2>1
  <2>3. g[k + 1] = IF b[k + 1] = Gap THEN g[k] ELSE Append(g[k], b[k + 1])
    BY <1>3, <2>1 DEF IsLineWords
  <2>4. h[Len(a) + (k + 1)] = IF b[k + 1] = Gap THEN h[Len(a) + k] ELSE Append(h[Len(a) + k], b[k + 1])
    BY <1>4, <2>1, <2>2 DEF IsLineWords
  <2>5. CASE b[k + 1] = Gap
    BY <2>1, <2>3, <2>4, <2>5
  <2>6. CASE b[k + 1] # Gap
    <3>1. b[k + 1] \in Vocabulary
      BY <2>1, <2>6 DEF Lines
    <3>2. g[k] \in WordSeqs
      BY <1>6, <2>1
    <3>3. Append(LineWords(a) \o g[k], b[k + 1]) = LineWords(a) \o Append(g[k], b[k + 1])
      BY ONLY <1>6, <3>1, <3>2, AppendOfConcat
    <3> QED  BY <2>1, <2>3, <2>4, <2>6, <3>3
  <2> QED  BY <2>5, <2>6
<1>9. ASSUME NEW k \in Nat, k \in T PROVE k + 1 \in T
  <2>1. k + 1 <= Len(b) => h[Len(a) + (k + 1)] = LineWords(a) \o g[k + 1]
    BY <1>8, <1>9
  <2> QED  BY ONLY <2>1
<1> HIDE DEF T
<1>10. Len(b) \in T
  BY <1>1, <1>7, <1>9, Induction
<1>11. LineWords(c) = h[Len(a) + Len(b)] /\ LineWords(b) = g[Len(b)]
  BY <1>1, <1>3, <1>4 DEF IsLineWords
<1>12. LineWords(c) = LineWords(a) \o LineWords(b)
  BY <1>1, <1>10, <1>11 DEF T
<1> QED  BY <1>1, <1>12 DEF c

\* The words of a text, gathered from its start.
IsWords(f, text) ==
  /\ f \in [0..Len(text) -> WordSeqs]
  /\ f[0] = <<>>
  /\ \A k \in 1..Len(text) : f[k] = f[k - 1] \o LineWords(text[k])
  /\ Words(text) = f[Len(text)]

\* There is such a gathering for every text.
LEMMA WordsUnfold ==
  ASSUME NEW text \in Seq(Lines)
  PROVE  \E f : IsWords(f, text)
<1> DEFINE n == Len(text)
           V == WordSeqs
           IsUpto(f) == f = [k \in 0..n |->
             IF k = 0 THEN <<>>
             ELSE f[k - 1] \o LineWords(text[k])]
           Next(was, k) == was \o LineWords(text[k])
           folds == [k \in 1..n |-> [was \in V |-> Next(was, k)]]
<1>1. n \in Nat /\ \A k \in 1..n : text[k] \in Lines
  BY LenProperties
<1>2. <<>> \in V
  BY EmptySeq DEF WordSeqs
<1>3. \A k \in 1..n, was \in V : Next(was, k) \in V
  <2> SUFFICES ASSUME NEW k \in 1..n, NEW was \in V PROVE Next(was, k) \in V
    OBVIOUS
  <2>1. LineWords(text[k]) \in V
    BY <1>1, LineWordsType
  <2> QED  BY <2>1, ConcatProperties DEF WordSeqs
<1>4. folds \in [1..n -> [V -> V]]
  <2> HIDE DEF Next, n, V
  <2> QED  BY <1>3
<1>5. PICK g : IsFold(g, n, V, <<>>, folds)
  <2> HIDE DEF n, folds, V
  <2> QED  BY <1>1, <1>2, <1>4, FoldExists
<1>6. /\ g \in [0..n -> V] /\ g[0] = <<>>
      /\ \A k \in 1..n : g[k] = Next(g[k - 1], k)
  <2>1. ASSUME NEW k \in 1..n PROVE g[k] = folds[k][g[k - 1]] /\ g[k - 1] \in V
    <3>1. k - 1 \in 0..n
      BY <1>1
    <3> HIDE DEF V, folds
    <3> QED  BY <1>5, <3>1 DEF IsFold
  <2> HIDE DEF Next, n, V
  <2> QED  BY <1>5, <2>1 DEF IsFold
<1>7. IsUpto(g)
  <2>1. \A k \in 0..n : k = 0 \/ k \in 1..n
    BY <1>1
  <2>2. g = [k \in 0..n |-> IF k = 0 THEN <<>> ELSE Next(g[k - 1], k)]
    <3> HIDE DEF Next, n, V
    <3> QED  BY <1>6, <2>1
  <2> HIDE DEF n
  <2> QED  BY ONLY <2>2
<1> DEFINE f == CHOOSE h : IsUpto(h)
<1>8. IsUpto(f)
  <2> HIDE DEF IsUpto
  <2> QED  BY <1>7
<1>9. Words(text) = f[n]
  BY DEF Words
<1> HIDE DEF f
<1>10. f[0] = <<>> /\ \A k \in 1..n : f[k] = Next(f[k - 1], k)
  <2>1. f = [k \in 0..n |-> IF k = 0 THEN <<>> ELSE Next(f[k - 1], k)]
    BY ONLY <1>8
  <2>2. 0 \in 0..n /\ \A k \in 1..n : k \in 0..n /\ k # 0
    BY <1>1
  <2> HIDE DEF n, Next
  <2> QED  BY <2>1, <2>2
<1>11. \A k \in 0..n : f[k] \in V
  <2> DEFINE T == {i \in Nat : i <= n => f[i] \in V}
  <2>1. 0 \in T
    BY <1>2, <1>10
  <2>2. ASSUME NEW k \in Nat, k \in T, k + 1 <= n PROVE f[k + 1] \in V
    <3>1. k + 1 \in 1..n /\ (k + 1) - 1 = k /\ f[k] \in V
      BY <1>1, <2>2
    <3>2. f[k + 1] = Next(f[k], k + 1)
      <4> HIDE DEF Next, n, V
      <4> QED  BY <1>10, <3>1
    <3> HIDE DEF Next, n, V
    <3> QED  BY <1>3, <3>1, <3>2
  <2>3. \A k \in Nat : k \in T => k + 1 \in T
    BY <2>2
  <2> HIDE DEF T
  <2>4. Nat \subseteq T
    BY <2>1, <2>3, Induction
  <2> QED  BY <1>1, <2>4 DEF T
<1>12. f \in [0..n -> V]
  <2>1. f = [k \in 0..n |-> IF k = 0 THEN <<>> ELSE Next(f[k - 1], k)]
    BY ONLY <1>8
  <2> HIDE DEF n, Next, V
  <2> QED  BY <1>11, <2>1
<1>13. IsWords(f, text)
  BY <1>9, <1>10, <1>12 DEF IsWords
<1> QED  BY <1>13

\* The words of a text are words.
LEMMA WordsType ==
  ASSUME NEW text \in Seq(Lines)
  PROVE  Words(text) \in WordSeqs
<1>1. PICK f : IsWords(f, text)
  BY WordsUnfold
<1>2. Len(text) \in Nat
  BY LenProperties
<1> QED  BY <1>1, <1>2 DEF IsWords

\* What a text holds up to a line says which words it has up to there.
LEMMA WordsAgree ==
  ASSUME NEW a \in Seq(Lines), NEW b \in Seq(Lines), NEW f, NEW g, IsWords(f, a), IsWords(g, b),
         NEW m \in Nat, m <= Len(a), m <= Len(b), \A k \in 1..m : LineWords(a[k]) = LineWords(b[k])
  PROVE  f[m] = g[m]
<1> DEFINE T == {i \in Nat : i <= m => f[i] = g[i]}
<1>0. Len(a) \in Nat /\ Len(b) \in Nat
  BY LenProperties 
<1>1. 0 \in T
  BY DEF IsWords
<1>2. ASSUME NEW k \in Nat, k \in T, k + 1 <= m PROVE f[k + 1] = g[k + 1]
  <2>1. k + 1 \in 1..m /\ k + 1 \in 1..Len(a) /\ k + 1 \in 1..Len(b) /\ (k + 1) - 1 = k /\ f[k] = g[k]
    BY <1>0, <1>2
  <2>2. LineWords(a[k + 1]) = LineWords(b[k + 1])
    BY <2>1
  <2>3. f[k + 1] = f[k] \o LineWords(a[k + 1])
    BY <2>1 DEF IsWords
  <2>4. g[k + 1] = g[k] \o LineWords(b[k + 1])
    BY <2>1 DEF IsWords
  <2> QED  BY <2>1, <2>2, <2>3, <2>4
<1>3. \A k \in Nat : k \in T => k + 1 \in T
  BY <1>2
<1> HIDE DEF T
<1>4. m \in T
  BY <1>1, <1>3, Induction
<1> QED  BY <1>4 DEF T

\* A text made of two has the words of the first and then those of the second.
LEMMA WordsOfConcat ==
  ASSUME NEW a \in Seq(Lines), NEW b \in Seq(Lines)
  PROVE  a \o b \in Seq(Lines) /\ Words(a \o b) = Words(a) \o Words(b)
<1> DEFINE c == a \o b
<1>1. /\ c \in Seq(Lines) /\ Len(c) = Len(a) + Len(b)
      /\ Len(a) \in Nat /\ Len(b) \in Nat
      /\ \A k \in 1..Len(a) : c[k] = a[k]
      /\ \A k \in 1..Len(b) : c[Len(a) + k] = b[k]
  <2>1. Len(a) \in Nat /\ Len(b) \in Nat
    BY LenProperties 
  <2>2. c \in Seq(Lines) /\ Len(c) = Len(a) + Len(b)
    BY ConcatProperties 
  <2>3. \A k \in 1..(Len(a) + Len(b)) : c[k] = IF k <= Len(a) THEN a[k] ELSE b[k - Len(a)]
    BY ConcatProperties 
  <2>4. \A k \in 1..Len(a) : k \in 1..(Len(a) + Len(b)) /\ k <= Len(a)
    BY <2>1
  <2>5. \A k \in 1..Len(b) : Len(a) + k \in 1..(Len(a) + Len(b)) /\ ~(Len(a) + k <= Len(a)) /\ (Len(a) + k) - Len(a) = k
    BY <2>1
  <2> HIDE DEF c
  <2> QED  BY <2>1, <2>2, <2>3, <2>4, <2>5
<1> HIDE DEF c
<1>2. PICK f : IsWords(f, a)
  BY WordsUnfold
<1>3. PICK g : IsWords(g, b)
  BY WordsUnfold
<1>4. PICK h : IsWords(h, c)
  BY <1>1, WordsUnfold
<1>5. h[Len(a)] = Words(a)
  <2>1. h[Len(a)] = f[Len(a)]
    <3>1. Len(a) <= Len(a) /\ Len(a) <= Len(c) /\ \A k \in 1..Len(a) : LineWords(a[k]) = LineWords(c[k])
      BY <1>1
    <3>2. f[Len(a)] = h[Len(a)]
      <4>1. c \in Seq(Lines) /\ Len(a) \in Nat
        BY <1>1
      <4>2. \A k \in 1..Len(a) : LineWords(a[k]) = LineWords(c[k])
        BY <3>1
      <4>3. Len(a) <= Len(a) /\ Len(a) <= Len(c)
        BY <3>1
      <4> QED  BY ONLY <1>2, <1>4, <4>1, <4>2, <4>3, a \in Seq(Lines), WordsAgree
    <3> QED  BY <3>2
  <2> QED  BY <1>2, <2>1 DEF IsWords
<1>6. Words(a) \in WordSeqs /\ \A k \in 0..Len(b) : g[k] \in WordSeqs
  BY <1>3, WordsType DEF IsWords
<1> DEFINE T == {i \in Nat : i <= Len(b) => h[Len(a) + i] = Words(a) \o g[i]}
<1>7. 0 \in T
  <2>1. g[0] = <<>> /\ Len(a) + 0 = Len(a)
    BY <1>1, <1>3 DEF IsWords
  <2>2. Words(a) \o <<>> = Words(a)
    BY <1>6, ConcatEmptySeq DEF WordSeqs
  <2> QED  BY <1>5, <2>1, <2>2
<1>8. ASSUME NEW k \in Nat, k \in T, k + 1 <= Len(b) PROVE h[Len(a) + (k + 1)] = Words(a) \o g[k + 1]
  <2>1. /\ k + 1 \in 1..Len(b) /\ (k + 1) - 1 = k /\ k \in 0..Len(b)
        /\ Len(a) + (k + 1) \in 1..Len(c) /\ (Len(a) + (k + 1)) - 1 = Len(a) + k
    BY <1>1, <1>8
  <2>0. h[Len(a) + k] = Words(a) \o g[k]
    <3>1. k <= Len(b)
      BY <2>1
    <3> QED  BY ONLY <1>8, <3>1
  <2>2. c[Len(a) + (k + 1)] = b[k + 1]
    BY <1>1, <2>1
  <2>3. g[k + 1] = g[k] \o LineWords(b[k + 1])
    BY <1>3, <2>1 DEF IsWords
  <2>4. h[Len(a) + (k + 1)] = h[Len(a) + k] \o LineWords(b[k + 1])
    BY <1>4, <2>1, <2>2 DEF IsWords
  <2>5. LineWords(b[k + 1]) \in Seq(Vocabulary)
    <3>1. b[k + 1] \in Lines
      BY <2>1
    <3> QED  BY <3>1, LineWordsType DEF WordSeqs
  <2>6. Words(a) \in Seq(Vocabulary) /\ g[k] \in Seq(Vocabulary)
    BY <1>6, <2>1 DEF WordSeqs
  <2>7. (Words(a) \o g[k]) \o LineWords(b[k + 1]) = Words(a) \o (g[k] \o LineWords(b[k + 1]))
    <3> DEFINE x == Words(a)
               y == g[k]
               z == LineWords(b[k + 1])
    <3>1. x \in Seq(Vocabulary) /\ y \in Seq(Vocabulary) /\ z \in Seq(Vocabulary)
      BY <2>5, <2>6
    <3> HIDE DEF x, y, z
    <3>2. (x \o y) \o z = x \o (y \o z)
      BY ONLY <3>1, ConcatAssociative
    <3> QED  BY <3>2 DEF x, y, z
  <2> QED  BY <2>0, <2>1, <2>3, <2>4, <2>7
<1>9. ASSUME NEW k \in Nat, k \in T PROVE k + 1 \in T
  <2>1. k + 1 <= Len(b) => h[Len(a) + (k + 1)] = Words(a) \o g[k + 1]
    BY <1>8, <1>9
  <2> QED  BY ONLY <2>1
<1> HIDE DEF T
<1>10. Len(b) \in T
  BY <1>1, <1>7, <1>9, Induction
<1>11. Words(c) = h[Len(a) + Len(b)] /\ Words(b) = g[Len(b)]
  BY <1>1, <1>3, <1>4 DEF IsWords
<1>12. Words(c) = Words(a) \o Words(b)
  BY <1>1, <1>10, <1>11 DEF T
<1> QED  BY <1>1, <1>12 DEF c

\* Texts whose lines have the same words, one by one, have the same words.
LEMMA SameWords ==
  ASSUME NEW a \in Seq(Lines), NEW b \in Seq(Lines), Len(a) = Len(b),
         \A k \in 1..Len(a) : LineWords(a[k]) = LineWords(b[k])
  PROVE  Words(a) = Words(b)
<1>1. PICK f : IsWords(f, a)
  BY WordsUnfold
<1>2. PICK g : IsWords(g, b)
  BY WordsUnfold
<1>3. Len(a) \in Nat
  BY LenProperties
<1>4. f[Len(a)] = g[Len(a)]
  <2>1. Len(a) <= Len(a) /\ Len(a) <= Len(b)
    BY <1>3
  <2> QED  BY ONLY <1>1, <1>2, <1>3, <2>1, a \in Seq(Lines), b \in Seq(Lines), WordsAgree,
                   \A k \in 1..Len(a) : LineWords(a[k]) = LineWords(b[k])
<1> QED  BY <1>1, <1>2, <1>4 DEF IsWords

\* Nothing has no words.
LEMMA NoWords ==
  LineWords(<<>>) = <<>> /\ Words(<<>>) = <<>> /\ <<>> \in Lines /\ <<>> \in Seq(Lines)
<1>1. <<>> \in Lines /\ <<>> \in Seq(Lines) /\ Len(<<>>) = 0
  BY EmptySeq DEF Lines
<1>2. PICK f : IsLineWords(f, <<>>)
  BY <1>1, LineWordsUnfold
<1>3. PICK g : IsWords(g, <<>>)
  BY <1>1, WordsUnfold
<1> QED  BY <1>1, <1>2, <1>3 DEF IsLineWords, IsWords

\* A line of gaps has no words.
LEMMA GapsOnly ==
  ASSUME NEW line \in Lines, Filled(line) = {}
  PROVE  LineWords(line) = <<>>
<1>1. PICK f : IsLineWords(f, line)
  BY LineWordsUnfold
<1>2. Len(line) \in Nat
  BY LenProperties DEF Lines
<1> DEFINE T == {i \in Nat : i <= Len(line) => f[i] = <<>>}
<1>3. 0 \in T
  BY <1>1 DEF IsLineWords
<1>4. ASSUME NEW k \in Nat, k \in T PROVE k + 1 \in T
  <2>1. SUFFICES ASSUME k + 1 <= Len(line) PROVE f[k + 1] = <<>>
    OBVIOUS
  <2>2. k + 1 \in 1..Len(line) /\ (k + 1) - 1 = k /\ f[k] = <<>>
    BY <1>2, <1>4, <2>1
  <2>3. line[k + 1] = Gap
    BY <2>2 DEF Filled
  <2> QED  BY <1>1, <2>2, <2>3 DEF IsLineWords
<1> HIDE DEF T
<1>5. Len(line) \in T
  BY <1>2, <1>3, <1>4, Induction
<1> QED  BY <1>1, <1>2, <1>5 DEF T, IsLineWords

\* A text of lines without words has no words.
LEMMA Wordless ==
  ASSUME NEW text \in Seq(Lines), \A k \in 1..Len(text) : LineWords(text[k]) = <<>>
  PROVE  Words(text) = <<>>
<1>1. PICK f : IsWords(f, text)
  BY WordsUnfold
<1>2. Len(text) \in Nat
  BY LenProperties
<1> DEFINE T == {i \in Nat : i <= Len(text) => f[i] = <<>>}
<1>3. 0 \in T
  BY <1>1 DEF IsWords
<1>4. ASSUME NEW k \in Nat, k \in T PROVE k + 1 \in T
  <2>1. SUFFICES ASSUME k + 1 <= Len(text) PROVE f[k + 1] = <<>>
    OBVIOUS
  <2>2. k + 1 \in 1..Len(text) /\ (k + 1) - 1 = k /\ f[k] = <<>>
    BY <1>2, <1>4, <2>1
  <2>3. f[k + 1] = <<>> \o <<>>
    BY <1>1, <2>2 DEF IsWords
  <2>4. <<>> \o <<>> = <<>>
    BY EmptySeq, ConcatEmptySeq
  <2> QED  BY <2>3, <2>4
<1> HIDE DEF T
<1>5. Len(text) \in T
  BY <1>2, <1>3, <1>4, Induction
<1> QED  BY <1>1, <1>2, <1>5 DEF T, IsWords

\* A text of one line has its words.
LEMMA WordsOfLine ==
  ASSUME NEW line \in Lines
  PROVE  <<line>> \in Seq(Lines) /\ Words(<<line>>) = LineWords(line)
<1>1. <<line>> \in Seq(Lines) /\ Len(<<line>>) = 1 /\ <<line>>[1] = line
  OBVIOUS
<1>2. PICK f : IsWords(f, <<line>>)
  BY <1>1, WordsUnfold
<1>3. f[1] = <<>> \o LineWords(line)
  <2>1. 1 \in 1..Len(<<line>>) /\ 1 - 1 = 0
    BY <1>1
  <2>2. f[1] = f[1 - 1] \o LineWords(<<line>>[1]) /\ f[0] = <<>>
    BY ONLY <1>2, <2>1 DEF IsWords
  <2> QED  BY <1>1, <2>1, <2>2
<1>4. <<>> \o LineWords(line) = LineWords(line)
  BY LineWordsType, ConcatEmptySeq DEF WordSeqs
<1> QED  BY <1>1, <1>2, <1>3, <1>4 DEF IsWords

\* The parts of three texts one behind the other.
LEMMA ThreeParts ==
  ASSUME NEW S, NEW a \in Seq(S), NEW x \in Seq(S), NEW r \in Seq(S), NEW c, c = a \o x \o r
  PROVE  /\ c \in Seq(S) /\ Len(c) = Len(a) + Len(x) + Len(r)
         /\ SubSeq(c, 1, Len(a)) = a
         /\ SubSeq(c, Len(a) + 1, Len(a) + Len(x)) = x
         /\ SubSeq(c, Len(a) + Len(x) + 1, Len(c)) = r
<1> DEFINE y == a \o x
<1>1. /\ Len(a) \in Nat /\ Len(x) \in Nat /\ Len(r) \in Nat
  BY LenProperties
<1>2. /\ y \in Seq(S) /\ Len(y) = Len(a) + Len(x)
      /\ \A k \in 1..(Len(a) + Len(x)) : y[k] = IF k <= Len(a) THEN a[k] ELSE x[k - Len(a)]
  BY ConcatProperties
<1>3. c = y \o r
  OBVIOUS
<1> HIDE DEF y
<1>4. /\ c \in Seq(S) /\ Len(c) = Len(y) + Len(r)
      /\ \A k \in 1..(Len(y) + Len(r)) : c[k] = IF k <= Len(y) THEN y[k] ELSE r[k - Len(y)]
  <2>1. /\ y \o r \in Seq(S) /\ Len(y \o r) = Len(y) + Len(r)
        /\ \A k \in 1..(Len(y) + Len(r)) : (y \o r)[k] = IF k <= Len(y) THEN y[k] ELSE r[k - Len(y)]
    <3>1. y \in Seq(S) /\ r \in Seq(S)
      BY <1>2
    <3> QED  BY ONLY <3>1, ConcatProperties
  <2> QED  BY <1>3, <2>1
<1>5. /\ Len(c) = Len(a) + Len(x) + Len(r)
      /\ \A k \in 1..Len(a) : c[k] = a[k]
      /\ \A k \in 1..Len(x) : c[Len(a) + k] = x[k]
      /\ \A k \in 1..Len(r) : c[Len(a) + Len(x) + k] = r[k]
      /\ \A k \in 1..Len(c) : c[k] \in S
  <2>1. Len(c) = Len(a) + Len(x) + Len(r) /\ \A k \in 1..Len(c) : c[k] \in S
    BY <1>1, <1>2, <1>4, LenProperties
  <2>2. ASSUME NEW k \in 1..Len(a) PROVE c[k] = a[k]
    <3>1. k \in 1..(Len(y) + Len(r)) /\ k <= Len(y) /\ k \in 1..(Len(a) + Len(x)) /\ k <= Len(a)
      BY <1>1, <1>2
    <3> QED  BY <1>2, <1>4, <3>1
  <2>3. ASSUME NEW k \in 1..Len(x) PROVE c[Len(a) + k] = x[k]
    <3>1. /\ Len(a) + k \in 1..(Len(y) + Len(r)) /\ Len(a) + k <= Len(y)
          /\ Len(a) + k \in 1..(Len(a) + Len(x)) /\ ~(Len(a) + k <= Len(a))
          /\ (Len(a) + k) - Len(a) = k
      BY <1>1, <1>2
    <3> QED  BY <1>2, <1>4, <3>1
  <2>4. ASSUME NEW k \in 1..Len(r) PROVE c[Len(a) + Len(x) + k] = r[k]
    <3>1. /\ Len(a) + Len(x) + k \in 1..(Len(y) + Len(r)) /\ ~(Len(a) + Len(x) + k <= Len(y))
          /\ (Len(a) + Len(x) + k) - Len(y) = k
      BY <1>1, <1>2
    <3> QED  BY <1>4, <3>1
  <2> QED  BY <2>1, <2>2, <2>3, <2>4
<1>6. SubSeq(c, 1, Len(a)) = a
  <2>1. \A k \in 1..Len(a) : c[k] \in S
    BY <1>1, <1>5
  <2>2. /\ SubSeq(c, 1, Len(a)) \in Seq(S) /\ Len(SubSeq(c, 1, Len(a))) = Len(a)
        /\ \A k \in 1..Len(a) : SubSeq(c, 1, Len(a))[k] = c[k]
    BY <1>1, <2>1, SubSeqProperties
  <2> QED  BY <1>5, <2>2, SeqEqual
<1>7. SubSeq(c, Len(a) + 1, Len(a) + Len(x)) = x
  <2> DEFINE z == SubSeq(c, Len(a) + 1, Len(a) + Len(x))
  <2>1. \A k \in (Len(a) + 1)..(Len(a) + Len(x)) : c[k] \in S
    BY <1>1, <1>5
  <2>2. /\ z \in Seq(S)
        /\ Len(z) = IF Len(a) + 1 <= Len(a) + Len(x) THEN (Len(a) + Len(x)) - (Len(a) + 1) + 1 ELSE 0
        /\ \A k \in 1..((Len(a) + Len(x)) - (Len(a) + 1) + 1) : z[k] = c[Len(a) + 1 + k - 1]
    BY <1>1, <2>1, SubSeqProperties
  <2> HIDE DEF z
  <2>3. Len(z) = Len(x)
    BY <1>1, <2>2
  <2>5. ASSUME NEW k \in 1..Len(x) PROVE z[k] = x[k]
    <3>1. k \in 1..((Len(a) + Len(x)) - (Len(a) + 1) + 1) /\ Len(a) + 1 + k - 1 = Len(a) + k
      BY <1>1
    <3> QED  BY <1>5, <2>2, <3>1
  <2>4. z = x
    BY <2>2, <2>3, <2>5, SeqEqual
  <2> QED  BY <2>4 DEF z
<1>8. SubSeq(c, Len(a) + Len(x) + 1, Len(c)) = r
  <2> DEFINE z == SubSeq(c, Len(a) + Len(x) + 1, Len(c))
  <2>1. \A k \in (Len(a) + Len(x) + 1)..Len(c) : c[k] \in S
    BY <1>1, <1>5
  <2>2. /\ z \in Seq(S)
        /\ Len(z) = IF Len(a) + Len(x) + 1 <= Len(c) THEN Len(c) - (Len(a) + Len(x) + 1) + 1 ELSE 0
        /\ \A k \in 1..(Len(c) - (Len(a) + Len(x) + 1) + 1) : z[k] = c[Len(a) + Len(x) + 1 + k - 1]
    <3>1. Len(a) + Len(x) + 1 \in Int /\ Len(c) \in Int
      BY <1>1, <1>5
    <3> QED  BY <2>1, <3>1, SubSeqProperties
  <2> HIDE DEF z
  <2>3. Len(z) = Len(r)
    BY <1>1, <1>5, <2>2
  <2>5. ASSUME NEW k \in 1..Len(r) PROVE z[k] = r[k]
    <3>1. /\ k \in 1..(Len(c) - (Len(a) + Len(x) + 1) + 1)
          /\ Len(a) + Len(x) + 1 + k - 1 = Len(a) + Len(x) + k
      BY <1>1, <1>5
    <3> QED  BY <1>5, <2>2, <3>1
  <2>4. z = r
    BY <2>2, <2>3, <2>5, SeqEqual
  <2> QED  BY <2>4 DEF z
<1> QED  BY <1>4, <1>5, <1>6, <1>7, <1>8

\* A piece of a sequence.
LEMMA Piece ==
  ASSUME NEW S, NEW s \in Seq(S), NEW m \in Nat, NEW n \in Nat, 1 <= m, n <= Len(s)
  PROVE  /\ SubSeq(s, m, n) \in Seq(S)
         /\ Len(SubSeq(s, m, n)) = IF m <= n THEN n - m + 1 ELSE 0
         /\ \A k \in 1..(n - m + 1) : SubSeq(s, m, n)[k] = s[m + k - 1]
<1>1. \A k \in m..n : s[k] \in S
  BY LenProperties
<1> QED  BY <1>1, SubSeqProperties

\* A text has the words of its first part and then those of its second part.
LEMMA WordsOfParts ==
  ASSUME NEW text \in Seq(Lines), NEW m \in 0..Len(text)
  PROVE  /\ SubSeq(text, 1, m) \in Seq(Lines) /\ SubSeq(text, m + 1, Len(text)) \in Seq(Lines)
         /\ Len(SubSeq(text, 1, m)) = m /\ Len(SubSeq(text, m + 1, Len(text))) = Len(text) - m
         /\ \A k \in 1..m : SubSeq(text, 1, m)[k] = text[k]
         /\ \A k \in 1..(Len(text) - m) : SubSeq(text, m + 1, Len(text))[k] = text[m + k]
         /\ text = SubSeq(text, 1, m) \o SubSeq(text, m + 1, Len(text))
         /\ Words(text) = Words(SubSeq(text, 1, m)) \o Words(SubSeq(text, m + 1, Len(text)))
<1>1. Len(text) \in Nat /\ m \in Nat /\ m <= Len(text)
  BY LenProperties
<1>2. SubSeq(text, 1, m) \in Seq(Lines) /\ Len(SubSeq(text, 1, m)) = m /\ \A k \in 1..m : SubSeq(text, 1, m)[k] = text[k]
  BY <1>1, Piece
<1>3. SubSeq(text, m + 1, Len(text)) \in Seq(Lines) /\ Len(SubSeq(text, m + 1, Len(text))) = Len(text) - m
  BY <1>1, Piece
<1>4. \A k \in 1..(Len(text) - m) : SubSeq(text, m + 1, Len(text))[k] = text[m + k]
  <2>1. \A k \in 1..(Len(text) - (m + 1) + 1) : SubSeq(text, m + 1, Len(text))[k] = text[m + 1 + k - 1]
    BY <1>1, Piece
  <2>2. Len(text) - (m + 1) + 1 = Len(text) - m
    BY <1>1
  <2>3. \A k \in 1..(Len(text) - m) : m + 1 + k - 1 = m + k
    BY <1>1
  <2> QED  BY <2>1, <2>2, <2>3
<1>5. text = SubSeq(text, 1, m) \o SubSeq(text, m + 1, Len(text))
  <2>1. SubSeq(text, 1, m) \o SubSeq(text, m + 1, Len(text)) = SubSeq(text, 1, Len(text))
    <3>1. 1 \in 1..(Len(text) + 1) /\ m \in (1 - 1)..Len(text) /\ Len(text) \in m..Len(text)
      BY <1>1
    <3> QED  BY <3>1, ConcatAdjacentSubSeq
  <2> QED  BY <2>1, SubSeqFull
<1>6. Words(text) = Words(SubSeq(text, 1, m)) \o Words(SubSeq(text, m + 1, Len(text)))
  BY <1>2, <1>3, <1>5, WordsOfConcat
<1> QED  BY <1>2, <1>3, <1>4, <1>5, <1>6

\* What stands around a text adds its words.
LEMMA WordsOfWrapped ==
  ASSUME NEW before \in Lines, NEW text \in Texts, NEW behind \in Lines
  PROVE  /\ Wrapped(before, text, behind) \in Texts
         /\ Len(Wrapped(before, text, behind)) = Len(text)
         /\ \E first, last \in Lines :
              /\ Wrapped(before, text, behind)[1] = before \o first
              /\ Wrapped(before, text, behind)[Len(text)] = last \o behind
         /\ Words(Wrapped(before, text, behind)) = LineWords(before) \o Words(text) \o LineWords(behind)
<1> DEFINE n == Len(text)
           w == Wrapped(before, text, behind)
           At(k) == (IF k = 1 THEN before ELSE <<>>) \o text[k] \o (IF k = n THEN behind ELSE <<>>)
<1>1. /\ text \in Seq(Lines) /\ n \in Nat /\ n >= 1
      /\ \A k \in 1..n : text[k] \in Lines
  <2>1. text \in Seq(Lines) /\ text # <<>>
    BY DEF Texts
  <2>2. n \in Nat /\ n # 0 /\ \A k \in 1..n : text[k] \in Lines
    BY <2>1, LenProperties, EmptySeq
  <2> QED  BY <2>1, <2>2
<1>2. w = [k \in 1..n |-> At(k)]
  BY DEF Wrapped
<1>3. ASSUME NEW x \in Lines, NEW y \in Lines, NEW z \in Lines
      PROVE /\ x \o y \o z \in Lines
            /\ LineWords(x \o y \o z) = LineWords(x) \o LineWords(y) \o LineWords(z)
  <2>1. x \o y \in Lines /\ LineWords(x \o y) = LineWords(x) \o LineWords(y)
    BY LineWordsOfConcat
  <2> QED  BY <2>1, LineWordsOfConcat
<1>4. ASSUME NEW k \in 1..n
      PROVE /\ At(k) \in Lines
            /\ LineWords(At(k)) = (IF k = 1 THEN LineWords(before) ELSE <<>>) \o LineWords(text[k])
                                     \o (IF k = n THEN LineWords(behind) ELSE <<>>)
  <2> DEFINE x == IF k = 1 THEN before ELSE <<>>
             y == text[k]
             z == IF k = n THEN behind ELSE <<>>
  <2>1. x \in Lines /\ y \in Lines /\ z \in Lines
    BY <1>1, NoWords
  <2>2. /\ LineWords(x) = IF k = 1 THEN LineWords(before) ELSE <<>>
        /\ LineWords(z) = IF k = n THEN LineWords(behind) ELSE <<>>
    BY NoWords
  <2>3. At(k) = x \o y \o z
    OBVIOUS
  <2> HIDE DEF x, y, z, At
  <2>4. x \o y \o z \in Lines /\ LineWords(x \o y \o z) = LineWords(x) \o LineWords(y) \o LineWords(z)
    BY <1>3, <2>1
  <2> QED  BY <2>2, <2>3, <2>4 DEF y
<1> HIDE DEF At
<1>5. w \in Seq(Lines) /\ Len(w) = n /\ \A k \in 1..n : w[k] = At(k)
  <2>1. w \in [1..n -> Lines]
    <3> HIDE DEF w, n
    <3> QED  BY <1>2, <1>4
  <2> QED  BY <1>1, <1>2, <2>1
<1>6. w \in Texts
  <2>1. w # <<>>
    BY <1>1, <1>5, EmptySeq
  <2> QED  BY <1>5, <2>1 DEF Texts
<1>7. PICK f : IsWords(f, text)
  BY <1>1, WordsUnfold
<1>8. PICK g : IsWords(g, w)
  BY <1>5, WordsUnfold
<1> DEFINE B == LineWords(before)
           E == LineWords(behind)
<1>9. B \in Seq(Vocabulary) /\ E \in Seq(Vocabulary) /\ \A k \in 0..n : f[k] \in Seq(Vocabulary)
  BY <1>7, LineWordsType DEF IsWords, WordSeqs
<1>10. \A k \in 1..n : LineWords(text[k]) \in Seq(Vocabulary)
  BY <1>1, LineWordsType DEF WordSeqs
<1>11. ASSUME NEW k \in 1..n
       PROVE /\ f[k] = f[k - 1] \o LineWords(text[k])
             /\ g[k] = g[k - 1] \o ((IF k = 1 THEN B ELSE <<>>) \o LineWords(text[k]) \o (IF k = n THEN E ELSE <<>>))
  <2>1. k \in 1..Len(w) /\ k \in 1..Len(text)
    BY <1>5
  <2>2. f[k] = f[k - 1] \o LineWords(text[k]) /\ g[k] = g[k - 1] \o LineWords(w[k])
    BY <1>7, <1>8, <2>1 DEF IsWords
  <2>3. w[k] = At(k)
    BY <1>5
  <2> QED  BY <1>4, <2>2, <2>3
<1>12. f[0] = <<>> /\ g[0] = <<>> /\ Words(text) = f[n] /\ Words(w) = g[n]
  BY <1>5, <1>7, <1>8 DEF IsWords
<1> HIDE DEF n, w, B, E
\* Up to the last line there is only what stands before.
<1> DEFINE T == {i \in Nat : 1 <= i /\ i < n => g[i] = B \o f[i]}
<1>13. \A b, x, y : b \in Seq(Vocabulary) /\ x \in Seq(Vocabulary) /\ y \in Seq(Vocabulary) =>
          /\ (b \o x) \o y = b \o (x \o y)
          /\ <<>> \o b = b /\ b \o <<>> = b
  BY ConcatAssociative, ConcatEmptySeq
<1>14. 0 \in T
  OBVIOUS
<1>15. ASSUME NEW i \in Nat, i \in T PROVE i + 1 \in T
  <2>1. SUFFICES ASSUME i + 1 < n PROVE g[i + 1] = B \o f[i + 1]
    OBVIOUS
  <2>2. i + 1 \in 1..n /\ (i + 1) - 1 = i /\ i + 1 # n /\ i \in 0..n
    BY <1>1, <2>1
  <2> DEFINE L == LineWords(text[i + 1])
  <2>3. L \in Seq(Vocabulary) /\ f[i] \in Seq(Vocabulary)
    BY <1>9, <1>10, <2>2
  <2>4. f[i + 1] = f[i] \o L /\ g[i + 1] = g[i] \o ((IF i + 1 = 1 THEN B ELSE <<>>) \o L \o <<>>)
    BY <1>11, <2>2
  <2> HIDE DEF L
  <2>5. CASE i = 0
    <3>1. g[i + 1] = <<>> \o (B \o L \o <<>>) /\ f[i + 1] = <<>> \o L
      <4>1. g[i] = <<>> /\ f[i] = <<>>
        BY <1>12, <2>5
      <4>2. i + 1 = 1
        BY <2>5
      <4> QED  BY ONLY <2>4, <4>1, <4>2
    <3>2. B \o L \in Seq(Vocabulary)
      BY <1>9, <2>3, ConcatProperties
    <3>3. B \o L \o <<>> = B \o L /\ <<>> \o (B \o L) = B \o L /\ <<>> \o L = L
      BY <1>13, <2>3, <3>2
    <3> QED  BY <3>1, <3>3
  <2>6. CASE i # 0
    <3>1. g[i] = B \o f[i]
      <4>1. 1 <= i /\ i < n
        BY <2>1, <2>6, <1>1
      <4> QED  BY <1>15, <4>1
    <3>2. g[i + 1] = (B \o f[i]) \o (<<>> \o L \o <<>>)
      <4>1. i + 1 # 1
        BY <2>6
      <4> QED  BY <2>4, <3>1, <4>1
    <3>3. <<>> \o L \o <<>> = L
      BY <1>13, <2>3
    <3> DEFINE F == f[i]
    <3>4. B \in Seq(Vocabulary) /\ F \in Seq(Vocabulary) /\ L \in Seq(Vocabulary)
      BY <1>9, <2>3
    <3> HIDE DEF F
    <3>5. (B \o F) \o L = B \o (F \o L)
      BY ONLY <1>13, <3>4
    <3> QED  BY <2>4, <3>2, <3>3, <3>5 DEF F
  <2> QED  BY <2>5, <2>6
<1> HIDE DEF T
<1>16. \A i \in Nat : i \in T
  BY <1>14, <1>15, Induction
<1> DEFINE L == LineWords(text[n])
<1>17. n \in 1..n /\ n - 1 \in 0..n /\ n - 1 \in Nat
  BY <1>1
<1>18. L \in Seq(Vocabulary) /\ f[n - 1] \in Seq(Vocabulary) /\ f[n] = f[n - 1] \o L
  BY <1>9, <1>10, <1>11, <1>17
<1>19. g[n] = g[n - 1] \o ((IF n = 1 THEN B ELSE <<>>) \o L \o E)
  BY <1>11, <1>17
<1> HIDE DEF L
<1>20. Words(w) = B \o Words(text) \o E
  <2>1. CASE n = 1
    <3>1. f[n - 1] = <<>> /\ g[n - 1] = <<>>
      BY <1>12, <2>1
    <3>2. B \o L \o E \in Seq(Vocabulary)
      <4>1. B \o L \in Seq(Vocabulary)
        BY <1>9, <1>18, ConcatProperties
      <4> QED  BY <1>9, <4>1, ConcatProperties
    <3>3. g[n] = B \o L \o E /\ f[n] = L
      BY <1>13, <1>18, <1>19, <2>1, <3>1, <3>2
    <3> QED  BY <1>12, <3>3
  <2>2. CASE n # 1
    <3>1. g[n - 1] = B \o f[n - 1]
      <4>1. 1 <= n - 1 /\ n - 1 < n
        BY <1>1, <2>2
      <4>2. n - 1 \in T
        BY <1>16, <1>17
      <4> QED  BY <4>1, <4>2 DEF T
    <3>2. g[n] = (B \o f[n - 1]) \o (<<>> \o L \o E)
      BY <1>19, <2>2, <3>1
    <3>3. <<>> \o L = L
      BY <1>13, <1>18
    <3> DEFINE F == f[n - 1]
    <3>4. F \in Seq(Vocabulary) /\ B \o F \in Seq(Vocabulary)
      BY <1>9, <1>18, ConcatProperties
    <3> HIDE DEF F
    <3> DEFINE BF == B \o F
    <3>7. B \in Seq(Vocabulary) /\ L \in Seq(Vocabulary) /\ E \in Seq(Vocabulary)
          /\ F \in Seq(Vocabulary) /\ BF \in Seq(Vocabulary)
      BY <1>9, <1>18, <3>4
    <3>6. BF \o L = B \o (F \o L)
      BY ONLY <1>13, <3>7
    <3> HIDE DEF BF
    <3>9. BF \in Seq(Vocabulary) /\ L \in Seq(Vocabulary) /\ E \in Seq(Vocabulary)
      BY <3>7
    <3>8. (BF \o L) \o E = BF \o (L \o E)
      BY ONLY <3>9, ConcatAssociative
    <3>5. (B \o F) \o (L \o E) = ((B \o F) \o L) \o E
      BY <3>8 DEF BF
    <3> QED  BY <1>12, <1>18, <3>2, <3>3, <3>5, <3>6 DEF F, BF
  <2> QED  BY <2>1, <2>2
<1>21. \E first, last \in Lines : w[1] = before \o first /\ w[n] = last \o behind
  <2> DEFINE x == IF 1 = n THEN behind ELSE <<>>
             y == IF n = 1 THEN before ELSE <<>>
  <2>1. x \in Lines /\ y \in Lines /\ text[1] \in Lines /\ text[n] \in Lines
    BY <1>1, <1>17, NoWords
  <2>2. 1 \in 1..n
    BY <1>1
  <2>3. w[1] = before \o text[1] \o x
    BY <1>5, <2>2 DEF At
  <2>4. w[n] = y \o text[n] \o behind
    BY <1>5, <1>17 DEF At
  <2> HIDE DEF x, y
  <2>5. before \o text[1] \o x = before \o (text[1] \o x) /\ text[1] \o x \in Lines /\ y \o text[n] \in Lines
    <3> DEFINE p == text[1]
               q == text[n]
               S == Vocabulary \cup {Gap}
    <3>1. before \in Seq(S) /\ behind \in Seq(S) /\ x \in Seq(S) /\ y \in Seq(S) /\ p \in Seq(S) /\ q \in Seq(S)
      BY <2>1 DEF Lines
    <3> HIDE DEF p, q, S
    <3>2. before \o p \o x = before \o (p \o x)
      BY ONLY <3>1, ConcatAssociative
    <3>3. p \o x \in Seq(S) /\ y \o q \in Seq(S)
      BY ONLY <3>1, ConcatProperties
    <3> QED  BY <3>2, <3>3 DEF p, q, S, Lines
  <2> QED  BY <2>3, <2>4, <2>5
<1> QED  BY <1>5, <1>6, <1>20, <1>21 DEF n, w, B, E

\* The lowest of a set of numbers is one of them.
LEMMA LowestIsIn ==
  ASSUME NEW S, S \subseteq Nat, S # {}
  PROVE  Lowest(S) \in S /\ \A j \in S : Lowest(S) <= j
<1>1. \E i \in S : \A j \in S : i <= j
  BY Least
<1> QED  BY <1>1 DEF Lowest

\* And so is the highest, where the numbers are bounded.
LEMMA HighestIsIn ==
  ASSUME NEW n \in Nat, NEW S, S \subseteq 1..n, S # {}
  PROVE  Highest(S) \in S /\ \A j \in S : j <= Highest(S)
<1> DEFINE D == {n - j : j \in S}
<1>1. D \subseteq Nat /\ D # {}
  <2>1. \A j \in S : n - j \in Nat
    <3> SUFFICES ASSUME NEW j \in S PROVE n - j \in Nat
      OBVIOUS
    <3>1. j \in 1..n
      OBVIOUS
    <3> QED  BY <3>1
  <2> QED  BY <2>1
<1>2. PICK d \in D : \A e \in D : d <= e
  BY <1>1, Least
<1>3. PICK i \in S : d = n - i
  BY <1>2
<1>4. ASSUME NEW j \in S PROVE j <= i
  <2>1. d <= n - j
    BY <1>2
  <2>2. i \in 1..n /\ j \in 1..n
    BY <1>3
  <2> QED  BY <1>3, <2>1, <2>2
<1> QED  BY <1>3, <1>4 DEF Highest

\* A line has the words of its two parts.
LEMMA LineParts ==
  ASSUME NEW line \in Lines, NEW m \in 0..Len(line)
  PROVE  /\ SubSeq(line, 1, m) \in Lines /\ SubSeq(line, m + 1, Len(line)) \in Lines
         /\ Len(SubSeq(line, m + 1, Len(line))) = Len(line) - m
         /\ Len(SubSeq(line, 1, m)) = m
         /\ \A k \in 1..m : SubSeq(line, 1, m)[k] = line[k]
         /\ \A k \in 1..(Len(line) - m) : SubSeq(line, m + 1, Len(line))[k] = line[m + k]
         /\ LineWords(line) = LineWords(SubSeq(line, 1, m)) \o LineWords(SubSeq(line, m + 1, Len(line)))
<1> DEFINE S == Vocabulary \cup {Gap}
<1>0. line \in Seq(S) /\ Lines = Seq(S)
  BY DEF Lines
<1> HIDE DEF S
<1>1. Len(line) \in Nat /\ m \in Nat /\ m <= Len(line)
  BY <1>0, LenProperties
<1>2. /\ SubSeq(line, 1, m) \in Seq(S) /\ Len(SubSeq(line, 1, m)) = m
      /\ \A k \in 1..m : SubSeq(line, 1, m)[k] = line[k]
  BY <1>0, <1>1, Piece
<1>3. SubSeq(line, m + 1, Len(line)) \in Seq(S) /\ Len(SubSeq(line, m + 1, Len(line))) = Len(line) - m
  BY <1>0, <1>1, Piece
<1>4. \A k \in 1..(Len(line) - m) : SubSeq(line, m + 1, Len(line))[k] = line[m + k]
  <2>1. \A k \in 1..(Len(line) - (m + 1) + 1) : SubSeq(line, m + 1, Len(line))[k] = line[m + 1 + k - 1]
    BY <1>0, <1>1, Piece
  <2>2. Len(line) - (m + 1) + 1 = Len(line) - m
    BY <1>1
  <2>3. \A k \in 1..(Len(line) - m) : m + 1 + k - 1 = m + k
    BY <1>1
  <2> QED  BY <2>1, <2>2, <2>3
<1>5. line = SubSeq(line, 1, m) \o SubSeq(line, m + 1, Len(line))
  <2>1. SubSeq(line, 1, m) \o SubSeq(line, m + 1, Len(line)) = SubSeq(line, 1, Len(line))
    <3>1. 1 \in 1..(Len(line) + 1) /\ m \in (1 - 1)..Len(line) /\ Len(line) \in m..Len(line)
      BY <1>1
    <3> QED  BY <1>0, <3>1, ConcatAdjacentSubSeq
  <2> QED  BY <1>0, <2>1, SubSeqFull
<1>6. LineWords(line) = LineWords(SubSeq(line, 1, m)) \o LineWords(SubSeq(line, m + 1, Len(line)))
  BY <1>0, <1>2, <1>3, <1>5, LineWordsOfConcat
<1> QED  BY <1>0, <1>2, <1>3, <1>4, <1>6

\* A line has the same words without the space at its end.
LEMMA TrimEndWords ==
  ASSUME NEW line \in Lines
  PROVE  TrimEnd(line) \in Lines /\ LineWords(TrimEnd(line)) = LineWords(line)
<1>1. CASE Filled(line) = {}
  BY <1>1, GapsOnly, NoWords DEF TrimEnd
<1>2. CASE Filled(line) # {}
  <2> DEFINE h == Highest(Filled(line))
             r == SubSeq(line, h + 1, Len(line))
  <2>1. Len(line) \in Nat /\ Filled(line) \subseteq 1..Len(line)
    BY LenProperties DEF Lines, Filled
  <2>2. h \in Filled(line) /\ \A j \in Filled(line) : j <= h
    BY <1>2, <2>1, HighestIsIn
  <2> HIDE DEF h
  <2>3. h \in 0..Len(line) /\ h \in Nat
    BY <2>1, <2>2
  <2>4. /\ SubSeq(line, 1, h) \in Lines /\ r \in Lines /\ Len(r) = Len(line) - h
        /\ \A k \in 1..(Len(line) - h) : r[k] = line[h + k]
        /\ LineWords(line) = LineWords(SubSeq(line, 1, h)) \o LineWords(r)
    BY <2>3, LineParts
  <2>5. Filled(r) = {}
    <3> SUFFICES ASSUME NEW k \in 1..Len(r), r[k] # Gap PROVE FALSE
      BY DEF Filled
    <3> HIDE DEF r
    <3>1. k \in 1..(Len(line) - h) /\ line[h + k] # Gap
      BY <2>4
    <3>2. h + k \in 1..Len(line)
      BY <2>1, <2>3, <3>1
    <3>3. h + k \in Filled(line)
      BY <3>1, <3>2 DEF Filled
    <3> QED  BY <2>2, <2>3, <3>1, <3>3
  <2>6. LineWords(r) = <<>>
    BY <2>4, <2>5, GapsOnly
  <2>7. LineWords(line) = LineWords(SubSeq(line, 1, h))
    <3>1. LineWords(SubSeq(line, 1, h)) \in Seq(Vocabulary)
      BY <2>4, LineWordsType DEF WordSeqs
    <3> QED  BY <2>4, <2>6, <3>1, ConcatEmptySeq
  <2> QED  BY <1>2, <2>4, <2>7 DEF TrimEnd, h
<1> QED  BY <1>1, <1>2

\* And without the space at its start.
LEMMA TrimStartWords ==
  ASSUME NEW line \in Lines
  PROVE  TrimStart(line) \in Lines /\ LineWords(TrimStart(line)) = LineWords(line)
<1>1. CASE Filled(line) = {}
  BY <1>1, GapsOnly, NoWords DEF TrimStart
<1>2. CASE Filled(line) # {}
  <2> DEFINE l == Lowest(Filled(line))
             h == l - 1
             r == SubSeq(line, 1, h)
  <2>1. Len(line) \in Nat /\ Filled(line) \subseteq 1..Len(line) /\ Filled(line) \subseteq Nat
    BY LenProperties DEF Lines, Filled
  <2>2. l \in Filled(line) /\ \A j \in Filled(line) : l <= j
    BY <1>2, <2>1, LowestIsIn
  <2> HIDE DEF l
  <2>3. h \in 0..Len(line) /\ h \in Nat /\ h + 1 = l /\ l \in Nat
    BY <2>1, <2>2
  <2> HIDE DEF h
  <2>4. /\ r \in Lines /\ SubSeq(line, h + 1, Len(line)) \in Lines /\ Len(r) = h
        /\ \A k \in 1..h : r[k] = line[k]
        /\ LineWords(line) = LineWords(r) \o LineWords(SubSeq(line, h + 1, Len(line)))
    BY <2>3, LineParts
  <2>5. Filled(r) = {}
    <3> SUFFICES ASSUME NEW k \in 1..Len(r), r[k] # Gap PROVE FALSE
      BY DEF Filled
    <3> HIDE DEF r
    <3>1. k \in 1..h /\ line[k] # Gap
      BY <2>4
    <3>2. k \in 1..Len(line)
      BY <2>1, <2>3, <3>1
    <3>3. k \in Filled(line)
      BY <3>1, <3>2 DEF Filled
    <3> QED  BY <2>2, <2>3, <3>1, <3>3
  <2>6. LineWords(r) = <<>>
    BY <2>4, <2>5, GapsOnly
  <2>7. LineWords(line) = LineWords(SubSeq(line, l, Len(line)))
    <3>1. LineWords(SubSeq(line, l, Len(line))) \in Seq(Vocabulary)
      BY <2>3, <2>4, LineWordsType DEF WordSeqs
    <3> QED  BY <2>3, <2>4, <2>6, <3>1, ConcatEmptySeq
  <2> QED  BY <1>2, <2>3, <2>4, <2>7 DEF TrimStart, l
<1> QED  BY <1>1, <1>2

\* So has a text whose lines are trimmed at their ends.
LEMMA NormalWords ==
  ASSUME NEW text \in Texts
  PROVE  /\ Normal(text) \in Texts /\ Len(Normal(text)) = Len(text)
         /\ \A k \in 1..Len(text) : LineWords(Normal(text)[k]) = LineWords(text[k])
<1>1. text \in Seq(Lines) /\ Len(text) \in Nat /\ text # <<>> /\ \A k \in 1..Len(text) : text[k] \in Lines
  BY LenProperties DEF Texts
<1>2. Len(text) # 0
  BY <1>1, EmptySeq
<1>3. \A k \in 1..Len(text) : TrimEnd(text[k]) \in Lines /\ LineWords(TrimEnd(text[k])) = LineWords(text[k])
  BY <1>1, TrimEndWords
<1>4. /\ Normal(text) \in [1..Len(text) -> Lines]
      /\ \A k \in 1..Len(text) : Normal(text)[k] = TrimEnd(text[k])
  BY <1>3 DEF Normal
<1>5. Normal(text) \in Seq(Lines) /\ Len(Normal(text)) = Len(text)
  BY <1>1, <1>4
<1>6. Normal(text) # <<>>
  BY <1>2, <1>5, EmptySeq
<1> QED  BY <1>3, <1>4, <1>5, <1>6 DEF Texts

\* Words overlap with themselves.
LEMMA SameOverlap ==
  ASSUME NEW w \in WordSeqs
  PROVE  Overlap(w, w) = 10
<1> DEFINE n == Len(w)
           Counted == {i \in 1..Len(w) :
             Cardinality({k \in 1..Len(SubSeq(w, 1, i)) : SubSeq(w, 1, i)[k] = w[i]})
               <= Cardinality({k \in 1..Len(w) : w[k] = w[i]})}
<1>1. w \in Seq(Vocabulary) /\ n \in Nat
  BY LenProperties DEF WordSeqs
<1>2. ASSUME NEW i \in 1..n PROVE i \in Counted
  <2> DEFINE A == {k \in 1..Len(SubSeq(w, 1, i)) : SubSeq(w, 1, i)[k] = w[i]}
             B == {k \in 1..n : w[k] = w[i]}
  <2>1. i \in Nat /\ i <= n
    BY <1>1
  <2>2. Len(SubSeq(w, 1, i)) = i /\ \A k \in 1..i : SubSeq(w, 1, i)[k] = w[k]
    BY <1>1, <2>1, Piece
  <2>3. A \subseteq B
    BY <1>1, <2>1, <2>2
  <2>4. IsFiniteSet(B)
    <3>1. IsFiniteSet(1..n) /\ B \subseteq 1..n
      BY <1>1, FS_Interval
    <3> HIDE DEF B
    <3> QED  BY <3>1, FS_Subset
  <2>5. Cardinality(A) <= Cardinality(B)
    <3> HIDE DEF A, B
    <3> QED  BY <2>3, <2>4, FS_Subset
  <2> QED  BY <2>5
<1>3. Counted = 1..n
  BY <1>2
<1>4. Common(w, w) = n
  <2>1. Common(w, w) = Cardinality(Counted)
    BY DEF Common
  <2>2. Cardinality(1..n) = n
    <3>1. Cardinality(1..n) = IF 1 > n THEN 0 ELSE n - 1 + 1
      <4> HIDE DEF n
      <4> QED  BY <1>1, FS_Interval
    <3> QED  BY <1>1, <3>1
  <2> QED  BY <1>3, <2>1, <2>2
<1>5. CASE w = <<>>
  BY <1>5 DEF Overlap
<1>6. CASE w # <<>>
  <2>1. n # 0
    BY <1>1, <1>6, EmptySeq
  <2>2. (20 * n) \div (n + n) = 10
    <3> HIDE DEF n
    <3> QED  BY <1>1, <2>1
  <2> QED  BY <1>4, <1>6, <2>2 DEF Overlap
<1> QED  BY <1>5, <1>6

\* A block of lines of a text.
LEMMA BlockIs ==
  ASSUME NEW text \in Seq(Lines), NEW i \in Nat, NEW n \in Nat, 1 <= i, i + n <= Len(text) + 1
  PROVE  /\ Block(text, i, n) \in Seq(Lines) /\ Len(Block(text, i, n)) = n
         /\ \A k \in 1..n : Block(text, i, n)[k] = text[i + k - 1]
<1>1. Len(text) \in Nat
  BY LenProperties
<1>2. i + n - 1 \in Nat /\ i + n - 1 <= Len(text)
  BY <1>1
<1> DEFINE b == SubSeq(text, i, i + n - 1)
<1>3. /\ b \in Seq(Lines)
      /\ Len(b) = IF i <= i + n - 1 THEN (i + n - 1) - i + 1 ELSE 0
      /\ \A k \in 1..((i + n - 1) - i + 1) : b[k] = text[i + k - 1]
  BY <1>1, <1>2, Piece
<1>4. (i + n - 1) - i + 1 = n
  BY <1>1
<1>5. Len(b) = n
  BY <1>3, <1>4
<1> QED  BY <1>3, <1>4, <1>5 DEF Block

\* The text without its line end is the text up to there, with its words.
LEMMA WithoutEndIs ==
  ASSUME NEW text \in Seq(Lines)
  PROVE  /\ WithoutEnd(text) \in Seq(Lines)
         /\ Words(WithoutEnd(text)) = Words(text)
         /\ \/ WithoutEnd(text) = text /\ ~(text # <<>> /\ text[Len(text)] = <<>>)
            \/ /\ text # <<>> /\ text[Len(text)] = <<>> /\ Len(text) >= 1
               /\ Len(WithoutEnd(text)) = Len(text) - 1
               /\ WithoutEnd(text) = SubSeq(text, 1, Len(text) - 1)
<1>0. Len(text) \in Nat
  BY LenProperties
<1>1. CASE text # <<>> /\ text[Len(text)] = <<>>
  <2>1. Len(text) # 0 /\ Len(text) - 1 \in 0..Len(text) /\ (Len(text) - 1) + 1 = Len(text)
    BY <1>0, <1>1, EmptySeq
  <2> DEFINE m == Len(text) - 1
             r == SubSeq(text, m + 1, Len(text))
  <2>2. /\ SubSeq(text, 1, m) \in Seq(Lines) /\ r \in Seq(Lines)
        /\ Len(SubSeq(text, 1, m)) = m /\ Len(r) = Len(text) - m
        /\ \A k \in 1..(Len(text) - m) : r[k] = text[m + k]
        /\ Words(text) = Words(SubSeq(text, 1, m)) \o Words(r)
    <3>1. m \in 0..Len(text)
      BY <2>1
    <3> HIDE DEF m
    <3> QED  BY <3>1, WordsOfParts
  <2> HIDE DEF r
  <2>3. Len(r) = 1 /\ r[1] = <<>>
    <3>1. Len(text) - m = 1 /\ m + 1 = Len(text)
      BY <1>0
    <3>2. Len(r) = Len(text) - m /\ \A k \in 1..(Len(text) - m) : r[k] = text[m + k]
      BY <2>2
    <3> HIDE DEF m
    <3>3. Len(r) = 1 /\ r[1] = text[m + 1]
      BY ONLY <3>1, <3>2
    <3> QED  BY <1>1, <3>1, <3>3
  <2>4. Words(r) = <<>>
    BY <2>2, <2>3, Wordless, NoWords
  <2>5. Words(text) = Words(SubSeq(text, 1, m))
    <3>1. Words(SubSeq(text, 1, m)) \in Seq(Vocabulary)
      BY <2>2, WordsType DEF WordSeqs
    <3> QED  BY <2>2, <2>4, <3>1, ConcatEmptySeq
  <2>6. WithoutEnd(text) = SubSeq(text, 1, m)
    BY <1>1 DEF WithoutEnd
  <2>7. Len(text) >= 1 /\ Len(WithoutEnd(text)) = Len(text) - 1
    BY <1>0, <2>1, <2>2, <2>6
  <2>8. WithoutEnd(text) \in Seq(Lines) /\ Words(WithoutEnd(text)) = Words(text)
    BY <2>2, <2>5, <2>6
  <2> QED  BY <1>1, <2>6, <2>7, <2>8
<1>2. CASE ~(text # <<>> /\ text[Len(text)] = <<>>)
  BY <1>2 DEF WithoutEnd
<1> QED  BY <1>1, <1>2

\* The empty text is a line without words.
LEMMA EmptyIs == Empty \in Texts /\ Len(Empty) = 1 /\ Words(Empty) = <<>>
<1>1. Empty \in Seq(Lines) /\ Words(Empty) = <<>> /\ Len(Empty) = 1
  BY NoWords, WordsOfLine DEF Empty
<1>2. Empty # <<>>
  BY <1>1, EmptySeq
<1> QED  BY <1>1, <1>2 DEF Texts

\* A text has the same words without the white space around it, and no more lines.
LEMMA TrimmedIs ==
  ASSUME NEW text \in Texts
  PROVE  /\ Trimmed(text) \in Texts /\ Len(Trimmed(text)) \in 1..Len(text)
         /\ Words(Trimmed(text)) = Words(text)
<1> DEFINE full == {i \in 1..Len(text) : Filled(text[i]) # {}}
<1>1. /\ text \in Seq(Lines) /\ Len(text) \in Nat /\ Len(text) # 0
      /\ \A k \in 1..Len(text) : text[k] \in Lines
  BY LenProperties, EmptySeq DEF Texts
<1>2. CASE full = {}
  <2>1. \A k \in 1..Len(text) : LineWords(text[k]) = <<>>
    BY <1>1, <1>2, GapsOnly
  <2>2. Words(text) = <<>>
    BY <1>1, <2>1, Wordless
  <2>3. Trimmed(text) = Empty
    BY <1>2 DEF Trimmed
  <2> QED  BY <1>1, <2>2, <2>3, EmptyIs
<1>3. CASE full # {}
  <2> DEFINE lo == Lowest(full)
             hi == Highest(full)
             core == SubSeq(text, lo, hi)
             shut == [core EXCEPT ![Len(core)] = TrimEnd(@)]
             t == [shut EXCEPT ![1] = TrimStart(@)]
  <2>0. Trimmed(text) = t
    BY <1>3 DEF Trimmed
  <2>1. full \subseteq 1..Len(text) /\ full \subseteq Nat
    OBVIOUS
  <2>2. lo \in full /\ hi \in full /\ (\A j \in full : lo <= j) /\ (\A j \in full : j <= hi)
    <3> HIDE DEF full
    <3> QED  BY <1>1, <1>3, <2>1, LowestIsIn, HighestIsIn
  <2> HIDE DEF lo, hi
  <2>3. lo \in 1..Len(text) /\ hi \in 1..Len(text) /\ lo <= hi /\ lo \in Nat /\ hi \in Nat
    BY <1>1, <2>1, <2>2
  <2>4. /\ core \in Seq(Lines) /\ Len(core) = hi - lo + 1
        /\ Len(core) \in 1..Len(text)
    <3>1. core \in Seq(Lines) /\ Len(core) = IF lo <= hi THEN hi - lo + 1 ELSE 0
      BY <1>1, <2>3, Piece
    <3> HIDE DEF core
    <3> QED  BY <1>1, <2>3, <3>1
  \* What is before and behind has no words.
  <2>5. Words(text) = Words(core)
    <3> DEFINE p == SubSeq(text, 1, hi)
               r == SubSeq(text, hi + 1, Len(text))
               b == SubSeq(p, 1, lo - 1)
               c == SubSeq(p, lo, Len(p))
    <3>1. /\ p \in Seq(Lines) /\ r \in Seq(Lines) /\ Len(p) = hi /\ Len(r) = Len(text) - hi
          /\ \A k \in 1..hi : p[k] = text[k]
          /\ \A k \in 1..(Len(text) - hi) : r[k] = text[hi + k]
          /\ Words(text) = Words(p) \o Words(r)
      <4>1. hi \in 0..Len(text)
        BY <1>1, <2>3
      <4> QED  BY <1>1, <4>1, WordsOfParts
    <3>2. Words(r) = <<>>
      <4>1. ASSUME NEW k \in 1..Len(r) PROVE LineWords(r[k]) = <<>>
        <5>1. k \in 1..(Len(text) - hi) /\ r[k] = text[hi + k]
          BY <3>1
        <5>2. hi + k \in 1..Len(text) /\ ~(hi + k <= hi)
          BY <1>1, <2>3, <5>1
        <5>3. Filled(text[hi + k]) = {}
          BY <2>2, <5>2
        <5> QED  BY <1>1, <5>1, <5>2, <5>3, GapsOnly
      <4> HIDE DEF r
      <4> QED  BY <3>1, <4>1, Wordless
    <3> HIDE DEF p, r
    <3>3. (lo - 1) + 1 = lo /\ lo - 1 \in 0..Len(p)
      BY <2>3, <3>1
    <3>4. /\ b \in Seq(Lines) /\ c \in Seq(Lines) /\ Len(b) = lo - 1
          /\ \A k \in 1..(lo - 1) : b[k] = p[k]
          /\ Words(p) = Words(b) \o Words(c)
      <4> DEFINE m == lo - 1
      <4>1. m \in 0..Len(p) /\ m + 1 = lo
        BY <3>3
      <4> HIDE DEF m
      <4>2. /\ SubSeq(p, 1, m) \in Seq(Lines) /\ SubSeq(p, m + 1, Len(p)) \in Seq(Lines)
            /\ Len(SubSeq(p, 1, m)) = m
            /\ \A k \in 1..m : SubSeq(p, 1, m)[k] = p[k]
            /\ Words(p) = Words(SubSeq(p, 1, m)) \o Words(SubSeq(p, m + 1, Len(p)))
        BY <3>1, <4>1, WordsOfParts
      <4> QED  BY <4>1, <4>2 DEF m
    <3>5. Words(b) = <<>>
      <4>1. ASSUME NEW k \in 1..Len(b) PROVE LineWords(b[k]) = <<>>
        <5>1. k \in 1..(lo - 1) /\ b[k] = p[k]
          BY <3>4
        <5>2. k \in 1..hi /\ k \in 1..Len(text) /\ ~(lo <= k)
          BY <1>1, <2>3, <5>1
        <5>3. Filled(text[k]) = {}
          BY <2>2, <5>2
        <5>4. b[k] = text[k]
          BY <3>1, <5>1, <5>2
        <5> QED  BY <1>1, <5>2, <5>3, <5>4, GapsOnly
      <4> HIDE DEF b
      <4> QED  BY <3>4, <4>1, Wordless
    <3>6. c = core
      <4>1. /\ 1 \in 1..Len(text) /\ hi \in 1..Len(text)
            /\ lo \in 1..(hi - 1 + 1) /\ hi \in 1..(hi - 1 + 1)
        BY <1>1, <2>3
      <4>2. SubSeq(SubSeq(text, 1, hi), lo, hi) = SubSeq(text, 1 + lo - 1, 1 + hi - 1)
        BY <1>1, <4>1, SubSeqOfSubSeq
      <4>3. 1 + lo - 1 = lo /\ 1 + hi - 1 = hi
        BY <2>3
      <4> QED  BY <3>1, <4>2, <4>3 DEF p
    <3> HIDE DEF b, c, core
    <3>7. Words(p) \in Seq(Vocabulary) /\ Words(c) \in Seq(Vocabulary)
      BY <3>1, <3>4, WordsType DEF WordSeqs
    <3>8. Words(text) = Words(p) /\ Words(p) = Words(c)
      BY <3>1, <3>2, <3>4, <3>5, <3>7, ConcatEmptySeq
    <3> QED  BY <3>6, <3>8
  <2> DEFINE n == Len(core)
  <2>6. \A k \in 1..n : core[k] \in Lines
    <3> HIDE DEF core
    <3> QED  BY <2>4
  <2>7. n \in 1..n /\ 1 \in 1..n /\ n \in Nat
    <3> HIDE DEF core
    <3> QED  BY <2>4
  <2>8. core = [k \in 1..n |-> core[k]]
    <3> HIDE DEF core
    <3> QED  BY <2>4
  <2> HIDE DEF core
  <2>9. /\ t = [k \in 1..n |-> t[k]]
        /\ \A k \in 1..n : t[k] \in Lines /\ LineWords(t[k]) = LineWords(core[k])
    <3>1. shut = [k \in 1..n |-> IF k = n THEN TrimEnd(core[k]) ELSE core[k]]
      BY <2>7, <2>8
    <3>2. \A k \in 1..n : shut[k] \in Lines /\ LineWords(shut[k]) = LineWords(core[k])
      <4> HIDE DEF n, shut
      <4> QED  BY <2>6, <3>1, TrimEndWords
    <3>3. t = [k \in 1..n |-> IF k = 1 THEN TrimStart(shut[k]) ELSE shut[k]]
      <4> HIDE DEF shut
      <4>1. shut = [k \in 1..n |-> shut[k]]
        BY <3>1
      <4> QED  BY <2>7, <4>1
    <3> HIDE DEF t, shut, n
    <3> QED  BY <3>2, <3>3, TrimStartWords
  <2> HIDE DEF t
  <2>10. t \in Seq(Lines) /\ Len(t) = n
    <3>1. t \in [1..n -> Lines]
      <4> HIDE DEF n
      <4> QED  BY <2>9
    <3> QED  BY <2>7, <2>9, <3>1
  <2>11. Words(t) = Words(core)
    BY <2>4, <2>9, <2>10, SameWords
  <2>12. t # <<>>
    BY <2>4, <2>10, EmptySeq
  <2> QED  BY <2>0, <2>4, <2>5, <2>10, <2>11, <2>12 DEF Texts
<1> QED  BY <1>2, <1>3

\* The first of some places is one of them.
LEMMA FirstPlaceIsIn ==
  ASSUME NEW P, P # {}, \A p \in P : p[1] \in Nat /\ p[2] \in Nat
  PROVE  FirstPlace(P) \in P
<1> DEFINE A == {p[1] : p \in P}
<1>1. PICK a \in A : \A b \in A : a <= b
  <2>1. A \subseteq Nat /\ A # {}
    OBVIOUS
  <2> HIDE DEF A
  <2> QED  BY <2>1, Least
<1> DEFINE Q == {p \in P : p[1] = a}
           B == {p[2] : p \in Q}
<1>2. PICK c \in B : \A b \in B : c <= b
  <2>1. B \subseteq Nat /\ B # {}
    BY <1>1
  <2> HIDE DEF B
  <2> QED  BY <2>1, Least
<1>3. PICK p \in P : p[1] = a /\ p[2] = c
  BY <1>2
<1>4. ASSUME NEW q \in P PROVE p[1] < q[1] \/ (p[1] = q[1] /\ p[2] <= q[2])
  <2>1. a <= q[1] /\ q[1] \in Nat /\ a \in Nat
    BY <1>1
  <2>2. q[1] = a => c <= q[2]
    BY <1>2
  <2> QED  BY <1>3, <2>1, <2>2
<1> QED  BY <1>3, <1>4 DEF FirstPlace

\* An edit is in place where the words of its block are known.
LEMMA InPlaceIs ==
  ASSUME NEW old \in Texts, NEW edit, edit.search \in Texts,
         NEW i \in 1..Len(old), NEW n \in 1..Len(edit.search), i + n <= Len(old) + 1,
         NEW X \in Seq(Lines), NEW R \in Seq(Lines),
         R \in {SubSeq(old, i + n, Len(old)), WithoutEnd(SubSeq(old, i + n, Len(old)))},
         NEW new, new = SubSeq(old, 1, i - 1) \o X \o R,
         NEW a \in WordSeqs, NEW w \in WordSeqs, NEW b \in WordSeqs,
         Words(Block(old, i, n)) = a \o w \o b,
         Len(a) <= Len(LineWords(old[i])), Len(b) <= Len(LineWords(old[i + n - 1])),
         Overlap(Words(edit.search), w) >= 8,
         \/ Words(X) = a \o Words(edit.by) \o b
         \/ Places(old, edit.search) = {} /\ Words(X) = Words(edit.by)
  PROVE  InPlace(old, edit, new)
<1> DEFINE A == SubSeq(old, 1, i - 1)
           m == i - 1 + Len(X)
           block == Words(Block(old, i, n))
           p == Len(a)
           q == Len(b)
           changed == Words(SubSeq(new, i, m))
           rest == SubSeq(old, i + n, Len(old))
<1>1. /\ old \in Seq(Lines) /\ Len(old) \in Nat /\ Len(X) \in Nat /\ Len(R) \in Nat
      /\ \A k \in 1..Len(old) : old[k] \in Lines
  BY LenProperties DEF Texts
<1>2. A \in Seq(Lines) /\ Len(A) = i - 1
  <2>1. SubSeq(old, 1, i - 1) \in Seq(Lines) /\ Len(SubSeq(old, 1, i - 1)) = IF 1 <= i - 1 THEN i - 1 - 1 + 1 ELSE 0
    <3>1. i - 1 \in Nat /\ i - 1 <= Len(old)
      BY <1>1
    <3> QED  BY <1>1, <3>1, Piece
  <2> QED  BY <1>1, <2>1
<1> HIDE DEF A
<1>3. /\ Len(new) = Len(A) + Len(X) + Len(R)
      /\ SubSeq(new, 1, Len(A)) = A
      /\ SubSeq(new, Len(A) + 1, Len(A) + Len(X)) = X
      /\ SubSeq(new, Len(A) + Len(X) + 1, Len(new)) = R
  <2>1. new = A \o X \o R
    BY DEF A
  <2>2. A \in Seq(Lines) /\ X \in Seq(Lines) /\ R \in Seq(Lines)
    BY <1>2
  <2> QED  BY ONLY <2>1, <2>2, ThreeParts
<1>4. /\ m \in 0..Len(new) /\ i - 1 <= m
      /\ SubSeq(new, 1, i - 1) = A /\ SubSeq(new, i, m) = X /\ SubSeq(new, m + 1, Len(new)) = R
  <2>1. Len(A) + 1 = i /\ Len(A) = i - 1 /\ Len(A) + Len(X) = m
    BY <1>1, <1>2
  <2>2. m \in 0..Len(new) /\ i - 1 <= m
    <3>1. i - 1 \in Nat /\ Len(X) \in Nat /\ Len(R) \in Nat /\ Len(new) = (i - 1) + Len(X) + Len(R)
      BY <1>1, <1>2, <1>3
    <3> QED  BY ONLY <3>1
  <2> HIDE DEF m
  <2> QED  BY <1>3, <2>1, <2>2
<1>5. /\ block = a \o w \o b /\ Len(block) = Len(a) + Len(w) + Len(b)
      /\ SubSeq(block, 1, p) = a /\ SubSeq(block, p + 1, p + Len(w)) = w
      /\ SubSeq(block, p + Len(w) + 1, Len(block)) = b
      /\ p \in Nat /\ q \in Nat /\ Len(w) \in Nat
  <2>1. a \in Seq(Vocabulary) /\ w \in Seq(Vocabulary) /\ b \in Seq(Vocabulary)
    BY DEF WordSeqs
  <2>2. block = a \o w \o b
    OBVIOUS
  <2> HIDE DEF block
  <2>3. p \in Nat /\ q \in Nat /\ Len(w) \in Nat
    BY <2>1, LenProperties
  <2> QED  BY ONLY <2>1, <2>2, <2>3, ThreeParts
<1> HIDE DEF block, m
<1>6. /\ p + q <= Len(block)
      /\ SubSeq(block, p + 1, Len(block) - q) = w
      /\ SubSeq(block, Len(block) - q + 1, Len(block)) = b
  <2>1. Len(block) - q = p + Len(w) /\ Len(block) - q + 1 = p + Len(w) + 1 /\ p + q <= Len(block)
    BY <1>5
  <2> HIDE DEF p, q
  <2> QED  BY <1>5, <2>1
<1>7. i + n - 1 \in 1..Len(old)
  <2>1. n \in Nat /\ n >= 1
    <3>1. Len(edit.search) \in Nat
      BY LenProperties DEF Texts
    <3> QED  BY <3>1
  <2> QED  BY <1>1, <2>1
<1>8. Len(LineWords(old[i])) \in Nat /\ Len(LineWords(old[i + n - 1])) \in Nat
  <2>1. LineWords(old[i]) \in Seq(Vocabulary) /\ LineWords(old[i + n - 1]) \in Seq(Vocabulary)
    BY <1>1, <1>7, LineWordsType DEF WordSeqs
  <2> QED  BY <2>1, LenProperties
<1>9. p \in 0..Len(LineWords(old[i])) /\ q \in 0..Len(LineWords(old[i + n - 1]))
  BY <1>5, <1>8
<1>10. \/ changed = SubSeq(block, 1, p) \o Words(edit.by) \o SubSeq(block, Len(block) - q + 1, Len(block))
       \/ Places(old, edit.search) = {} /\ changed = Words(edit.by)
  BY <1>4, <1>5, <1>6
<1>11. Overlap(Words(edit.search), SubSeq(block, p + 1, Len(block) - q)) >= 8
  BY <1>6
<1>12. /\ SubSeq(new, 1, i - 1) = SubSeq(old, 1, i - 1)
       /\ SubSeq(new, m + 1, Len(new)) \in {rest, WithoutEnd(rest)}
  BY <1>4 DEF A
<1> HIDE DEF p, q, changed, rest
<1>13. \E p_1 \in 0..Len(LineWords(old[i])), q_1 \in 0..Len(LineWords(old[i + n - 1])) :
            /\ p_1 + q_1 <= Len(block)
            /\ Overlap(Words(edit.search), SubSeq(block, p_1 + 1, Len(block) - q_1)) >= 8
            /\ \/ changed = SubSeq(block, 1, p_1) \o Words(edit.by)
                              \o SubSeq(block, Len(block) - q_1 + 1, Len(block))
               \/ Places(old, edit.search) = {} /\ changed = Words(edit.by)
  BY <1>6, <1>9, <1>10, <1>11
<1> QED
  <2>1. i + n <= Len(old) + 1 /\ i - 1 <= m /\ m \in 0..Len(new)
    BY <1>4
  <2> QED  BY <1>12, <1>13, <2>1 DEF InPlace, block, changed, rest

\* What a place says: the lines are there, and hold the search between what stands
\* before it and behind it.
LEMMA PlaceIs ==
  ASSUME NEW text \in Texts, NEW search \in Texts, NEW p \in Places(text, search)
  PROVE  LET a == LineWords(Before(text, p))
             b == LineWords(Behind(text, p, search))
             n == Len(search)
         IN /\ p[1] \in 1..Len(text) /\ p[1] \in Nat /\ p[2] \in Nat /\ n \in Nat /\ n >= 1
            /\ p[1] + n <= Len(text) + 1 /\ p[1] + n - 1 \in 1..Len(text)
            /\ Before(text, p) \in Lines /\ Behind(text, p, search) \in Lines
            /\ Words(Block(text, p[1], n)) = a \o Words(search) \o b
            /\ Len(a) <= Len(LineWords(text[p[1]])) /\ Len(b) <= Len(LineWords(text[p[1] + n - 1]))
<1> DEFINE n == Len(search)
           i == p[1]
           before == Before(text, p)
           behind == Behind(text, p, search)
           a == LineWords(before)
           b == LineWords(behind)
           w == Wrapped(before, search, behind)
<1>1. /\ text \in Seq(Lines) /\ Len(text) \in Nat /\ \A k \in 1..Len(text) : text[k] \in Lines
      /\ search \in Seq(Lines) /\ n \in Nat /\ n >= 1 /\ search[n] \in Lines
  <2>1. text \in Seq(Lines) /\ search \in Seq(Lines) /\ search # <<>>
    BY DEF Texts
  <2>2. n \in Nat /\ n # 0
    BY <2>1, LenProperties, EmptySeq
  <2> QED  BY <2>1, <2>2, LenProperties
<1>2. /\ p \in Positions(text) /\ i + n <= Len(text) + 1
      /\ Block(text, i, n) = w
  BY DEF Places
<1>3. i \in 1..Len(text) /\ i \in Nat /\ p[2] \in 0..Len(text[i]) /\ Len(text[i]) \in Nat /\ p[2] \in Nat
  <2>1. PICK l \in 1..Len(text) : p \in {l} \X (0..Len(text[l]))
    BY <1>2 DEF Positions
  <2>2. i = l /\ p[2] \in 0..Len(text[l])
    BY <2>1
  <2>3. Len(text[l]) \in Nat
    BY <1>1, LenProperties DEF Lines
  <2> QED  BY <1>1, <2>1, <2>2, <2>3
<1>4. i + n - 1 \in 1..Len(text)
  <2> HIDE DEF i, n
  <2> QED  BY <1>1, <1>2, <1>3
<1>5. before \in Lines
  <2> DEFINE line == text[i]
             c == p[2]
             S == Vocabulary \cup {Gap}
  <2>1. line \in Seq(S) /\ c \in Nat /\ c <= Len(line)
    BY <1>1, <1>3 DEF Lines
  <2> HIDE DEF line, c, S
  <2>2. SubSeq(line, 1, c) \in Seq(S)
    BY <2>1, Piece
  <2> QED  BY <2>2 DEF line, c, S, Lines, Before
<1>6. behind \in Lines
  <2> DEFINE line == text[i + n - 1]
             used == Len(search[n]) + (IF n = 1 THEN p[2] ELSE 0)
             S == Vocabulary \cup {Gap}
  <2>1. line \in Seq(S) /\ Len(line) \in Nat /\ used \in Nat
    <3>1. line \in Seq(S) /\ search[n] \in Seq(S)
      BY <1>1, <1>4 DEF Lines
    <3>2. Len(search[n]) \in Nat /\ Len(line) \in Nat
      BY <3>1, LenProperties
    <3> QED  BY <1>3, <3>1, <3>2
  <2>2. behind = SubSeq(line, used + 1, Len(line))
    BY DEF Behind
  <2> HIDE DEF line, used, S, behind
  <2>3. SubSeq(line, used + 1, Len(line)) \in Seq(S)
    BY <2>1, Piece
  <2> QED  BY <2>2, <2>3 DEF S, Lines
<1>7. /\ Words(w) = a \o Words(search) \o b
      /\ \E first, last \in Lines : w[1] = before \o first /\ w[n] = last \o behind
  BY <1>5, <1>6, WordsOfWrapped
<1>8. w[1] = text[i] /\ w[n] = text[i + n - 1]
  <2>1. \A k \in 1..n : Block(text, i, n)[k] = text[i + k - 1]
    <3>1. 1 <= i
      BY <1>3
    <3> HIDE DEF i, n
    <3> QED  BY <1>1, <1>2, <1>3, <3>1, BlockIs
  <2>2. 1 \in 1..n /\ n \in 1..n /\ i + 1 - 1 = i
    BY <1>1, <1>3
  <2> QED  BY <1>2, <2>1, <2>2
<1>9. PICK first \in Lines, last \in Lines : text[i] = before \o first /\ text[i + n - 1] = last \o behind
  BY <1>7, <1>8
<1>10. Len(a) <= Len(LineWords(text[i])) /\ Len(b) <= Len(LineWords(text[i + n - 1]))
  <2> DEFINE x == LineWords(first)
             y == LineWords(last)
  <2>1. /\ LineWords(text[i]) = a \o x
        /\ LineWords(text[i + n - 1]) = y \o b
        /\ a \in Seq(Vocabulary) /\ x \in Seq(Vocabulary) /\ y \in Seq(Vocabulary) /\ b \in Seq(Vocabulary)
    <3>1. LineWords(before \o first) = a \o x /\ LineWords(last \o behind) = y \o b
      <4> HIDE DEF before, behind
      <4> QED  BY <1>5, <1>6, LineWordsOfConcat
    <3>2. a \in WordSeqs /\ x \in WordSeqs /\ y \in WordSeqs /\ b \in WordSeqs
      <4> HIDE DEF before, behind
      <4> QED  BY <1>5, <1>6, LineWordsType
    <3> QED  BY <1>9, <3>1, <3>2 DEF WordSeqs
  <2> HIDE DEF x, y, a, b
  <2>2. /\ Len(a \o x) = Len(a) + Len(x) /\ Len(y \o b) = Len(y) + Len(b)
        /\ Len(a) \in Nat /\ Len(b) \in Nat /\ Len(x) \in Nat /\ Len(y) \in Nat
    BY <2>1, ConcatProperties, LenProperties
  <2> QED  BY <2>1, <2>2
<1> QED  BY <1>1, <1>2, <1>3, <1>4, <1>5, <1>6, <1>7, <1>10

\* What is put in the place of lines.
LEMMA ReplacedIs ==
  ASSUME NEW text \in Seq(Lines), NEW i \in Nat, NEW n \in Nat, 1 <= i, i + n <= Len(text) + 1,
         NEW X \in Texts
  PROVE  /\ SubSeq(text, i + n, Len(text)) \in Seq(Lines)
         /\ Replaced(text, i, n, X) = SubSeq(text, 1, i - 1) \o X \o SubSeq(text, i + n, Len(text))
         /\ Replaced(text, i, n, X) \in Texts
<1> DEFINE A == SubSeq(text, 1, i - 1)
           R == SubSeq(text, i + n, Len(text))
           new == A \o X \o R
<1>1. Len(text) \in Nat /\ X \in Seq(Lines) /\ X # <<>> /\ Len(X) \in Nat
  BY LenProperties DEF Texts
<1>2. A \in Seq(Lines)
  <2>1. i - 1 \in Nat /\ i - 1 <= Len(text)
    BY <1>1
  <2> QED  BY <1>1, <2>1, Piece
<1>3. R \in Seq(Lines)
  <2>1. i + n \in Nat /\ 1 <= i + n
    BY <1>1
  <2> QED  BY <1>1, <2>1, Piece
<1>4. Replaced(text, i, n, X) = new
  BY DEF Replaced
<1> HIDE DEF A, R
<1>5. new \in Seq(Lines) /\ Len(new) = Len(A) + Len(X) + Len(R) /\ Len(A) \in Nat /\ Len(R) \in Nat
  <2>1. X \in Seq(Lines)
    BY <1>1
  <2> QED  BY <1>2, <1>3, <2>1, ThreeParts, LenProperties
<1>6. new # <<>>
  <2>1. Len(X) # 0
    BY <1>1, EmptySeq
  <2>2. Len(new) # 0
    BY <1>1, <1>5, <2>1
  <2> HIDE DEF new
  <2> QED  BY <2>2, EmptySeq
<1> QED  BY <1>3, <1>4, <1>5, <1>6 DEF Texts, A, R

\* The first and the third strategy.
LEMMA SplicedInPlace ==
  ASSUME NEW text \in Texts, NEW edit, edit.search \in Texts, edit.by \in Texts,
         NEW core \in Texts, Len(core) \in 1..Len(edit.search), Words(core) = Words(edit.search),
         NEW with \in Texts, Words(with) = Words(edit.by),
         NEW p \in Places(text, core)
  PROVE  Spliced(text, p, core, with) \in Texts /\ InPlace(text, edit, Spliced(text, p, core, with))
<1> DEFINE n == Len(core)
           before == Before(text, p)
           behind == Behind(text, p, core)
           a == LineWords(before)
           b == LineWords(behind)
           X == Wrapped(before, with, behind)
           new == Spliced(text, p, core, with)
           R == SubSeq(text, p[1] + n, Len(text))
<1>1. /\ p[1] \in 1..Len(text) /\ p[1] \in Nat /\ n \in Nat /\ n >= 1
      /\ p[1] + n <= Len(text) + 1
      /\ before \in Lines /\ behind \in Lines
      /\ Words(Block(text, p[1], n)) = a \o Words(core) \o b
      /\ Len(a) <= Len(LineWords(text[p[1]])) /\ Len(b) <= Len(LineWords(text[p[1] + n - 1]))
  BY PlaceIs
<1>2. X \in Texts /\ Words(X) = a \o Words(with) \o b
  <2> HIDE DEF before, behind
  <2> QED  BY <1>1, WordsOfWrapped
<1>3. text \in Seq(Lines) /\ X \in Seq(Lines)
  BY <1>2 DEF Texts
<1>4. new = Replaced(text, p[1], n, X)
  BY DEF Spliced
<1>5. a \in WordSeqs /\ b \in WordSeqs /\ Words(edit.search) \in WordSeqs
  <2>1. edit.search \in Seq(Lines)
    BY DEF Texts
  <2> HIDE DEF before, behind
  <2> QED  BY <1>1, <2>1, LineWordsType, WordsType
<1> HIDE DEF a, b, X, new, before, behind
<1>6. R \in Seq(Lines) /\ new = SubSeq(text, 1, p[1] - 1) \o X \o R /\ new \in Texts
  <2>1. 1 <= p[1]
    BY <1>1
  <2> QED  BY <1>1, <1>2, <1>3, <1>4, <2>1, ReplacedIs
<1>7. Overlap(Words(edit.search), Words(edit.search)) >= 8
  BY <1>5, SameOverlap
<1>8. Words(X) = a \o Words(edit.by) \o b
  BY <1>2
<1>9. Words(Block(text, p[1], n)) = a \o Words(edit.search) \o b
  BY <1>1
<1>10. R \in {SubSeq(text, p[1] + n, Len(text)), WithoutEnd(SubSeq(text, p[1] + n, Len(text)))}
  OBVIOUS
<1> HIDE DEF n, R
<1>11. n \in 1..Len(edit.search)
  BY DEF n
<1> DEFINE i == p[1]
           w == Words(edit.search)
<1>12. /\ i \in 1..Len(text) /\ i + n <= Len(text) + 1
       /\ Len(a) <= Len(LineWords(text[i])) /\ Len(b) <= Len(LineWords(text[i + n - 1]))
       /\ Words(Block(text, i, n)) = a \o w \o b
       /\ R \in {SubSeq(text, i + n, Len(text)), WithoutEnd(SubSeq(text, i + n, Len(text)))}
       /\ new = SubSeq(text, 1, i - 1) \o X \o R
       /\ Overlap(Words(edit.search), w) >= 8
       /\ w \in WordSeqs
  BY <1>1, <1>5, <1>6, <1>7, <1>9, <1>10
<1> HIDE DEF i, w
<1>13. InPlace(text, edit, new)
  BY <1>3, <1>5, <1>6, <1>8, <1>11, <1>12, InPlaceIs
<1> QED  BY <1>6, <1>13 DEF new

\* The second strategy.
LEMMA NearInPlace ==
  ASSUME NEW text \in Texts, NEW edit, edit.search \in Texts, edit.by \in Texts,
         Places(text, edit.search) = {},
         NEW p \in Places(Normal(text), Normal(edit.search))
  PROVE  LET new == Replaced(text, p[1], Len(edit.search), edit.by)
         IN new \in Texts /\ InPlace(text, edit, new)
<1> DEFINE search == edit.search
           t == Normal(text)
           s == Normal(search)
           n == Len(search)
           i == p[1]
           a == LineWords(Before(t, p))
           b == LineWords(Behind(t, p, s))
           new == Replaced(text, i, n, edit.by)
           X == edit.by
           R == SubSeq(text, i + n, Len(text))
           w == Words(search)
<1>1. /\ t \in Texts /\ Len(t) = Len(text) /\ s \in Texts /\ Len(s) = n
      /\ \A k \in 1..Len(text) : LineWords(t[k]) = LineWords(text[k])
      /\ \A k \in 1..n : LineWords(s[k]) = LineWords(search[k])
  BY NormalWords
<1>2. text \in Seq(Lines) /\ t \in Seq(Lines) /\ s \in Seq(Lines) /\ search \in Seq(Lines) /\ X \in Seq(Lines)
  BY <1>1 DEF Texts
<1>3. Words(s) = w
  BY <1>1, <1>2, SameWords
<1> HIDE DEF t, s
<1>4. /\ i \in 1..Len(text) /\ i \in Nat /\ n \in Nat /\ n >= 1 /\ i + n <= Len(text) + 1
      /\ i + n - 1 \in 1..Len(text)
      /\ Before(t, p) \in Lines /\ Behind(t, p, s) \in Lines
      /\ Words(Block(t, i, n)) = a \o Words(s) \o b
      /\ Len(a) <= Len(LineWords(t[i])) /\ Len(b) <= Len(LineWords(t[i + n - 1]))
  <2>1. p \in Places(t, s)
    BY DEF t, s
  <2> QED  BY <1>1, <2>1, PlaceIs
<1>5. a \in WordSeqs /\ b \in WordSeqs /\ w \in WordSeqs
  BY <1>2, <1>4, LineWordsType, WordsType
<1> HIDE DEF a, b
<1>6. Len(a) <= Len(LineWords(text[i])) /\ Len(b) <= Len(LineWords(text[i + n - 1]))
  BY <1>1, <1>4
<1>7. Words(Block(text, i, n)) = a \o w \o b
  <2> DEFINE x == Block(text, i, n)
             y == Block(t, i, n)
  <2>1. /\ x \in Seq(Lines) /\ Len(x) = n /\ \A k \in 1..n : x[k] = text[i + k - 1]
        /\ y \in Seq(Lines) /\ Len(y) = n /\ \A k \in 1..n : y[k] = t[i + k - 1]
    <3>1. 1 <= i /\ i + n <= Len(t) + 1
      BY <1>1, <1>4
    <3> HIDE DEF i, n
    <3>2. x \in Seq(Lines) /\ Len(x) = n /\ \A k \in 1..n : x[k] = text[i + k - 1]
      BY <1>2, <1>4, <3>1, BlockIs
    <3>3. y \in Seq(Lines) /\ Len(y) = n /\ \A k \in 1..n : y[k] = t[i + k - 1]
      BY <1>2, <1>4, <3>1, BlockIs
    <3> QED  BY <3>2, <3>3
  <2> HIDE DEF x, y
  <2>2. \A k \in 1..n : LineWords(x[k]) = LineWords(y[k])
    <3> SUFFICES ASSUME NEW k \in 1..n PROVE LineWords(x[k]) = LineWords(y[k])
      OBVIOUS
    <3>1. i + k - 1 \in 1..Len(text)
      <4>1. Len(text) \in Nat
        BY <1>2, LenProperties
      <4> HIDE DEF i, n
      <4> QED  BY <1>4, <4>1
    <3> QED  BY <1>1, <2>1, <3>1
  <2>3. Words(x) = Words(y)
    BY <2>1, <2>2, SameWords
  <2> QED  BY <1>3, <1>4, <2>3 DEF x, y
<1>8. R \in Seq(Lines) /\ new = SubSeq(text, 1, i - 1) \o X \o R /\ new \in Texts
  <2>1. 1 <= i
    BY <1>4
  <2> HIDE DEF i, n
  <2> QED  BY <1>2, <1>4, <2>1, ReplacedIs
<1>9. Overlap(Words(edit.search), w) >= 8
  BY <1>5, SameOverlap
<1>10. /\ n \in 1..Len(edit.search)
       /\ R \in {SubSeq(text, i + n, Len(text)), WithoutEnd(SubSeq(text, i + n, Len(text)))}
       /\ Places(text, edit.search) = {} /\ Words(X) = Words(edit.by)
  BY <1>4
<1> HIDE DEF i, n, w, X, R, new
<1>11. InPlace(text, edit, new)
  BY <1>2, <1>4, <1>5, <1>6, <1>7, <1>8, <1>9, <1>10, InPlaceIs
<1> QED  BY <1>8, <1>11 DEF new, X, i, n

\* The fourth strategy: the line end of the text is lost, as those of the search
\* and of the replacement.
LEMMA FuzzyInPlace ==
  ASSUME NEW text \in Texts, NEW edit, edit.search \in Texts, edit.by \in Texts,
         NEW i \in FuzzyPlaces(text, edit.search)
  PROVE  LET new == AsText(Replaced(WithoutEnd(text), i, Len(WithoutEnd(edit.search)), WithoutEnd(edit.by)))
         IN new \in Texts /\ InPlace(text, edit, new)
<1> DEFINE lines == WithoutEnd(text)
           n == Len(WithoutEnd(edit.search))
           X == WithoutEnd(edit.by)
           R == SubSeq(lines, i + n, Len(lines))
           rest == SubSeq(text, i + n, Len(text))
           A == SubSeq(lines, 1, i - 1)
           w == Words(Block(lines, i, n))
<1>1. /\ text \in Seq(Lines) /\ text # <<>> /\ edit.search \in Seq(Lines) /\ edit.by \in Seq(Lines)
      /\ Len(text) \in Nat /\ Len(edit.search) \in Nat
      /\ \A k \in 1..Len(text) : text[k] \in Lines
  BY LenProperties DEF Texts
<1>2. /\ lines \in Seq(Lines) /\ X \in Seq(Lines) /\ Words(X) = Words(edit.by)
      /\ WithoutEnd(edit.search) \in Seq(Lines)
      /\ n \in Nat /\ n <= Len(edit.search) /\ Len(lines) \in Nat /\ Len(lines) <= Len(text)
  <2>1. n = Len(edit.search) \/ n = Len(edit.search) - 1
    BY <1>1, WithoutEndIs
  <2>2. Len(lines) = Len(text) \/ Len(lines) = Len(text) - 1
    BY <1>1, WithoutEndIs
  <2>3. lines \in Seq(Lines) /\ X \in Seq(Lines) /\ Words(X) = Words(edit.by) /\ WithoutEnd(edit.search) \in Seq(Lines)
    BY <1>1, WithoutEndIs
  <2>4. n \in Nat /\ Len(lines) \in Nat
    BY <2>3, LenProperties
  <2> HIDE DEF n, lines, X
  <2> QED  BY <1>1, <2>1, <2>2, <2>3, <2>4
<1>3. n # 0 /\ i \in 1..(Len(lines) + 1 - n) /\ Overlap(Words(edit.search), w) >= 8
  BY DEF FuzzyPlaces
<1>4. /\ n \in 1..Len(edit.search) /\ i \in Nat /\ 1 <= i /\ i \in 1..Len(text)
      /\ i + n <= Len(lines) + 1 /\ i + n <= Len(text) + 1 /\ i + n \in Nat /\ i - 1 \in Nat
      /\ i + n - 1 \in 1..Len(text) /\ i - 1 <= Len(lines)
  <2> HIDE DEF n, lines
  <2> QED  BY <1>1, <1>2, <1>3
<1>5. \/ lines = text
      \/ /\ text[Len(text)] = <<>> /\ Len(text) >= 1 /\ Len(lines) = Len(text) - 1
         /\ lines = SubSeq(text, 1, Len(text) - 1)
  BY <1>1, WithoutEndIs
<1>6. \A k \in 1..Len(lines) : lines[k] = text[k]
  <2>1. CASE lines = text
    BY <2>1
  <2>2. CASE lines = SubSeq(text, 1, Len(text) - 1) /\ Len(lines) = Len(text) - 1 /\ Len(text) >= 1
    <3>1. /\ Len(text) - 1 \in Nat /\ Len(text) - 1 <= Len(text)
          /\ (Len(text) - 1) - 1 + 1 = Len(text) - 1 /\ \A k \in 1..(Len(text) - 1) : 1 + k - 1 = k
      BY <1>1, <2>2
    <3>2. \A k \in 1..((Len(text) - 1) - 1 + 1) : SubSeq(text, 1, Len(text) - 1)[k] = text[1 + k - 1]
      BY <1>1, <3>1, Piece
    <3> QED  BY <2>2, <3>1, <3>2
  <2> QED  BY <1>5, <2>1, <2>2
<1>7. Block(lines, i, n) = Block(text, i, n) /\ A = SubSeq(text, 1, i - 1)
  <2> HIDE DEF lines, n
  <2>1. Block(lines, i, n) = Block(text, i, n)
    <3> DEFINE x == Block(lines, i, n)
               y == Block(text, i, n)
    <3>1. /\ x \in Seq(Lines) /\ Len(x) = n /\ \A k \in 1..n : x[k] = lines[i + k - 1]
          /\ y \in Seq(Lines) /\ Len(y) = n /\ \A k \in 1..n : y[k] = text[i + k - 1]
      <4>1. x \in Seq(Lines) /\ Len(x) = n /\ \A k \in 1..n : x[k] = lines[i + k - 1]
        BY <1>2, <1>4, BlockIs
      <4>2. y \in Seq(Lines) /\ Len(y) = n /\ \A k \in 1..n : y[k] = text[i + k - 1]
        BY <1>1, <1>2, <1>4, BlockIs
      <4> QED  BY <4>1, <4>2
    <3> HIDE DEF x, y
    <3>2. ASSUME NEW k \in 1..n PROVE x[k] = y[k]
      <4>1. n \in Nat /\ Len(lines) \in Nat /\ i \in Nat /\ 1 <= i /\ i + n <= Len(lines) + 1 /\ k \in 1..n
        BY <1>2, <1>4
      <4>2. i + k - 1 \in 1..Len(lines)
        BY ONLY <4>1
      <4>3. lines[i + k - 1] = text[i + k - 1]
        BY <1>6, <4>2
      <4>4. x[k] = lines[i + k - 1] /\ y[k] = text[i + k - 1]
        BY <3>1
      <4> QED  BY ONLY <4>3, <4>4
    <3> QED  BY <3>1, <3>2, SeqEqual DEF x, y
  <2>2. A = SubSeq(text, 1, i - 1)
    <3> DEFINE y == SubSeq(text, 1, i - 1)
    <3>0. i - 1 <= Len(text)
      BY <1>1, <1>4
    <3>1. /\ A \in Seq(Lines) /\ Len(A) = IF 1 <= i - 1 THEN i - 1 - 1 + 1 ELSE 0
          /\ \A k \in 1..(i - 1 - 1 + 1) : A[k] = lines[1 + k - 1]
      <4>1. lines \in Seq(Lines) /\ i - 1 \in Nat /\ i - 1 <= Len(lines)
        BY <1>2, <1>4
      <4>2. 1 \in Nat /\ 1 <= 1
        OBVIOUS
      <4> QED  BY ONLY <4>1, <4>2, Piece
    <3>2. /\ y \in Seq(Lines) /\ Len(y) = IF 1 <= i - 1 THEN i - 1 - 1 + 1 ELSE 0
          /\ \A k \in 1..(i - 1 - 1 + 1) : y[k] = text[1 + k - 1]
      <4>1. text \in Seq(Lines) /\ i - 1 \in Nat /\ i - 1 <= Len(text)
        BY <1>1, <1>4, <3>0
      <4>2. 1 \in Nat /\ 1 <= 1
        OBVIOUS
      <4> QED  BY ONLY <4>1, <4>2, Piece
    <3> HIDE DEF A, y
    <3>3. Len(A) = i - 1 /\ Len(y) = i - 1 /\ i - 1 - 1 + 1 = i - 1
      BY <1>4, <3>1, <3>2
    <3>4. ASSUME NEW k \in 1..Len(A) PROVE A[k] = y[k]
      <4>1. Len(lines) \in Nat /\ i \in Nat /\ 1 <= i /\ i - 1 <= Len(lines) /\ k \in 1..(i - 1)
        BY <1>2, <1>4, <3>3
      <4>2. k \in 1..(i - 1 - 1 + 1) /\ 1 + k - 1 = k /\ k \in 1..Len(lines)
        BY ONLY <4>1
      <4>3. A[k] = lines[1 + k - 1] /\ y[k] = text[1 + k - 1] /\ lines[k] = text[k]
        BY <1>6, <3>1, <3>2, <4>2
      <4> QED  BY ONLY <4>2, <4>3
    <3>5. A = y
      BY <3>1, <3>2, <3>3, <3>4, SeqEqual
    <3> QED  BY <3>5 DEF y
  <2> QED  BY <2>1, <2>2
<1>8. A \in Seq(Lines) /\ R \in Seq(Lines)
  <2> HIDE DEF lines, n
  <2>1. 1 <= i + n
    BY <1>4
  <2> QED  BY <1>2, <1>4, <2>1, Piece
<1>9. R \in {rest, WithoutEnd(rest)}
  <2>1. CASE lines = text
    BY <2>1
  <2>2. CASE lines = SubSeq(text, 1, Len(text) - 1) /\ Len(lines) = Len(text) - 1 /\ text[Len(text)] = <<>>
    <3> HIDE DEF n
    <3>1. i + n <= Len(text)
      BY <1>1, <1>4, <2>2
    <3> DEFINE l == Len(text) - (i + n) + 1
    <3>2. /\ rest \in Seq(Lines) /\ Len(rest) = l
          /\ \A k \in 1..l : rest[k] = text[i + n + k - 1]
      <4>1. /\ rest \in Seq(Lines) /\ Len(rest) = IF i + n <= Len(text) THEN Len(text) - (i + n) + 1 ELSE 0
            /\ \A k \in 1..(Len(text) - (i + n) + 1) : rest[k] = text[i + n + k - 1]
        <5>1. 1 <= i + n
          BY <1>4
        <5> DEFINE j == i + n
        <5>2. j \in Nat /\ 1 <= j
          BY <1>4, <5>1
        <5> HIDE DEF j
        <5>3. /\ SubSeq(text, j, Len(text)) \in Seq(Lines)
              /\ Len(SubSeq(text, j, Len(text))) = IF j <= Len(text) THEN Len(text) - j + 1 ELSE 0
              /\ \A k \in 1..(Len(text) - j + 1) : SubSeq(text, j, Len(text))[k] = text[j + k - 1]
          BY <1>1, <5>2, Piece
        <5> QED  BY <5>3 DEF j
      <4> QED  BY <3>1, <4>1
    <3>3. l \in Nat /\ l >= 1 /\ l \in 1..l /\ i + n + l - 1 = Len(text)
      BY <1>1, <1>4, <3>1
    <3> HIDE DEF rest, l
    <3>4. rest # <<>> /\ rest[Len(rest)] = <<>>
      BY <2>2, <3>2, <3>3, EmptySeq
    <3>5. WithoutEnd(rest) = SubSeq(rest, 1, l - 1)
      BY <3>2, <3>4 DEF WithoutEnd
    <3>6. /\ SubSeq(rest, 1, l - 1) \in Seq(Lines) /\ Len(SubSeq(rest, 1, l - 1)) = l - 1
          /\ \A k \in 1..(l - 1) : SubSeq(rest, 1, l - 1)[k] = rest[k]
      <4>1. l - 1 \in Nat /\ l - 1 <= Len(rest) /\ (l - 1) - 1 + 1 = l - 1 /\ \A k \in 1..(l - 1) : 1 + k - 1 = k
        BY <3>2, <3>3
      <4>2. /\ SubSeq(rest, 1, l - 1) \in Seq(Lines)
            /\ Len(SubSeq(rest, 1, l - 1)) = IF 1 <= l - 1 THEN (l - 1) - 1 + 1 ELSE 0
            /\ \A k \in 1..((l - 1) - 1 + 1) : SubSeq(rest, 1, l - 1)[k] = rest[1 + k - 1]
        BY <3>2, <4>1, Piece
      <4> QED  BY <4>1, <4>2
    <3>7. /\ Len(R) = l - 1 /\ \A k \in 1..(l - 1) : R[k] = text[i + n + k - 1]
      <4> DEFINE j == i + n
      <4>0. j \in Nat /\ 1 <= j /\ j <= Len(lines) + 1 /\ l = Len(text) - j + 1
        BY <1>4 DEF l
      <4>1. j \in Nat /\ 1 <= j /\ Len(lines) - j + 1 = l - 1 /\ (j <= Len(lines) \/ l - 1 = 0)
        <5>1. Len(lines) \in Nat /\ Len(text) \in Nat /\ Len(lines) = Len(text) - 1
          BY <1>1, <1>2, <2>2
        <5> HIDE DEF j, lines, l
        <5> QED  BY ONLY <4>0, <5>1
      <4> HIDE DEF j, lines
      <4>2. /\ Len(SubSeq(lines, j, Len(lines))) = IF j <= Len(lines) THEN Len(lines) - j + 1 ELSE 0
            /\ \A k \in 1..(Len(lines) - j + 1) : SubSeq(lines, j, Len(lines))[k] = lines[j + k - 1]
        BY <1>2, <4>1, Piece
      <4>3. Len(SubSeq(lines, j, Len(lines))) = l - 1
        BY <4>1, <4>2
      <4>4. ASSUME NEW k \in 1..(l - 1) PROVE SubSeq(lines, j, Len(lines))[k] = text[j + k - 1]
        <5>1. j + k - 1 \in 1..Len(lines)
          BY <1>2, <3>3, <4>1
        <5> QED  BY <1>6, <4>1, <4>2, <5>1
      <4> QED  BY <4>3, <4>4 DEF j
    <3>8. R = SubSeq(rest, 1, l - 1)
      <4> DEFINE y == SubSeq(rest, 1, l - 1)
      <4>1. ASSUME NEW k \in 1..(l - 1) PROVE R[k] = y[k]
        <5>1. k \in 1..l
          BY <3>3
        <5>2. y[k] = rest[k]
          BY <3>6
        <5>3. rest[k] = text[i + n + k - 1]
          BY <3>2, <5>1
        <5>4. R[k] = text[i + n + k - 1]
          BY <3>7
        <5> QED  BY <5>2, <5>3, <5>4
      <4>2. y \in Seq(Lines) /\ Len(y) = l - 1 /\ Len(R) = l - 1
        BY <3>6, <3>7
      <4> HIDE DEF y, R
      <4>3. R = y
        BY <1>8, <4>1, <4>2, SeqEqual
      <4> QED  BY <4>3 DEF y
    <3> QED  BY <3>5, <3>8
  <2> QED  BY <1>5, <2>1, <2>2
<1> DEFINE joined == A \o X \o R
           new == AsText(joined)
<1>10. Replaced(lines, i, n, X) = joined
  BY DEF Replaced
<1>11. WordSeqs = Seq(Vocabulary) /\ <<>> \in WordSeqs /\ w \in WordSeqs /\ Words(edit.by) \in WordSeqs
  <2>1. Block(lines, i, n) \in Seq(Lines)
    <3> HIDE DEF lines, n
    <3> QED  BY <1>2, <1>4, BlockIs
  <2> QED  BY <1>1, <2>1, WordsType, EmptySeq DEF WordSeqs
<1>12. Words(Block(text, i, n)) = <<>> \o w \o <<>>
  <2>1. Words(Block(text, i, n)) = w
    BY <1>7
  <2> HIDE DEF w
  <2>2. <<>> \o w \o <<>> = w
    BY <1>11, ConcatEmptySeq
  <2> QED  BY <2>1, <2>2
<1>13. \A x \in WordSeqs : <<>> \o x \o <<>> = x
  BY <1>11, ConcatEmptySeq
<1>14. Len(LineWords(text[i])) \in Nat /\ Len(LineWords(text[i + n - 1])) \in Nat /\ Len(<<>>) = 0
  <2>1. LineWords(text[i]) \in Seq(Vocabulary) /\ LineWords(text[i + n - 1]) \in Seq(Vocabulary)
    BY <1>1, <1>4, LineWordsType DEF WordSeqs
  <2> QED  BY <2>1, LenProperties, EmptySeq
<1> HIDE DEF lines, n, X, R, rest, A, w
<1>15. joined \in Seq(Lines)
  <2>1. A \in Seq(Lines) /\ X \in Seq(Lines) /\ R \in Seq(Lines)
    BY <1>2, <1>8
  <2> QED  BY ONLY <2>1, ThreeParts
<1>16. CASE joined # <<>>
  <2>1. new = joined /\ new \in Texts
    BY <1>15, <1>16 DEF AsText, Texts
  <2>2. Words(X) = <<>> \o Words(edit.by) \o <<>>
    BY <1>2, <1>11, <1>13
  <2>3. /\ new = SubSeq(text, 1, i - 1) \o X \o R
        /\ R \in {SubSeq(text, i + n, Len(text)), WithoutEnd(SubSeq(text, i + n, Len(text)))}
    BY <1>7, <1>9, <2>1 DEF rest
  <2>4. Len(<<>>) <= Len(LineWords(text[i])) /\ Len(<<>>) <= Len(LineWords(text[i + n - 1]))
    BY <1>14
  <2> HIDE DEF new
  <2>5. InPlace(text, edit, new)
    BY <1>2, <1>3, <1>4, <1>8, <1>11, <1>12, <2>2, <2>3, <2>4, InPlaceIs
  <2> QED  BY <1>10, <2>1, <2>5 DEF new, lines, n, X
\* Where no line is open there is one without words.
<1>17. CASE joined = <<>>
  <2>1. new = Empty /\ new \in Texts
    BY <1>17, EmptyIs DEF AsText
  <2>2. A = <<>> /\ X = <<>> /\ R = <<>>
    <3>1. Len(A) \in Nat /\ Len(X) \in Nat /\ Len(R) \in Nat
      BY <1>2, <1>8, LenProperties
    <3>2. Len(joined) = Len(A) + Len(X) + Len(R) /\ Len(joined) = 0
      <4>1. A \in Seq(Lines) /\ X \in Seq(Lines) /\ R \in Seq(Lines)
        BY <1>2, <1>8
      <4>2. Len(joined) = Len(A) + Len(X) + Len(R)
        BY ONLY <4>1, ThreeParts
      <4> QED  BY <1>17, <4>2, EmptySeq
    <3>3. Len(A) = 0 /\ Len(X) = 0 /\ Len(R) = 0
      BY ONLY <3>1, <3>2
    <3> QED  BY <1>2, <1>8, <3>3, EmptySeq
  <2> DEFINE Y == Empty
  <2>3. Y \in Seq(Lines) /\ Words(Y) = <<>> /\ new = <<>> \o Y \o <<>>
    <3>1. Y \in Seq(Lines) /\ Words(Y) = <<>>
      BY EmptyIs DEF Texts
    <3>2. <<>> \o Y \o <<>> = Y
      <4> HIDE DEF Y
      <4> QED  BY <3>1, ConcatEmptySeq
    <3> QED  BY <2>1, <3>1, <3>2
  <2>4. Words(Y) = <<>> \o Words(edit.by) \o <<>>
    <3>1. Words(edit.by) = <<>>
      BY <1>2, <2>2, NoWords
    <3> QED  BY <1>11, <1>13, <2>3, <3>1
  <2> HIDE DEF new, Y, joined
  <2>5. new = SubSeq(text, 1, i - 1) \o Y \o R
    BY <1>7, <2>2, <2>3
  <2>6. R \in {SubSeq(text, i + n, Len(text)), WithoutEnd(SubSeq(text, i + n, Len(text)))}
    BY <1>9 DEF rest
  <2>7. Len(<<>>) <= Len(LineWords(text[i])) /\ Len(<<>>) <= Len(LineWords(text[i + n - 1]))
    BY <1>14
  <2>8. InPlace(text, edit, new)
    <3>1. Y \in Seq(Lines)
      BY <2>3
    <3> QED  BY <1>3, <1>4, <1>8, <1>11, <1>12, <2>4, <2>5, <2>6, <2>7, <3>1, InPlaceIs
  <2> QED  BY <1>10, <2>1, <2>8 DEF new, lines, n, X
<1> QED  BY <1>16, <1>17

\* Whichever strategy finds an edit, it is in place.
LEMMA EditApplied ==
  ASSUME NEW text \in Texts, NEW edit, edit.search \in Texts, edit.by \in Texts
  PROVE  LET made == ApplySingleEdit(text, edit.search, edit.by)
         IN made.found => made.text \in Texts /\ InPlace(text, edit, made.text)
<1> DEFINE search == edit.search
           by == edit.by
           exact == Places(text, search)
           near == Places(Normal(text), Normal(search))
           long == Len(Words(search)) >= LongSearch
           inside == IF long THEN Places(text, Trimmed(search)) ELSE {}
           fuzzy == IF long THEN FuzzyPlaces(text, search) ELSE {}
           made == ApplySingleEdit(text, search, by)
<1>0. ASSUME NEW t \in Texts, NEW s \in Texts, Places(t, s) # {}
      PROVE  FirstPlace(Places(t, s)) \in Places(t, s)
  <2>1. \A p \in Places(t, s) : p[1] \in Nat /\ p[2] \in Nat
    BY PlaceIs
  <2> QED  BY <1>0, <2>1, FirstPlaceIsIn
<1>1. CASE exact # {}
  <2> DEFINE new == Spliced(text, FirstPlace(exact), search, by)
  <2>1. made = Found(new)
    BY <1>1 DEF ApplySingleEdit
  <2>2. Len(search) \in 1..Len(search)
    <3>1. search \in Seq(Lines) /\ search # <<>>
      BY DEF Texts
    <3>2. Len(search) \in Nat /\ Len(search) # 0
      BY <3>1, LenProperties, EmptySeq
    <3> QED  BY <3>2
  <2>3. FirstPlace(exact) \in Places(text, search)
    BY <1>0, <1>1
  <2>4. new \in Texts /\ InPlace(text, edit, new)
    BY <2>2, <2>3, SplicedInPlace
  <2> HIDE DEF new, made
  <2> QED  BY <2>1, <2>4 DEF Found, made
<1>2. CASE exact = {} /\ near # {}
  <2> DEFINE new == Replaced(text, FirstPlace(near)[1], Len(search), by)
  <2>1. made = Found(new)
    BY <1>2 DEF ApplySingleEdit
  <2>2. FirstPlace(near) \in Places(Normal(text), Normal(search))
    BY <1>0, <1>2, NormalWords
  <2>3. new \in Texts /\ InPlace(text, edit, new)
    BY <1>2, <2>2, NearInPlace
  <2> HIDE DEF new, made
  <2> QED  BY <2>1, <2>3 DEF Found, made
<1>3. CASE exact = {} /\ near = {} /\ inside # {}
  <2> DEFINE new == Spliced(text, FirstPlace(inside), Trimmed(search), Trimmed(by))
  <2>1. made = Found(new)
    BY <1>3 DEF ApplySingleEdit
  <2>2. inside = Places(text, Trimmed(search))
    BY <1>3
  <2>3. /\ Trimmed(search) \in Texts /\ Len(Trimmed(search)) \in 1..Len(search)
        /\ Words(Trimmed(search)) = Words(search)
        /\ Trimmed(by) \in Texts /\ Words(Trimmed(by)) = Words(by)
    BY TrimmedIs
  <2>4. FirstPlace(inside) \in Places(text, Trimmed(search))
    <3> HIDE DEF inside
    <3> QED  BY <1>0, <1>3, <2>2, <2>3
  <2>5. new \in Texts /\ InPlace(text, edit, new)
    <3> HIDE DEF inside
    <3> QED  BY <2>3, <2>4, SplicedInPlace
  <2> HIDE DEF new, made
  <2> QED  BY <2>1, <2>5 DEF Found, made
<1>4. CASE exact = {} /\ near = {} /\ inside = {} /\ fuzzy # {}
  <2> DEFINE new == AsText(Replaced(WithoutEnd(text), Lowest(fuzzy), Len(WithoutEnd(search)), WithoutEnd(by)))
  <2>1. made = Found(new)
    BY <1>4 DEF ApplySingleEdit
  <2>2. fuzzy = FuzzyPlaces(text, search)
    BY <1>4
  <2>3. fuzzy \subseteq Nat
    <3> HIDE DEF fuzzy
    <3> QED  BY <2>2 DEF FuzzyPlaces
  <2>4. Lowest(fuzzy) \in FuzzyPlaces(text, search)
    <3> HIDE DEF fuzzy
    <3> QED  BY <1>4, <2>2, <2>3, LowestIsIn
  <2>5. new \in Texts /\ InPlace(text, edit, new)
    <3> HIDE DEF fuzzy
    <3> QED  BY <2>4, FuzzyInPlace
  <2> HIDE DEF new, made
  <2> QED  BY <2>1, <2>5 DEF Found, made
<1>5. CASE exact = {} /\ near = {} /\ inside = {} /\ fuzzy = {}
  <2>1. made = NotFound
    BY <1>5 DEF ApplySingleEdit
  <2> QED  BY <2>1 DEF NotFound
<1> HIDE DEF exact, near, inside, fuzzy, made
<1> QED  BY <1>1, <1>2, <1>3, <1>4, <1>5

(***************************************************************************)
(* The edits of a file, one after the other                                *)
(***************************************************************************)
Stages == [text : Texts, applied : Nat]

AfterEdit(was, edit) ==
  LET made == ApplySingleEdit(was.text, edit.search, edit.by)
  IN IF edit.search # Empty /\ made.found
     THEN [text |-> made.text, applied |-> was.applied + 1] ELSE was

\* One edit leaves the text as it is or is in place.
LEMMA AfterEditIs ==
  ASSUME NEW was \in Stages, NEW edit \in [search : Texts, by : Texts]
  PROVE  /\ AfterEdit(was, edit) \in Stages
         /\ \/ AfterEdit(was, edit).text = was.text
            \/ InPlace(was.text, edit, AfterEdit(was, edit).text)
<1> DEFINE made == ApplySingleEdit(was.text, edit.search, edit.by)
<1>1. was.text \in Texts /\ was.applied \in Nat /\ edit.search \in Texts /\ edit.by \in Texts
  BY DEF Stages
<1>2. made.found => made.text \in Texts /\ InPlace(was.text, edit, made.text)
  BY <1>1, EditApplied
<1> HIDE DEF made
<1>3. CASE edit.search # Empty /\ made.found
  <2>1. AfterEdit(was, edit) = [text |-> made.text, applied |-> was.applied + 1]
    BY <1>3 DEF AfterEdit, made
  <2> QED  BY <1>1, <1>2, <1>3, <2>1 DEF Stages
<1>4. CASE ~(edit.search # Empty /\ made.found)
  <2>1. AfterEdit(was, edit) = was
    BY <1>4 DEF AfterEdit, made
  <2> QED  BY <2>1
<1> QED  BY <1>3, <1>4

\* The file after each of the edits.
IsEdited(f, text, edits) ==
  /\ f \in [0..Len(edits) -> Stages]
  /\ f[0] = [text |-> text, applied |-> 0]
  /\ \A k \in 1..Len(edits) : f[k] = AfterEdit(f[k - 1], edits[k])
  /\ Edited(text, edits) = f[Len(edits)]

\* There are such texts for all edits.
LEMMA EditedUnfolds ==
  ASSUME NEW text \in Texts, NEW edits \in EditLists
  PROVE  \E f : IsEdited(f, text, edits)
<1> DEFINE n == Len(edits)
           V == Stages
           IsUpto(f) == f = [k \in 0..n |->
             IF k = 0 THEN [text |-> text, applied |-> 0]
             ELSE LET was == f[k - 1]
                      edit == ApplySingleEdit(was.text, edits[k].search, edits[k].by)
                  IN IF edits[k].search # Empty /\ edit.found
                     THEN [text |-> edit.text, applied |-> was.applied + 1] ELSE was]
           Next(was, k) == AfterEdit(was, edits[k])
           folds == [k \in 1..n |-> [was \in V |-> Next(was, k)]]
<1>1. n \in Nat /\ \A k \in 1..n : edits[k] \in [search : Texts, by : Texts]
  BY LenProperties DEF EditLists
<1>2. [text |-> text, applied |-> 0] \in V
  BY DEF Stages
<1>3. \A k \in 1..n, was \in V : Next(was, k) \in V
  <2> SUFFICES ASSUME NEW k \in 1..n, NEW was \in V PROVE Next(was, k) \in V
    OBVIOUS
  <2>1. edits[k] \in [search : Texts, by : Texts]
    BY <1>1
  <2> QED  BY <2>1, AfterEditIs DEF Stages
<1>4. folds \in [1..n -> [V -> V]]
  <2> HIDE DEF Next, n, V
  <2> QED  BY <1>3
<1>5. PICK g : IsFold(g, n, V, [text |-> text, applied |-> 0], folds)
  <2> HIDE DEF n, folds, V
  <2> QED  BY <1>1, <1>2, <1>4, FoldExists
<1>6. /\ g \in [0..n -> V] /\ g[0] = [text |-> text, applied |-> 0]
      /\ \A k \in 1..n : g[k] = Next(g[k - 1], k)
  <2>1. ASSUME NEW k \in 1..n PROVE g[k] = folds[k][g[k - 1]] /\ g[k - 1] \in V
    <3>1. k - 1 \in 0..n
      BY <1>1
    <3> HIDE DEF V, folds
    <3> QED  BY <1>5, <3>1 DEF IsFold
  <2> HIDE DEF Next, n, V
  <2> QED  BY <1>5, <2>1 DEF IsFold
<1>7. IsUpto(g)
  <2>1. \A k \in 0..n : k = 0 \/ k \in 1..n
    BY <1>1
  <2>2. g = [k \in 0..n |-> IF k = 0 THEN [text |-> text, applied |-> 0] ELSE Next(g[k - 1], k)]
    <3> HIDE DEF Next, n, V
    <3> QED  BY <1>6, <2>1
  <2> HIDE DEF n
  <2> QED  BY ONLY <2>2 DEF AfterEdit
<1> DEFINE f == CHOOSE h : IsUpto(h)
<1>8. IsUpto(f)
  <2> HIDE DEF IsUpto
  <2> QED  BY <1>7
<1>9. Edited(text, edits) = f[n]
  BY DEF Edited
<1> HIDE DEF f
<1>10. f[0] = [text |-> text, applied |-> 0] /\ \A k \in 1..n : f[k] = Next(f[k - 1], k)
  <2>1. f = [k \in 0..n |-> IF k = 0 THEN [text |-> text, applied |-> 0] ELSE Next(f[k - 1], k)]
    BY ONLY <1>8 DEF AfterEdit
  <2>2. 0 \in 0..n /\ \A k \in 1..n : k \in 0..n /\ k # 0
    BY <1>1
  <2> HIDE DEF n, Next
  <2> QED  BY <2>1, <2>2
<1>11. \A k \in 0..n : f[k] \in V
  <2> DEFINE T == {i \in Nat : i <= n => f[i] \in V}
  <2>1. 0 \in T
    BY <1>2, <1>10
  <2>2. ASSUME NEW k \in Nat, k \in T, k + 1 <= n PROVE f[k + 1] \in V
    <3>1. k + 1 \in 1..n /\ (k + 1) - 1 = k /\ f[k] \in V
      BY <1>1, <2>2
    <3>2. f[k + 1] = Next(f[k], k + 1)
      <4> HIDE DEF Next, n, V
      <4> QED  BY <1>10, <3>1
    <3> HIDE DEF Next, n, V
    <3> QED  BY <1>3, <3>1, <3>2
  <2>3. \A k \in Nat : k \in T => k + 1 \in T
    BY <2>2
  <2> HIDE DEF T
  <2>4. Nat \subseteq T
    BY <2>1, <2>3, Induction
  <2> QED  BY <1>1, <2>4 DEF T
<1>12. f \in [0..n -> V]
  <2>1. f = [k \in 0..n |-> IF k = 0 THEN [text |-> text, applied |-> 0] ELSE Next(f[k - 1], k)]
    BY ONLY <1>8 DEF AfterEdit
  <2> HIDE DEF n, Next, V
  <2> QED  BY <1>11, <2>1
<1>13. IsEdited(f, text, edits)
  BY <1>9, <1>10, <1>12 DEF IsEdited
<1> QED  BY <1>13

\* The first edits decide what the file is after them.
LEMMA EditedAgree ==
  ASSUME NEW text, NEW a \in EditLists, NEW b \in EditLists, NEW f, NEW g,
         IsEdited(f, text, a), IsEdited(g, text, b),
         NEW m \in Nat, m <= Len(a), m <= Len(b), \A k \in 1..m : a[k] = b[k]
  PROVE  f[m] = g[m]
<1> DEFINE T == {i \in Nat : i <= m => f[i] = g[i]}
<1>0. Len(a) \in Nat /\ Len(b) \in Nat
  BY LenProperties DEF EditLists
<1>1. 0 \in T
  BY DEF IsEdited
<1>2. ASSUME NEW k \in Nat, k \in T, k + 1 <= m PROVE f[k + 1] = g[k + 1]
  <2>1. k + 1 \in 1..m /\ k + 1 \in 1..Len(a) /\ k + 1 \in 1..Len(b) /\ (k + 1) - 1 = k /\ f[k] = g[k]
    BY <1>0, <1>2
  <2>2. a[k + 1] = b[k + 1]
    BY <2>1
  <2>3. f[k + 1] = AfterEdit(f[k], a[k + 1])
    BY <2>1 DEF IsEdited
  <2>4. g[k + 1] = AfterEdit(g[k], b[k + 1])
    BY <2>1 DEF IsEdited
  <2> QED  BY <2>1, <2>2, <2>3, <2>4
<1>3. \A k \in Nat : k \in T => k + 1 \in T
  BY <1>2
<1> HIDE DEF T
<1>4. m \in T
  BY <1>1, <1>3, Induction
<1> QED  BY <1>4 DEF T

\* Every edit leaves the text as it is or is in place.
LEMMA EditsInPlace ==
  ASSUME NEW text \in Texts, NEW edits \in EditLists
  PROVE  LET Text(j) == Edited(text, SubSeq(edits, 1, j)).text
         IN /\ Text(Len(edits)) = Edited(text, edits).text
            /\ \A j \in 1..Len(edits) :
                 Text(j) = Text(j - 1) \/ InPlace(Text(j - 1), edits[j], Text(j))
<1> DEFINE n == Len(edits)
           Part(j) == SubSeq(edits, 1, j)
           S == [search : Texts, by : Texts]
<1>1. edits \in Seq(S) /\ n \in Nat /\ \A k \in 1..n : edits[k] \in S
  BY LenProperties DEF EditLists
<1>2. PICK f : IsEdited(f, text, edits)
  BY EditedUnfolds
<1>3. ASSUME NEW j \in 0..n PROVE Edited(text, Part(j)) = f[j]
  <2>1. j \in Nat /\ j <= n
    BY <1>1
  <2>2. Part(j) \in Seq(S) /\ Len(Part(j)) = j /\ \A k \in 1..j : Part(j)[k] = edits[k]
    <3> HIDE DEF S
    <3>1. /\ SubSeq(edits, 1, j) \in Seq(S)
          /\ Len(SubSeq(edits, 1, j)) = IF 1 <= j THEN j - 1 + 1 ELSE 0
          /\ \A k \in 1..(j - 1 + 1) : SubSeq(edits, 1, j)[k] = edits[1 + k - 1]
      BY <1>1, <2>1, Piece
    <3>2. j - 1 + 1 = j /\ (~(1 <= j) => j = 0) /\ \A k \in 1..j : 1 + k - 1 = k
      BY <2>1
    <3> QED  BY <3>1, <3>2
  <2>3. Part(j) \in EditLists
    BY <2>2 DEF EditLists
  <2> HIDE DEF Part
  <2>4. PICK g : IsEdited(g, text, Part(j))
    BY <2>3, EditedUnfolds
  <2>5. g[j] = f[j]
    <3>1. j <= Len(Part(j)) /\ j <= Len(edits)
      BY <2>1, <2>2
    <3>2. edits \in EditLists /\ \A k \in 1..j : Part(j)[k] = edits[k]
      BY <2>2
    <3> QED  BY ONLY <1>2, <2>1, <2>3, <2>4, <3>1, <3>2, EditedAgree
  <2> QED  BY <2>2, <2>4, <2>5 DEF IsEdited
<1>4. Edited(text, Part(n)).text = Edited(text, edits).text
  <2>1. n \in 0..n
    BY <1>1
  <2>2. Edited(text, Part(n)) = f[n]
    BY <1>3, <2>1
  <2> QED  BY <1>2, <2>2 DEF IsEdited
<1>5. ASSUME NEW j \in 1..n
      PROVE  \/ Edited(text, Part(j)).text = Edited(text, Part(j - 1)).text
             \/ InPlace(Edited(text, Part(j - 1)).text, edits[j], Edited(text, Part(j)).text)
  <2>1. j \in 0..n /\ j - 1 \in 0..n
    BY <1>1
  <2>2. Edited(text, Part(j)) = f[j] /\ Edited(text, Part(j - 1)) = f[j - 1]
    BY <1>3, <2>1
  <2>3. f[j - 1] \in Stages /\ f[j] = AfterEdit(f[j - 1], edits[j])
    BY <1>2, <2>1 DEF IsEdited
  <2>4. edits[j] \in [search : Texts, by : Texts]
    BY <1>1
  <2>5. f[j].text = f[j - 1].text \/ InPlace(f[j - 1].text, edits[j], f[j].text)
    BY <2>3, <2>4, AfterEditIs
  <2> HIDE DEF Part
  <2> QED  BY <2>2, <2>5
<1> QED  BY <1>4, <1>5

(***************************************************************************)
(* The changes that an answer comes to                                     *)
(***************************************************************************)
\* What can be said of a change: where it is, and where what it has comes from.
Made(reply) == {FromItem(reply.form, reply.items[m])[1] :
                  m \in {l \in 1..Len(reply.items) : FromItem(reply.form, reply.items[l]) # <<>>}}

\* A change of a known file is what the edits of an item make of the file.
IsOfItems(change, reply) ==
  /\ change.path \in DOMAIN Importers
  /\ change.known =>
       \E m \in 1..Len(reply.items) :
         /\ reply.items[m].path = change.path /\ change.path \in DOMAIN Sources
         /\ change.old = Sources[change.path]
         /\ change.new = Edited(Sources[change.path], reply.items[m].edits).text

\* What an item comes to is of the items.
LEMMA FromItemIs ==
  ASSUME NEW reply, reply.items \in Seq(Items), NEW m \in 1..Len(reply.items)
  PROVE  /\ FromItem(reply.form, reply.items[m]) \in Seq(Made(reply))
         /\ FromItem(reply.form, reply.items[m]) # <<>> => IsOfItems(FromItem(reply.form, reply.items[m])[1], reply)
<1> DEFINE item == reply.items[m]
           from == FromItem(reply.form, item)
<1>0. item \in Items
  BY ElementOfSeq
<1>1. item \in Items /\ item.path \in DOMAIN Importers
  <2> HIDE DEF item
  <2> QED  BY <1>0 DEF Items
<1>2. from = <<>> \/ \E change : from = <<change>> /\ IsOfItems(change, reply)
  <2>1. ASSUME NEW isNew PROVE IsOfItems(Change(item.path, FALSE, <<>>, item.text, isNew), reply)
    BY <1>1 DEF IsOfItems, Change
  <2>2. IsOfItems(Change(item.path, TRUE, Sources[item.path], Edited(Sources[item.path], item.edits).text, FALSE), reply)
        \/ item.path \notin DOMAIN Sources
    BY <1>1 DEF IsOfItems, Change
  <2> QED  BY <2>1, <2>2 DEF FromItem
<1>3. CASE from = <<>>
  <2>1. <<>> \in Seq(Made(reply))
    BY EmptySeq
  <2> HIDE DEF from
  <2> QED  BY <1>3, <2>1 DEF from
<1>4. CASE from # <<>>
  <2>1. PICK change : from = <<change>> /\ IsOfItems(change, reply)
    BY <1>2, <1>4
  <2>2. from[1] = change
    <3> HIDE DEF from
    <3> QED  BY <2>1
  <2>3. from[1] \in Made(reply)
    BY <1>4 DEF Made
  <2>4. <<change>> \in Seq(Made(reply))
    <3> HIDE DEF from
    <3> QED  BY <2>2, <2>3
  <2> HIDE DEF from
  <2> QED  BY <2>1, <2>2, <2>4 DEF from
<1> QED  BY <1>3, <1>4

\* All changes that come of an answer are of its items.
LEMMA MadeIs ==
  ASSUME NEW reply, reply.items \in Seq(Items), NEW change \in Made(reply)
  PROVE  IsOfItems(change, reply)
BY FromItemIs DEF Made

\* The changes after each of the items.
IsParsed(f, reply) ==
  /\ f \in [0..Len(reply.items) -> Seq(Made(reply))]
  /\ AllChanges(reply) = f[Len(reply.items)]

\* There are such changes for every answer.
LEMMA ParsedUnfolds ==
  ASSUME NEW reply, reply.items \in Seq(Items)
  PROVE  \E f : IsParsed(f, reply)
<1> DEFINE n == Len(reply.items)
           V == Seq(Made(reply))
           IsUpto(f) == f = [k \in 0..n |->
             IF k = 0 THEN <<>>
             ELSE f[k - 1] \o FromItem(reply.form, reply.items[k])]
           Next(was, k) == was \o FromItem(reply.form, reply.items[k])
           folds == [k \in 1..n |-> [was \in V |-> Next(was, k)]]
<1>1. n \in Nat
  BY LenProperties
<1>2. <<>> \in V
  BY EmptySeq
<1>3. \A k \in 1..n, was \in V : Next(was, k) \in V
  <2> SUFFICES ASSUME NEW k \in 1..n, NEW was \in V PROVE Next(was, k) \in V
    OBVIOUS
  <2>1. FromItem(reply.form, reply.items[k]) \in V
    BY FromItemIs
  <2> QED  BY <2>1, ConcatProperties
<1>4. folds \in [1..n -> [V -> V]]
  <2> HIDE DEF Next, n, V
  <2> QED  BY <1>3
<1>5. PICK g : IsFold(g, n, V, <<>>, folds)
  <2> HIDE DEF n, folds, V
  <2> QED  BY <1>1, <1>2, <1>4, FoldExists
<1>6. /\ g \in [0..n -> V] /\ g[0] = <<>>
      /\ \A k \in 1..n : g[k] = Next(g[k - 1], k)
  <2>1. ASSUME NEW k \in 1..n PROVE g[k] = folds[k][g[k - 1]] /\ g[k - 1] \in V
    <3>1. k - 1 \in 0..n
      BY <1>1
    <3> HIDE DEF V, folds
    <3> QED  BY <1>5, <3>1 DEF IsFold
  <2> HIDE DEF Next, n, V
  <2> QED  BY <1>5, <2>1 DEF IsFold
<1>7. IsUpto(g)
  <2>1. \A k \in 0..n : k = 0 \/ k \in 1..n
    BY <1>1
  <2>2. g = [k \in 0..n |-> IF k = 0 THEN <<>> ELSE Next(g[k - 1], k)]
    <3> HIDE DEF Next, n, V
    <3> QED  BY <1>6, <2>1
  <2> HIDE DEF n
  <2> QED  BY ONLY <2>2
<1> DEFINE f == CHOOSE h : IsUpto(h)
<1>8. IsUpto(f)
  <2> HIDE DEF IsUpto
  <2> QED  BY <1>7
<1>9. AllChanges(reply) = f[n]
  BY DEF AllChanges
<1> HIDE DEF f
<1>10. f[0] = <<>> /\ \A k \in 1..n : f[k] = Next(f[k - 1], k)
  <2>1. f = [k \in 0..n |-> IF k = 0 THEN <<>> ELSE Next(f[k - 1], k)]
    BY ONLY <1>8
  <2>2. 0 \in 0..n /\ \A k \in 1..n : k \in 0..n /\ k # 0
    BY <1>1
  <2> HIDE DEF n, Next
  <2> QED  BY <2>1, <2>2
<1>11. \A k \in 0..n : f[k] \in V
  <2> DEFINE T == {i \in Nat : i <= n => f[i] \in V}
  <2>1. 0 \in T
    BY <1>2, <1>10
  <2>2. ASSUME NEW k \in Nat, k \in T, k + 1 <= n PROVE f[k + 1] \in V
    <3>1. k + 1 \in 1..n /\ (k + 1) - 1 = k /\ f[k] \in V
      BY <1>1, <2>2
    <3>2. f[k + 1] = Next(f[k], k + 1)
      <4> HIDE DEF Next, n, V
      <4> QED  BY <1>10, <3>1
    <3> HIDE DEF Next, n, V
    <3> QED  BY <1>3, <3>1, <3>2
  <2>3. \A k \in Nat : k \in T => k + 1 \in T
    BY <2>2
  <2> HIDE DEF T
  <2>4. Nat \subseteq T
    BY <2>1, <2>3, Induction
  <2> QED  BY <1>1, <2>4 DEF T
<1>12. f \in [0..n -> V]
  <2>1. f = [k \in 0..n |-> IF k = 0 THEN <<>> ELSE Next(f[k - 1], k)]
    BY ONLY <1>8
  <2> HIDE DEF n, Next, V
  <2> QED  BY <1>11, <2>1
<1>13. IsParsed(f, reply)
  BY <1>9, <1>10, <1>12 DEF IsParsed
<1> QED  BY <1>13

\* What is read of an answer comes of its items.
LEMMA ParseChangesIs ==
  ASSUME NEW reply, reply.items \in Seq(Items)
  PROVE  ParseChanges(reply) \in Seq(Made(reply))
<1> DEFINE all == AllChanges(reply)
<1>1. all \in Seq(Made(reply))
  <2>1. PICK f : IsParsed(f, reply)
    BY ParsedUnfolds
  <2>2. Len(reply.items) \in 0..Len(reply.items)
    BY LenProperties
  <2> QED  BY <2>1, <2>2 DEF IsParsed
<1> HIDE DEF all
<1>2. CASE reply.form = "changes" /\ Len(all) > MaxChanges
  <2>1. MaxChanges \in Nat
    BY GeneratorAssumption
  <2>2. Len(all) \in Nat
    BY <1>1, LenProperties
  <2>3. \A i \in 1..MaxChanges : i \in 1..Len(all) /\ all[i] \in Made(reply)
    BY <1>1, <1>2, <2>1, <2>2, ElementOfSeq
  <2>4. SubSeq(all, 1, MaxChanges) \in Seq(Made(reply))
    BY <1>1, <1>2, <2>1, <2>2, <2>3, SubSeqProperties
  <2> QED  BY <1>2, <2>4 DEF ParseChanges, Truncated, all
<1>3. CASE ~(reply.form = "changes" /\ Len(all) > MaxChanges)
  BY <1>1, <1>3 DEF ParseChanges, Truncated, all
<1> QED  BY <1>2, <1>3

(***************************************************************************)
(* The order of the changes                                                *)
(***************************************************************************)
Earlier(changes, i, j) ==
  \/ Importers[changes[i].path] < Importers[changes[j].path]
  \/ Importers[changes[i].path] = Importers[changes[j].path] /\ i <= j

AfterOrder(changes, was) ==
  LET open == {i \in 1..Len(changes) : \A m \in 1..Len(was) : was[m].path # changes[i].path}
  IN IF open = {} THEN was
     ELSE Append(was, changes[CHOOSE i \in open : \A j \in open : Earlier(changes, i, j)])

\* There is a first of the changes that are left.
LEMMA EarliestIsIn ==
  ASSUME NEW changes, Len(changes) \in Nat, NEW open, open \subseteq 1..Len(changes), open # {},
         \A k \in 1..Len(changes) : changes[k].path \in DOMAIN Importers
  PROVE  (CHOOSE i \in open : \A j \in open : Earlier(changes, i, j)) \in open
<1> DEFINE A == {Importers[changes[i].path] : i \in open}
<1>1. \A i \in open : i \in Nat /\ Importers[changes[i].path] \in Nat
  BY GeneratorAssumption
<1>2. PICK a \in A : \A b \in A : a <= b
  <2>1. A \subseteq Nat /\ A # {}
    BY <1>1
  <2> HIDE DEF A
  <2> QED  BY <2>1, Least
<1> DEFINE Q == {i \in open : Importers[changes[i].path] = a}
<1>3. PICK i \in Q : \A j \in Q : i <= j
  <2>1. PICK i \in open : Importers[changes[i].path] = a
    BY <1>2
  <2>2. Q \subseteq Nat /\ Q # {}
    BY <1>1, <2>1
  <2> HIDE DEF Q
  <2> QED  BY <2>2, Least
<1>4. ASSUME NEW j \in open PROVE Earlier(changes, i, j)
  <2>1. a <= Importers[changes[j].path] /\ a \in Nat /\ Importers[changes[j].path] \in Nat
    BY <1>1, <1>2
  <2>2. Importers[changes[j].path] = a => i <= j
    BY <1>3
  <2> QED  BY <1>3, <2>1, <2>2 DEF Earlier
<1>5. i \in open
  BY <1>3
<1> QED  BY <1>4, <1>5

Distinct(changes) == \A j, k \in 1..Len(changes) : j # k => changes[j].path # changes[k].path

\* A change is put behind the others only if its path is not there yet.
LEMMA AfterOrderIs ==
  ASSUME NEW S, NEW changes \in Seq(S), NEW was \in Seq(S),
         \A k \in 1..Len(changes) : changes[k].path \in DOMAIN Importers
  PROVE  AfterOrder(changes, was) \in Seq(S) /\ (Distinct(was) => Distinct(AfterOrder(changes, was)))
<1> DEFINE open == {i \in 1..Len(changes) : \A m \in 1..Len(was) : was[m].path # changes[i].path}
           next == CHOOSE i \in open : \A j \in open : Earlier(changes, i, j)
<1>1. CASE open = {}
  BY <1>1 DEF AfterOrder
<1>2. CASE open # {}
  <2>1. Len(changes) \in Nat /\ Len(was) \in Nat
    BY LenProperties
  <2>2. next \in open
    <3>1. open \subseteq 1..Len(changes)
      OBVIOUS
    <3> HIDE DEF open
    <3> QED  BY <1>2, <2>1, <3>1, EarliestIsIn
  <2>3. next \in 1..Len(changes) /\ \A m \in 1..Len(was) : was[m].path # changes[next].path
    <3> HIDE DEF next
    <3> QED  BY <2>2
  <2>4. AfterOrder(changes, was) = Append(was, changes[next])
    BY <1>2 DEF AfterOrder
  <2> DEFINE new == Append(was, changes[next])
  <2> HIDE DEF next
  <2>5. changes[next] \in S
    BY <2>3, ElementOfSeq
  <2>6. /\ new \in Seq(S) /\ Len(new) = Len(was) + 1
        /\ \A i \in 1..Len(was) : new[i] = was[i]
        /\ new[Len(was) + 1] = changes[next]
    BY <2>5, AppendProperties
  <2> HIDE DEF new
  <2>7. ASSUME Distinct(was), NEW j \in 1..Len(new), NEW k \in 1..Len(new), j # k
        PROVE  new[j].path # new[k].path
    <3>1. CASE j \in 1..Len(was) /\ k \in 1..Len(was)
      BY <2>6, <2>7, <3>1 DEF Distinct
    <3>2. CASE j = Len(was) + 1 /\ k \in 1..Len(was)
      BY <2>3, <2>6, <3>2
    <3>3. CASE k = Len(was) + 1 /\ j \in 1..Len(was)
      BY <2>3, <2>6, <3>3
    <3> QED  BY <2>1, <2>6, <2>7, <3>1, <3>2, <3>3
  <2> QED  BY <2>4, <2>6, <2>7 DEF new, Distinct
<1> QED  BY <1>1, <1>2

IsOrdered(f, changes, S) ==
  /\ f \in [0..Len(changes) -> Seq(S)]
  /\ f[0] = <<>>
  /\ \A k \in 1..Len(changes) : f[k] = AfterOrder(changes, f[k - 1])
  /\ OrderChanges(changes) = f[Len(changes)]

\* There is such an order for all changes.
LEMMA OrderUnfolds ==
  ASSUME NEW S, NEW changes, changes \in Seq(S), Len(changes) > 1,
         \A k \in 1..Len(changes) : changes[k].path \in DOMAIN Importers
  PROVE  \E f : IsOrdered(f, changes, S)
<1> DEFINE n == Len(changes)
           V == Seq(S)
           IsUpto(f) == f = [k \in 0..n |->
             IF k = 0 THEN <<>>
             ELSE LET was == f[k - 1]
                      open == {i \in 1..Len(changes) : \A m \in 1..Len(was) : was[m].path # changes[i].path}
                  IN IF open = {} THEN was
                     ELSE Append(was, changes[CHOOSE i \in open : \A j \in open : Earlier(changes, i, j)])]
           Next(was, k) == AfterOrder(changes, was)
           folds == [k \in 1..n |-> [was \in V |-> Next(was, k)]]
<1>1. n \in Nat
  BY LenProperties
<1>2. <<>> \in V
  BY EmptySeq
<1>3. \A k \in 1..n, was \in V : Next(was, k) \in V
  <2> SUFFICES ASSUME NEW k \in 1..n, NEW was \in V PROVE Next(was, k) \in V
    OBVIOUS
  <2>1. AfterOrder(changes, was) \in Seq(S)
    BY AfterOrderIs
  <2> QED  BY <2>1
<1>4. folds \in [1..n -> [V -> V]]
  <2> HIDE DEF Next, n, V
  <2> QED  BY <1>3
<1>5. PICK g : IsFold(g, n, V, <<>>, folds)
  <2> HIDE DEF n, folds, V
  <2> QED  BY <1>1, <1>2, <1>4, FoldExists
<1>6. /\ g \in [0..n -> V] /\ g[0] = <<>>
      /\ \A k \in 1..n : g[k] = Next(g[k - 1], k)
  <2>1. ASSUME NEW k \in 1..n PROVE g[k] = folds[k][g[k - 1]] /\ g[k - 1] \in V
    <3>1. k - 1 \in 0..n
      BY <1>1
    <3> HIDE DEF V, folds
    <3> QED  BY <1>5, <3>1 DEF IsFold
  <2> HIDE DEF Next, n, V
  <2> QED  BY <1>5, <2>1 DEF IsFold
<1>7. IsUpto(g)
  <2>1. \A k \in 0..n : k = 0 \/ k \in 1..n
    BY <1>1
  <2>2. g = [k \in 0..n |-> IF k = 0 THEN <<>> ELSE Next(g[k - 1], k)]
    <3> HIDE DEF Next, n, V
    <3> QED  BY <1>6, <2>1
  <2> HIDE DEF n
  <2> QED  BY ONLY <2>2 DEF AfterOrder, Earlier
<1> DEFINE f == CHOOSE h : IsUpto(h)
<1>8. IsUpto(f)
  <2> HIDE DEF IsUpto
  <2> QED  BY <1>7
<1>9. OrderChanges(changes) = f[n]
  BY DEF OrderChanges, Earlier
<1> HIDE DEF f
<1>10. f[0] = <<>> /\ \A k \in 1..n : f[k] = Next(f[k - 1], k)
  <2>1. f = [k \in 0..n |-> IF k = 0 THEN <<>> ELSE Next(f[k - 1], k)]
    BY ONLY <1>8 DEF AfterOrder, Earlier
  <2>2. 0 \in 0..n /\ \A k \in 1..n : k \in 0..n /\ k # 0
    BY <1>1
  <2> HIDE DEF n, Next
  <2> QED  BY <2>1, <2>2
<1>11. \A k \in 0..n : f[k] \in V
  <2> DEFINE T == {i \in Nat : i <= n => f[i] \in V}
  <2>1. 0 \in T
    BY <1>2, <1>10
  <2>2. ASSUME NEW k \in Nat, k \in T, k + 1 <= n PROVE f[k + 1] \in V
    <3>1. k + 1 \in 1..n /\ (k + 1) - 1 = k /\ f[k] \in V
      BY <1>1, <2>2
    <3>2. f[k + 1] = Next(f[k], k + 1)
      <4> HIDE DEF Next, n, V
      <4> QED  BY <1>10, <3>1
    <3> HIDE DEF Next, n, V
    <3> QED  BY <1>3, <3>1, <3>2
  <2>3. \A k \in Nat : k \in T => k + 1 \in T
    BY <2>2
  <2> HIDE DEF T
  <2>4. Nat \subseteq T
    BY <2>1, <2>3, Induction
  <2> QED  BY <1>1, <2>4 DEF T
<1>12. f \in [0..n -> V]
  <2>1. f = [k \in 0..n |-> IF k = 0 THEN <<>> ELSE Next(f[k - 1], k)]
    BY ONLY <1>8 DEF AfterOrder, Earlier
  <2> HIDE DEF n, Next, V
  <2> QED  BY <1>11, <2>1
<1>13. IsOrdered(f, changes, S)
  BY <1>9, <1>10, <1>12 DEF IsOrdered
<1> QED  BY <1>13

\* Ordered changes are some of the changes, and their paths differ.
LEMMA OrderChangesIs ==
  ASSUME NEW S, NEW changes \in Seq(S), \A k \in 1..Len(changes) : changes[k].path \in DOMAIN Importers
  PROVE  OrderChanges(changes) \in Seq(S) /\ Distinct(OrderChanges(changes))
<1>1. Len(changes) \in Nat
  BY LenProperties
<1>2. CASE Len(changes) <= 1
  <2>1. OrderChanges(changes) = changes
    BY <1>2 DEF OrderChanges
  <2>2. Distinct(changes)
    BY <1>1, <1>2 DEF Distinct
  <2> QED  BY <2>1, <2>2
<1>3. CASE Len(changes) > 1
  <2>1. PICK f : IsOrdered(f, changes, S)
    BY <1>3, OrderUnfolds
  <2> DEFINE n == Len(changes)
             T == {i \in Nat : i <= n => Distinct(f[i])}
  <2>2. 0 \in T
    <3>1. Len(<<>>) = 0
      BY EmptySeq
    <3> QED  BY <2>1, <3>1 DEF IsOrdered, Distinct
  <2>3. ASSUME NEW k \in Nat, k \in T, k + 1 <= n PROVE Distinct(f[k + 1])
    <3>1. k + 1 \in 1..n /\ (k + 1) - 1 = k /\ k \in 0..n /\ Distinct(f[k])
      BY <1>1, <2>3
    <3>2. f[k + 1] = AfterOrder(changes, f[k]) /\ f[k] \in Seq(S)
      BY <2>1, <3>1 DEF IsOrdered
    <3> QED  BY <3>1, <3>2, AfterOrderIs
  <2>4. \A k \in Nat : k \in T => k + 1 \in T
    BY <2>3
  <2> HIDE DEF T
  <2>5. n \in T /\ n \in 0..n
    BY <1>1, <2>2, <2>4, Induction
  <2> QED  BY <2>1, <2>5 DEF IsOrdered, T
<1> QED  BY <1>1, <1>2, <1>3

\* The contribution is what the answer says.
IsOfAnswer(reply, made) ==
  /\ made \in Seq(Made(reply)) /\ Distinct(made)
  /\ \A k \in 1..Len(made) : made[k].known => made[k].new # made[k].old

GeneratorInv ==
  /\ turn \in {"first", "second", "review", "done", "nothing"}
  /\ answer = NoAnswer \/ answer \in Answers
  /\ turn \in {"review", "done"} => answer \in Answers /\ IsOfAnswer(answer, proposal)

\* Changes that are valid come of the answer when they are ordered.
LEMMA OrderedIsOfAnswer ==
  ASSUME NEW reply \in Answers, NEW balanced, ValidChanges(ParseChanges(reply), balanced)
  PROVE  IsOfAnswer(reply, OrderChanges(ParseChanges(reply)))
<1> DEFINE all == ParseChanges(reply)
           S == {change \in Made(reply) : change.known => change.new # change.old}
           made == OrderChanges(all)
<1>1. reply.items \in Seq(Items)
  BY GeneratorAssumption
<1>2. all \in Seq(Made(reply))
  BY <1>1, ParseChangesIs
<1>3. ASSUME NEW k \in 1..Len(all) PROVE all[k] \in Made(reply) /\ all[k].path \in DOMAIN Importers
  <2> HIDE DEF all
  <2>1. all[k] \in Made(reply)
    BY <1>2, ElementOfSeq
  <2> QED  BY <1>1, <2>1, MadeIs DEF IsOfItems
<1>4. \A k \in 1..Len(all) : all[k].known => all[k].new # all[k].old
  BY DEF ValidChanges
<1> HIDE DEF all
<1>5. all \in Seq(S)
  <2>1. Len(all) \in Nat /\ all = [k \in 1..Len(all) |-> all[k]]
    BY <1>2, LenProperties
  <2>2. \A k \in 1..Len(all) : all[k] \in S
    BY <1>3, <1>4
  <2> HIDE DEF S
  <2> QED  BY <2>1, <2>2, IsASeq
<1> HIDE DEF S
<1>6. made \in Seq(S) /\ Distinct(made)
  BY <1>3, <1>5, OrderChangesIs
<1> HIDE DEF made
<1>7. Len(made) \in Nat /\ made = [k \in 1..Len(made) |-> made[k]] /\ \A k \in 1..Len(made) : made[k] \in S
  BY <1>6, LenProperties, ElementOfSeq
<1>8. \A k \in 1..Len(made) : made[k] \in Made(reply) /\ (made[k].known => made[k].new # made[k].old)
  BY <1>7 DEF S
<1>9. made \in Seq(Made(reply))
  BY <1>7, <1>8, IsASeq
<1> QED  BY <1>6, <1>8, <1>9 DEF IsOfAnswer, made, all

\* The invariant holds in every behaviour.
LEMMA GeneratorInvHolds == GeneratorSpec => []GeneratorInv
<1>1. GeneratorInit => GeneratorInv
  BY DEF GeneratorInit, GeneratorInv
<1>2. GeneratorInv /\ [GeneratorNext]_generatorVars => GeneratorInv'
  <2> SUFFICES ASSUME GeneratorInv, [GeneratorNext]_generatorVars PROVE GeneratorInv'
    OBVIOUS
  <2>1. ASSUME NEW reply \in Answers, AskModel(reply) PROVE GeneratorInv'
    BY <2>1 DEF GeneratorInv, AskModel
  <2>2. CASE CallFails
    BY <2>2 DEF GeneratorInv, CallFails
  <2>3. ASSUME NEW balanced \in BOOLEAN, ReadAnswer(balanced) PROVE GeneratorInv'
    <3>1. CASE ValidChanges(ParseChanges(answer), balanced)
      <4>1. /\ answer \in Answers /\ answer' = answer
            /\ proposal' = OrderChanges(ParseChanges(answer))
            /\ turn' \in {"review", "done"}
        BY <2>3, <3>1 DEF GeneratorInv, ReadAnswer
      <4>2. IsOfAnswer(answer, OrderChanges(ParseChanges(answer)))
        BY <3>1, <4>1, OrderedIsOfAnswer
      <4> QED  BY <4>1, <4>2 DEF GeneratorInv
    <3>2. CASE ~ValidChanges(ParseChanges(answer), balanced)
      BY <2>3, <3>2 DEF GeneratorInv, ReadAnswer
    <3> QED  BY <3>1, <3>2
  <2>4. ASSUME NEW approved \in BOOLEAN, Review(approved) PROVE GeneratorInv'
    BY <2>4 DEF GeneratorInv, Review
  <2>5. CASE UNCHANGED generatorVars
    BY <2>5 DEF GeneratorInv, generatorVars
  <2> QED  BY <2>1, <2>2, <2>3, <2>4, <2>5 DEF GeneratorNext
<1> QED  BY <1>1, <1>2, PTL DEF GeneratorSpec

\* And it is what the property says.
LEMMA GeneratorInvSuffices == GeneratorInv => ContributionIsTheAnswer
<1> SUFFICES ASSUME GeneratorInv, turn \in {"review", "done"}
             PROVE  /\ Distinct(proposal)
                    /\ \A k \in 1..Len(proposal) : proposal[k].known =>
                         /\ proposal[k].new # proposal[k].old
                         /\ \E item \in {answer.items[m] : m \in 1..Len(answer.items)} :
                              LET Text(j) == Edited(proposal[k].old, SubSeq(item.edits, 1, j)).text
                              IN /\ item.path = proposal[k].path
                                 /\ item.path \in DOMAIN Sources /\ proposal[k].old = Sources[item.path]
                                 /\ Text(Len(item.edits)) = proposal[k].new
                                 /\ \A j \in 1..Len(item.edits) :
                                      Text(j) = Text(j - 1) \/ InPlace(Text(j - 1), item.edits[j], Text(j))
  BY DEF ContributionIsTheAnswer, Distinct
<1>1. answer \in Answers /\ answer.items \in Seq(Items) /\ IsOfAnswer(answer, proposal)
  BY GeneratorAssumption DEF GeneratorInv
<1>2. ASSUME NEW k \in 1..Len(proposal), proposal[k].known
      PROVE  /\ proposal[k].new # proposal[k].old
             /\ \E item \in {answer.items[m] : m \in 1..Len(answer.items)} :
                  LET Text(j) == Edited(proposal[k].old, SubSeq(item.edits, 1, j)).text
                  IN /\ item.path = proposal[k].path
                     /\ item.path \in DOMAIN Sources /\ proposal[k].old = Sources[item.path]
                     /\ Text(Len(item.edits)) = proposal[k].new
                     /\ \A j \in 1..Len(item.edits) :
                          Text(j) = Text(j - 1) \/ InPlace(Text(j - 1), item.edits[j], Text(j))
  <2>1. proposal \in Seq(Made(answer)) /\ proposal[k].new # proposal[k].old
    BY <1>1, <1>2 DEF IsOfAnswer
  <2>2. IsOfItems(proposal[k], answer)
    <3>1. proposal[k] \in Made(answer)
      BY <2>1, ElementOfSeq
    <3> QED  BY <1>1, <3>1, MadeIs
  <2>3. PICK m \in 1..Len(answer.items) :
           /\ answer.items[m].path = proposal[k].path /\ proposal[k].path \in DOMAIN Sources
           /\ proposal[k].old = Sources[proposal[k].path]
           /\ proposal[k].new = Edited(Sources[proposal[k].path], answer.items[m].edits).text
    BY <1>2, <2>2 DEF IsOfItems
  <2> DEFINE item == answer.items[m]
             old == proposal[k].old
             Text(j) == Edited(old, SubSeq(item.edits, 1, j)).text
  <2>4. item.edits \in EditLists
    <3>1. item \in Items
      BY <1>1, ElementOfSeq
    <3> HIDE DEF item
    <3> QED  BY <3>1 DEF Items
  <2>5. old \in Texts
    BY <2>3, GeneratorAssumption
  <2>6. /\ Text(Len(item.edits)) = Edited(old, item.edits).text
        /\ \A j \in 1..Len(item.edits) : Text(j) = Text(j - 1) \/ InPlace(Text(j - 1), item.edits[j], Text(j))
    <3> HIDE DEF item, old
    <3> QED  BY <2>4, <2>5, EditsInPlace
  <2>7. item \in {answer.items[l] : l \in 1..Len(answer.items)}
    OBVIOUS
  <2>8. /\ item.path = proposal[k].path
        /\ item.path \in DOMAIN Sources /\ old = Sources[item.path]
        /\ Text(Len(item.edits)) = proposal[k].new
    <3>1. Edited(old, item.edits).text = proposal[k].new
      BY <2>3
    <3> QED  BY <2>3, <2>6, <3>1
  <2> QED  BY <2>1, <2>6, <2>7, <2>8
<1> QED  BY <1>1, <1>2 DEF IsOfAnswer

\* A contribution changes a file only where an edit of one answer points at, every
\* file once, and none to what it was.
THEOREM GeneratorContributionIsTheAnswer == GeneratorSpec => []ContributionIsTheAnswer
BY GeneratorInvHolds, GeneratorInvSuffices, PTL
=============================================================================
