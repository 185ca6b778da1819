------------------------------ MODULE Analysis ------------------------------
(***************************************************************************)
(* The analysis of a repository (analysis/analyzer.rs): the file tree is    *)
(* read, the contents of the selected files are fetched concurrently, every *)
(* enabled analyzer asks the model about them at the same time and again    *)
(* after a transient error, and their findings are joined and deduplicated. *)
(***************************************************************************)
EXTENDS Naturals, Sequences, FiniteSets

CONSTANTS
  Analyzers,    \* enabled_analyzers, in order
  Selected,     \* files with an analyzed extension and no skip pattern
  Concurrency,  \* fetches at a time
  Pauses,       \* pauses between the attempts of an analyzer: three
  Findings      \* what a model may answer: findings, as file and title

\* The analyzers and the answers are lists.
ASSUME AnalysisAssumption ==
  /\ Len(Analyzers) \in Nat
  /\ \A n \in 1..Len(Analyzers) : \A found \in Findings[n] : found \in Seq({found[i] : i \in DOMAIN found})

VARIABLES
  phase,        \* how far the analysis is
  fetches,      \* the fetch of every selected file
  analyzers,    \* what every analyzer holds
  ended,        \* history: analyzers in the order in which they came to an end
  findings      \* the result

analysisVars == <<phase, fetches, analyzers, ended, findings>>

Numbers == 1..Len(Analyzers)

AnalysisInit ==
  /\ phase = "tree" /\ ended = <<>> /\ findings = <<>>
  /\ fetches = [f \in Selected |-> "queued"]
  /\ analyzers = [n \in Numbers |-> [at |-> "ask", attempt |-> 0, found |-> <<>>]]

\* get_file_tree and select_files; without a tree there is no analysis.
GetFileTree(ok) ==
  /\ phase = "tree"
  /\ phase' = IF ok THEN "fetch" ELSE "failed"
  /\ UNCHANGED <<fetches, analyzers, ended, findings>>

\* A permit of the semaphore is free.
StartFetch(f) ==
  /\ phase = "fetch" /\ fetches[f] = "queued"
  /\ Cardinality({g \in Selected : fetches[g] = "fetching"}) < Concurrency
  /\ fetches' = [fetches EXCEPT ![f] = "fetching"]
  /\ UNCHANGED <<phase, analyzers, ended, findings>>

\* A file that cannot be read is left out.
Fetched(f, ok) ==
  /\ fetches[f] = "fetching"
  /\ fetches' = [fetches EXCEPT ![f] = IF ok THEN "there" ELSE "skipped"]
  /\ UNCHANGED <<phase, analyzers, ended, findings>>

\* Symbols, ranks and the context are built from whatever was read, nothing too.
BuildContext ==
  /\ phase = "fetch" /\ \A f \in Selected : fetches[f] \in {"there", "skipped"}
  /\ phase' = "analyze"
  /\ UNCHANGED <<fetches, analyzers, ended, findings>>

\* run_analyzer: the answer is parsed, and what is no list of findings is none.
AnalyzerAnswers(n, found) ==
  /\ phase = "analyze" /\ analyzers[n].at = "ask"
  /\ analyzers' = [analyzers EXCEPT ![n].at = "ended", ![n].found = found]
  /\ ended' = Append(ended, n)
  /\ UNCHANGED <<phase, fetches, findings>>

\* After a transient error it asks again, after a pause; the pauses run out.
AnalyzerFails(n, transient) ==
  /\ phase = "analyze" /\ analyzers[n].at = "ask"
  /\ IF transient /\ analyzers[n].attempt < Pauses
     THEN /\ analyzers' = [analyzers EXCEPT ![n].at = "pause", ![n].attempt = @ + 1]
          /\ UNCHANGED ended
     ELSE /\ analyzers' = [analyzers EXCEPT ![n].at = "ended"]
          /\ ended' = Append(ended, n)
  /\ UNCHANGED <<phase, fetches, findings>>

AsksAgain(n) ==
  /\ analyzers[n].at = "pause"
  /\ analyzers' = [analyzers EXCEPT ![n].at = "ask"]
  /\ UNCHANGED <<phase, fetches, ended, findings>>

\* The findings of a sequence of analyzers, one after the other.
Joined(order) ==
  LET Upto[k \in 0..Len(order)] == IF k = 0 THEN <<>> ELSE Upto[k - 1] \o analyzers[order[k]].found
  IN Upto[Len(order)]

\* deduplicate: of the findings for a file with a title the first stays.
Deduplicated(all) ==
  LET Key(f) == <<f.file, f.title>>
      Upto[k \in 0..Len(all)] ==
        IF k = 0 THEN <<>>
        ELSE IF \E i \in 1..(k - 1) : Key(all[i]) = Key(all[k]) THEN Upto[k - 1]
        ELSE Append(Upto[k - 1], all[k])
  IN Upto[Len(all)]

\* Seeded fault: the findings are taken as the analyzers come to their end.
JoinFindingsAsTheyCome ==
  /\ phase = "analyze" /\ \A n \in Numbers : analyzers[n].at = "ended"
  /\ findings' = Deduplicated(Joined(ended))
  /\ phase' = "done"
  /\ UNCHANGED <<fetches, analyzers, ended>>

\* join_all: in the order of the configuration; a failed analyzer adds nothing.
JoinFindings ==
  /\ phase = "analyze" /\ \A n \in Numbers : analyzers[n].at = "ended"
  /\ findings' = Deduplicated(Joined([n \in Numbers |-> n]))
  /\ phase' = "done"
  /\ UNCHANGED <<fetches, analyzers, ended>>

AnalysisNext ==
  \/ \E ok \in BOOLEAN : GetFileTree(ok)
  \/ \E f \in Selected : StartFetch(f) \/ \E ok \in BOOLEAN : Fetched(f, ok)
  \/ BuildContext \/ JoinFindings
  \/ \E n \in Numbers :
       \/ \E found \in Findings[n] : AnalyzerAnswers(n, found)
       \/ \E transient \in BOOLEAN : AnalyzerFails(n, transient)
       \/ AsksAgain(n)

AnalysisSpec == AnalysisInit /\ [][AnalysisNext]_analysisVars

\* The result does not depend on which analyzer answers first or how often one
\* had to ask: a problem that several analyzers report is the finding, with the
\* kind and the severity, of the one that stands first in the configuration; no
\* problem is lost because another analyzer failed, and none is reported twice.
FindingsAreStable ==
  phase = "done" =>
    LET Of(n) == {analyzers[n].found[i] : i \in 1..Len(analyzers[n].found)}
        Same(f, g) == f.file = g.file /\ f.title = g.title
        result == {findings[i] : i \in 1..Len(findings)}
    IN /\ \A n \in Numbers : \A f \in Of(n) :
            \E g \in result : Same(f, g) /\ \E m \in 1..n : g \in Of(m)
       /\ \A g \in result : \A n \in Numbers : \A f \in Of(n) :
            Same(f, g) => \E m \in 1..n : g \in Of(m)
       /\ \A i, j \in 1..Len(findings) : Same(findings[i], findings[j]) => i = j
=============================================================================
