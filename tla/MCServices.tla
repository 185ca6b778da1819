----------------------------- MODULE MCServices -----------------------------
(***************************************************************************)
(* Small instances of the parts that share no state: a behaviour picks one  *)
(* part and takes its steps, while all the others rest in one state.       *)
(***************************************************************************)
EXTENDS Dream, Patrol, Llm, Runner, Diff, Generator, Mcp, Analysis, Issues, EventLog, TLC

CONSTANTS t1, t2, a1, a2, b1, d1, d2, f1

\* Threads, patrols, callers and solvers are interchangeable.
MCSymmetry == Permutations({t1, t2})

VARIABLE part  \* the part that moves

\* Two pull requests of one repository and one of another.
MCRepoOf == (a1 :> "a") @@ (a2 :> "a") @@ (b1 :> "b")
MCKindOf == (a1 :> "docs") @@ (a2 :> "fix") @@ (b1 :> "docs")

\* A fork with two pull requests.
MCForkOf == (d1 :> f1) @@ (d2 :> f1)

\* A primary that streams, and a fallback whose chat hides errors.
MCModels == <<[name |-> "m1", provider |-> "openai"], [name |-> "m2", provider |-> "gemini"]>>

\* Standard checks of one and of two ecosystems' manifests, with and without
\* leave to run what needs an approval, and an argument that escapes.
MCRust == [manifests |-> {"Cargo.toml"}, commands |-> <<>>, allow |-> FALSE]
MCSetups ==
  {MCRust,
   [manifests |-> {"package.json", "bun.lock"}, commands |-> <<Argv("py", "tool")>>, allow |-> FALSE],
   [manifests |-> {}, allow |-> TRUE,
    commands |-> <<Argv("x", "other"), Argv("y", "forbidden"), [Argv("z", "tool") EXCEPT !.escapes = TRUE]>>],
   [manifests |-> {}, commands |-> <<Argv("x", "other")>>, allow |-> FALSE]}

\* All pairs of short texts, and all pairs that are long enough for two hunks;
\* then a change of the line end alone and a file that is emptied.
Short(n) == [1..n -> {"x", "y"}]
MCTexts == UNION {Short(n) : n \in 0..3}
Whole(lines) == [lines |-> lines, ended |-> TRUE]
Between(A, B) == {[before |-> Whole(a), after |-> Whole(b)] : a \in A, b \in B}
MCEdits == Between(MCTexts, MCTexts) \cup Between(Short(5), Short(5)) \cup Between(Short(5), Short(4))
MCRest == <<[before |-> Whole(<<"x", "y">>), after |-> [Whole(<<"x", "y">>) EXCEPT !.ended = FALSE]],
            [before |-> Whole(<<"x">>), after |-> Whole(<<>>)]>>

\* A file with white space around lines, repeated lines, a blank line and a final
\* line end; searches that only one of the strategies finds, or none, that begin
\* or end inside a line, and that begin or end with a line end.
Spaced(words) == [k \in 1..(2 * Len(words) - 1) |-> IF k % 2 = 1 THEN words[(k + 1) \div 2] ELSE Gap]
Indented(line) == <<Gap>> \o line
Trailing(line) == line \o <<Gap>>
Alpha == Spaced(<<"a", "b", "c">>)
Delta == Spaced(<<"d", "e">>)
Gamma == Spaced(<<"g", "h">>)
MCVocabulary == {"a", "b", "c", "d", "e", "g", "h", "n", "x", "z"}
MCText == <<Trailing(Indented(Alpha)), Delta, Alpha, Indented(Gamma), Delta, <<>>, <<>>>>
MCSources == [f |-> MCText, g |-> <<Delta, <<>>>>]
MCSearches ==
  {<<Delta>>, <<Alpha, Delta>>, << <<>>, Alpha>>, <<Spaced(<<"b", "c">>), Delta>>,
   <<Indented(Alpha), Trailing(Delta)>>, <<Alpha, Trailing(Gamma), <<>>>>,
   <<Indented(Delta), Indented(Spaced(<<"a", "b">>))>>, <<Spaced(<<"a", "b", "c", "x">>)>>,
   <<Indented(Delta), Alpha, Indented(Gamma), <<>>>>,
      <<Spaced(<<"d", "x", "a", "b", "c">>)>>, <<<<Gap>>>>, <<<<"z">>>>, Empty}
MCBys == {Empty, <<Gamma>>, <<Trailing(Indented(Alpha)), <<"n">>, <<>>>>}
Edit(search, by) == [search |-> search, by |-> by]
\* Every edit alone, and before an edit of what may have become of the text.
MCEditLists == {<<Edit(s, b)>> : s \in MCSearches, b \in MCBys}
                 \cup {<<Edit(s, b), Edit(r, <<Gamma>>)>> :
                         s \in MCSearches, b \in MCBys, r \in {<<Delta>>, <<Alpha, Delta>>, <<<<"n">>>>}}
Item(path, edits, text) == [path |-> path, edits |-> edits, text |-> text, new |-> FALSE]
MCAnswers ==
  {[form |-> "changes",
    items |-> <<Item("f", e, Empty), Item("g", <<Edit(<<Delta>>, <<Gamma>>)>>, Empty)>>] :
     e \in MCEditLists}
  \cup {[form |-> "changes", items |-> <<Item("n", <<>>, <<Gamma>>), Item("n", <<>>, Empty),
                                        Item("f", <<>>, <<Alpha>>)>>],
        [form |-> "array", items |-> <<Item("f", <<>>, <<Alpha>>), Item("g", <<>>, MCText),
                                      [Item("f", <<>>, <<Gamma>>) EXCEPT !.new = TRUE]>>],
        [form |-> "array", items |-> <<[Item("n", <<>>, Empty) EXCEPT !.new = TRUE]>>],
        [form |-> "garbled", items |-> <<>>]}
MCImporters == [f |-> 1, g |-> 0, n |-> 0]

\* Three analyzers that see the same two problems differently.
MCAnalyzers == <<"security", "code_quality", "docs">>
Problem(title, severity) == [file |-> "lib.rs", title |-> title, severity |-> severity]
MCFindings ==
  <<{<<>>, <<Problem("t", 1)>>},
    {<<>>, <<Problem("t", 2), Problem("u", 2)>>, <<Problem("t", 3), Problem("t", 4)>>},
    {<<>>, <<Problem("u", 5), Problem("t", 6)>>}>>

\* An issue with two of the labels, one with one and one with none.
MCGroups == <<"good first issue", "bug">>
MCLabelsOf == <<{"good first issue", "bug"}, {"bug"}, {}>>
MCComplexity == <<1, 2, 2>>

\* Two events over a channel for one.
MCEventTypes == <<"start", "complete">>

Init ==
  /\ part \in {"dream", "patrol", "llm", "runner", "diff", "generator", "mcp", "analysis", "issues", "log"}
  /\ DreamInit /\ PatrolInit /\ LlmInit /\ GeneratorInit /\ AnalysisInit /\ IssuesInit /\ LogInit
  /\ IF part = "runner" THEN RunnerInit ELSE RunnerAt(MCRust)
  /\ IF part = "diff" THEN DiffInit ELSE candidate = MCRest /\ shown = NotShown
  /\ IF part = "mcp" THEN McpInit ELSE McpAt(FALSE)

Next ==
  /\ UNCHANGED part
  /\ IF part = "dream" THEN DreamNext ELSE UNCHANGED dreamVars
  /\ IF part = "patrol" THEN PatrolNext ELSE UNCHANGED patrolVars
  /\ IF part = "llm" THEN LlmNext ELSE UNCHANGED llmVars
  /\ IF part = "runner" THEN RunnerNext ELSE UNCHANGED runnerVars
  /\ IF part = "diff" THEN DiffNext ELSE UNCHANGED diffVars
  /\ IF part = "generator" THEN GeneratorNext ELSE UNCHANGED generatorVars
  /\ IF part = "mcp" THEN McpNext ELSE UNCHANGED mcpVars
  /\ IF part = "analysis" THEN AnalysisNext ELSE UNCHANGED analysisVars
  /\ IF part = "issues" THEN IssuesNext ELSE UNCHANGED issuesVars
  /\ IF part = "log" THEN LogNext ELSE UNCHANGED logVars

vars == <<part, dreamVars, patrolVars, llmVars, runnerVars, diffVars, generatorVars, mcpVars, analysisVars, issuesVars, logVars>>

Spec == Init /\ [][Next]_vars
=============================================================================
