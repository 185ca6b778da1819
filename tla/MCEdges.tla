------------------------------ MODULE MCEdges ------------------------------
(***************************************************************************)
(* The edges of the program in small instances: the configuration files,    *)
(* what models answer, what is fetched of a repository and changed, the     *)
(* requests to the host, the tools for clients, the records and the       *)
(* scheduler.  A behaviour picks one part and takes its steps.             *)
(***************************************************************************)
EXTENDS Settings, Answers, Snapshot, Requests, Tools, Records, Scheduler, ContextCompressor

CONSTANTS c1, c2

VARIABLE part  \* the part that moves

\* The file the wizard writes, the example of the repository, a file of another
\* place and an older file with an encrypted token and without an endpoint.
MCExample ==
  <<Section("github"), Words("token", ""), Bare("max_prs_per_day", "2", "number"),
    Section("llm"), Bare("provider", "gemini", "word"), Bare("model", "gemini-3-flash-preview", "word"),
    Words("api_key", ""), Bare("temperature", "0.2", "number"),
    Section("discovery"), Bare("languages", "[rust]", "list"),
    Section("pipeline"), Bare("max_repos_per_run", "5", "number"), Bare("risk_tolerance", "low", "word"),
    Section("scheduler"), Bare("enabled", "false", "boolean"),
    Section("multi_model"), Bare("enabled", "false", "boolean"), Bare("strategy", "cost_optimized", "word")>>
MCFiles ==
  {[p \in {} |-> <<>>], [p \in {"config.yaml"} |-> DefaultConfigTemplate],
   [p \in {"config.yaml"} |-> MCExample], [p \in {"home"} |-> MCExample]}
Assignment(s, n, text, kind) == [key |-> <<s, n>>, value |-> [text |-> text, kind |-> kind]]
MCAssignments ==
  {Assignment("llm", "provider", "openai", "word"), Assignment("llm", "provider", "copilot", "word"),
   Assignment("multi_model", "enabled", "true", "boolean"), Assignment("llm", "temperature", "high", "word"),
   Assignment("discovery", "languages", "[go]", "list"), Assignment("github", "max_prs_per_day", "7", "number"),
   Assignment("pipeline", "risk_tolerance", "high", "word"), Assignment("llm", "model", "4", "number")}
MCEnvironments ==
  {[token |-> "", keys |-> {}, project |-> "", passphrase |-> FALSE],
   [token |-> "theirs", keys |-> {"gemini", "openai"}, project |-> "project", passphrase |-> TRUE]}

\* A finding, one that matters more and one without a summary.
Low == Thing(TRUE, "low")
High == Thing(TRUE, "high")
Intended(shape, items, tests) == [shape |-> shape, items |-> items, tests |-> tests]
MCDocuments ==
  {Intended("findings", f, <<>>) : f \in {<<>>, <<Low>>, <<Low, Low, High>>, <<High, Thing(FALSE, "low")>>}}
  \cup {Intended("list", f, <<>>) : f \in {<<>>, <<Low, High>>}}
  \cup {Intended("changes", c, t) :
           c \in {<<>>, <<Low>>, <<Low, High>>}, t \in {<<>>, <<High>>, <<Thing(FALSE, "low")>>}}
MCPrefaces == {<<>>, <<Mark("word")>>, <<Mark("word"), Mark("array"), Mark("endArray"), Mark("word")>>}
MCAfterwords == {<<>>, <<Mark("word")>>, <<Mark("object"), Mark("endObject")>>}

\* A project that is fetched whole, one with a large file, one whose manifest and
\* lock file cannot be fetched, one with more files than the limit, and one with
\* carriage returns.
Old == Lines(<<"a", "b">>)
Blob(path, large) == Node(path, "blob", large, Old)
MCAttested ==
  {<<Blob("Cargo.toml", FALSE), Blob("src/a.rs", FALSE), Blob("tests/t.rs", FALSE)>>,
   <<Blob("Cargo.toml", FALSE), Blob("src/a.rs", FALSE), Blob("src/b.rs", TRUE)>>,
   <<Blob("package.json", FALSE), Blob("bun.lockb", FALSE), Blob("src/a.rs", FALSE)>>,
   <<Blob("package.json", TRUE), Blob("src/a.rs", FALSE), Node("vendor", "commit", FALSE, Missing)>>,
   <<Blob("Cargo.toml", FALSE), Blob("logo.png", FALSE), Blob("src/a.rs", FALSE), Blob("tests/t.rs", FALSE),
     Blob("src/b.rs", FALSE)>>,
   <<Node("src", "tree", FALSE, Missing), Node("src/a.rs", "blob", FALSE, <<TextLine("a", TRUE), TextLine("b", FALSE)>>),
     Blob("tests/t.rs", TRUE)>>}
Permit(paths, fresh, tests) == [paths |-> paths, fresh |-> fresh, tests |-> tests]
AnyPath == Permit({}, TRUE, TRUE)
MCPermits ==
  {AnyPath, Permit({"src/a.rs", "src/b.rs", "tests/t.rs"}, FALSE, TRUE), Permit({"src/a.rs", "src/b.rs"}, TRUE, FALSE)}
Change(path, quote, words, test) ==
  [path |-> path, quote |-> quote, text |-> Lines(words), test |-> test, deletes |-> FALSE]
A(quote, words) == Change("src/a.rs", quote, words, FALSE)
B(quote) == Change("src/b.rs", quote, <<"b", "c">>, FALSE)
MCProposals ==
  {<<A("shown", <<"b", "c">>)>>, <<A("base", <<"a">>), B("none")>>, <<A("made up", <<"b">>)>>, <<B("shown")>>,
   <<A("none", <<"d">>), Change("tests/t.rs", "none", <<"t">>, TRUE)>>,
   <<[A("none", <<"d">>) EXCEPT !.deletes = TRUE]>>, <<A("shown", <<"d", "d">>), A("none", <<"e">>)>>}

\* One task that reads and closes, and one that writes a file.
MCAsked == (c1 :> {"close_issue", "ensure_rate_limit", "get_contributing_guide"})
            @@ (c2 :> {"create_or_update_file"})

\* Every tool, one that is not listed and one that does not exist.
MCWanted == DOMAIN Calls \cup {"create_pr", "rm"}

\* Three files below, at and above what a file may take and what is left for the
\* last one, all of one byte a character; and wider characters among them.
MCSizes == {10, 100, 159, 160, 240, 241, 300, 500}
MCProjects ==
  [{"a", "b", "c"} -> {Content(n, 1) : n \in MCSizes}]
    \cup {[a |-> Content(n, 3), b |-> Content(m, 1)] : n, m \in MCSizes}

Parts == {"settings", "answers", "snapshot", "requests", "tools", "recall", "threads", "pulls", "runs", "scheduler", "context"}

Init ==
  /\ part \in Parts
  /\ IF part = "settings" THEN SettingsInit
     ELSE SettingsAt([p \in {} |-> <<>>], [token |-> "", keys |-> {}, project |-> "", passphrase |-> FALSE])
  /\ IF part = "answers" THEN AnswersInit ELSE AnswersAt(Intended("list", <<>>, <<>>), <<>>, FALSE, FALSE)
  /\ IF part = "snapshot" THEN SnapshotInit ELSE SnapshotAt(<<>>, AnyPath)
  /\ IF part = "tools" THEN ToolsInit ELSE SessionAt(FALSE, "new")
  /\ IF part = "scheduler" THEN SchedulerInit ELSE SchedulerAt(0)
  /\ IF part = "context" THEN ContextInit ELSE ContextAt([f \in {} |-> Content(0, 1)])
  /\ RequestsInit /\ RecallInit /\ ThreadInit /\ BoardInit

Next ==
  /\ UNCHANGED part
  /\ IF part = "settings" THEN SettingsNext ELSE UNCHANGED settingsVars
  /\ IF part = "answers" THEN AnswersNext ELSE UNCHANGED answersVars
  /\ IF part = "snapshot" THEN SnapshotNext ELSE UNCHANGED snapshotVars
  /\ IF part = "requests" THEN RequestsNext ELSE UNCHANGED requestsVars
  /\ IF part = "tools" THEN ToolsNext ELSE UNCHANGED toolsVars
  /\ IF part = "recall" THEN RecallNext ELSE UNCHANGED recallVars
  /\ IF part = "threads" THEN ThreadNext ELSE UNCHANGED threadVars
  /\ IF part = "pulls" THEN PullsNext /\ UNCHANGED <<executions, runs>>
     ELSE IF part = "runs" THEN RunsNext /\ UNCHANGED pulls ELSE UNCHANGED boardVars
  /\ IF part = "scheduler" THEN SchedulerNext ELSE UNCHANGED schedulerVars
  /\ IF part = "context" THEN ContextNext ELSE UNCHANGED contextVars

vars == <<part, settingsVars, answersVars, snapshotVars, requestsVars, toolsVars, recordsVars, schedulerVars, contextVars>>

Spec == Init /\ [][Next]_vars
=============================================================================
