# ContribAI: a verification development

ContribAI finds repositories, asks a model for a contribution, validates it and
proposes it as a draft pull request after a human approved it.  The maintained
implementation is the Rust crate `src/crates/contribai-rs`; `src/python` is its
superseded predecessor and `src/site` a documentation site.  This directory
holds TLA+ modules of the crate's protocols and algorithms, TLC configurations
that check them on small instances, and TLAPS proofs of the results that matter
most for every size of the instance.  Paths below are relative to
`src/crates/contribai-rs/src` unless they begin with `docs/`.

## 1. The system

### Components

| component | state it keeps | operations | hard behaviour | what makes it correct |
|---|---|---|---|---|
| Contribution Run record (`core/run.rs`) | one row: state, fingerprints, permit, evidence, repair count, expiry | `can_transition_to`, `transition`, bindings | long legal sequences, back edges of the repair loop | a submitted run passed every gate after its last binding; terminal rows are frozen |
| Run executor (`orchestrator/run_executor.rs`) | the row, `<run_id>.artifacts.json`, the workspace, what a stage holds in memory | every stage from authorize to submit, `drive`, `drive_to_evidence` | crashes between durable effects, stale copies, several processes, expiry | one draft at most, of an approved, validated and challenged candidate; a drive comes back |
| Parsers of model answers (end of `run_executor.rs`, `core/challenge.rs`) | none | `extract_json_document`, `parse_*_output` | answers that end anywhere, prose around them | a part is never read as the whole |
| Base snapshot, materialization, review surface and gate (`cli/commands/contribute.rs`, `core/materialization.rs`, `core/review_surface.rs`, `orchestrator/review_gate.rs`) | the fetched files, the gaps, originals of changes | fetching, `materialization_gaps`, `bind_preimages`, `ReviewSurface::from_changes`, the prompt | partial snapshots, repeated revisions | the checks are those of the project, the review is of the change the base gets |
| Run workspace (`exec/workspace.rs`) | the snapshot, written paths, the checkpoint | `materialize`, `write_file`, `checkpoint`, drift | writes of commands and of others, a crash inside a write | what is published is what was validated, but for what others rewrote |
| Bounded runner (`exec/runner.rs`, `exec/adapters.rs`, `core/command_safety.rs`) | child processes, pipes, outcomes | detect, classify, run, verdict | three time limits, descendants that hold pipes | a pass was earned by the command itself, in time |
| Evidence (`core/evidence_v3.rs`, `core/validation_graph.rs`, `core/challenge.rs`) | derived values | build, `bind_review`, `verdict`, `validate_for_submission` | evidence of one candidate used for another | one fingerprint ties graph, challenge, review and draft |
| Admission, consent, permits (`core/admission.rs`) | permits, audit records | `evaluate`, manifests of both schemas, legacy markers, issue labels | consent that changes, permits that expire | nothing without a permit, a draft lies within the consent in force |
| Pull request manager and GitHub client (`pr/manager.rs`, `github/client.rs`) | forks, branches, drafts; the rate limit last heard of | `create_pr_with_evidence`, some fifty operations, `request` | lost answers, retries, a second writer on a branch | a branch holds the reviewed change and nothing else; outcomes are told as they are |
| Memory (`orchestrator/memory.rs`) | SQLite: runs, events, analyses, pull requests, audit chain, outcomes, preferences, contexts, conversations | `update_run`, `transition_run`, `record_*`, `get_*` | whole-row updates, two lock scopes, tampering, upserts and expiry | events explain the row, the chain verifies only as issued, what is read is what was written |
| Discovery pipeline, breaker (`orchestrator/pipeline.rs`, `circuit_breaker.rs`) | per command: repositories and pull requests left, breaker | `run`, `run_targeted`, `solve_targeted`, `hunt`, `process_repo`, `process_repo_issues`, `admit_contribution` | several commands over one database, checks made long before the write | every pull request has its own approval, every command ends |
| Analysis, generator, issues, diff (`analysis/analyzer.rs`, `generator/`, `issues/solver.rs`, `core/unified_diff.rs`) | none | concurrent analyzers, four strategies of edits, rounds over labels, hunks | completion order, edits of edited text, overlapping rounds, boundaries of hunks | stable findings, the contribution is the answer, one fix per issue, the diff is the change |
| Dream, patrol (`memory.rs`, `orchestrator/dream_lock.rs`, `pr/patrol.rs`) | preferences; rows it closes, conversations | `run_dream`, `record_outcome`, `check_single_pr` | overlapping threads, own answers seen again | preferences are of the recorded outcomes, nobody answers a program |
| Context of an analysis (`analysis/compressor.rs`) | the room that is left | `compress_files`, `truncate_middle` | bytes against characters, saturating limits | the files fit, and a file is cut only for want of room |
| Log of events (`core/events.rs`, `cli/commands/logs.rs`) | per command: a bus and a bounded channel; one file of all commands | `emit`, `spawn_logger`, `handle`, `run_logs` | two writes per event into a shared file, lags, ends without waiting | no hole in the log; what is shown are its last events |
| Models (`llm/`) | the cache of answers | fallback chain, cache, retries, streams | nesting and failures | a cached answer is the primary's |
| MCP server and client, cleanup (`mcp/`, `cli/commands/cleanup.rs`) | lines on their way, the grant | some twenty tools, `list_tools`, `call_tool` | late answers, guards listed apart from handlers, deletion of forks | no change without a grant, answers belong to their requests, forks in use stay |
| Configuration (`core/config.rs`, `cli/config_editor.rs`, `cli/wizard.rs`, `cli/commands/login.rs`) | YAML files, environment | `config set`, the wizard, login, `load_config` | three editors of one text and a strict reader | the file holds what was said; keys stay with their provider |
| Scheduler (`scheduler/mod.rs`, `cli/commands/schedule.rs`) | the clock, a flag | `start`, `seconds_until_next`, `stop` | the target minute, midnight, long cycles | one cycle a day, in its minute |
| Views (`web/mod.rs`, `cli/commands/{stats,status,prs,leaderboard}.rs`) | none | lists and counts | filters, limits of each list | all views are of the same rows, cut to the newest |

### How they interact

Two entry points lead to GitHub.

* **The run path.**  `contribai contribute` fetches the base, creates a row,
  hands it to `RunExecutor` and drives it once.  The executor calls the
  workspace, the model, the runner, the human prompt, `PrManager` and `Memory`;
  every one is awaited, and every durable effect (row and event, artifacts file,
  workspace, ledger, fork) is written by a call of its own.  Executor and
  `Memory` are also a public API meant to be used again on an existing run after
  a crash (`exec/workspace.rs:275`), by any process.
* **The pipeline path.**  `run`, `target`, `solve` and `hunt` make one
  `ContribPipeline` each, over the shared database: analysis or issues, the
  generator, `admit_contribution`, the audit ledger, the human, `PrManager`.
  What they did is known to the next command only through the database.

Around them: the patrol and the cleanup act on what was opened, the dream and
`record_outcome` learn from it, the scheduler starts commands, the MCP server
offers the operations to other programs, the dashboard and commands show the
tables, and every command first loads the configuration.

## 2. Modules

| module | models | used by |
|---|---|---|
| `RunStates` | `RunState`: states, edges, fail-closed exits | the next four, `Records` |
| `RunLifecycle` | a run record under `transition_run` and its bindings: the abstract specification of the row | `RunExecutorProps` refines it |
| `RunWorkspace`, `RunEvidence` | snapshot workspace; graph verdicts, reports, capsules, write boundary | `RunExecutor` |
| `RunExecutor`, `RunExecutorProps` | every stage, `drive`, `drive_to_evidence`, crashes, edits, expiry; its properties | `MCRunExecutor`, `MCRunReview` |
| `CircuitBreaker`, `Pipeline` | the breaker; `run`, `target`, `solve`, `hunt` as processes over one database | `MCPipeline` |
| `AdmissionPolicy` | manifests, consent, permits, evaluation, the capsule's boundary check | `Publication` |
| `AuditLedger` | rows and receipts of `admission_audit`, tampering | `Publication` |
| `Publication` | one contribution from consent to draft, several sessions, maintainers, time, lost answers, crashes | `MCPublication` |
| `Dream`, `Patrol`, `Llm`, `Runner` (with `Adapters`), `Diff`, `Generator`, `Mcp`, `Analysis`, `Issues` | one part each, named in section 1; `Mcp` is what deletes forks | `MCServices` |
| `EventLog` | commands, their channels and logging tasks, the shared file, `logs` | `MCServices` |
| `ContextCompressor` | files by size, limits in bytes, cuts in characters | `MCEdges` |
| `Settings` | configuration files line by line, three editors, loading | `MCEdges` |
| `Answers` | the strict parsers over tokens | `MCEdges` |
| `Snapshot` (with `Adapters`) | fetching, gaps, binding of originals, revisions, surface, the gate | `MCEdges` |
| `GitHubOperations`, `Requests` | each operation as its requests; throttle, send, retry, report | `Tools`, `MCEdges` |
| `Tools` | client, pipe, server, guard of the tools | `MCEdges` |
| `Records` | analyses, contexts, conversations, runs and pull requests as the views read them | `MCEdges` |
| `Scheduler` | wait, cycle, stop | `MCEdges` |
| `RunPartsProofs` | theorems about `RunLifecycle`, `Answers` and `Records`, section 5 | |
| `RunExecutorProofs`, `PipelineProofs`, `PublicationProofs` | theorems about the module of that name, section 5 | |
| `ViewProofs` | theorems about `EventLog` and `Diff`, section 5 | |
| `ServiceProofs`, `EdgeProofs` | theorems about the parts of `MCServices` and `MCEdges` | |
| `InductionLemmas` | induction over numbers and functions defined by steps | `RunPartsProofs`, `PublicationProofs`, `ViewProofs`, `ServiceProofs`, `EdgeProofs` |

### From code to state

*Executor.*  `run` is the row, `lastEvent` the newest `run_events` row, `art` the
artifacts file, `ws` the workspace with its checkpoint, `fork` branch and drafts,
`receipts` the approved decisions.  `local[e]` is what a stage of process `e`
holds on its stack.  `update_run` writes the whole row from that copy
(`UpdateRun`), `transition_run` reads, checks and writes under the database lock
(`Commit`).  `gates` and `approved` are history variables.  Fingerprints are the
things they fingerprint; paths and contents are model values.
The commands of the reproduction plan and of the validation graph run in the
workspace and may write there at any moment of their step (`CommandWrites`, the
files of `CommandFiles`); when the step is over the stage folds what they wrote
into the checkpoint (`run_executor.rs:672`, `:1031`).  `ws.theirs` is a history: the
paths that the run was not the last to write.  A graph keeps both as they were
when its last check ended (`on`, `theirs`).

*Pipeline.*  A pull request carries the number of its receipt, the kind of call
that opened it and its row: one variable shows the table, GitHub, and what was
lost between the two.  A process is cut where the code awaits and where it writes
the database.

*Publication.*  `files`, `issue`, `head` are the upstream repository, `branches`
and `drafts` the fork and its pull requests, `ledger` and `issued` the table and
what it was when a receipt was given.  A glob is a sequence of components with
wildcards, a content a sequence of lines, so that covering paths, counting lines
of a diff and parsing both schemas are the code's own decisions.

*Services.*  `Dream`: outcomes and preferences as rows, `learning[t]` where a
thread stands between two scopes of the lock.  `Patrol`: comments with author and
what they answer.  `Llm`: a caller is at "look", "ask" or "stream" of a model.
`Runner`: a child's state and a flag for descendants that hold its pipes.
`Diff`: texts as sequences of lines; what is shown is compared with what a reader makes
of it and with every choice of common lines, neither of which uses the algorithm.  `Generator`: a line is a sequence of words and gaps, so that a search
may begin and end inside lines; all white space counts as one gap, and words are never
split.  `Mcp`: forks, drafts, rows, two cleaners and a patrol.
`Analysis`: who has answered, in which order.  `Issues`: rounds and timelines.
`EventLog`: `file` is the log write by write, texts and line ends apart; an event
is its command and its number, and a channel is the numbers between what its
reader took and what was sent.

*Edges.*  `Settings`: a file is a sequence of lines with depth, name, value and
its YAML kind; editors work on lines, the loader on sections, and `told` is what
the user was shown to have set.  `Answers`: a text is a sequence of tokens that
may end anywhere, written of a document in one of the shapes the prompts ask for.  `Snapshot`: tree nodes with size and text; `fetched`, `work`
and `proposed` are what the run knows, holds and proposes.  `Requests`: `calls[c]`
with position, attempt and how often each change happened at the host.  `Tools`:
two queues of lines.  `Records`: tables as sets with keys or sequences where
insertion order is read; moments are half days, because one format of the code's
times compares as a text up to a day off.  `Scheduler`: half minutes.
`ContextCompressor`: a text is its number of characters and their width in bytes.

Seeded faults: a definition whose comment starts with `Seeded fault` is used by
no specification.  Each is a plausible bug of the definition next to it, and for
each property one of them makes its run fail.

## 3. Runs

| run | question | instance |
|---|---|---|
| `RunLifecycle` | does the record alone keep its promises over every sequence of legal steps? | three fingerprints |
| `MCRunCrash` | one process, crashes between any two durable effects and new drives: refinement of `RunLifecycle`, events, approval, evidence, receipt | 3 paths, one solver answer, two repairs, one round; a check formats a source file (`MCFormatter`) |
| `MCRunSteady` | without crashes: approved equals candidate, published files are the validated ones unless a command rewrote them, drives come back | two solver answers, all repairs, two rounds; commands write a source file and a test (`MCCommands`) |
| `MCRunReview` | two processes pick up one queued run, with crashes and edits: one draft, and the human saw what the challenger read | from `ready_for_review`, 2 paths, symmetry |
| `MCRunTerminal` | violation: a terminal run leaves its state | two processes, no crash |
| `MCRunLeftover` | violation: a draft that says its bug is resolved had its commands pass on the candidate | shipped CLI: no crash, one drive, silent commands |
| `MCPipelineHunt` | every command ends; a run stops at the threshold | one process, all commands, two repositories, two rounds, crashes |
| `MCPipelinePair` | every pull request has its own receipt; the late check admits each process once | two processes, three commands, crashes, symmetry |
| `MCPublish` | is a draft the approved candidate, within consent and permit, with an approval in a ledger that verifies only as issued? | two sessions, two candidates with one branch name, three manifest states, two attempts per PUT, two events |
| `MCServices` | ten parts, one at a time, each against the promise its callers rely on | two threads, at most three pull requests, issues or analyzers, texts of up to five lines, one crash |
| `MCEdges` | eleven parts, one at a time | see below |
| `MCEdgesSilence` | violation: a challenger that never gave its document is read as one that found nothing | as `MCEdges` |

All passing runs explore their whole state space.  `MCServices` and `MCEdges`
pick a `part` in their initial state and let only that part move, the others
resting in one state: the parts share no variable, so the sum of their state
spaces is checked and not the product, and one run stands for what would be ten.
Deadlock checking is off because every one of these systems may rest: a terminal
run, a finished command, a bound reached.

### Bounds, and why they are enough

* Executor: two candidate versions per path let a repair change, keep or leave
  out a file; a test file lets tests and changes differ; two rounds show the loop
  and its budget.  A restarted process is the same one with an empty `local`, so
  one process suffices for crash recovery; two are needed for stale copies and
  for the review, which starts where the drive leaves a run.  `MayResume` is
  FALSE for what the shipped CLI does and TRUE for the contract of the API.
  Commands write in `MCRunCrash` and `MCRunSteady`, the runs of whole drives that
  pass; in `MCRunReview`, which begins behind the checks, only other people write
  (`MayEdit`), and the two violations need no writes.
* Pipeline: two repositories tell "another" from "the same again"; `DailyLimit`
  1 or 2, `MaxGlobalIssues` 1 (3 in the code), `FailureThreshold` 1 (5 in the
  code) put every counter at its limit after few steps.  `MaxCommands`,
  `MaxReceipts`, `MaxSearched` bound the behaviour; a bound reached closes
  `AdmissionApproved`, never the other answers, so progress is not lost to it.
* Publication: two sessions, because every conflict is between two; a permit of
  one day; two events let a manifest change twice or change and be tampered
  with; two attempts (three in the code) show a retry and its end.
* Services: repeated lines, white space and two adjacent changes for the edits;
  all pairs of texts over two lines of up to three lines and of five lines with
  one line of context, which is where hunks touch; a cache that expires within
  two days; commands, stages and runs whose limits expire in every order.
* Edges: four starting files, eight assignments of every kind (a value of the
  wrong type among them), two environments, three commands; documents of up to
  four items cut anywhere, `MaxFindings` 2 (50 in the code); six base trees, three
  permits, seven proposals, two revisions, `FileLimit` 3; two callers with four
  operations and three attempts as in the code; three questions to a server; half
  days up to five, four pull requests, two runs and executions, lists of one or four
  rows (`Limits`), where `stats` shows two (five in the code), the leaderboard reads
  three to a row (five in the code), `/api/repos` two (three in the code) and the
  dashboard three in all (10,000 in the code), so that every list is cut and every
  list but the dashboard's and that of `stats` is whole; three days of three
  minutes; three files of every size around what a file may take and what is left
  (60 and 100 tokens, 3000 and 30000 in the code).
* Log: two commands emit two events each through a channel for one (256 in the
  code): a reader can keep up or lag, every two tasks can write between each
  other's writes, and a kill can fall between them.  The proof covers the rest.

### Fairness

* `FairSpec` (`CommandsEnd`, `DriveReturnsEventually`): weak fairness of the steps
  of a process inside a drive or a command.  The code's calls have timeouts or end
  in an error, and the human at the prompt is assumed to answer.  Nothing is
  assumed of crashes, edits, expiry or time, nor of an operator who would drive a
  run again.
* The other modules state safety only and assume no fairness.

## 4. Where the code and its documents differ

With a run:

| where | what the code does |
|---|---|
| `memory.rs:788` | `update_run` writes the state column from the caller's copy: a slow executor moves a terminal run back (`MCRunTerminal`). |
| `run_executor.rs:1265` | a repair that leaves out a file keeps it in the workspace: the commands that reproduced the bug pass on a tree that is not published, and the capsule says that the candidate resolves it, against "True when every recorded command exited zero on the candidate" (`core/evidence_v3.rs:58`; `MCRunLeftover`). |
| `run_executor.rs:1756` | prose with empty brackets before a document that was cut off is read as an empty list of findings, against the comment at line 1910 (`MCEdgesSilence`). |

Observed while modelling, without a run of its own.  *The run path:*

* a run left in `reproducing` or `challenging` has no stage in `drive_inner`
  (`run_executor.rs:1582`) and is not ended by its expiry, however often it is
  driven again;
* a crash between saving the artifacts and updating the row in `repair_once`
  (`:1311`) lets the human approve a candidate the row does not name, and one
  between checkpoint and save (`:1292`) leaves the old contribution with new
  files: `ApprovedIsCandidate` and `DraftFilesWereValidated` hold without crashes;
* the receipt is appended after the draft was opened (`:1550`;
  `docs/CONTRIBUTION_RUNS.md:149`), so a failed append leaves a draft without one;
  denials in `authorize` are never audited (`:381`);
* `package_evidence` answers a denial with `unreachable!()` (`:1361`); `validate`
  without a contribution runs an unscoped graph (`:930`), which the challenge
  stops; an optional check that fails is refused only at the write boundary
  (`core/evidence_v3.rs:403`);
* drift is looked for in written paths only (`exec/workspace.rs:458`);
* a check that rewrites a file of the candidate, a formatter say, is folded into
  the checkpoint as if the run had written it (`run_executor.rs:1031`): the
  challenger and the human are shown the rewritten file (`:1376` "This is exact",
  `:1647` "Unified diff of the exact candidate"), and the draft publishes the file as
  proposed, on which the checks after it did not run.  `DraftFilesWereValidated`
  excepts such files by name.  One that the commands of the base leg rewrite has the rewritten
  text bound as its original;
* carriage returns are stripped from what a model sees, so a verbatim quote of a
  file with them is refused as stale; files beyond the 24 of the solver's context
  and beyond 200 listed paths are left out silently; a file may be replaced
  without being quoted;
* with a partial snapshot and an unrestricted permit an existing file that was
  not fetched may be created as new (`docs/CONSENT_PROTOCOL.md:38`);
  `settings.gradle` decides about checks but is no manifest for the gaps;
  `bun.lockb` is always skipped as binary and always a gap; submodules and
  symbolic links are not recorded as skipped;
* findings after the 50th are not read, and unknown severities become low;
* the fingerprint of the review surface omits the summary; `get_combined_status`
  ignores cancelled and timed-out conclusions and reads an error as pending;
* output over 64 KiB ends the child by a broken pipe; `max_runtime_seconds` bounds
  each stage and not the run; a diff shows nothing for a changed line end.

*The pipeline path:*

* one run exceeds `max_prs_per_day`, because the count is read once
  (`pipeline.rs:686`), and the global search of a hunt has its own literal 3;
* `required_checks` and `required_reproduction` of a manifest are not enforced
  (`pipeline.rs:400`; `docs/CONSENT_PROTOCOL.md:70`, `:135`), so a draft may leave
  without a check that the manifest in force requires: `ConsentCovers` and with it
  `DraftWithinConsent` leave these two terms out, as their comments say; with them
  the property is violated; consent by label overrides a narrower manifest
  (`:1966`); a disabled canonical manifest falls through to a legacy marker
  (`core/admission.rs:400`; `docs/CONSENT_PROTOCOL.md:87`); `allowed_issue_labels`
  is read and not used;
* a hunt asks the breaker once per round, so a half-open breaker lets all of its
  repositories through (`circuit_breaker.rs:8` says one request);
* a failing `record_pr` in `process_repo_issues` forgets earlier pull requests of
  the call; that function neither records an outcome nor looks for an open one;
* `maybe_dream` drops the lock's guard before `run_dream` starts (`:1086`); a crash
  of `run_dream` leaves `dream_lock` at 1; `session_count` is never incremented;
  open pull requests count as not merged;
* `fork_if_needed` takes any repository of that name (`pr/manager.rs:401`); a branch
  left behind blocks its contribution for good; a merged contribution loses its
  "Fixes #N";
* `max_changes_per_pr` is not enforced for bare arrays; the fourth edit strategy
  loses a final newline; the second puts the replacement in the place of whole lines
  (`generator/fuzzy_match.rs:45`), so a search that begins or ends inside a line takes
  the rest of that line with it, and one of white space alone, where the file lacks it,
  replaces the first line; hence the exception in `InPlace`; the self review approves
  any text with "APPROVE";
* `has_linked_pr` is false on an error and reads the first 100 events only;
* the patrol answers again at each visit, closes a row for good on any error text
  with "404", and takes a failed list of comments for an empty one.

*Models, requests, tools:*

* the fallback chain exists only when the cache is enabled (`llm/provider.rs:1281`);
  the cache's key lacks temperature and length, and empty or partial answers are
  stored; 504 is not retried;
* what a host said in Retry-After is forgotten by the next call; a PUT or DELETE
  whose answer was lost reports an error although it happened, so
  `OutcomesAreTold` speaks of POST and PATCH there; lists read one page; several
  reads take any error for absence; closing an issue with a comment leaves the
  comment when the PATCH fails;
* the MCP client ignores the ids of responses and drops buffered lines, so after a
  time limit it takes the late answer for the next one; the server answers neither
  `ping` nor lines it cannot parse; `cleanup_forks` reports what it meant to
  delete; `get_open_issues` and `get_file_tree` ignore their limits; a pull request
  opened after a cleanup read the rows loses its fork.

*Memory, views, configuration, scheduler:*

* `has_analyzed_since` compares two formats of time as texts and counts up to a
  day more; an analysis without findings leaves the older context; edited comments
  keep their first text; comments without id collide, and two number spaces share
  one uniqueness constraint; `record_pr` resets status and creation time;
* lists are cut without a word: `stats` shows five pull requests whatever there are,
  `leaderboard` counts the newest five to each row asked for, beside totals of all
  (`cli/commands/leaderboard.rs:43`), `/api/stats` the newest 10,000, so that its
  total and that of `/metrics` part there;
* `leaderboard` and `/metrics` read figures `get_stats` never gives, `status` reads
  a key `url` that rows lack, `/api/runs` lists pull requests;
* `config set` with a list key leaves the items of the block form the wizard
  writes, and the file no longer loads; it checks neither types nor nested names;
  wizard and login silently drop choices whose line the file lacks; rerunning the
  wizard with the gh CLI wipes a saved token; `load_config(None)` falls back to
  defaults on a file it cannot read; without a file `CONTRIBAI_WEB_API_KEY` is
  ignored (`docs/deployment-guide.md:64`);
* an hour or minute out of range is accepted (`scheduler/mod.rs:25`) and counts
  on into later days; `seconds_until_next` ignores day, month and weekday; Ctrl-C
  during a cycle is lost; a change of the local clock can run a cycle twice;
* nobody waits for the task that logs events (`cli/commands/hunt.rs:52`), and a lag
  of its channel ends it without a word (`core/events.rs:216`): the last events of a
  command may be missing, against "logs all events from the bus"
  (`core/events.rs:212`); a kill between text and line end costs the next event of
  another command too; `logs --tail 0` shows everything (`cli/commands/logs.rs:72`);
* limits of a context are bytes and cuts are characters (`analysis/compressor.rs:115`):
  a file of wide characters can stay larger than the whole budget, against "to fit
  within budget" (`:56`), and loses its end (`:116`), so `NarrowContextFits` speaks
  of characters of one byte;
* no production caller: `core/retry.rs`, `core/quotas.rs`, `core/leaderboard.rs`,
  sessions, sandbox, the git strategies of the workspace, the MCP client,
  `analyze_closed_pr`, `monitor_and_record`, `archive_expired`,
  `list_interrupted_runs`, the scheduler's `stop`.

## 5. What is proved

Everything here holds for all values of the constants that satisfy the named
assumptions of the modules, which say what the code's types say: counts, limits
and lifetimes are natural numbers, lists are sequences, an absent value is none
of the values.  TLC evaluates them on every run.  The safety theorems need no
fairness.  A theorem with a hypothesis of its own is named with it below; each
hypothesis is the setting of a run, and where it is dropped a run shows what
goes wrong.

**`RunPartsProofs`**, of the record of a run: the type, that a submitted run is reviewed and passed
every gate, that authorized runs hold a permit, that terminal rows are frozen and
queued candidates fixed, for any set of fingerprints.  That a submitted candidate
passed every gate is not inductive; the invariant adds, for every state on the
way, which gates the history holds there.  Of the answers of models
(`AnswersReadWhole`), for any documents, items, words around them and cuts: the text
is the first tokens of a document between words and fences (`Surrounds`, `IsCut`).
The states of reading go token by token (`IsScan`); a word or a fence spoils them for
good, and after a whole value every token does, so the beginning of a document is
none.  Hence what can be read anywhere in the text, as it is, without fences or
between brackets, is the whole document (`PartIsTheDocument`), and a document that is
there is found between its brackets; its keys and arrays are where `DocumentOf` put
them.
Of the records (`RecordsReadBack`), for any repositories, patrols, clock and number of
rows: the row of a repository in `analyzed_repos` is of its last analysis, and the row
in `working_memory` of its last one that found something, until that is archived
(`RecallInv`); what a patrol has read is in the table of conversations or still to be
put there (`ThreadInv`), and rows are never taken out.  The figures are counts of
places in one list: the rows that a WHERE lets through are as many as the places that
have one (`MatchingIs`, by induction on the list), from the newest row on they are as
many (`NewestCounts`, by a map that is one to one), and the counts by a key add up to
the count of all (`SumOfTally`).  Nothing is assumed of the length of the tables:
every list of the same rows begins a longer one (`FewBeginMany`), so that what is
counted in it is never more (`FewerCounted`), and a list that asks for as many rows
as there are is the whole one (`ManyAreAll`).

**`RunExecutorProofs`** goes in layers, each an invariant that the next one uses.

| layer | invariant | theorem | under |
|---|---|---|---|
| what is in memory | `TypeInv`: at each step, the artifacts that the stage has loaded and which of them are there | `RunExecutorTypeCorrect` | nothing |
| the record | `RecordInv`: the row a process holds is the database's but for what it binds next | `RunsFollowTheLifecycle`, the refinement of `RunLifecycle` | `OneProcess` |
| artifacts | `Shapes` and `ArtsAreSound`: every artifact on disk and on the stack is about the contribution beside it; a capsule has the evidence it was built from | `DraftsCarryEvidence` | `OneProcess` |
| the world | `WorldInv`: what was approved, branched, drafted and receipted is the row's candidate | `DraftsWereApproved`, `SubmissionsAreBacked` | `OneProcess` |
| the workspace | `DiffInv`: checkpoint and written files through solve, repair and challenge | `ReviewsAreOfTheChallenged` | `OneProcess` |
| row and artifacts | `CandidateIsBound` | `ApprovalsAreOfTheCandidate` | `OneProcess`, no crash |
| the files | `DiskInv`: path by path, what a stage has still to write and what others wrote after it | `DraftsWereValidated` | `OneProcess`, no crash |
| the branch | `OneWriter`: at `submit.draft` there is one process, it created the branch, and no draft exists | `AtMostOneDraftOpened` | nothing |

`OneProcess` is how `contribute` drives a run: one process, which may die at any
step and start again.  Several processes that write the row from copies of their
own can undo a transition (`MCRunTerminal`), so the record refines its lifecycle
for one only.  A crash between saving the artifacts and updating the row parts
them (section 4), hence the hypothesis of `ApprovalsAreOfTheCandidate`; one between
checkpoint and save leaves new files under an old contribution, hence that of
`DraftsWereValidated`.  Commands and people may write any file at any time:
the property excepts the files that they were the last to write, and no others.

**`PipelineProofs`**: the type and `PullsHaveReceipts`.  A process about to open a
pull request carries only a number; the invariant says that it is a position of
the ledger, of the right repository, used by no pull request and held by no other
process.  `RunStopsAtThreshold`, for all thresholds: while a run works on
a repository its breaker is closed and the breaker's count is the run's streak of
failures.  `PullsPerProcessAreBounded`, for any finite set of processes: the
check for an open pull request is made long before the row is written; the
invariant counts a process behind the check like the row that it may still add, so
that rows and such processes together never outnumber the processes.

**`PublicationProofs`**, for any processes, candidates, manifests, attempts and
lifetimes: `DraftHasApproval` and `DraftWithinPermit` (the invariant `Inv` says of
every process past the human that some issued ledger ends with the approval of its
candidate, and of every process past the boundary check that it looked before the
permit ran out); `DraftIsTheCandidate` (`WritesInv` follows a branch change after
change, `OneOwner` gives every branch one session that writes it);
`ValidLedgerWasIssued` (by induction over the rows each receipt that verifies
holds all records before it); and `DraftWithinConsent`.  The
policy counts the lines between what two contents have in common at the front and
at the back, the property takes the shortest diff from a table of longest common
subsequences: the table exists and never decreases, and front and back together are
common lines, so the count bounds the diff for every content.

**`ServiceProofs`**

* `PreferencesAreCurrent` (Dream): outside an update the preferences are those of
  the rows; a thread in an update or a profile has rows to work with.
* `CachedAnswersArePrimarys` (Llm): a row was written by the first model, for the
  prompt it is stored under, not longer ago than its expiry; chats never look into
  the cache.
* `SeenForksAreKept` (Mcp): a row is closed, or about to be, only if the patrol
  missed the pull request; every pull request of a fork that a cleaner has doomed
  was missing or not recorded.
* `AnswersArePeoples` (Patrol): what was collected stays a person's comment,
  whatever is written before the patrol acts.
* `OneFixPerIssue` (Issues): every round has a number of its own, and the list
  that a round merges from several labels names an issue once; the second by
  induction over the lists.
* `VerdictsAreEarned` (Runner): a child's limit is no later than its stage's and the
  run's, and what is left of a reproduction is the rest of its plan.
* `FindingsAreStable` (Analysis): the answers are joined in the order of the
  configuration, and the first finding of a key is kept.
* `ContributionIsTheAnswer` (Generator), for any files and answers: by induction over
  the edits, each leaves the text as it is or is in place.  White space adds no words
  (`NormalWords`, `TrimmedIs`), a text has the words of its parts (`WordsOfConcat`),
  and so each strategy takes away a block whose words are those of the search between
  what is kept (`SplicedInPlace`, `NearInPlace`) or overlap with them (`FuzzyInPlace`).
  By induction over the changes, their order repeats no path.

**`EdgeProofs`**

* `RunsAreScheduled` (Scheduler): by division with remainder, the wait ends at the
  wanted minute, and two cycles are at least a day apart.
* `OutcomesAreTold` (Requests): the progress of a call says which of its changes
  happened; proved for each operation of the client's table.
* `AnswersAreToTheirRequests` (Tools): the two pipes hold one exchange at most, as
  long as the client waits; and no tool outside the grant changes anything.
* `ChecksAreTheProjects` (Snapshot): every file that was listed and looked at is
  there or skipped with a reason (`FetchInv`), so that no gap means no ecosystem
  file, permitted path or permitted test is missing.
* `ReviewIsOfTheChange` (Snapshot): the workspace is the base but for what the
  candidate makes of it (`IsBaseWith`), and what counts as the original of a path
  is its text in the base.  It needs the two exceptions that the property names: a
  permit for every path while files are missing, and a revision that leaves out a
  path.
* `NarrowContextFits` (ContextCompressor), for any limits: a cut text is no longer
  than its limit (`PiecesFit`) because the marker between its parts is no longer than
  the 60 bytes kept for it (`MarkersFit`).  The assumption is that a file has less
  than a gigabyte, hence at most nine digits in the marker; hosts serve far smaller
  ones.
* `SettingsAreAsTold` and `CredentialsAreTheProviders` (Settings), for any files,
  keys, values and environments.  One invariant serves both: files are editable,
  the file in use is paired if it should be, and every key that was told holds its
  text (`SettingsInvariant`).  A command leaves an *edit* of the file (`Edited`):
  lines written over others keep the layout, and with it the sections and the lines
  of every key (`SameLines`); a line put in moves those below it and none past
  another (`LinesDown`, `SettingDown`).  Files are usual to begin with
  (`SettingsAssumption`): what wizard and menu answer are settings with a value,
  not sections and not nested deeper, as in the template and in the example.

**`ViewProofs`**, for any commands, capacity and events, and for any texts, context
and limits of the diff:

* `LogHasNoHole`: the invariant adds where each task is (no further than its command
  has emitted) and what it has written by then: every event before the one it waits
  for, the last of its texts with a line end behind it.
* `LogsShowTheLast`: the events of a command stand in the file in the order of their
  numbers, also after failed writes (`OrderInv`); by induction over the writes, lines
  keep that order (`LinesInOrder`), and a buffer that drops its oldest element holds
  the last ones (`KeepsLast`, `ShownAreLast`).  The lemmas hold for every filter and
  every number of events but zero; at zero the code drops nothing and shows all.
* `DiffIsTheChange`: the invariant says that the text has `DiffFile` of the changes it
  has reached; the rest is about that function.  A recursive definition whose rank
  falls has a solution (`RecursionExists`), so the table and the operations satisfy
  their equations.  Two rising sequences of positions that match and begin behind
  `<<i, j>>` are no longer than the table says there (`TableIsLongest`, by induction
  over the lines ahead: where the next lines agree, all matches but the first are
  behind both; where they differ, all are behind one of them).  The operations are a walk from
  the beginning to the end of both texts (`IsWalk`), and with the table's entry they
  are as many as the lines of both (`LcsOpsWalk`), so no walk shows fewer changes.
  Over a walk the counts in a header are places in the two texts (`HunkFacts`),
  the ranges cut it into hunks with kept lines between them (`HunksLaid`,
  `KeptLines`), and putting these parts together gives the new text and the old
  one (`HunksApply`).  A file replaced whole is a walk too, though not a short one.

**`InductionLemmas`**: a set of natural numbers has a least element, hence a set
that holds zero and the successors of its members holds them all; a function that
starts with a value and goes on by steps over an interval exists, and has at its
end what every step preserves.  Recursive functions of the modules (the merge of
issues, the two lists of a candidate, the ledger, the table of subsequences, the
lines of a log) are reasoned about by these.  Operators declared RECURSIVE, and
library theorems that take an operator as a parameter, are out of reach of the
provers.

The types of `RunLifecycle`, `Pipeline`, `Llm` and `EventLog` are parts of these
invariants; no run checks what the proofs already say of them.

### Only model-checked

* Liveness: `CommandsEnd` and `DriveReturnsEventually`.  Fairness and ENABLED are
  out of reach of the prover's backends.
* The three violations of section 4.

## 6. Abstractions and assumptions

* SHA-256 is injective; files are compared by content.
* In `RunExecutor` the decisions of admission, the answers of models and the
  human are nondeterministic; `AdmissionPolicy`, `Answers`, `Snapshot` and `Runner`
  model how they come about.
* A write to SQLite is atomic and durable; update and event of `transition_run`
  are one transaction.  `write_file` may be interrupted after the bytes.
* The pipeline's reads of the database succeed or the process stops; lists of the
  last 20 or 100 open rows are complete.
* The breaker's cooldown does not elapse between a failure and the next turn.
* Wordings, prompts, HTML, colours and log lines are left out, as are numbers that
  only rank (scores, similarities) where no property compares them.
* Properties name their exceptions: `SettingsAreAsTold` excepts values that do not
  suit their key and files that do not load to begin with,
  `CredentialsAreTheProviders` a `config set` of one of the three alone and files
  without a line for provider or model, `ReviewIsOfTheChange` a permit for every path with files missing and a
  revision that drops a path, `AnswersAreToTheirRequests` a client that gave up,
  `DraftFilesWereValidated` files that a command or a person was the last to write,
  `DraftWithinConsent` required checks and a required reproduction, and
  `RecordsAreRecalled` rows older than those a list asks for.
  Each exception is one of the observations of section 4.

## 7. Not modelled

The legacy Python implementation and the web site; the TUI, HTML and
authentication of the dashboard; agents, plugins, templates and notifications
(registries and formatting); heuristics over text (`analysis/ast_intel.rs`, the
repository map, semantic chunks and summaries of contexts, skills, title similarity, quality scores, task
specification): they are functions without state whose results the modelled
parts only pass on; the router's table of models; wire formats of model providers;
migrations of the schema; the git strategies of the workspace, sessions, sandbox,
quotas and `core/retry.rs`, which nothing in the crate calls.
Left to extend: the record's refinement for several processes whose writes do not
overlap, and the composition of `Publication` with `Pipeline`'s commands.
