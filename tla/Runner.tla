------------------------------- MODULE Runner -------------------------------
(***************************************************************************)
(* The commands of a contribution run (exec/runner.rs): a stage plans argv  *)
(* commands, each is classified, gated, started as a child process, waited  *)
(* for until its time is up, and reported with what its pipes gave.  The    *)
(* stages are those of run_executor.rs that run commands: reproduction at   *)
(* the base, then the checks and the reproduction at the candidate.         *)
(***************************************************************************)
EXTENDS Naturals, Sequences, Adapters

CONSTANTS
  Setups,       \* one is chosen: the manifests at the root of the workspace, the
                \* commands that reproduce, allow_approval_commands
  CommandTime,  \* command_timeout_secs
  StageTime,    \* max_runtime_seconds of the permit
  RunTime,      \* expires_at of the run
  MaxRunClock   \* bound: the clock

\* Durations in seconds, and the commands of a setup in their order.
ASSUME RunnerAssumption ==
  /\ CommandTime \in Nat /\ StageTime \in Nat /\ RunTime \in Nat
  /\ \A chosen \in Setups :
       chosen.commands \in Seq({chosen.commands[i] : i \in DOMAIN chosen.commands})

VARIABLES
  setup,        \* the setup, which stays
  stage,        \* the stage, its deadline and what is left to run
  child,        \* the command that runs
  runClock,     \* the clock
  commandOutcomes,     \* history: what every command came to, in order
  verdict       \* reproduced at the base, resolved at the candidate

runnerVars == <<setup, stage, child, runClock, commandOutcomes, verdict>>

\* A command by what its classification looks at.
Argv(name, program) ==
  [name |-> name, program |-> program, word |-> "", meta |-> FALSE, privileged |-> FALSE,
   mutates |-> FALSE, escapes |-> FALSE]

\* classify_python_module, classify_script_runner.
PythonModule(word) ==
  CASE word \in {"twine", "flit", "keyring"} -> "forbidden"
    [] word \in {"pytest", "compileall", "mypy"} -> "safe"
    [] OTHER -> "approval"

PackageScript(word) ==
  IF word \in {"test", "build", "lint", "check"} THEN "safe" ELSE "approval"

ToolClass(argv) ==
  CASE argv.program = "deno" /\ argv.privileged -> "forbidden"
    [] argv.program = "python -m" -> PythonModule(argv.word)
    [] argv.program = "scripts" -> PackageScript(argv.word)
    [] argv.program \in {"tool", "deno"} -> "safe"
    [] OTHER -> "approval"

\* classify_command: the first rule that fits decides, so a shell character in
\* an argument hides that the program is forbidden.
Class(argv) ==
  IF argv.program = "" THEN "forbidden"
  ELSE IF argv.meta THEN "approval"
  ELSE IF (argv.privileged /\ argv.program # "deno") \/ argv.program = "forbidden" THEN "forbidden"
  ELSE IF argv.program = "wrapper" THEN "approval"
  ELSE IF argv.mutates THEN "forbidden"
  ELSE IF argv.escapes THEN "approval"
  ELSE ToolClass(argv)

\* standard_checks: name, argv and whether it is required.
Check(name, program, word, required) ==
  [name |-> name, required |-> required, argv |-> [Argv(name, program) EXCEPT !.word = word]]

StandardChecks(eco) ==
  CASE eco = "cargo" -> <<Check("cargo build", "tool", "", TRUE), Check("cargo test", "tool", "", TRUE),
                          Check("cargo clippy", "tool", "", FALSE),
                          Check("cargo fmt --check", "tool", "", FALSE)>>
    [] eco \in {"npm", "pnpm", "yarn"} ->
         <<Check("npm test", "scripts", "test", TRUE), Check("npm run build", "scripts", "build", FALSE),
           Check("npm run lint", "scripts", "lint", FALSE)>>
    [] eco = "bun" -> <<Check("bun test", "scripts", "test", TRUE),
                        Check("bun run build", "scripts", "build", FALSE)>>
    [] eco = "python" -> <<Check("python -m pytest", "python -m", "pytest", TRUE),
                           Check("python -m compileall", "python -m", "compileall", FALSE)>>
    [] eco = "go" -> <<Check("go build ./...", "tool", "", TRUE), Check("go test ./...", "tool", "", TRUE),
                       Check("go vet ./...", "tool", "", FALSE), Check("gofmt -l .", "tool", "", FALSE)>>
    [] eco = "maven" -> <<Check("mvn -q compile", "tool", "", TRUE), Check("mvn -q test", "tool", "", TRUE)>>
    [] eco = "gradle" -> <<Check("gradle build", "tool", "", TRUE), Check("gradle test", "tool", "", TRUE)>>

PlanChecks(has) ==
  LET Plan(i) == IF i > Len(Ecosystems(has)) THEN <<>> ELSE StandardChecks(Ecosystems(has)[i])
      Offered(c) == Class(c.argv) # "forbidden"
  IN SelectSeq(Plan(1) \o Plan(2), Offered)

NoChild == [at |-> "none"]

RunnerAt(chosen) ==
  /\ setup = chosen
  /\ stage = [at |-> "planned", ends |-> 0, left |-> <<>>]
  /\ child = NoChild /\ runClock = 0
  /\ commandOutcomes = <<>>
  /\ verdict = [reproduced |-> FALSE, resolved |-> FALSE]

RunnerInit == \E chosen \in Setups : RunnerAt(chosen)

MinOf(a, b) == IF a <= b THEN a ELSE b
Left(end) == IF end > runClock THEN end - runClock ELSE 0

\* runner_for: every stage starts its own deadline.
Deadline == runClock + MinOf(StageTime, Left(RunTime))

Repro(c) == [name |-> c.name, required |-> FALSE, argv |-> c]
Repros == [i \in 1..Len(setup.commands) |-> Repro(setup.commands[i])]

\* reproduce, then validate; a run that has expired starts no stage.
StartStage(at) ==
  /\ child = NoChild /\ stage.left = <<>>
  /\ \/ /\ at = "reproduce" /\ stage.at = "planned" /\ runClock < RunTime
        /\ stage' = [at |-> at, ends |-> Deadline, left |-> Repros]
     \/ /\ at = "checks" /\ stage.at = "reproduce" /\ runClock < RunTime
        /\ stage' = [at |-> at, ends |-> Deadline, left |-> PlanChecks(setup.manifests)]
     \/ /\ at = "resolve" /\ stage.at = "checks"
        /\ stage' = [stage EXCEPT !.at = at, !.left = Repros]
  /\ verdict' = [verdict EXCEPT !.resolved = at = "resolve" /\ Repros # <<>>]
  /\ UNCHANGED <<setup, child, runClock, commandOutcomes>>

\* What becomes of an outcome.  A command that fails, whatever made it fail,
\* reproduces the bug at the base.
Record(gate, passed, timedOut) ==
  LET item == Head(stage.left)
      result == IF gate # "ran" THEN "skipped" ELSE IF passed THEN "pass" ELSE "fail"
  IN /\ commandOutcomes' = Append(commandOutcomes, [argv |-> item.argv, stage |-> stage.at, result |-> result, child |-> child])
     /\ verdict' = CASE stage.at = "reproduce" ->
                          [verdict EXCEPT !.reproduced = @ \/ (gate = "ran" /\ ~timedOut /\ ~passed)]
                     [] stage.at = "resolve" -> [verdict EXCEPT !.resolved = @ /\ gate = "ran" /\ passed]
                     [] OTHER -> verdict
     /\ stage' = [stage EXCEPT !.left = Tail(@)]

Allowed(argv) == Class(argv) = "safe" \/ (Class(argv) = "approval" /\ setup.allow)

\* Seeded fault: the run's deadline does not shorten the time of a command.
TimeLimitOfCommandOnly == runClock + CommandTime

\* timeout.min(remaining).
TimeLimit == runClock + MinOf(CommandTime, Left(stage.ends))

\* run_indirect and run_inner, before the child is started.
Gate(argv) ==
  CASE Class(argv) = "forbidden" -> "forbidden"
    [] Class(argv) = "approval" /\ ~setup.allow -> "approval"
    [] Allowed(argv) /\ Left(stage.ends) = 0 -> "deadline"
    [] OTHER -> "ran"

Skip ==
  /\ child = NoChild /\ stage.left # <<>>
  /\ LET gate == Gate(Head(stage.left).argv)
     IN gate # "ran" /\ Record(gate, FALSE, FALSE)
  /\ UNCHANGED <<setup, child, runClock>>

\* The child starts.  One that prints more than is kept finds its pipe closed,
\* and may fail of that: how a command ends is its own business.
Spawn ==
  /\ child = NoChild /\ stage.left # <<>>
  /\ Gate(Head(stage.left).argv) = "ran"
  /\ child' = [at |-> "runs", began |-> runClock, limit |-> TimeLimit, ended |-> 0, held |-> FALSE]
  /\ UNCHANGED <<setup, stage, runClock, commandOutcomes, verdict>>

\* A program that is missing: a failed reproduction is recorded, a failed check
\* ends the stage.
SpawnFails ==
  /\ child = NoChild /\ stage.left # <<>>
  /\ Gate(Head(stage.left).argv) = "ran"
  /\ IF stage.at = "checks"
     THEN /\ stage' = [stage EXCEPT !.at = "error", !.left = <<>>]
          /\ UNCHANGED verdict
     ELSE /\ stage' = [stage EXCEPT !.left = Tail(@)]
          /\ verdict' = IF stage.at = "resolve" THEN [verdict EXCEPT !.resolved = FALSE] ELSE verdict
  /\ UNCHANGED <<setup, child, runClock, commandOutcomes>>

\* It leaves a process behind that holds its pipes.
LeavesProcess ==
  /\ child.at = "runs" /\ child' = [child EXCEPT !.held = TRUE]
  /\ UNCHANGED <<setup, stage, runClock, commandOutcomes, verdict>>

\* The child ends by itself.
Exit(how) ==
  /\ child.at = "runs"
  /\ child' = [child EXCEPT !.at = how, !.ended = runClock]
  /\ UNCHANGED <<setup, stage, runClock, commandOutcomes, verdict>>

\* Its time is up: the child is killed, and only the child.
TimesOut ==
  /\ child.at = "runs" /\ runClock = child.limit
  /\ child' = [child EXCEPT !.at = "killed"]
  /\ UNCHANGED <<setup, stage, runClock, commandOutcomes, verdict>>

\* The readers have seen the pipes close, and the outcome is there.
Report ==
  /\ child.at \in {"passed", "failed", "killed"}
  /\ ~child.held
  /\ Record("ran", child.at = "passed", child.at = "killed")
  /\ child' = NoChild
  /\ UNCHANGED <<setup, runClock>>

\* The process left behind ends, or prints as much as is kept.
ReleasesPipes ==
  /\ child # NoChild /\ child.held
  /\ child' = [child EXCEPT !.held = FALSE]
  /\ UNCHANGED <<setup, stage, runClock, commandOutcomes, verdict>>

\* The runtime looks at a timer as soon as it is due.
Tick ==
  /\ runClock < MaxRunClock
  /\ child.at = "runs" => runClock < child.limit
  /\ runClock' = runClock + 1
  /\ UNCHANGED <<setup, stage, child, commandOutcomes, verdict>>

RunnerNext ==
  \/ \E at \in {"reproduce", "checks", "resolve"} : StartStage(at)
  \/ Skip \/ Spawn \/ SpawnFails
  \/ \E how \in {"passed", "failed"} : Exit(how)
  \/ TimesOut \/ LeavesProcess \/ ReleasesPipes \/ Report \/ Tick

RunnerSpec == RunnerInit /\ [][RunnerNext]_runnerVars

\* A pass is the command's own and in time: a check that passed, and every
\* command of a reproduction that is resolved, was allowed to run, ended by
\* itself within its time, and before the run expired, however long earlier
\* commands and the processes they left behind have held the stage (run_inner).
\* A forbidden command never ran, and what reproduced the bug had ended too.
VerdictsAreEarned ==
  LET InTime(o) == /\ o.child.ended <= o.child.began + CommandTime
                   /\ o.child.ended <= RunTime
      At(at) == {i \in 1..Len(commandOutcomes) : commandOutcomes[i].stage = at}
  IN /\ \A i \in 1..Len(commandOutcomes) :
          /\ commandOutcomes[i].result # "skipped" => Allowed(commandOutcomes[i].argv)
          /\ commandOutcomes[i].result = "pass" => commandOutcomes[i].child.at = "passed" /\ InTime(commandOutcomes[i])
     /\ verdict.resolved /\ stage.left = <<>> =>
          \A c \in {setup.commands[i] : i \in DOMAIN setup.commands} :
            \E i \in At("resolve") : commandOutcomes[i].argv = c /\ commandOutcomes[i].result = "pass"
     /\ verdict.reproduced =>
          \E i \in At("reproduce") : commandOutcomes[i].child.at = "failed" /\ InTime(commandOutcomes[i])
=============================================================================
