------------------------------ MODULE Settings ------------------------------
(***************************************************************************)
(* The configuration file as the commands edit it, line by line: `config    *)
(* set' (cli/config_editor.rs), the setup wizard (cli/wizard.rs) and the    *)
(* menu of `login' (cli/commands/login.rs); and as every command loads it,  *)
(* as YAML of a known shape with secrets from the environment               *)
(* (core/config.rs).                                                       *)
(*                                                                         *)
(* A line has a depth, a name and a value: sections have depth 0, settings  *)
(* depth 1, the items of a list and the settings of a nested map depth 2.   *)
(* Comments and blank lines are left out.                                  *)
(***************************************************************************)
EXTENDS Naturals, Sequences, SequencesExt

CONSTANTS
  InitialFiles,  \* the files there can be at the start, by path
  Assignments,   \* arguments of `config set'
  Environments,  \* secrets the environment can have
  MaxCommands    \* bound: commands in a behaviour

VARIABLES
  files,         \* the configuration files that exist
  environment,   \* environment variables and command line tools
  origin,        \* history: the file in use, before the commands
  told,          \* history: what the commands said they set, by key
  misused,       \* history: the file did not load, or a value was set that does not suit its key
  paired,        \* history: the file names a provider, and its credentials were given with it
  commands       \* history: commands that are left

\* A line, and the names whose lines the wizard and the menu write anew: files have
\* them as settings with a value, not as sections or deeper.
YamlLine == [depth : Nat, name : STRING, text : STRING,
             kind : {"word", "number", "boolean", "list", "none"}, quoted : BOOLEAN]
AnsweredNames == {"provider", "model", "api_key", "base_url", "vertex_project", "token",
             "max_prs_per_day", "max_repos_per_run"}
IsUsual(file) ==
  /\ file \in Seq(YamlLine)
  /\ \A i \in 1..Len(file) : file[i].name \in AnsweredNames => file[i].depth = 1 /\ file[i].kind # "none"

ASSUME SettingsAssumption ==
  /\ \A found \in InitialFiles : \A p \in DOMAIN found : IsUsual(found[p])
  /\ \A r \in Assignments :
       /\ r.key = <<r.key[1], r.key[2]>>
       /\ r.value.text \in STRING /\ r.value.kind \in {"word", "number", "boolean", "list"}

settingsVars == <<files, environment, origin, told, misused, paired, commands>>

(***************************************************************************)
(* What is loaded                                                          *)
(***************************************************************************)
\* The types of the fields, with the default of a field that the file lacks.
Text(default) == [type |-> "text", default |-> default]
Number(default) == [type |-> "number", default |-> default]
Flag(default) == [type |-> "boolean", default |-> default]
List(default) == [type |-> "list", default |-> default]

\* Values with a name.
NoText == ""
Analyzers == "[security, code_quality, performance]"
StarsRange == "[50, 5000]"
SixHourly == "0 */6 * * *"

\* The sections of ContribAIConfig.
WebFields == [api_keys |-> List("[]"), webhook_secret |-> Text(NoText), tls_enabled |-> Flag("false"),
              tls_cert_path |-> Text(NoText), tls_key_path |-> Text(NoText)]
RunFields == [runs_root |-> Text(NoText), run_ttl_seconds |-> Number("7200"),
              max_repair_iterations |-> Number("2"), command_timeout_secs |-> Number("120"),
              allow_approval_commands |-> Flag("false"), snapshot_file_limit |-> Number("200")]
EnterpriseFields == [enabled |-> Flag("false"), sso_url |-> Text(NoText), audit_log_path |-> Text(NoText),
                     max_daily_cost_usd |-> Number("100.0"), allowed_providers |-> List("[]")]
GitHubFields == [token |-> Text(NoText), token_encrypted |-> Text(NoText), rate_limit_buffer |-> Number("100"),
                 max_prs_per_day |-> Number("5"), api_base |-> Text(NoText)]
LlmFields == [provider |-> Text("gemini"), api_key |-> Text(NoText), model |-> Text("gemini-3-flash-preview"),
              temperature |-> Number("0.3"), max_tokens |-> Number("65536"), base_url |-> Text(NoText),
              vertex_project |-> Text(NoText), vertex_location |-> Text("global"),
              cache_enabled |-> Flag("true"), cache_ttl_days |-> Number("7"), small_model |-> Text(NoText),
              copilot |-> Flag("false"), fallback |-> List("[]")]
AnalysisFields == [enabled_analyzers |-> List(Analyzers),
                   max_file_size_kb |-> Number("100"), skip_patterns |-> List("[]"),
                   max_context_tokens |-> Number("30000")]
ContributionFields == [max_changes_per_pr |-> Number("5"), sign_off |-> Flag("false"),
                       commit_convention |-> Text("conventional"), pr_style |-> Text("descriptive"),
                       sign_commits |-> Flag("true"), max_pr_body_length |-> Number("4000"),
                       include_tests |-> Flag("true")]
DiscoveryFields == [languages |-> List("fifteen"), stars_min |-> Number("50"), stars_max |-> Number("10000"),
                    max_results |-> Number("10"), stars_range |-> List(NoText), watchlist |-> List("[]")]
PipelineFields == [max_retries |-> Number("2"), min_quality_score |-> Number("0.6"), dry_run |-> Flag("true"),
                   max_repos_per_run |-> Number("10"), max_concurrent_repos |-> Number("3"),
                   risk_tolerance |-> Text("medium"), skip_docs_prs |-> Flag("true"),
                   require_bug_verification |-> Flag("true"), skip_repos_with_open_pr |-> Flag("true"),
                   agent_mode |-> Text("plan"), circuit_breaker_failure_threshold |-> Number("5"),
                   circuit_breaker_success_threshold |-> Number("2"),
                   circuit_breaker_cooldown_secs |-> Number("300")]
StorageFields == [db_path |-> Text("~/.contribai/memory.db")]
MultiModelFields == [enabled |-> Flag("false"), strategy |-> Text("cost_optimized")]
SchedulerFields == [cron |-> Text(SixHourly), enabled |-> Flag("false")]
QuotaFields == [github_daily |-> Number("1000"), llm_daily |-> Number("500"),
                llm_tokens_daily |-> Number("1000000")]
NotificationFields == [slack_webhook |-> Text(NoText), discord_webhook |-> Text(NoText),
                       telegram_token |-> Text(NoText), telegram_chat_id |-> Text(NoText)]
SandboxFields == [enabled |-> Flag("true"), mode |-> Text("local"), docker_image |-> Text(NoText),
                  timeout_seconds |-> Number("30"), require_validation |-> Flag("true"),
                  lsp_enabled |-> Flag("false"), lsp_timeout_secs |-> Number("10"),
                  lsp_accept_warnings |-> Flag("false")]

Schema ==
  [github |-> GitHubFields, llm |-> LlmFields, analysis |-> AnalysisFields,
   contribution |-> ContributionFields, discovery |-> DiscoveryFields, pipeline |-> PipelineFields,
   storage |-> StorageFields, multi_model |-> MultiModelFields, scheduler |-> SchedulerFields,
   quotas |-> QuotaFields, notifications |-> NotificationFields, sandbox |-> SandboxFields,
   web |-> WebFields, run |-> RunFields, enterprise |-> EnterpriseFields]

\* A key is a section and a name.
IsSetting(key) == key[1] \in DOMAIN Schema /\ key[2] \in DOMAIN Schema[key[1]]

FieldOf(key) == Schema[key[1]][key[2]]

\* The section of a line: the last line of depth 0 up to it, if there is one.
Heads(file, i) == {j \in 1..i : file[j].depth = 0}
SectionOf(file, i) == IF Heads(file, i) = {} THEN NoText ELSE file[Max(Heads(file, i))].name

LinesOf(file, key) ==
  {i \in DOMAIN file : file[i].depth > 0 /\ file[i].name = key[2] /\ SectionOf(file, i) = key[1]}

First(positions) == CHOOSE i \in positions : \A j \in positions : i <= j

\* The deeper lines below a line.
Below(file, i) ==
  LET ends == {j \in (i + 1)..Len(file) : file[j].depth <= file[i].depth}
  IN SubSeq(file, i + 1, IF ends = {} THEN Len(file) ELSE First(ends) - 1)

\* Any scalar is read as a text; numbers and booleans must come without quotes,
\* and a list in brackets or as items.
Fits(type, file, i) ==
  CASE type = "text" -> file[i].kind \in {"word", "number", "boolean"}
    [] type = "list" -> file[i].kind = "list" \/ (file[i].kind = "none" /\ Below(file, i) # <<>>)
    [] OTHER -> file[i].kind = type /\ ~file[i].quoted

\* serde_yaml: a value has nothing below it, and every field its type.  What is
\* not in the schema is passed over.
FromYaml(file) ==
  \A i \in DOMAIN file :
    /\ file[i].kind # "none" => Below(file, i) = <<>>
    /\ (file[i].depth = 1 /\ IsSetting(<<SectionOf(file, i), file[i].name>>)) =>
          Fits(FieldOf(<<SectionOf(file, i), file[i].name>>).type, file, i)

\* The value of a key: its text, and the items of a list.
Setting(file, key) ==
  LET at == {i \in LinesOf(file, key) : file[i].depth = 1}
  IN IF at = {} THEN [text |-> FieldOf(key).default, items |-> <<>>]
     ELSE [text |-> file[First(at)].text, items |-> Below(file, First(at))]

TextOf(file, key) == Setting(file, key).text

\* The environment variable of a provider; the others have none.
EnvironmentKey(provider, env) ==
  IF provider \in {"gemini", "openai", "anthropic"} /\ provider \in env.keys THEN provider ELSE NoText

\* resolve_secrets: an encrypted token that can be decrypted, the token of the
\* file, the environment's, then the one of `gh'; a missing key of the provider and a
\* missing project come from the environment.  Keys and endpoints are named after
\* the provider they belong to.
ResolveSecrets(file, env) ==
  LET plain == TextOf(file, <<"github", "token">>)
      token == IF TextOf(file, <<"github", "token_encrypted">>) # NoText /\ env.passphrase
               THEN "decrypted" ELSE plain
      provider == TextOf(file, <<"llm", "provider">>)
      key == TextOf(file, <<"llm", "api_key">>)
      project == TextOf(file, <<"llm", "vertex_project">>)
  IN [provider |-> provider, model |-> TextOf(file, <<"llm", "model">>),
      base_url |-> TextOf(file, <<"llm", "base_url">>),
      token |-> IF token = NoText THEN env.token ELSE token,
      api_key |-> IF key = NoText THEN EnvironmentKey(provider, env) ELSE key,
      vertex_project |-> IF project = NoText THEN env.project ELSE project]

\* The files in the order in which they are looked for.
Candidates == <<"config.yaml", "config.yml", "home">>

ResolveConfigPath ==
  LET found == {i \in DOMAIN Candidates : Candidates[i] \in DOMAIN files}
  IN IF found = {} THEN Candidates[1] ELSE Candidates[First(found)]

\* load_config without a path: the first file there is; the defaults if there is
\* none, and also if it cannot be read as a configuration.
InUse == IF ResolveConfigPath \in DOMAIN files THEN files[ResolveConfigPath] ELSE <<>>

LoadConfig == ResolveSecrets(IF FromYaml(InUse) THEN InUse ELSE <<>>, environment)

(***************************************************************************)
(* The editors                                                             *)
(***************************************************************************)
Section(section) == [depth |-> 0, name |-> section, text |-> NoText, kind |-> "none", quoted |-> FALSE]
Words(name, text) == [depth |-> 1, name |-> name, text |-> text, kind |-> "word", quoted |-> TRUE]
Bare(name, text, kind) == [depth |-> 1, name |-> name, text |-> text, kind |-> kind, quoted |-> FALSE]
Deeper(line) == [line EXCEPT !.depth = 2]

\* KNOWN_KEYS: the keys that take certain values only.
ValidValues(key) ==
  CASE key = <<"llm", "provider">> -> {"gemini", "vertex", "openai", "anthropic", "ollama"}
    [] key[2] = "enabled" /\ key[1] \in {"web", "scheduler", "multi_model"} -> {"true", "false"}
    [] key = <<"multi_model", "strategy">> -> {"performance", "balanced", "economy"}
    [] key = <<"pipeline", "risk_tolerance">> -> {"low", "medium", "high"}
    [] OTHER -> {}

\* format_yaml_value: all but words are written as they are.
FormatYamlValue(line, value) ==
  [line EXCEPT !.text = value.text, !.kind = value.kind, !.quoted = (value.kind = "word")]

\* Seeded fault: the end of a section goes unnoticed.
ReplaceYamlValueAnywhere(file, key, value) ==
  LET at == {i \in DOMAIN file : file[i].depth > 0 /\ file[i].name = key[2]}
  IN IF at = {} THEN file ELSE [file EXCEPT ![First(at)] = FormatYamlValue(@, value)]

\* replace_yaml_value: the first line of that name in the section, the lines
\* below it left alone.
ReplaceYamlValue(file, key, value) ==
  LET at == LinesOf(file, key)
  IN IF at = {} THEN file ELSE [file EXCEPT ![First(at)] = FormatYamlValue(@, value)]

\* extract_yaml_value, for `config get' and `config list'.
ExtractYamlValue(file, key) == file[First(LinesOf(file, key))].text

Suits(value, type) == IF type = "text" THEN value.kind # "list" ELSE value.kind = type

\* set_config_value: an invalid value, a missing file and a missing line are
\* errors; the type of the value is not looked at.
SetConfigValue(key, value) ==
  LET path == ResolveConfigPath
  IN IF /\ ValidValues(key) = {} \/ value.text \in ValidValues(key)
        /\ path \in DOMAIN files /\ LinesOf(files[path], key) # {}
     THEN /\ files' = [files EXCEPT ![path] = ReplaceYamlValue(@, key, value)]
          /\ told' = [k \in DOMAIN told \cup {key} |-> IF k = key THEN value.text ELSE told[k]]
          /\ misused' = \/ misused
                        \/ files[path][First(LinesOf(files[path], key))].depth # 1
                        \/ Below(files[path], First(LinesOf(files[path], key))) # <<>>
                        \/ IsSetting(key) /\ ~Suits(value, FieldOf(key).type)
          /\ paired' = (paired /\ key \notin {<<"llm", n>> : n \in {"provider", "model", "api_key", "base_url"}})
     ELSE UNCHANGED <<files, told, misused, paired>>

\* LlmChoice
DefaultModel(provider) ==
  CASE provider \in {"gemini", "vertex"} -> "gemini-3-flash-preview"
    [] provider = "openai" -> "gpt-4o"
    [] provider = "anthropic" -> "claude-3-5-sonnet-20241022"
    [] OTHER -> "llama3"

\* What a provider is asked for: a key, an endpoint or a project, each of which
\* may be left empty.
Credentials(provider) ==
  {[provider |-> provider, model |-> DefaultModel(provider),
    api_key |-> k, base_url |-> u, vertex_project |-> v] :
     k \in IF provider \in {"gemini", "openai", "anthropic"} THEN {NoText, provider} ELSE {NoText},
     u \in CASE provider \in {"openai", "anthropic"} -> {NoText, provider}
             [] provider = "ollama" -> {provider}
             [] OTHER -> {NoText},
     v \in IF provider = "vertex" THEN {"project"} ELSE {NoText}}

Named(file, name) == {i \in DOMAIN file : file[i].name = name}

\* Every line of one of the names is written anew, wherever it stands.
Rewritten(file, answers) ==
  [i \in DOMAIN file |->
     IF file[i].name \in DOMAIN answers THEN Words(file[i].name, answers[file[i].name])
     ELSE file[i]]

\* apply_wizard_to_yaml: the answers and the limits, the provider only if there is
\* a section for it; a missing base_url is put below the key.
ApplyWizardToYaml(file, answers, limits) ==
  LET taken == IF \E i \in Named(file, "llm") : file[i].depth = 0 THEN DOMAIN answers
               ELSE DOMAIN answers \ {"provider"}
      rewritten == Rewritten(file, [n \in taken |-> answers[n]])
      limited == [i \in DOMAIN file |->
                    IF file[i].name \in DOMAIN limits
                    THEN Bare(file[i].name, limits[file[i].name], "number") ELSE rewritten[i]]
  IN IF Named(file, "base_url") = {} /\ Named(file, "api_key") # {}
     THEN InsertAt(limited, First(Named(file, "api_key")) + 1, Words("base_url", answers.base_url))
     ELSE limited

\* The file has the lines that name a provider and its model.
NamesProvider(file) == \A n \in {"provider", "model"} : LinesOf(file, <<"llm", n>>) # {}

\* default_config_template, one setting of a kind.
DefaultConfigTemplate ==
  <<Section("github"), Words("token", NoText), Bare("max_repos_per_run", "20", "number"),
    Bare("max_prs_per_day", "15", "number"),
    Section("llm"), Words("provider", "gemini"), Words("model", "gemini-3-flash-preview"),
    Words("api_key", NoText), Words("base_url", NoText), Bare("temperature", "0.3", "number"),
    Words("vertex_project", NoText),
    Section("contribution"), Bare("max_files_per_pr", "10", "number"), Bare("style", NoText, "none"),
    Deeper(Words("commit_convention", "conventional")),
    Section("discovery"), Bare("languages", NoText, "none"),
    Deeper(Bare("-", "python", "word")), Deeper(Bare("-", "rust", "word")),
    Bare("stars_range", StarsRange, "list"),
    Section("scheduler"), Bare("enabled", "false", "boolean"),
    Section("multi_model"), Bare("enabled", "true", "boolean"), Words("strategy", "balanced")>>

\* The keys that the answers are meant for, if the file has a line for them.
Meant(file, answers) ==
  {key \in {"github", "llm", "pipeline"} \X DOMAIN answers :
     /\ LinesOf(file, key) # {}
     /\ key[1] = "pipeline" => key[2] = "max_repos_per_run"}

Heard(file, answers) ==
  [k \in DOMAIN told \cup Meant(file, answers) |->
     IF k \in Meant(file, answers) THEN answers[k[2]] ELSE told[k]]

\* run_init_wizard and write_wizard_config: a file that is there is edited,
\* otherwise the template is, and hides the files of the other places.
RunInitWizard(answers, token, limits) ==
  LET path == Candidates[1]
      existing == IF path \in DOMAIN files THEN files[path] ELSE DefaultConfigTemplate
      all == [n \in DOMAIN answers \cup {"token"} |-> IF n = "token" THEN token ELSE answers[n]]
      updated == ApplyWizardToYaml(existing, all, limits)
      said == [n \in DOMAIN all \cup DOMAIN limits |-> IF n \in DOMAIN all THEN all[n] ELSE limits[n]]
      start == IF path \in DOMAIN files THEN told ELSE [k \in {} |-> NoText]
  IN /\ files' = [p \in DOMAIN files \cup {path} |-> IF p = path THEN updated ELSE files[p]]
     /\ told' = [k \in DOMAIN start \cup Meant(updated, said) |->
                   IF k \in Meant(updated, said) THEN said[k[2]] ELSE start[k]]
     /\ origin' = IF path \in DOMAIN files THEN origin ELSE DefaultConfigTemplate
     /\ misused' = (misused /\ path \in DOMAIN files)
     /\ paired' = NamesProvider(updated)

\* Seeded fault: the endpoint of the last provider stays.
SwitchProviderOnly(answers) ==
  LET path == Candidates[1]
      given == [n \in DOMAIN answers \ {"base_url"} |-> answers[n]]
  IN IF path \in DOMAIN files /\ Named(files[path], "provider") # {} /\ Named(files[path], "llm") # {}
     THEN /\ files' = [files EXCEPT ![path] = Rewritten(@, given)]
          /\ told' = Heard(files[path], given)
          /\ paired' = NamesProvider(files[path])
          /\ UNCHANGED <<origin, misused>>
     ELSE UNCHANGED <<files, told, origin, misused, paired>>

\* `login', switch the provider: written only if the file has a provider and a
\* section for it; lines that are missing are not added.
SwitchProvider(answers) ==
  LET path == Candidates[1]
  IN IF path \in DOMAIN files /\ Named(files[path], "provider") # {} /\ Named(files[path], "llm") # {}
     THEN /\ files' = [files EXCEPT ![path] = Rewritten(@, answers)]
          /\ told' = Heard(files[path], answers)
          /\ paired' = NamesProvider(files[path])
          /\ UNCHANGED <<origin, misused>>
     ELSE UNCHANGED <<files, told, origin, misused, paired>>

\* `login', set the GitHub token: an empty one is skipped.
SetGitHubToken(token) ==
  LET path == Candidates[1]
      given == [n \in {"token"} |-> token]
  IN IF token # NoText /\ path \in DOMAIN files
     THEN /\ files' = [files EXCEPT ![path] = Rewritten(@, given)]
          /\ told' = Heard(files[path], given)
          /\ UNCHANGED <<origin, misused, paired>>
     ELSE UNCHANGED <<files, told, origin, misused, paired>>

\* The model, the key and the endpoint of a file are those of its provider.
IsPaired(file) ==
  LET provider == TextOf(file, <<"llm", "provider">>)
  IN /\ TextOf(file, <<"llm", "model">>) = DefaultModel(provider)
     /\ TextOf(file, <<"llm", "api_key">>) \in {NoText, provider}
     /\ TextOf(file, <<"llm", "base_url">>) \in {NoText, provider}

SettingsAt(found, env) ==
  /\ files = found /\ environment = env
  /\ origin = InUse
  /\ told = [k \in {} |-> NoText]
  /\ misused = ~FromYaml(InUse) /\ paired = IsPaired(InUse)
  /\ commands = MaxCommands

SettingsInit == \E found \in InitialFiles, env \in Environments : SettingsAt(found, env)

Providers == {"gemini", "vertex", "openai", "anthropic", "ollama"}

SettingsNext ==
  /\ commands > 0 /\ commands' = commands - 1
  /\ UNCHANGED environment
  /\ \/ \E r \in Assignments : SetConfigValue(r.key, r.value) /\ UNCHANGED origin
     \/ \E p \in Providers : \E answers \in Credentials(p) :
          \/ SwitchProvider(answers)
          \/ \E token \in {NoText, "mine"} :
               RunInitWizard(answers, token, [max_prs_per_day |-> "3", max_repos_per_run |-> "4"])
     \/ \E token \in {NoText, "new"} : SetGitHubToken(token)

SettingsSpec == SettingsInit /\ [][SettingsNext]_settingsVars

(***************************************************************************)
(* Properties                                                              *)
(***************************************************************************)
\* Whatever commands edited the file, it loads, `config get' shows what they said
\* they set, the next command runs with that, and every other setting is what it
\* was before: as long as the file loaded at first and no value was set that does
\* not suit its key.
SettingsAreAsTold ==
  ~misused =>
    LET Keys(file) == {<<SectionOf(file, i), file[i].name>> : i \in {j \in DOMAIN file : file[j].depth = 1}}
    IN /\ FromYaml(InUse)
       /\ \A k \in Keys(InUse) \cup Keys(origin) : IsSetting(k) =>
            IF k \in DOMAIN told
            THEN TextOf(InUse, k) = told[k] /\ ExtractYamlValue(InUse, k) = told[k]
            ELSE Setting(InUse, k) = Setting(origin, k)

\* The model, the key and the endpoint of a call are those of the provider it
\* goes to: wizard and login replace them together, and a missing key comes from
\* that provider's environment variable; unless `config set' changed one alone, or
\* the file had no lines for provider and model.
CredentialsAreTheProviders ==
  paired =>
    /\ LoadConfig.api_key \in {NoText, LoadConfig.provider}
    /\ LoadConfig.base_url \in {NoText, LoadConfig.provider}
    /\ LoadConfig.model = DefaultModel(LoadConfig.provider)
=============================================================================
