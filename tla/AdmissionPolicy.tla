-------------------------- MODULE AdmissionPolicy --------------------------
(***************************************************************************)
(* Maintainer consent, permits, the admission policy and the evidence      *)
(* capsule of core/admission.rs: the decisions, without the processes that *)
(* take them (module Publication).                                         *)
(*                                                                         *)
(* A path is the sequence of its components and a glob a sequence of       *)
(* components of which "*" and a last "**" are wildcards.  The content of  *)
(* a file is a sequence of lines.  A SHA-256 is represented by what it is  *)
(* the digest of; a full commit id is a member of Shas.                    *)
(***************************************************************************)
EXTENDS Naturals, Sequences, FiniteSets

CONSTANTS
  Shas,       \* full commit ids
  PermitTtl,  \* DEFAULT_PERMIT_TTL_HOURS, in ticks of the clock
  None        \* an absent value

ASSUME PolicyAssumption ==
  /\ PermitTtl \in Nat \ {0}
  /\ None \notin Shas

Elements(s) == {s[i] : i \in DOMAIN s}

(***************************************************************************)
(* Paths                                                                   *)
(***************************************************************************)
\* to_ascii_lowercase, on the names that are not in lower case already.
Lowered(path) ==
  LET lower == [n \in {"LICENSE", "Cargo.toml", "Cargo.lock"} |->
                  CASE n = "LICENSE" -> "license"
                    [] n = "Cargo.toml" -> "cargo.toml"
                    [] n = "Cargo.lock" -> "cargo.lock"]
  IN [i \in DOMAIN path |-> IF path[i] \in DOMAIN lower THEN lower[path[i]] ELSE path[i]]

FileName(path) == path[Len(path)]

\* Components that no canonical relative path has: empty (an absolute path or
\* a doubled slash), dots, a drive letter, a URI metacharacter, a backslash.
BadComponents == {"", ".", "..", "C:", "a?b", "a\\b"}

RepositoryPathError(path) ==
  path = <<>> \/ Elements(path) \cap BadComponents # {}

IsProtectedPath(path) ==
  LET p == Lowered(path)
  IN \/ FileName(p) \in {"license", "contributing.md", "security.md", "codeowners",
                         "agents.md", "contribai_allow", "contribai_block"}
     \/ p \in {<<".github", "contribai.yml">>, <<".github", "funding.yml">>}
     \/ Len(p) > 2 /\ p[1] = ".github" /\ p[2] = "workflows"

IsDependencyManifest(path) == FileName(path) \in {"Cargo.toml", "package.json", "go.mod"}
IsLockfile(path) == FileName(path) \in {"Cargo.lock", "yarn.lock", "go.sum"}
IsDependencyPath(path) == IsDependencyManifest(path) \/ IsLockfile(path)

\* A directory of tests, at the top or below it, or the name of a test file.
\* The benches and the specs count only below the top.
IsTestPath(path) ==
  \/ \E i \in 1..(Len(path) - 1) :
       path[i] \in {"tests", "test"} \cup IF i > 1 THEN {"benches", "spec"} ELSE {}
  \/ FileName(path) \in {"lib_test.rs", "lib.spec.ts"}

Hidden == {".github"}   \* the components with a leading dot

\* path_matches: separators and leading dots are literal.
PathMatches(pattern, path) ==
  LET fits(c, n) == c = n \/ (c = "*" /\ n \notin Hidden)
      open == Len(pattern) > 0 /\ pattern[Len(pattern)] = "**"
      fixed == IF open THEN Len(pattern) - 1 ELSE Len(pattern)
  IN /\ IF open THEN Len(path) > fixed ELSE Len(path) = fixed
     /\ \A i \in 1..fixed : fits(pattern[i], path[i])
     /\ \A i \in (fixed + 1)..Len(path) : path[i] \notin Hidden

IsSafeAllowPattern(pattern) == ~RepositoryPathError(pattern)

(***************************************************************************)
(* Consent                                                                 *)
(***************************************************************************)
ConsentPaths == <<".github/contribai.yml", ".github/CONTRIBAI_ALLOW", "CONTRIBAI_ALLOW">>

MaintainerApprovalLabels == {"agent-ready", "contribai-approved", "ai-contribution-approved"}

DefaultMaxFiles == 5
DefaultMaxChangedLines == 250
MaxRuntime == 86400

Default(value, default) == IF value = None THEN default ELSE value

\* budgets: a zero bound denies the manifest.
Budgets(m) == <<Default(m.maxFiles, DefaultMaxFiles), Default(m.maxLines, DefaultMaxChangedLines)>>
BudgetsHold(m) == Budgets(m)[1] > 0 /\ Budgets(m)[2] > 0

\* canonical_check_name; a name that is still unsafe denies the manifest.
CanonicalCheck(name) == IF name = "cargo test" THEN "cargo_test" ELSE name
UnsafeChecks == {"cargo/test"}

\* The profile of schema 1, which is that of a label too.
SchemaOne(source, files, lines, allowed) ==
  [source |-> source, schema |-> 1, maxFiles |-> files, maxLines |-> lines,
   allowed |-> allowed, denied |-> {}, required |-> {},
   deps |-> TRUE, newFiles |-> TRUE, tests |-> TRUE,
   reproduction |-> FALSE, mode |-> "local", seconds |-> 900]

Manifest(path) == [kind |-> "manifest", path |-> path]
Label(issue, label) == [kind |-> "label", issue |-> issue, label |-> label]

\* A manifest as it is written; `two' holds the fields of schema 2, None when
\* it has none of them, and `unknown' says that it has a field nobody knows.
ParseV1(path, m) ==
  IF /\ ~m.unknown /\ m.two = None   \* deny_unknown_fields
     /\ m.enabled /\ BudgetsHold(m)
     /\ \A pattern \in m.allowed : IsSafeAllowPattern(pattern)
  THEN SchemaOne(Manifest(path), Budgets(m)[1], Budgets(m)[2], m.allowed)
  ELSE None

NoSchemaTwo ==
  [denied |-> {}, required |-> {}, deps |-> FALSE, newFiles |-> None, tests |-> None,
   reproduction |-> FALSE, mode |-> None, seconds |-> None]

ParseV2(path, m) ==
  LET two == Default(m.two, NoSchemaTwo)
      required == {CanonicalCheck(n) : n \in two.required} \ {""}
      seconds == Default(two.seconds, 900)
  IN IF /\ ~m.unknown /\ m.enabled /\ BudgetsHold(m)
        /\ \A pattern \in m.allowed \cup two.denied : IsSafeAllowPattern(pattern)
        /\ required \cap UnsafeChecks = {}
        /\ seconds \in 1..MaxRuntime
     THEN [source |-> Manifest(path), schema |-> 2,
           maxFiles |-> Budgets(m)[1], maxLines |-> Budgets(m)[2],
           allowed |-> m.allowed, denied |-> two.denied, required |-> required,
           deps |-> two.deps, newFiles |-> Default(two.newFiles, TRUE),
           tests |-> Default(two.tests, TRUE), reproduction |-> two.reproduction,
           mode |-> Default(two.mode, "local"), seconds |-> seconds]
     ELSE None

\* RepositoryConsent::parse, of what the repository has at a path.
Parse(path, m) ==
  IF m = None THEN None
  ELSE CASE Default(m.schema, 1) = 1 -> ParseV1(path, m)
         [] Default(m.schema, 1) = 2 -> ParseV2(path, m)
         [] OTHER -> None

\* RepositoryConsent::from_issue: an open issue with an approval label.
FromLabel(issue, label) ==
  SchemaOne(Label(issue, label), DefaultMaxFiles, DefaultMaxChangedLines, {})

FromIssue(issue) ==
  LET labels == issue.labels \cap MaintainerApprovalLabels
  IN IF issue.open /\ labels # {}
     THEN FromLabel(issue.number, CHOOSE l \in labels : TRUE)
     ELSE None

\* discover_repository_consent: the first of the paths that can be read and
\* that parses.  `readable' is the set of paths whose request was answered.
DiscoverRepositoryConsent(files, readable) ==
  LET found == {i \in readable : Parse(ConsentPaths[i], files[i]) # None}
  IN IF found = {} THEN None
     ELSE LET i == CHOOSE i \in found : \A j \in found : i <= j
          IN Parse(ConsentPaths[i], files[i])

(***************************************************************************)
(* Permits and the admission policy                                        *)
(***************************************************************************)
\* ContributionPermit::issue
IssuePermit(repository, base, consent, issue, now) ==
  [repository |-> repository, base |-> base, consent |-> consent, issue |-> issue,
   draftOnly |-> TRUE, issuedAt |-> now, expiresAt |-> now + PermitTtl]

\* The lines two contents have in common at their front, and at their back
\* among the rest.
CommonPrefix(old, new) ==
  CHOOSE n \in 0..Len(old) :
    /\ n <= Len(new)
    /\ \A i \in 1..n : old[i] = new[i]
    /\ n < Len(old) /\ n < Len(new) => old[n + 1] # new[n + 1]

CommonSuffix(old, new, most) ==
  CHOOSE n \in 0..most :
    /\ \A i \in 0..(n - 1) : old[Len(old) - i] = new[Len(new) - i]
    /\ n < most => old[Len(old) - n] # new[Len(new) - n]

ChangedLineCount(change) ==
  IF change.old = None THEN Len(change.new)
  ELSE LET shorter == IF Len(change.old) <= Len(change.new)
                      THEN Len(change.old) ELSE Len(change.new)
           prefix == CommonPrefix(change.old, change.new)
           suffix == CommonSuffix(change.old, change.new, shorter - prefix)
       IN (Len(change.old) - (prefix + suffix)) + (Len(change.new) - (prefix + suffix))

\* The changes of a contribution followed by its tests.
Changes(contribution) == contribution.changes \o contribution.tests
PathsOf(contribution) ==
  [i \in DOMAIN Changes(contribution) |-> Changes(contribution)[i].path]

ChangedLines(contribution) ==
  LET changes == Changes(contribution)
      upTo[i \in 0..Len(changes)] ==
        IF i = 0 THEN 0 ELSE upTo[i - 1] + ChangedLineCount(changes[i])
  IN upTo[Len(changes)]

HasDuplicates(paths) == \E i, j \in DOMAIN paths : i # j /\ paths[i] = paths[j]

\* What a permit has against one change.  An invalid path is not looked at
\* any further.
ChangeViolations(change, consent) ==
  LET path == change.path
      holds(kind, condition) == IF condition THEN {kind} ELSE {}
      isProtected == IsProtectedPath(path)
  IN IF RepositoryPathError(path) THEN {"invalid_path"}
     ELSE UNION {
       holds("unsupported_deletion", change.deleted),
       holds("protected_path", isProtected),
       holds("outside_permit",
             /\ ~isProtected /\ consent.allowed # {}
             /\ ~\E pattern \in consent.allowed : PathMatches(pattern, path)),
       holds("denied_path",
             ~isProtected /\ \E pattern \in consent.denied : PathMatches(pattern, path)),
       holds("dependency_change", ~consent.deps /\ IsDependencyPath(path)),
       holds("new_file", ~consent.newFiles /\ change.isNew),
       holds("test_change", ~consent.tests /\ IsTestPath(path))}

\* AdmissionController::evaluate
Evaluate(repository, contribution, permit, now) ==
  LET changes == Changes(contribution)
      paths == PathsOf(contribution)
      lines == ChangedLines(contribution)
      holds(kind, condition) == IF condition THEN {kind} ELSE {}
      violations ==
        UNION {holds("repository_mismatch", permit.repository # repository),
               holds("base_revision", permit.base \notin Shas),
               holds("permit_expired", now > permit.expiresAt),
               holds("too_many_files", Len(paths) > permit.consent.maxFiles),
               holds("too_many_lines", lines > permit.consent.maxLines),
               holds("duplicate_path",
                     \E i, j \in DOMAIN paths :
                       i # j /\ paths[i] = paths[j] /\ ~RepositoryPathError(paths[i])),
               UNION {ChangeViolations(changes[i], permit.consent) : i \in DOMAIN changes}}
  IN [violations |-> violations, files |-> Len(paths), lines |-> lines, paths |-> paths]

Allowed(report) == report.violations = {}

(***************************************************************************)
(* The evidence capsule                                                    *)
(***************************************************************************)
Check(name, passed) == [name |-> name, passed |-> passed]

\* EvidenceCapsule::build
BuildCapsule(contribution, permit, report, checks, now) ==
  [repository |-> permit.repository, base |-> permit.base, candidate |-> contribution,
   generatedAt |-> now, expiresAt |-> permit.expiresAt, source |-> permit.consent.source,
   issue |-> permit.issue, draftOnly |-> permit.draftOnly,
   files |-> report.files, lines |-> report.lines, paths |-> report.paths,
   checks |-> <<Check("admission_policy", Allowed(report))>> \o checks]

\* Where consent may come from, and the issue of a label that of the capsule.
ConsentSourceIsValid(capsule) ==
  IF capsule.source.kind = "manifest" THEN capsule.source.path \in Elements(ConsentPaths)
  ELSE /\ capsule.issue = capsule.source.issue
       /\ capsule.source.label \in MaintainerApprovalLabels

ChecksHold(checks) ==
  /\ \A i, j \in DOMAIN checks : i # j => checks[i].name # checks[j].name
  /\ \A i \in DOMAIN checks : checks[i].passed
  /\ \E i \in DOMAIN checks : checks[i].name = "admission_policy"

\* Seeded fault: the expiry is not looked at.
ValidForSubmissionExpired(capsule, contribution, repository, now) ==
  LET changes == Changes(contribution)
  IN /\ capsule.repository = repository
     /\ capsule.base \in Shas
     /\ capsule.candidate = contribution
     /\ capsule.expiresAt > capsule.generatedAt
     /\ capsule.draftOnly
     /\ ConsentSourceIsValid(capsule)
     /\ capsule.files = Len(changes)
     /\ capsule.lines = ChangedLines(contribution)
     /\ capsule.paths = PathsOf(contribution)
     /\ \A i \in DOMAIN changes :
          ~RepositoryPathError(changes[i].path) /\ ~changes[i].deleted
     /\ ~HasDuplicates(capsule.paths)
     /\ ChecksHold(capsule.checks)

\* EvidenceCapsule::validate_for_submission
ValidForSubmission(capsule, contribution, repository, now) ==
  LET changes == Changes(contribution)
  IN /\ capsule.repository = repository
     /\ capsule.base \in Shas
     /\ capsule.candidate = contribution
     /\ capsule.expiresAt > capsule.generatedAt
     /\ now <= capsule.expiresAt
     /\ capsule.draftOnly
     /\ ConsentSourceIsValid(capsule)
     /\ capsule.files = Len(changes)
     /\ capsule.lines = ChangedLines(contribution)
     /\ capsule.paths = PathsOf(contribution)
     /\ \A i \in DOMAIN changes :
          ~RepositoryPathError(changes[i].path) /\ ~changes[i].deleted
     /\ ~HasDuplicates(capsule.paths)
     /\ ChecksHold(capsule.checks)
=============================================================================
