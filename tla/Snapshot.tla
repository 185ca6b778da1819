------------------------------ MODULE Snapshot ------------------------------
(***************************************************************************)
(* What a contribution run knows of the project it changes: the base tree   *)
(* is fetched file by file (cli/commands/contribute.rs), what is missing is *)
(* held against the permit (core/materialization.rs), a model sees the files *)
(* of the workspace (exec/workspace.rs) and proposes changes whose originals *)
(* are bound to them (bind_preimages of orchestrator/run_executor.rs), and  *)
(* the change is measured (core/review_surface.rs) and shown to a human     *)
(* (orchestrator/review_gate.rs).  Crashes, budgets and the states of the    *)
(* run are those of RunExecutor.                                           *)
(*                                                                         *)
(* A text is a sequence of lines; a line may end in a carriage return.     *)
(***************************************************************************)
EXTENDS Naturals, Sequences, FiniteSets, FiniteSetsExt, Adapters

CONSTANTS
  Attested,     \* base trees, as sequences of nodes
  Permits,      \* permits of a run
  Proposals,    \* what a model may answer
  FileLimit,    \* snapshot_file_limit
  MaxRevisions  \* max_repair_iterations

VARIABLES
  attested,     \* the tree of the attested base revision, and the permit
  fetched,      \* what was fetched of it
  work,         \* the files of the workspace
  proposed,     \* the changes of the candidate
  step,         \* where the run is
  revisions,    \* repair iterations
  displayed,    \* what the human was shown of the candidate
  forgotten     \* history: a repair left out a path of the candidate

snapshotVars == <<attested, fetched, work, proposed, step, revisions, displayed, forgotten>>

TextLine(word, returns) == [word |-> word, returns |-> returns]
Lines(words) == [i \in DOMAIN words |-> TextLine(words[i], FALSE)]
Missing == <<TextLine("missing", FALSE)>>

Node(path, type, large, text) == [path |-> path, type |-> type, large |-> large, text |-> text]

\* The trees and the answers are lists, and a file that is there has a text.
ASSUME SnapshotAssumption ==
  /\ FileLimit \in Nat
  /\ \A tree \in Attested :
       /\ tree \in Seq({tree[i] : i \in DOMAIN tree})
       /\ \A i \in DOMAIN tree : tree[i].type = "blob" => tree[i].text # Missing
  /\ \A changes \in Proposals :
       /\ changes \in Seq({changes[i] : i \in DOMAIN changes})
       /\ \A i \in DOMAIN changes :
            DOMAIN changes[i] = {"path", "quote", "text", "test", "deletes"} /\ changes[i].test \in BOOLEAN

(***************************************************************************)
(* The paths that are special                                              *)
(***************************************************************************)
IsDependencyManifest(path) ==
  path \in {"Cargo.toml", "package.json", "pnpm-workspace.yaml", "pyproject.toml", "setup.py", "setup.cfg",
            "requirements.txt", "go.mod", "pom.xml", "build.gradle", "build.gradle.kts"}

IsLockfile(path) ==
  path \in {"Cargo.lock", "package-lock.json", "yarn.lock", "pnpm-lock.yaml", "bun.lockb", "bun.lock", "go.sum"}

IsTestPath(path) == path \in {"tests/t.rs", "tests/logo.png"}

IsBinaryPath(path) == path \in {"bun.lockb", "tests/logo.png", "logo.png"}

\* An empty list allows every path.
Allows(permit, path) == permit.paths = {} \/ path \in permit.paths

(***************************************************************************)
(* Fetching                                                                *)
(***************************************************************************)
Nodes == attested.tree

Blobs == {i \in DOMAIN Nodes : Nodes[i].type = "blob"}

BaseText(path) ==
  IF \E i \in Blobs : Nodes[i].path = path
  THEN (CHOOSE n \in {Nodes[i] : i \in Blobs} : n.path = path).text ELSE Missing

TreePaths == {Nodes[i].path : i \in Blobs}

Nothing == [files |-> {}, skipped |-> {}, truncated |-> FALSE, next |-> 1, listed |-> 0]

\* get_file_tree_verbose: the host may cut the listing short.
FetchListing ==
  /\ step = "list"
  /\ \E n \in 0..Len(Nodes) :
       fetched' = [Nothing EXCEPT !.listed = n, !.truncated = (n < Len(Nodes))]
  /\ step' = "fetch"
  /\ UNCHANGED <<attested, work, proposed, revisions, displayed, forgotten>>

Skipped(path, reason) == [fetched EXCEPT !.skipped = @ \cup {[path |-> path, reason |-> reason]}]

\* One file of fetch_base_snapshot: the reasons to leave it out, in their order.
Fetch(node) ==
  CASE node.type # "blob" -> {fetched}
    [] node.type = "blob" /\ Cardinality(fetched.files) >= FileLimit -> {Skipped(node.path, "over_limit")}
    [] node.type = "blob" /\ Cardinality(fetched.files) < FileLimit ->
         IF node.large THEN {Skipped(node.path, "oversized")}
         ELSE IF IsBinaryPath(node.path) THEN {Skipped(node.path, "binary_extension")}
         ELSE {[fetched EXCEPT !.files = @ \cup {node.path}], Skipped(node.path, "fetch_error")}

FetchNext ==
  /\ step = "fetch" /\ fetched.next <= fetched.listed
  /\ \E got \in Fetch(Nodes[fetched.next]) : fetched' = [got EXCEPT !.next = @ + 1]
  /\ UNCHANGED <<attested, work, proposed, step, revisions, displayed, forgotten>>

\* Seeded fault: only what is in scope counts, and the manifests.
MaterializationGapsSome(report, permit) ==
  {s \in report.skipped : s.path \in permit.paths \/ IsDependencyManifest(s.path) \/ IsLockfile(s.path)}

\* materialization_gaps: what is missing and may matter.
MaterializationGaps(report, permit) ==
  {s \in report.skipped :
     \/ s.reason \in {"fetch_error", "over_limit"}
     \/ s.path \in permit.paths
     \/ IsDependencyManifest(s.path) \/ IsLockfile(s.path)
     \/ permit.tests /\ IsTestPath(s.path)}
  \cup (IF report.truncated THEN {[path |-> "<tree>", reason |-> "listing_truncated"]} ELSE {})

\* materialize: the files that were fetched, or the end of the run.
Materialize ==
  /\ step = "fetch" /\ fetched.next > fetched.listed
  /\ work' = [p \in fetched.files |-> BaseText(p)]
  /\ step' = IF MaterializationGaps(fetched, attested.permit) = {} THEN "solve" ELSE "blocked"
  /\ UNCHANGED <<attested, fetched, proposed, revisions, displayed, forgotten>>

(***************************************************************************)
(* Changing                                                                *)
(***************************************************************************)
\* read_text and sanitize_for_prompt: control characters are not shown.
Shown(text) == [i \in DOMAIN text |-> [text[i] EXCEPT !.returns = FALSE]]

\* read_file
OnDisk(path) == IF path \in DOMAIN work THEN work[path] ELSE Missing

\* What a model claims a file to be: what it was shown, something else, nothing.
Claim(change) ==
  CASE change.quote = "shown" -> Shown(OnDisk(change.path))
    [] change.quote = "base" -> BaseText(change.path)
    [] change.quote = "made up" -> Lines(<<"made", "up">>)
    [] OTHER -> Missing

\* The originals that an earlier candidate was bound to.
Preimages ==
  [p \in {proposed[i].path : i \in DOMAIN proposed} |->
     (CHOOSE c \in {proposed[i] : i \in DOMAIN proposed} : c.path = p).original]

\* Seeded fault: the original is what is on disk, the candidate's own text.
BaseOfFromDisk(path) == OnDisk(path)

\* The recorded original, or what is on disk.
BaseOf(path) == IF path \in DOMAIN Preimages THEN Preimages[path] ELSE OnDisk(path)

\* bind_preimages, for one change: deleting is refused, and so is a claim that is
\* neither the original nor, for a file the candidate has, what is on disk.
Matches(change) ==
  \/ change.quote = "none"
  \/ BaseOf(change.path) # Missing /\ Claim(change) = BaseOf(change.path)
  \/ change.path \in DOMAIN Preimages /\ change.path \in DOMAIN work /\ Claim(change) = work[change.path]

Binds(change) == ~change.deletes /\ Matches(change)

Bound(change) ==
  [path |-> change.path, text |-> change.text, test |-> change.test, original |-> BaseOf(change.path),
   isNew |-> BaseOf(change.path) = Missing]

\* AdmissionController::evaluate, what of it depends on paths and originals.
Admissible(changes) ==
  LET permit == attested.permit
  IN /\ \A i, j \in DOMAIN changes : changes[i].path = changes[j].path => i = j
     /\ \A i \in DOMAIN changes :
          /\ Allows(permit, changes[i].path)
          /\ changes[i].isNew => permit.fresh
          /\ IsTestPath(changes[i].path) => permit.tests

\* The workspace with the files of a candidate written.
WithFiles(changes) ==
  [p \in DOMAIN work \cup {changes[i].path : i \in DOMAIN changes} |->
     IF \E i \in DOMAIN changes : changes[i].path = p
     THEN changes[CHOOSE i \in DOMAIN changes : changes[i].path = p].text ELSE work[p]]

\* The changes become the candidate, with the tests that are kept, or are refused.
Propose(changes, kept) ==
  LET bound == [i \in DOMAIN changes |-> Bound(changes[i])]
      binds == \A i \in DOMAIN changes : Binds(changes[i])
  IN /\ IF binds /\ Admissible(bound \o kept)
        THEN /\ work' = WithFiles(bound)
             /\ proposed' = bound \o kept
             /\ step' = "validate"
        ELSE step' = "blocked" /\ UNCHANGED <<work, proposed>>
     /\ UNCHANGED <<attested, fetched>>

\* The changes of a candidate or its tests: two lists, in the code.
Those(changes, test) ==
  LET Upto[k \in 0..Len(changes)] ==
        IF k = 0 THEN <<>>
        ELSE IF changes[k].test = test THEN Append(Upto[k - 1], changes[k]) ELSE Upto[k - 1]
  IN Upto[Len(changes)]

\* solve: changes and tests.
Solve ==
  /\ step = "solve"
  /\ \E changes \in Proposals : Propose(changes, <<>>)
  /\ UNCHANGED <<revisions, displayed, forgotten>>

\* Validation and challenger are content, or not: then the change is revised, or the
\* run ends.
Judge ==
  /\ step = "validate"
  /\ step' \in {"review", IF revisions < MaxRevisions THEN "revise" ELSE "blocked"}
  /\ UNCHANGED <<attested, fetched, work, proposed, revisions, displayed, forgotten>>

\* repair_once: the changes are replaced, also by new tests, and the tests are kept.
Revise ==
  /\ step = "revise"
  /\ \E changes \in Proposals :
       LET revised == [i \in DOMAIN changes |-> [changes[i] EXCEPT !.test = FALSE]]
           paths == {changes[i].path : i \in DOMAIN changes}
       IN /\ Propose(revised, Those(proposed, TRUE))
          /\ forgotten' = (forgotten \/ \E i \in DOMAIN proposed :
                              ~proposed[i].test /\ proposed[i].path \notin paths)
  /\ revisions' = revisions + 1 /\ UNCHANGED displayed

(***************************************************************************)
(* Showing                                                                 *)
(***************************************************************************)
Times(text, word) == Cardinality({i \in DOMAIN text : text[i].word = word /\ text # Missing})

\* line_diff_counts: the lines of one text beyond those of the other, in any order.
LinesBeyond(text, other) ==
  LET words == {text[i].word : i \in DOMAIN text}
      Beyond(w) == IF Times(text, w) > Times(other, w) THEN Times(text, w) - Times(other, w) ELSE 0
  IN MapThenSumSet(Beyond, words)

\* ReviewSurface::compute over changes with their originals and what is on disk.
Surface(changes) ==
  LET all == DOMAIN changes
      Of(Holds(_)) == Cardinality({i \in all : Holds(changes[i].path)})
      Added(i) == LinesBeyond(OnDisk(changes[i].path), changes[i].original)
      Deleted(i) == LinesBeyond(changes[i].original, OnDisk(changes[i].path))
  IN [files |-> Cardinality(all), added |-> MapThenSumSet(Added, all), deleted |-> MapThenSumSet(Deleted, all),
      dependencies |-> Of(IsDependencyManifest), generated |-> Of(IsLockfile), tests |-> Of(IsTestPath),
      binary |-> Of(IsBinaryPath)]

\* display_contribution: every change in whole, and then the tests.
DisplayContribution(changes) ==
  LET all == Those(changes, FALSE) \o Those(changes, TRUE)
  IN [i \in DOMAIN all |-> [path |-> all[i].path, text |-> all[i].text]]

\* A trusted host approves without showing anything.  Any other answer of the human
\* is asked again; the end of the input declines.
HumanReview ==
  /\ step = "review"
  /\ \/ step' = "approved" /\ UNCHANGED displayed
     \/ /\ displayed' = DisplayContribution(proposed)
        /\ \E key \in {"yes", "no", "skip", "end of input"} :
             step' = IF key = "yes" THEN "approved" ELSE "declined"
  /\ UNCHANGED <<attested, fetched, work, proposed, revisions, forgotten>>

SnapshotAt(tree, permit) ==
  /\ attested = [tree |-> tree, permit |-> permit]
  /\ fetched = Nothing
  /\ work = [p \in {} |-> Missing] /\ proposed = <<>>
  /\ step = "list" /\ revisions = 0 /\ displayed = <<>>
  /\ forgotten = FALSE

SnapshotInit == \E tree \in Attested, permit \in Permits : SnapshotAt(tree, permit)

SnapshotNext == FetchListing \/ FetchNext \/ Materialize \/ Solve \/ Judge \/ Revise \/ HumanReview

SnapshotSpec == SnapshotInit /\ [][SnapshotNext]_snapshotVars

(***************************************************************************)
(* Properties                                                              *)
(***************************************************************************)
HasWorkspace == step \notin {"list", "fetch", "blocked"}

\* A run that goes on with a snapshot works on the project: the checks are those that
\* the whole base tree calls for, and every file that the permit names, and every
\* test if tests may change, is there.  (settings.gradle decides about the checks
\* too, but is not a manifest for the gaps.)
ChecksAreTheProjects ==
  HasWorkspace =>
    /\ Ecosystems(fetched.files \ {"settings.gradle"}) = Ecosystems(TreePaths \ {"settings.gradle"})
    /\ \A p \in TreePaths : (p \in attested.permit.paths \/ (IsTestPath(p) /\ attested.permit.tests)) =>
         p \in fetched.files

\* The change that is reviewed is the one that the base tree gets: its originals are
\* those of the base, a file is new if the base lacks it, the candidate is what the
\* workspace holds, the surface counts its lines and a human who is asked is shown all
\* of it; whatever the model claimed and however often it was revised.  Two things are left out: a permit for every path
\* while files are missing, and a revision that leaves out a path.
ReviewIsOfTheChange ==
  LET inBase == [i \in DOMAIN proposed |-> [proposed[i] EXCEPT !.original = BaseText(proposed[i].path)]]
      known == attested.permit.paths # {} \/ TreePaths \subseteq fetched.files
      changed == {p \in DOMAIN work : work[p] # BaseText(p)}
  IN (step \in {"review", "approved", "declined"} /\ known /\ ~forgotten) =>
       /\ \A i \in DOMAIN proposed :
            /\ proposed[i].original = inBase[i].original
            /\ proposed[i].isNew <=> proposed[i].path \notin TreePaths
            /\ work[proposed[i].path] = proposed[i].text
       /\ changed \subseteq {proposed[i].path : i \in DOMAIN proposed}
       /\ displayed # <<>> => {[path |-> p, text |-> work[p]] : p \in changed} \subseteq
                                {displayed[i] : i \in DOMAIN displayed}
       /\ Surface(proposed) = Surface(inBase)
=============================================================================
