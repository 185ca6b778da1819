---------------------------- MODULE RunWorkspace ----------------------------
(***************************************************************************)
(* The isolated workspace of a run (exec/workspace.rs) in the snapshot     *)
(* strategy, the one the `contribute' command materializes, and the        *)
(* candidate patches that are applied to it.                               *)
(*                                                                         *)
(* A workspace remembers which paths the run wrote (the changes file) and  *)
(* the tree fingerprint of its last checkpoint; the fingerprint covers the *)
(* written paths only.  Somebody else may write files too, the commands of *)
(* the project that are run in the workspace among them.                   *)
(***************************************************************************)
EXTENDS Naturals

CONSTANTS Paths,      \* repository paths
          Versions,   \* contents a model may write to a path
          Base,       \* the content of a path at the attested base revision
          Foreign     \* a content that no model proposed

ASSUME ContentAssumption == Base \notin Versions /\ Foreign \notin Versions \cup {Base}

Contents == Versions \cup {Base, Foreign}

\* A patch gives the paths it touches their new content.
Patches == UNION {[S -> Versions] : S \in SUBSET Paths}

EmptyPatch == [p \in {} |-> Base]

\* A contribution: the changes and the tests added with them.
ContributionRecord == [changes: Patches, tests: Patches]

Touched(c) == DOMAIN c.changes \cup DOMAIN c.tests

PostImage(c, p) == IF p \in DOMAIN c.tests THEN c.tests[p] ELSE c.changes[p]

\* The tree that results from applying a contribution, and nothing else, to
\* the base revision: what a maintainer gets from the draft pull request.
TreeOf(c) == [p \in Paths |-> IF p \in Touched(c) THEN PostImage(c, p) ELSE Base]

\* Admission rejects a contribution that writes a path twice.
HasDuplicatePath(c) == DOMAIN c.changes \cap DOMAIN c.tests # {}

\* `theirs' is a history: the paths that the run was not the last to write.
WorkspaceRecord ==
  [made: BOOLEAN,
   files: [Paths -> Contents],
   theirs: SUBSET Paths,
   written: SUBSET Paths,
   checkpoint: UNION {[S -> Contents] : S \in SUBSET Paths}]

NoWorkspace ==
  [made |-> FALSE,
   files |-> [p \in Paths |-> Base],
   theirs |-> {},
   written |-> {},
   checkpoint |-> EmptyPatch]

\* materialize: the base files are the baseline, not changes.
Materialized == [NoWorkspace EXCEPT !.made = TRUE]

TreeFingerprint(w) == [p \in w.written |-> w.files[p]]

\* write_file: the file is written, then the change is recorded.
PutFile(w, p, content) == [w EXCEPT !.files[p] = content, !.theirs = @ \ {p}]

RecordChange(w, p) == [w EXCEPT !.written = @ \cup {p}]

WriteFile(w, p, content) == RecordChange(PutFile(w, p, content), p)

\* A file is written by anything else than write_file.
ForeignWrite(w, p, content) == [w EXCEPT !.files[p] = content, !.theirs = @ \cup {p}]

Checkpoint(w) == [w EXCEPT !.checkpoint = TreeFingerprint(w)]

HasUnexpectedChanges(w) == TreeFingerprint(w) # w.checkpoint

=============================================================================
