--------------------------- MODULE MCRunExecutor ---------------------------
(***************************************************************************)
(* Small instances of RunExecutor: two paths and a test file.              *)
(***************************************************************************)
EXTENDS RunExecutorProps, TLC

CONSTANTS src, lib, test   \* three paths

\* A solver that touches two files and adds a test.
MCSolver ==
  {[changes |-> src :> 1 @@ lib :> 1, tests |-> test :> 1]}

\* A second solver answer, of one file and no test.
MCSolvers ==
  MCSolver \cup {[changes |-> src :> 2, tests |-> EmptyPatch]}

\* Repairs that rewrite every file of the first candidate.
MCFullRepairs == {src :> 2 @@ lib :> 2, src :> 3 @@ lib :> 2}

\* Repairs that rewrite one file of it, or one of its tests.
MCPartialRepairs == {src :> 2, src :> 2 @@ test :> 2}

MCPaths == {src, lib, test}

\* The commands write nothing that lasts; or they format a source file, and
\* record what a test gave.
MCSilent == {}
MCFormatter == {<<src, Foreign>>}
MCCommands == {<<src, Foreign>>, <<test, 2>>}

\* Every repair above.
MCRepairs == MCFullRepairs \cup MCPartialRepairs

=============================================================================
