----------------------------- MODULE MCPipeline -----------------------------
(***************************************************************************)
(* Instances of Pipeline for model checking: one process that runs every   *)
(* command, two processes that work through the same repositories, and one *)
(* that only uses run.                                                     *)
(***************************************************************************)
EXTENDS Pipeline, TLC

CONSTANTS p1, p2

MCEveryCommand == [p \in Processes |-> CommandNames]

MCRunAndTarget == [p \in Processes |-> {"run", "target"}]

MCRunOnly == [p \in Processes |-> {"run"}]

MCSymmetry == Permutations(Processes) \cup Permutations(Repos)

=============================================================================
