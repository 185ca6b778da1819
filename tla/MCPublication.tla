--------------------------- MODULE MCPublication ---------------------------
(***************************************************************************)
(* Values for the constants of Publication: two candidates whose titles     *)
(* give the same branch name, and a manifest that is missing, plain, narrow *)
(* or disabled while the sessions run.                                      *)
(***************************************************************************)
EXTENDS Publication, TLC

CONSTANTS s1, s2, p1, p2

MCShas == {s1, s2}
MCSymmetry == Permutations(Processes)

Change(path, old, new, isNew) ==
  [path |-> path, old |-> old, new |-> new, isNew |-> isNew, deleted |-> FALSE]

Code == Change(<<"src", "lib.rs">>, <<1, 2, 3>>, <<1, 3>>, FALSE)
Lock == Change(<<"Cargo.lock">>, <<1>>, <<2>>, FALSE)
Test == Change(<<"tests", "lib_test.rs">>, None, <<1>>, TRUE)
Moved == Change(<<"src", "lib.rs">>, <<1, 2, 3>>, <<2, 3, 1>>, FALSE)

\* Two contributions whose titles give the same branch name.
SmallFix == [branch |-> "fix/lib", changes |-> <<Code>>, tests |-> <<Test>>]
BigFix == [branch |-> "fix/lib", changes |-> <<Moved, Lock>>, tests |-> <<>>]

Sample == {SmallFix, BigFix}

Plain == [schema |-> None, enabled |-> TRUE, unknown |-> FALSE, maxFiles |-> None,
          maxLines |-> None, allowed |-> {}, two |-> None]
Narrow == [Plain EXCEPT !.schema = 2, !.maxLines = 2, !.allowed = {<<"src", "*">>, <<"tests", "**">>},
             !.two = [NoSchemaTwo EXCEPT !.required = {"cargo test"}]]
Disabled == [Plain EXCEPT !.enabled = FALSE]

MCFiles == <<Narrow, None, Plain>>
MCManifests == {Plain, Disabled}
Open == [number |-> 7, open |-> TRUE, labels |-> {"agent-ready"}]
Closed == [Open EXCEPT !.open = FALSE]
MCIssues == {Open, Closed}
=============================================================================
