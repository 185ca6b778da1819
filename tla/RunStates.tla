----------------------------- MODULE RunStates -----------------------------
(***************************************************************************)
(* The seventeen lifecycle states of a Contribution Run and the transition *)
(* relation of core/run.rs: RunState::is_terminal and                      *)
(* RunState::can_transition_to.                                            *)
(***************************************************************************)

\* The states of the forward chain, in the order the run is meant to visit them.
ForwardStates ==
  {"discovered", "authorized", "prepared", "reproducing", "planned",
   "executing", "validating", "challenging", "repairing",
   "ready_for_review", "approved"}

\* Exits that every nonterminal state has.
FailClosedStates ==
  {"blocked", "needs_authorization", "failed", "expired", "cancelled"}

TerminalStates == FailClosedStates \cup {"submitted"}

RunState == ForwardStates \cup TerminalStates

\* Seeded fault: a repaired candidate goes straight to the challenger.
ForwardEdgesUnvalidatedRepair ==
  {<<"discovered", "authorized">>, <<"authorized", "prepared">>,
   <<"prepared", "planned">>, <<"planned", "executing">>,
   <<"executing", "validating">>, <<"validating", "challenging">>,
   <<"validating", "repairing">>, <<"challenging", "repairing">>,
   <<"repairing", "challenging">>, <<"challenging", "ready_for_review">>,
   <<"ready_for_review", "approved">>, <<"approved", "submitted">>}

\* The lifecycle edges between states that are not fail-closed exits.
ForwardEdges ==
  {<<"discovered", "authorized">>,
   <<"authorized", "prepared">>,
   <<"prepared", "reproducing">>,
   <<"prepared", "planned">>,
   <<"reproducing", "planned">>,
   <<"planned", "executing">>,
   <<"executing", "validating">>,
   <<"validating", "challenging">>,
   <<"validating", "repairing">>,
   <<"challenging", "repairing">>,
   <<"challenging", "ready_for_review">>,
   <<"repairing", "validating">>,
   <<"ready_for_review", "approved">>,
   <<"approved", "submitted">>}

CanTransition(from, to) ==
  /\ from \notin TerminalStates
  /\ \/ to \in FailClosedStates
     \/ <<from, to>> \in ForwardEdges

\* The deterministic and human gates a candidate has to go through.
Gates == {"validating", "challenging", "ready_for_review", "approved"}

=============================================================================
