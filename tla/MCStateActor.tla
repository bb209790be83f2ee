---------------------------- MODULE MCStateActor ----------------------------
(* Small instances of StateActor for TLC. *)
EXTENDS StateActor, TLC

CONSTANTS g1, a

\* The rule sets: none, a rule that assigns to a project, and one that assigns
\* to a group the project may not have.
NoRules     == {}
PlainRule   == {[name |-> "rule", project |-> a, group |-> NULL]}
GroupedRule == {[name |-> "grouped", project |-> a, group |-> g1]}

\* What may be imported: nothing, or a project without groups.
NoImport    == {}
BlankImport == {[groups |-> {}, hidden |-> {}, apps |-> {}]}

\* Ids and addresses are interchangeable.
Symmetry     == Permutations(Ids) \cup Permutations(Windows)
=============================================================================
