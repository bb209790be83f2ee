------------------------------ MODULE RuleEngine ------------------------------
(***************************************************************************)
(* Rules that assign windows to projects (workspace-core/src/rules.rs) and *)
(* their loading by the daemon (load_rules, config_reload in               *)
(* workspace-daemon/src/actor.rs).                                         *)
(*                                                                         *)
(* A rule as written is a record [name, priority, project, group, stop,    *)
(* match]; match gives each matcher key its operators, the values its      *)
(* needle accepts and whether a regex compiles.  A slug is a model value,  *)
(* or BadSlug when Slug::parse refuses it.                                 *)
(***************************************************************************)
EXTENDS Integers, Sequences, FiniteSets, SequencesExt, FiniteSetsExt, Lists

CONSTANTS
    Unset,  \* Rust's None
    BadSlug \* any text that is not a slug

\* MatcherRegistry::builtin.
Registered == {"class", "initial_class", "title", "executable"}

\* Operator::from_spec: the problems of one matcher.
MatcherProblems(rule, key, m) ==
    IF key \notin Registered THEN {<<"UnknownMatcher", rule, key>>}
    ELSE IF Cardinality(m.operators) # 1 THEN {<<"BadOperator", rule, key>>}
    ELSE IF m.operators = {"regex"} /\ ~m.compiles THEN {<<"BadRegex", rule, key>>}
    ELSE {}

\* RuleSet::compile: the problems of the i-th rule; the first that concerns
\* the rule as a whole hides the others.
Problems(file, i) ==
    LET rule == file[i]
    IN IF \E j \in 1..(i - 1) : file[j].name = rule.name THEN {<<"DuplicateName", rule.name>>}
       ELSE IF DOMAIN rule.match = {} THEN {<<"NoMatchers", rule.name>>}
       ELSE IF BadSlug \in {rule.project, rule.group} THEN {<<"BadSlug", rule.name>>}
       ELSE UNION {MatcherProblems(rule.name, key, rule.match[key]) : key \in DOMAIN rule.match}
AllProblems(file) == UNION {Problems(file, i) : i \in DOMAIN file}

\* The order of equal priorities is left open.
MutantRanked(file) ==
    LET above == {p \in (DOMAIN file) \X (DOMAIN file) :
                     \/ file[p[1]].priority > file[p[2]].priority
                     \/ file[p[1]].priority = file[p[2]].priority /\ p[1] > p[2]}
    IN  [k \in DOMAIN file |-> file[Sorted(DOMAIN file, above)[k]]]

\* The stable sort by descending priority.
Ranked(file) ==
    LET above == {p \in (DOMAIN file) \X (DOMAIN file) :
                     \/ file[p[1]].priority > file[p[2]].priority
                     \/ file[p[1]].priority = file[p[2]].priority /\ p[1] < p[2]}
    IN  [k \in DOMAIN file |-> file[Sorted(DOMAIN file, above)[k]]]

\* CompiledRule::matches: all its matchers accept, and a field that is unset
\* is accepted by none.
Accepts(rule, facts) ==
    \A key \in DOMAIN rule.match : facts[key] # Unset /\ facts[key] \in rule.match[key].accepts

\* RuleSet::matches: up to and including the first that stops.
Matches(rules, facts) ==
    LET hits  == Only(rules, {rule \in ToSet(rules) : Accepts(rule, facts)})
        stops == {i \in DOMAIN hits : hits[i].stop}
    IN IF stops = {} THEN hits ELSE SubSeq(hits, 1, Min(stops))

\* load_rules: no file is no rules; a file with a problem is refused whole.
Load(file) ==
    IF file = Unset THEN [ok |-> TRUE, rules |-> <<>>]
    ELSE IF AllProblems(file) # {} THEN [ok |-> FALSE, rules |-> <<>>]
    ELSE [ok |-> TRUE, rules |-> Ranked(file)]

\* config_reload: the configuration and the rules change together or not at
\* all.  Returns the loaded pair.
Reload(loaded, config, file) ==
    IF config.valid /\ Load(file).ok
    THEN [config |-> config, rules |-> Load(file).rules]
    ELSE loaded

-----------------------------------------------------------------------------
(* What rules.rs promises, over the file as written. *)

\* i is evaluated before j.
Precedes(file, i, j) ==
    \/ file[i].priority > file[j].priority
    \/ file[i].priority = file[j].priority /\ i < j

\* The rules that may act on a window: those that accept it and come after no
\* other that accepts it and stops.
Eligible(file, facts) ==
    {i \in DOMAIN file :
        /\ Accepts(file[i], facts)
        /\ ~\E j \in DOMAIN file :
              Accepts(file[j], facts) /\ file[j].stop /\ Precedes(file, j, i)}

\* The evaluation of a file is the file's rules in the order of their
\* priority, of the file within equal ones, and the first is the winner.
EvaluatedInOrder(rules, file, facts) ==
    LET matched == Matches(rules, facts)
    IN /\ Len(matched) = Cardinality(Eligible(file, facts))
       /\ \A i \in Eligible(file, facts) :
             LET before == {j \in Eligible(file, facts) : Precedes(file, j, i)}
             IN matched[Cardinality(before) + 1] = file[i]

\* After a reload the windows are assigned by the new file's rules in their
\* promised order, with the new configuration; or, if either file is wrong in
\* any way, by the old rules and the old configuration.
ReloadedWhole(loaded, config, file, windows) ==
    LET new == Reload(loaded, config, file)
        right == file = Unset \/ AllProblems(file) = {}
    IN IF config.valid /\ right
       THEN /\ new.config = config
            /\ \A facts \in windows :
                  IF file = Unset THEN Matches(new.rules, facts) = <<>>
                  ELSE EvaluatedInOrder(new.rules, file, facts)
       ELSE new = loaded
=============================================================================
