-------------------------------- MODULE Tools --------------------------------
(***************************************************************************)
(* The parts of the daemon and the panel that compute an answer: rules,    *)
(* queries and launch settings, each asked as a question of its own; and   *)
(* the browser whose journal a capture reads.                              *)
(***************************************************************************)
EXTENDS RuleEngine, Queries, LaunchText, SessionLog

CONSTANTS
    RuleFiles, Facts, Configs, Loaded, \* files of rules, windows, configurations, what is loaded
    ProjectLists,                      \* the daemon's projects, as a query finds them
    Processes, Slots                   \* processes of windows; slots of a workspace

\* A file as TOML gives it: rules with whole numbers for priorities.
RuleFile(file) == file \in Seq(ToSet(file)) /\ \A i \in DOMAIN file : file[i].priority \in Int
ASSUME RulesAssumption == \A file \in RuleFiles : file # Unset => RuleFile(file)

\* The projects as the daemon keeps them: each once, scores that are numbers,
\* and at most one with the slug that was typed.
Scores(p) == p.slug \in Nat \cup {NoScore} /\ p.name \in Nat \cup {NoScore}
OneExact(ps) == \A i, j \in DOMAIN ps : ps[i].exact /\ ps[j].exact => i = j
Projects(ps) ==
    /\ ps \in Seq(ToSet(ps))
    /\ \A i, j \in DOMAIN ps : ps[i] = ps[j] => i = j
    /\ \A p \in ToSet(ps) : Scores(p) /\ p.exact \in BOOLEAN /\ p.prefix \in BOOLEAN
    /\ OneExact(ps)
ASSUME QueriesAssumption == \A ps \in ProjectLists : Projects(ps)

\* A slot that a user wrote: any launch settings, or none.
Slot(slot) ==
    /\ slot = [launch |-> slot.launch, executable |-> slot.executable, class |-> slot.class]
    /\ slot.launch \in Launch \cup {None}
ASSUME SlotsAssumption == \A slot \in Slots : Slot(slot)

\* A process that can be read, by its arguments or by its executable.  What
\* it runs is a word, which has no blank or else nothing for the shell; a
\* profile has a name; and a page's address is no option.
Program(word) ==
    word \in Word \ {<<>>} /\ (Len(word) = 1 => word[1] \notin Special)
Names == {word \in Word : word # <<>> /\ word[1] \in DOMAIN FlagOf}
Process(facts) ==
    /\ facts.argv # None => facts.argv \in Seq(Word)
    /\ ReadCmdline(facts) # None \/ facts.executable # None => Program(ArgvOf(facts)[1])
    /\ facts.cwd \in Dirs \cup {None}
    /\ facts.disk.named \in Names \cup {None} /\ facts.disk.active \in Seq(Names)
    /\ facts.tabs \in Seq(Word \ Profiles)
ASSUME ProcessesAssumption == \A facts \in Processes : Process(facts)

-----------------------------------------------------------------------------
VARIABLE question
vars == <<question, browserVars>>

Init ==
    /\ BrowserInit
    /\ \/ question = [about |-> "browser"]
       \/ \E file \in RuleFiles : question = [about |-> "rules", file |-> file]
       \/ \E ps \in ProjectLists : question = [about |-> "query", ps |-> ps]
       \/ \E facts \in Processes : question = [about |-> "process", facts |-> facts]
       \/ \E slot \in Slots : question = [about |-> "slot", slot |-> slot]

Next == question.about = "browser" /\ BrowserNext /\ UNCHANGED question
Spec == Init /\ [][Next]_vars

-----------------------------------------------------------------------------
\* Windows are assigned by the rules of the last right file, in the order its
\* author gave them (rules.rs, config_reload in actor.rs).
RulesInOrder ==
    question.about = "rules" =>
        \A config \in Configs : ReloadedWhole(Loaded, config, question.file, Facts)

\* A query means one project or is handed back with every project it may mean
\* (search.rs), whatever the order the daemon keeps them in.
NeverGuesses == question.about = "query" => NotGuessed(question.ps) /\ OrderFree(question.ps)

\* A captured window runs again as it ran, however often its settings are
\* shown, detected and saved (capture.rs, settings.rs, slot_update).
CaptureRunsAgain == question.about = "process" => RunsAgain(question.facts)

\* Saving what the settings window shows changes nothing of what a restore
\* runs (settings.rs, slot_update in actor.rs, build_shell_command in
\* launcher.rs).
UneditedSaveHarmless == question.about = "slot" => SavedAsShown(question.slot)

\* A capture of a browser window takes the pages that are open in it (snss.rs).
BrowserTabsTaken == question.about = "browser" => TakesOwnTabs

\* "A slot saved without a launch spec still restores via its identity
\* executable; show that as the effective command" (settings.rs): saving it as
\* it is shown keeps it.
FallbackKept == question.about = "slot" => FallbackAsShown(question.slot)
=============================================================================
