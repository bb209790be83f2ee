------------------------------- MODULE MCTools -------------------------------
(***************************************************************************)
(* Bounded inputs for the questions of Tools, and a small browser.         *)
(***************************************************************************)
EXTENDS Tools

CONSTANTS t1, t2, t3, w1, w2, news, mail

MCTabs == {t1, t2, t3}
MCWins == {w1, w2}
MCPages == {news, mail}
MCLaunchable == {news}
Symmetry == Permutations(MCTabs) \cup Permutations(MCWins)

-----------------------------------------------------------------------------
(* Rules: any two, or three that are right. *)

Matcher(operators, accepts, compiles) ==
    [operators |-> operators, accepts |-> accepts, compiles |-> compiles]
RightMatches ==
    {[class |-> Matcher({"equals"}, {"x"}, FALSE)],
     [executable |-> Matcher({"regex"}, {"x"}, TRUE)]}
AnyMatches == RightMatches \cup
    {<<>>,
     [class |-> Matcher({"equals"}, {"x"}, FALSE), title |-> Matcher({"contains"}, {"x"}, FALSE)],
     [class |-> Matcher({"equals", "regex"}, {"x"}, TRUE)],
     [class |-> Matcher({"regex"}, {"x"}, FALSE)],
     [pid |-> Matcher({"equals"}, {"x"}, FALSE)]}

RuleSpec(name, priority, project, stop, match) ==
    [name |-> name, priority |-> priority, project |-> project, group |-> Unset, stop |-> stop,
     match |-> match]
AnyRules == {RuleSpec(name, priority, project, stop, match) :
                name \in {"r1", "r2"}, priority \in {0, 1}, project \in {"a", BadSlug},
                stop \in BOOLEAN, match \in AnyMatches}
RightRules(name) == {RuleSpec(name, priority, "a", stop, match) :
                        priority \in 0..2, stop \in BOOLEAN, match \in RightMatches}
MCRuleFiles == {Unset, <<>>} \cup {<<r, s>> : r \in AnyRules, s \in AnyRules}
             \cup {<<r, s, u>> : r \in RightRules("r1"), s \in RightRules("r2"),
                                 u \in RightRules("r3")}
MCFacts == {[class |-> c, initial_class |-> "y", title |-> "x", executable |-> e] :
             c \in {"x", "y"}, e \in {"x", Unset}}
MCLoaded == [config |-> [valid |-> TRUE, of |-> "old"], rules |-> <<RuleSpec("r0", 0, "a", TRUE,
             [class |-> Matcher({"equals"}, {"y"}, FALSE)])>>]
MCConfigs == {[valid |-> v, of |-> "new"] : v \in BOOLEAN}

-----------------------------------------------------------------------------
(* Queries: up to three projects. *)

Related(i) == {r \in [id : {i}, exact : BOOLEAN, prefix : BOOLEAN,
                      slug : {NoScore, 0, 2}, name : {NoScore, 0, 3, 4}] :
                  r.exact => r.prefix}
MCLists == {<<>>} \cup {<<r>> : r \in Related(1)}
                \cup {<<r, s>> : r \in Related(1), s \in Related(2)}
                \cup {<<r, s, u>> : r \in Related(1), s \in Related(2),
                         u \in {v \in Related(3) : ~v.exact /\ v.slug # 2}}
MCProjectLists == {ps \in MCLists : OneExact(ps)}

-----------------------------------------------------------------------------
(* Launch settings. *)

MCSpecial == {"url?a&b"}
MCFlagOf == [Work |-> "--profile-directory=Work", Default |-> "--profile-directory=Default"]
ArgWords == {<<"-n">>, <<"my", "file">>, <<"url?a&b">>, <<>>, Profile(<<"Default">>),
             Profile(<<"Work", "2">>)}
MCPieces == {"-n", "my", "file", "url?a&b", "url", "app", "2", "cd", "Work", "Default",
             "--profile-directory=Work", "--profile-directory=Default", "--profile-directory",
             "--new-window", "expanded"}
MCDirs == {"dir"}
Argvs == {None, <<>>, <<<<>>, <<>>>>, <<<<"app">>>>, <<<<"my", "app">>>>}
         \cup {<<c, a>> : c \in {<<"app">>, <<"my", "app">>}, a \in ArgWords}
         \cup {<<<<"app">>, a, b>> : a \in ArgWords, b \in ArgWords \cup {<<"--profile-directory">>}}
Disks == {[named |-> None, active |-> <<>>], [named |-> None, active |-> <<<<"Default">>>>],
          [named |-> <<"Work", "2">>, active |-> <<<<"Default">>, <<"Work", "2">>>>]}
MCProcesses == [argv : Argvs, executable : {None, <<"app">>, <<"my", "app">>},
              class : {"browser", "other"}, cwd : {None, "dir"}, disk : Disks,
              tabs : {<<>>, <<<<"url?a&b">>, <<"url">>>>}]

\* Slots written by hand: any command line, any arguments.
HandLines == {<<>>, <<Raw(<<"app">>)>>, <<Quoted(<<"my", "app">>)>>,
              <<Raw(<<"cd">>), Raw(<<"url?a&b">>), Raw(<<"app", "-n">>)>>}
MCSlots == {[launch |-> l, executable |-> e, class |-> c] :
                 l \in {None} \cup [command : HandLines,
                                    args : {<<>>} \cup {<<a, b>> : a \in ArgWords,
                                              b \in ArgWords \cup {<<"--profile-directory">>}},
                                    workdir : {None, "dir"}],
                 e \in {None, <<"app">>, <<"my", "app">>}, c \in {"browser", "other"}}
=============================================================================
