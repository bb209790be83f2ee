SPECIFICATION Spec
CONSTANTS
    t1 = t1
    t2 = t2
    t3 = t3
    w1 = w1
    w2 = w2
    news = news
    mail = mail
    Tabs <- MCTabs
    Wins <- MCWins
    Pages <- MCPages
    Launchable <- MCLaunchable
    MaxChanges = 6
    NoSelected = NoSelected
    Unset = Unset
    BadSlug = BadSlug
    Dirs <- MCDirs
    Piece <- MCPieces
    Special <- MCSpecial
    FlagOf <- MCFlagOf
    None = None
    Absent = Absent
    NoScore = NoScore
    RuleFiles <- MCRuleFiles
    Facts <- MCFacts
    Configs <- MCConfigs
    Loaded <- MCLoaded
    ProjectLists <- MCProjectLists
    Processes <- MCProcesses
    Slots <- MCSlots
SYMMETRY Symmetry
INVARIANTS
    RulesInOrder
    NeverGuesses
    CaptureRunsAgain
    UneditedSaveHarmless
    BrowserTabsTaken
\* A question is asked once, and the browser's changes run out.
CHECK_DEADLOCK FALSE
