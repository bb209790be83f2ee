------------------------------ MODULE LaunchText ------------------------------
(***************************************************************************)
(* A saved application's launch settings on their way through the system:  *)
(* captured from a running process (workspace-daemon/src/capture.rs),      *)
(* shown and edited as text in the panel's settings window                 *)
(* (workspace-panel/src/settings.rs), merged by slot.update (actor.rs) and *)
(* turned into what the shell runs (launcher.rs, restore.rs).              *)
(*                                                                         *)
(* Text is abstracted to what a shell tells apart.  A piece is a run of    *)
(* characters without blanks; a word is the sequence of pieces that blanks *)
(* separate in it; a line is a sequence of records [word, quoted].  The    *)
(* shell takes a quoted word as it is and splits any other at its blanks.  *)
(***************************************************************************)
EXTENDS Naturals, Sequences, SequencesExt, Lists

CONSTANTS
    Piece,     \* runs of characters without blanks
    Special,   \* pieces with characters that mean something to the shell
    FlagOf,    \* the piece --profile-directory=<p> of each p that begins a profile's name
    Dirs,      \* working directories
    Absent,    \* no such field in a row
    None

Word == Seq(Piece)
Item == [word : Word, quoted : BOOLEAN]
Launch == [command : Seq(Item), args : Seq(Word), workdir : Dirs \cup {None}]

ASSUME PieceAssumption ==
    {"expanded", "--profile-directory", "--new-window"} \cup DOMAIN FlagOf \subseteq Piece
ASSUME FlagAssumption ==
    /\ \A p \in DOMAIN FlagOf : FlagOf[p] \in Piece \ {"--new-window"}
    /\ \A p, q \in DOMAIN FlagOf : FlagOf[p] = FlagOf[q] => p = q
ASSUME NoneAssumption ==
    None \notin Word \cup Launch \cup Seq(Word) /\ Absent \notin Word /\ Absent # None

\* A profile's name is a word too; its argument begins with the flag.
Flags == {FlagOf[p] : p \in DOMAIN FlagOf}
Profile(name) == [name EXCEPT ![1] = FlagOf[@]]
ProfileOf(word) == [word EXCEPT ![1] = CHOOSE p \in DOMAIN FlagOf : FlagOf[p] = @]
NamesProfile(word) == word # <<>> /\ word[1] \in Flags

\* Arguments that begin with --profile-directory, with a name or bare.
IsProfile(word) == NamesProfile(word) \/ word = <<"--profile-directory">>
Profiles == {word \in Word : IsProfile(word)}
Words(args) == Only(args, Word \ Profiles)
Given(args) == Only(args, {word \in Word : NamesProfile(word)})

-----------------------------------------------------------------------------
(* What a shell makes of a line (external). *)

Expanded(piece) == IF piece \in Special THEN "expanded" ELSE piece

RunsItem(item) ==
    IF item.quoted THEN <<item.word>>
    ELSE [i \in DOMAIN item.word |-> <<Expanded(item.word[i])>>]
Runs(line) ==
    LET ran[n \in 0 .. Len(line)] == IF n = 0 THEN <<>> ELSE ran[n - 1] \o RunsItem(line[n])
    IN  ran[Len(line)]

Quoted(word) == [word |-> word, quoted |-> TRUE]
Raw(word)    == [word |-> word, quoted |-> FALSE]

\* build_shell_command: the command as it is, every argument quoted.
ShellCommand(launch) ==
    [cd   |-> launch.workdir,
     argv |-> Runs(launch.command \o [i \in DOMAIN launch.args |-> Quoted(launch.args[i])])]

\* A path that stays one word.
OneWord(word) == IF Len(word) > 1 THEN Quoted(word) ELSE Raw(word)

\* fallback_launch: a slot without launch settings reruns its executable.
Effective(slot) ==
    IF slot.launch # None THEN ShellCommand(slot.launch)
    ELSE IF slot.executable # None
         THEN ShellCommand([command |-> <<OneWord(slot.executable)>>, args |-> <<>>,
                            workdir |-> None])
    ELSE None

-----------------------------------------------------------------------------
(* capture.rs *)

\* split_cmdline: empty arguments are dropped, and when the one that is left
\* has blanks it is taken for a command line that its process has rewritten in
\* place.
SplitCmdline(argv) ==
    LET filled == Only(argv, Word \ {<<>>})
    IN IF filled = <<>> THEN None
       ELSE IF Len(filled) = 1 /\ Len(filled[1]) > 1
            THEN [i \in DOMAIN filled[1] |-> <<filled[1][i]>>]
       ELSE filled

\* The profile of a window's browser: the one its command line names, else the
\* one named like the project, else the only active one (chromium_profile).
ProfileArg(args) ==
    IF Given(args) = <<>> THEN None ELSE ProfileOf(Given(args)[1])
OnDisk(disk) ==
    IF disk.named # None THEN disk.named
    ELSE IF Len(disk.active) = 1 THEN disk.active[1] ELSE None
WindowProfile(args, disk) == IF ProfileArg(args) # None THEN ProfileArg(args) ELSE OnDisk(disk)

\* The tabs go to whatever window of the browser is there.
MutantWithTabs(args, tabs) == args \o tabs

\* The window's open tabs, as arguments that open a window of their own.
WithTabs(args, tabs) == IF tabs = <<>> THEN args ELSE args \o <<<<"--new-window">>>> \o tabs

\* What is known of a process: [argv, executable, class, cwd, disk, tabs]; argv
\* is None when /proc cannot be read.
ReadCmdline(facts) == IF facts.argv = None THEN None ELSE SplitCmdline(facts.argv)
ArgvOf(facts) ==
    IF ReadCmdline(facts) # None THEN ReadCmdline(facts) ELSE <<facts.executable>>

\* captured_launch.
CapturedLaunch(facts) ==
    LET args == Tail(ArgvOf(facts))
        profile == WindowProfile(args, facts.disk)
        named == IF \E i \in DOMAIN args : IsProfile(args[i]) THEN args
                 ELSE Append(args, Profile(profile))
    IN IF ReadCmdline(facts) = None /\ facts.executable = None THEN None
       ELSE [command |-> <<OneWord(ArgvOf(facts)[1])>>,
             args |-> IF facts.class # "browser" \/ profile = None THEN args
                      ELSE WithTabs(named, facts.tabs),
             workdir |-> facts.cwd]

\* capture_apps: a slot of the captured window.
Captured(facts) ==
    [launch |-> CapturedLaunch(facts), executable |-> facts.executable, class |-> facts.class]

-----------------------------------------------------------------------------
(* The settings window. *)

\* shell_quote: single quotes unless the argument is plain.
PanelQuote(word) ==
    IF Len(word) = 1 /\ word[1] \notin Special THEN Raw(word) ELSE Quoted(word)

\* command_line: one editable line, without the profile.
CommandLine(launch) ==
    LET words == Words(launch.args)
    IN launch.command \o [i \in DOMAIN words |-> PanelQuote(words[i])]

\* populate: the fields of a slot's row.
Shown(slot) ==
    [command |-> IF slot.launch # None THEN CommandLine(slot.launch)
                 ELSE IF slot.executable # None THEN <<Raw(slot.executable)>> ELSE <<>>,
     workdir |-> IF slot.launch # None THEN slot.launch.workdir ELSE None,
     profile |-> IF slot.class # "browser" THEN Absent
                 ELSE IF slot.launch # None THEN ProfileArg(slot.launch.args) ELSE None]

\* apply_capture: the row's fields after "Detect from open windows" found
\* launch for it; a workdir or profile that was not found stays.
Detected(row, launch) ==
    [command |-> CommandLine(launch),
     workdir |-> IF launch.workdir # None THEN launch.workdir ELSE row.workdir,
     profile |-> IF row.profile # Absent /\ ProfileArg(launch.args) # None
                 THEN ProfileArg(launch.args) ELSE row.profile]

-----------------------------------------------------------------------------
(* slot.update *)

\* The old arguments stay beside the line they were shown in.
MutantSlotUpdate(slot, row) ==
    LET old  == IF slot.launch # None THEN slot.launch.args ELSE <<>>
    IN [slot EXCEPT !.launch =
          IF row.command = <<>> THEN None
          ELSE [command |-> row.command, args |-> old, workdir |-> row.workdir]]

\* The arguments beside the line: an empty profile field clears them, and
\* those of a row without that field stay.
ProfileArgs(old, profile) ==
    IF profile = Absent THEN Only(old, Profiles)
    ELSE IF profile = None THEN <<>>
    ELSE <<Profile(profile)>>

\* slot_update with the three fields of a row: the line replaces the command
\* and all arguments but the profile.
SlotUpdate(slot, row) ==
    LET old == IF slot.launch # None THEN slot.launch.args ELSE <<>>
    IN [slot EXCEPT !.launch =
          IF row.command = <<>> THEN None
          ELSE [command |-> row.command, args |-> ProfileArgs(old, row.profile),
                workdir |-> row.workdir]]

-----------------------------------------------------------------------------
\* What a launch runs, apart from where the profile stands in it.
SameLaunch(a, b) ==
    /\ a.cd = b.cd
    /\ Words(a.argv) = Words(b.argv)
    /\ ProfileArg(a.argv) = ProfileArg(b.argv)

\* Saving a row as it is shown leaves what a restore runs as it was
\* (settings.rs and slot_update: the line that is shown is the line that is
\* saved back), for every slot that has launch settings.
SavedAsShown(slot) ==
    slot.launch # None /\ slot.launch.command # <<>> =>
        SameLaunch(Effective(SlotUpdate(slot, Shown(slot))), Effective(slot))

\* settings.rs: a slot saved without launch settings "still restores via its
\* identity executable; show that as the effective command".
FallbackAsShown(slot) ==
    slot.launch = None /\ slot.executable # None =>
        SameLaunch(Effective(SlotUpdate(slot, Shown(slot))), Effective(slot))

\* A captured window is run again by the words of its process, with its
\* profile and its tabs after them, however often it is captured, shown, saved
\* and detected again.  Those are exactly its arguments when it has several and
\* none is empty; empty ones are lost, and one that is left alone and has
\* blanks is taken for a rewritten command line (split_cmdline).
RunsAgain(facts) ==
    LET slot == Captured(facts)
        argv == ArgvOf(facts)
        opened == IF facts.class = "browser" /\ WindowProfile(Tail(argv), facts.disk) # None
                     /\ facts.tabs # <<>>
                  THEN <<<<"--new-window">>>> \o facts.tabs ELSE <<>>
        saved == SlotUpdate(slot, Detected(Shown(slot), slot.launch))
    IN slot.launch # None =>
          /\ (facts.argv # None /\ Len(facts.argv) > 1 /\ <<>> \notin ToSet(facts.argv)) =>
                argv = facts.argv
          /\ Words(Effective(slot).argv) = Words(argv) \o opened
          /\ ProfileArg(argv) # None =>
                ProfileArg(Effective(slot).argv) = ProfileArg(argv)
          /\ SameLaunch(Effective(saved), Effective(slot))
=============================================================================
