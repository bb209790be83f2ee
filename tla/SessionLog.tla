------------------------------ MODULE SessionLog ------------------------------
(***************************************************************************)
(* A browser that journals its session and the daemon's reading of that    *)
(* journal (workspace-daemon/src/snss.rs).                                 *)
(*                                                                         *)
(* The browser is external: it writes the commands that snss.rs reads,     *)
(* with every change of its windows; ids of tabs and windows are not used  *)
(* again.  A page stands for its URL and its title; the unread marker and  *)
(* the browser's name around a title, which the reader strips, are left    *)
(* out.  Records that cannot be decoded end or skip the replay and are not *)
(* modelled.                                                               *)
(***************************************************************************)
EXTENDS Naturals, Sequences, FiniteSets, SequencesExt, FiniteSetsExt, Lists

CONSTANTS
    Tabs, Wins, Pages,
    Launchable, \* the pages that can be opened by their address (is_launchable)
    MaxChanges, \* bound: changes the user makes in the browser
    NoSelected \* Rust's None

VARIABLES
    strip,  \* the tabs of each window, in order
    hist,   \* the pages a tab has been at, in order
    at,     \* where in it the tab is
    front,  \* the position of each window's active tab
    used,   \* the tabs and windows there have been
    journal, \* the commands written
    changes \* changes made
browserVars == <<strip, hist, at, front, used, journal, changes>>

BrowserTypeOK ==
    /\ strip \in [Wins -> Seq(Tabs)] /\ hist \in [Tabs -> Seq(Pages)]
    /\ at \in [Tabs -> Nat] /\ front \in [Wins -> Nat] /\ used \subseteq Tabs \cup Wins
    /\ \A w \in Wins : strip[w] # <<>> => front[w] \in DOMAIN strip[w]

BrowserInit ==
    /\ strip = [w \in Wins |-> <<>>]
    /\ hist = [t \in Tabs |-> <<>>] /\ at = [t \in Tabs |-> 0]
    /\ front = [w \in Wins |-> 0] /\ used = {} /\ journal = <<>> /\ changes = 0

-----------------------------------------------------------------------------
(* The commands (the constants of snss.rs), and the browser's writing. *)

TabWindow(w, t)   == [id |-> "SET_TAB_WINDOW", window |-> w, tab |-> t]
TabIndex(t, i)    == [id |-> "SET_TAB_INDEX_IN_WINDOW", tab |-> t, index |-> i]
Navigation(t, i, page) ==
    [id |-> "UPDATE_TAB_NAVIGATION", tab |-> t, index |-> i, page |-> page]
SelectedEntry(t, i) == [id |-> "SET_SELECTED_NAVIGATION_INDEX", tab |-> t, index |-> i]
SelectedTab(w, i) == [id |-> "SET_SELECTED_TAB_IN_INDEX", window |-> w, index |-> i]
TabClosed(t)      == [id |-> "TAB_CLOSED", tab |-> t]
WindowClosed(w)   == [id |-> "WINDOW_CLOSED", window |-> w]

Write(commands) ==
    /\ changes < MaxChanges /\ changes' = changes + 1
    /\ journal' = journal \o commands

Indices(tabs) == [i \in DOMAIN tabs |-> TabIndex(tabs[i], i)]
Home(t) == CHOOSE w \in Wins : t \in ToSet(strip[w])
Without(tabs, t) == RemoveAt(tabs, CHOOSE i \in DOMAIN tabs : tabs[i] = t)
IsOpen(t) == \E w \in Wins : t \in ToSet(strip[w])

Open(w, t, page) ==
    /\ t \notin used /\ (strip[w] = <<>> => w \notin used)
    /\ used' = used \cup {t, w}
    /\ strip' = [strip EXCEPT ![w] = Append(@, t)]
    /\ hist' = [hist EXCEPT ![t] = <<page>>] /\ at' = [at EXCEPT ![t] = 1]
    /\ front' = [front EXCEPT ![w] = Len(strip'[w])]
    /\ Write(<<TabWindow(w, t), TabIndex(t, front'[w]), Navigation(t, 1, page),
               SelectedEntry(t, 1), SelectedTab(w, front'[w])>>)

\* A new page forgets those ahead of the tab's place.
Navigate(t, page) ==
    /\ IsOpen(t)
    /\ hist' = [hist EXCEPT ![t] = Append(SubSeq(@, 1, at[t]), page)]
    /\ at' = [at EXCEPT ![t] = @ + 1]
    /\ Write(<<Navigation(t, at'[t], page), SelectedEntry(t, at'[t])>>)
    /\ UNCHANGED <<strip, front, used>>

GoTo(t, i) ==
    /\ IsOpen(t) /\ i \in DOMAIN hist[t] \ {at[t]}
    /\ at' = [at EXCEPT ![t] = i]
    /\ Write(<<SelectedEntry(t, i)>>)
    /\ UNCHANGED <<strip, hist, front, used>>

Activate(w, i) ==
    /\ i \in DOMAIN strip[w] \ {front[w]}
    /\ front' = [front EXCEPT ![w] = i]
    /\ Write(<<SelectedTab(w, i)>>)
    /\ UNCHANGED <<strip, hist, at, used>>

\* A tab goes to the front of another window that is open.
Move(t, w) ==
    /\ IsOpen(t) /\ w # Home(t) /\ strip[w] # <<>> /\ Len(strip[Home(t)]) > 1
    /\ LET old == Home(t) IN
       /\ strip' = [strip EXCEPT ![old] = Without(@, t), ![w] = <<t>> \o @]
       /\ front' = [front EXCEPT ![old] = 1, ![w] = 1]
       /\ Write(<<TabWindow(w, t)>> \o Indices(strip'[old]) \o Indices(strip'[w])
                \o <<SelectedTab(old, 1), SelectedTab(w, 1)>>)
    /\ UNCHANGED <<hist, at, used>>

CloseTab(t) ==
    /\ IsOpen(t) /\ Len(strip[Home(t)]) > 1
    /\ LET w == Home(t) IN
       /\ strip' = [strip EXCEPT ![w] = Without(@, t)]
       /\ front' = [front EXCEPT ![w] = 1]
       /\ Write(<<TabClosed(t)>> \o Indices(strip'[w]) \o <<SelectedTab(w, 1)>>)
    /\ UNCHANGED <<hist, at, used>>

CloseWindow(w) ==
    /\ strip[w] # <<>>
    /\ strip' = [strip EXCEPT ![w] = <<>>]
    /\ Write(<<WindowClosed(w)>>)
    /\ UNCHANGED <<hist, at, front, used>>

BrowserNext ==
    \/ \E w \in Wins, t \in Tabs, page \in Pages : Open(w, t, page)
    \/ \E t \in Tabs, page \in Pages : Navigate(t, page)
    \/ \E t \in Tabs : \E i \in DOMAIN hist[t] : GoTo(t, i)
    \/ \E w \in Wins : \E i \in DOMAIN strip[w] : Activate(w, i)
    \/ \E t \in Tabs, w \in Wins : Move(t, w)
    \/ \E t \in Tabs : CloseTab(t)
    \/ \E w \in Wins : CloseWindow(w)
BrowserSpec == BrowserInit /\ [][BrowserNext]_browserVars

-----------------------------------------------------------------------------
(* open_windows: each map of the replay holds what the last command for its *)
(* key said. *)

Of(id) == {n \in DOMAIN journal : journal[n].id = id}
Latest(ns, default) == IF ns = {} THEN default ELSE Max(ns)

Placed(t)   == Latest({n \in Of("SET_TAB_WINDOW") : journal[n].tab = t}, 0)
WindowOf(t) == journal[Placed(t)].window
IndexOf(t) ==
    LET n == Latest({k \in Of("SET_TAB_INDEX_IN_WINDOW") : journal[k].tab = t}, 0)
    IN IF n = 0 THEN 0 ELSE journal[n].index

\* closed_tabs, closed_windows: placing a tab opens it and its window again.
TabGone(t) == \E n \in Of("TAB_CLOSED") : journal[n].tab = t /\ n > Placed(t)
WindowGone(w) ==
    \E n \in Of("WINDOW_CLOSED") :
        /\ journal[n].window = w
        /\ ~\E k \in Of("SET_TAB_WINDOW") : journal[k].window = w /\ k > n

\* The tab's current page: its selected entry, else the highest recorded one.
Entry(t) ==
    LET recorded == {n \in Of("UPDATE_TAB_NAVIGATION") : journal[n].tab = t}
        selected == Latest({n \in Of("SET_SELECTED_NAVIGATION_INDEX") : journal[n].tab = t}, 0)
        sought == {n \in recorded : selected # 0 /\ journal[n].index = journal[selected].index}
        highest == {n \in recorded : \A k \in recorded : journal[k].index <= journal[n].index}
    IN IF recorded = {} THEN {}
       ELSE {journal[Max(IF sought # {} THEN sought ELSE highest)].page}

Listed(w) == {t \in Tabs : /\ Placed(t) # 0 /\ WindowOf(t) = w
                           /\ ~TabGone(t) /\ ~WindowGone(w) /\ Entry(t) # {}}
OpenWindows == {w \in Wins : Listed(w) # {}}

\* The tabs of a window by strip index, and its selected index.
ReadStrip(w) ==
    LET tabs == Sorted(Listed(w), {p \in Listed(w) \X Listed(w) : IndexOf(p[1]) < IndexOf(p[2])})
    IN [i \in DOMAIN tabs |-> CHOOSE page \in Pages : page \in Entry(tabs[i])]
ReadFront(w) ==
    LET n == Latest({k \in Of("SET_SELECTED_TAB_IN_INDEX") : journal[k].window = w}, 0)
    IN IF n = 0 THEN NoSelected ELSE journal[n].index
SelectedTitle(w) ==
    {page \in Pages : \E t \in Listed(w) : IndexOf(t) = ReadFront(w) /\ page \in Entry(t)}

\* Any window with the page will do, whichever tab of it shows it.
MutantMatchWindow(title) ==
    {w \in OpenWindows : \E t \in Listed(w) : title \in Entry(t)}

\* match_window: a window whose selected tab has the title, else one with any
\* such tab, else the only window; which of several is up to the map's order.
MatchWindow(title) ==
    LET selected == {w \in OpenWindows : title \in SelectedTitle(w)}
        holding  == {w \in OpenWindows : \E t \in Listed(w) : title \in Entry(t)}
    IN IF selected # {} THEN selected
       ELSE IF holding # {} THEN holding
       ELSE IF Cardinality(OpenWindows) = 1 THEN OpenWindows ELSE {}

\* window_tabs: the launchable pages of the window that is matched.
WindowTabs(title) == {Only(ReadStrip(w), Launchable) : w \in MatchWindow(title)}

-----------------------------------------------------------------------------
ShownPages(w) == [i \in DOMAIN strip[w] |-> hist[strip[w][i]][at[strip[w][i]]]]
Title(w) == ShownPages(w)[front[w]]

\* Capturing a window of the browser takes the launchable pages that are open
\* in it, in the order of its strip, whatever was opened, closed and moved
\* before, unless another window shows a page of the same title (window_tabs).
TakesOwnTabs ==
    \A w \in Wins :
        (strip[w] # <<>> /\ \A v \in Wins \ {w} : strip[v] # <<>> => Title(v) # Title(w)) =>
            WindowTabs(Title(w)) = {Only(ShownPages(w), Launchable)}
=============================================================================
