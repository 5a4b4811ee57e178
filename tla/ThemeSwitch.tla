---------------------------- MODULE ThemeSwitch ----------------------------
(***************************************************************************)
(* The light and dark look of the pages (components/ThemeSwitcher.tsx) in  *)
(* several tabs of one browser, which share its local storage and run at   *)
(* the same time.                                                          *)
(*                                                                         *)
(* The look is decided twice when a page is loaded: by the script in the   *)
(* head of index.html, before anything is drawn, and by the switch in the  *)
(* header, when the application renders.  The switch is part of the layout *)
(* and is made anew whenever another page brings its own; the page of the  *)
(* API documentation has none.  A switch reads the storage when it renders *)
(* and writes it in an effect, which is later.                             *)
(***************************************************************************)
EXTENDS Naturals

CONSTANTS
  Tabs,
  MaxSteps,   \* bound on pages opened, clicks and changes of the system
  None        \* nothing saved, or no switch on the page

VARIABLES
  saved,     \* localStorage "theme"
  system,    \* prefers-color-scheme
  place,     \* [Tabs -> page on screen]
  phase,     \* [Tabs -> closed, loaded, rendered (effect to come) or idle]
  theme,     \* [Tabs -> state of the switch]
  shown,     \* [Tabs -> data-theme of the document]
  read,      \* [Tabs -> storage and system when the tab last read them]
  steps

vars == <<saved, system, place, phase, theme, shown, read, steps>>

Themes == {"dark", "light"}
\* Another application of the same origin may have used the key.
Values == Themes \cup {"other"}
Pages == {"list", "details"}

ThemeAssumption == MaxSteps \in Nat /\ None \notin Values

TypeOK ==
  /\ saved \in Values \cup {None}
  /\ system \in Themes
  /\ place \in [Tabs -> Pages \cup {"docs", "none"}]
  /\ phase \in [Tabs -> {"closed", "loaded", "rendered", "idle"}]
  /\ theme \in [Tabs -> Themes \cup {None}]
  /\ shown \in [Tabs -> Values]
  /\ read \in [Tabs -> (Values \cup {None}) \X Themes]
  /\ steps \in 0..MaxSteps
  /\ \A t \in Tabs : theme[t] # None <=> phase[t] \in {"rendered", "idle"} /\ place[t] \in Pages

Init ==
  /\ saved \in Values \cup {None}
  /\ system \in Themes
  /\ place = [t \in Tabs |-> "none"]
  /\ phase = [t \in Tabs |-> "closed"]
  /\ theme = [t \in Tabs |-> None]
  /\ shown = [t \in Tabs |-> "dark"]
  /\ read = [t \in Tabs |-> <<None, system>>]
  /\ steps = 0

Step == steps < MaxSteps /\ steps' = steps + 1

Reads(t) == read' = [read EXCEPT ![t] = <<saved, system>>]

\* The script of index.html takes whatever is saved.
HeadTheme == IF saved = None THEN system ELSE saved

\* A bug for the checks to find: the system decides before the storage.
Initial_SystemFirst == system

\* The initial state of the switch.
Initial == IF saved \in Themes THEN saved ELSE system

\* The address bar or a reload: the document is new, nothing has rendered.
Load(t, p) ==
  /\ Step
  /\ place' = [place EXCEPT ![t] = p]
  /\ phase' = [phase EXCEPT ![t] = "loaded"]
  /\ theme' = [theme EXCEPT ![t] = None]
  /\ shown' = [shown EXCEPT ![t] = HeadTheme]
  /\ Reads(t)
  /\ UNCHANGED <<saved, system>>

\* A layout with a new switch in it.
Mount(t, p) ==
  /\ place' = [place EXCEPT ![t] = p]
  /\ phase' = [phase EXCEPT ![t] = "rendered"]
  /\ theme' = [theme EXCEPT ![t] = Initial]
  /\ Reads(t)
  /\ UNCHANGED <<saved, system, shown>>

\* The documentation page: no layout, no switch, the look stays.
Bare(t) ==
  /\ place' = [place EXCEPT ![t] = "docs"]
  /\ phase' = [phase EXCEPT ![t] = "idle"]
  /\ theme' = [theme EXCEPT ![t] = None]
  /\ UNCHANGED <<saved, system, shown, read>>

\* The application renders for the first time.
FirstRender(t) ==
  /\ phase[t] = "loaded"
  /\ IF place[t] = "docs" THEN Bare(t) ELSE Mount(t, place[t])
  /\ UNCHANGED steps

\* A link to another page.
GoTo(t, p) ==
  /\ Step
  /\ phase[t] = "idle" /\ p # place[t]
  /\ IF p = "docs" THEN Bare(t) ELSE Mount(t, p)

\* The effect of a new switch.
RunEffect(t) ==
  /\ phase[t] = "rendered"
  /\ phase' = [phase EXCEPT ![t] = "idle"]
  /\ shown' = [shown EXCEPT ![t] = theme[t]]
  /\ saved' = theme[t]
  /\ UNCHANGED <<system, place, theme, read, steps>>

Other(th) == IF th = "dark" THEN "light" ELSE "dark"

\* A click on the switch, and the effect that follows at once.
ToggleTheme(t) ==
  /\ Step
  /\ phase[t] = "idle" /\ theme[t] # None
  /\ theme' = [theme EXCEPT ![t] = Other(@)]
  /\ shown' = [shown EXCEPT ![t] = Other(theme[t])]
  /\ saved' = Other(theme[t])
  /\ UNCHANGED <<system, place, phase, read>>

SystemChanges ==
  /\ Step
  /\ system' = Other(system)
  /\ UNCHANGED <<saved, place, phase, theme, shown, read>>

Next ==
  \/ \E t \in Tabs :
       \/ \E p \in Pages \cup {"docs"} : Load(t, p) \/ GoTo(t, p)
       \/ FirstRender(t) \/ RunEffect(t) \/ ToggleTheme(t)
  \/ SystemChanges

Spec == Init /\ [][Next]_vars

(***************************************************************************)
(* Properties.                                                             *)
(***************************************************************************)
\* The step flips a switch at rest; the switch to write has read something else.
Clicked(t) == phase[t] = "idle" /\ theme'[t] # theme[t]
Outdated(t) == phase[t] = "rendered" /\ read[t][1] # saved

\* A saved theme is replaced by a click, or by a switch that had read the
\* storage before that theme was saved; a switch that has read it saves it
\* again (ThemeSwitcher.tsx:6-13).  So the look chosen in one tab is lost only
\* to another tab that was rendering at that moment.
SavedLookLostOnlyToStaleSwitch ==
  [][saved' # saved /\ saved \in Themes => \E t \in Tabs : Clicked(t) \/ Outdated(t)]_vars

\* The first render does not change the look the page was loaded with: the
\* script of index.html and the switch decide alike, unless what they read
\* has changed in between or is no theme.
FirstRenderKeepsLook ==
  [][\A t \in Tabs :
       (phase[t] = "loaded" /\ phase'[t] = "rendered" /\ theme'[t] # shown[t]) =>
         (read[t] # <<saved, system>> \/ saved = "other")]_vars
=============================================================================
