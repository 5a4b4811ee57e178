------------------------------ MODULE MCShown ------------------------------
(* What the pages show, for TLC, in four studies of one run: the age of a    *)
(* pet, its row and its details, a walk through the pages of the list, and   *)
(* the theme in two tabs.  A behaviour is one study; the variables of the    *)
(* others stay as they are at first.                                         *)
EXTENDS AgeText

CONSTANTS
  Users, Dates, Minute, Epoch, MaxClock, MaxUpdates, NoPet,   \* PetViews
  Pets, Old, PageSize, MaxChanges,                            \* ListWalk
  Tabs, MaxSteps, None                                        \* ThemeSwitch

VARIABLES
  study,
  stored, viewClock, updates,
  row, created, clock, page, reader, seen, stayed, arrivals, departures,
  saved, system, place, phase, theme, shown, read, steps

viewVars == <<stored, viewClock, updates>>
walkVars == <<row, created, clock, page, reader, seen, stayed, arrivals, departures>>
themeVars == <<saved, system, place, phase, theme, shown, read, steps>>

Views == INSTANCE PetViews WITH clock <- viewClock
Walk == INSTANCE ListWalk
Look == INSTANCE ThemeSwitch

ASSUME ShownAssumption ==
  Views!ViewsAssumption /\ Walk!WalkAssumption /\ Look!ThemeAssumption

StudyInit ==
  /\ study \in {"age", "views", "walk", "theme"}
  /\ Walk!Init
  /\ study # "walk" => \A p \in Pets : row[p] # "other" /\ created[p] < 2
  /\ Look!Init
  /\ study # "theme" => saved = None /\ system = "dark"
  /\ Views!Init
  /\ Init
  /\ study # "age" => birth = [year |-> FirstToday, month |-> 2, day |-> 1]

StudyNext ==
  \/ study = "age" /\ Next /\ UNCHANGED <<study, viewVars, walkVars, themeVars>>
  \/ study = "views" /\ Views!Next /\ UNCHANGED <<study, vars, walkVars, themeVars>>
  \/ study = "walk" /\ Walk!Next /\ UNCHANGED <<study, vars, viewVars, themeVars>>
  \/ study = "theme" /\ Look!Next /\ UNCHANGED <<study, vars, viewVars, walkVars>>

StudySpec ==
  StudyInit /\ [][StudyNext]_<<study, vars, viewVars, walkVars, themeVars>>

(***************************************************************************)
(* The properties of the parts, under this module's names for variables.   *)
(***************************************************************************)
\* Every part has its types; a pet is not modified before it is created, and
\* a page of the list has no more rows than were asked for.
ShownTypeOK == TypeOK /\ Views!TypeOK /\ Walk!TypeOK /\ Look!TypeOK

\* The pages do not contradict each other about a pet, and the list tells of
\* its last update when there is something to tell (PetViews).
PagesAgree == Views!PagesAgree /\ Views!UpdatedLineTells

\* A walk misses a pet only when another left the list, and shows one twice
\* only when another came (ListWalk).
WalkIsAccountedFor == Walk!MissedOnlyByDepartures /\ Walk!RepeatedOnlyByArrivals

\* A saved look is lost only to a tab that was rendering, and the first render
\* keeps the look a page was loaded with (ThemeSwitch).
LookIsKept == Look!SavedLookLostOnlyToStaleSwitch /\ Look!FirstRenderKeepsLook
=============================================================================
