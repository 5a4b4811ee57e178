------------------------------ MODULE MCServer ------------------------------
(* The server process for TLC, in three studies of one run: its life from    *)
(* start to exit, who its requests are taken to come from, and how a page    *)
(* reaches it.  A behaviour is one study; the variables of the others stay   *)
(* as they are at first.                                                     *)
EXTENDS ServerLifecycle

CONSTANTS
  None, Ada, Ben, Cy, LocalTest, Own, DevToken, Secret, Wrong,   \* Authentication
  Unset, Down, NoPage                                            \* WebAccess

VARIABLES study, env, cfg, server, last, files, service, web, page

authVars == <<env, cfg, server, last>>
accessVars == <<files, service, web, page>>

Auth == INSTANCE Authentication
Access == INSTANCE WebAccess WITH server <- service

ASSUME AuthAssumption == Auth!NamesAssumption

StudyInit ==
  /\ study \in {"lifecycle", "authentication", "access"}
  /\ Init
  /\ study # "lifecycle" => autoMigrate = "off" /\ tables = "current"
  /\ Access!Init
  /\ study # "access" => files = {}
  /\ Auth!Init
  /\ study # "authentication" =>
       env = [APP_ENV |-> "development", DEV_MODE |-> "unset", AUTH_ENABLED |-> "unset",
              TRUST_PROXY_HEADERS |-> "unset", AUTH_TOKENS |-> "unset", DEV_EMAIL |-> None]

StudyNext ==
  \/ study = "lifecycle" /\ Next /\ UNCHANGED <<study, authVars, accessVars>>
  \/ study = "authentication" /\ Auth!Next /\ UNCHANGED <<study, vars, accessVars>>
  \/ study = "access" /\ Access!Next /\ UNCHANGED <<study, vars, authVars>>

Running == study = "lifecycle"

StudySpec ==
  /\ StudyInit /\ [][StudyNext]_<<study, vars, authVars, accessVars>>
  /\ WF_vars(Running /\ Notify) /\ WF_vars(Running /\ GoListen) /\ WF_vars(Running /\ Stopping)

(***************************************************************************)
(* The properties of the parts, under this module's names for variables.   *)
(***************************************************************************)
\* The process, the settings, the identities and the two programs have their
\* types.
ServerTypeOK == TypeOK /\ Auth!TypeOK /\ Access!TypeOK

\* main refuses to start when nobody could be let in (Authentication).
RefusesOnlyTheUnusable == Auth!RefusesOnlyTheUnusable

\* Everyone let in is who the environment and the headers say
\* (Authentication).
IdentitiesAreEarned == Auth!IdentitiesAreEarned

\* The service and Vite decide alike about TLS, and the default origins let
\* the pages and the documentation in (WebAccess).
PagesReachService == Access!PagesReachService /\ Access!DevModeAllowsPages
=============================================================================
