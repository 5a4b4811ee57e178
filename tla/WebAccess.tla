----------------------------- MODULE WebAccess -----------------------------
(***************************************************************************)
(* How a page reaches the service on a developer's machine: the service    *)
(* (cmd/server/main.go), Vite's server in front of the pages               *)
(* (web/vite.config.ts) and the pages' transport (web/src/lib/client.ts).  *)
(*                                                                         *)
(* The service and Vite each look once, when they start, whether there are *)
(* certificates, and speak TLS from then on or do not.  Certificates are   *)
(* two files, written one after the other; either program is restarted at  *)
(* any time.  Files are looked at in one step, and ports are the default.  *)
(***************************************************************************)
CONSTANTS Unset, Down, NoPage

VARIABLES
  files,    \* the files there are in .certs
  server,   \* the service that runs, or Down
  web,      \* Vite's server that runs, or Down
  page      \* the page in the browser, or NoPage

vars == <<files, server, web, page>>

Files == {"cert", "key"}
Url(https, port) == [https |-> https, port |-> port]
Urls(port) == {Url(https, port) : https \in BOOLEAN}
Service == "8080"
Pages == "4321"

TypeOK ==
  /\ files \subseteq Files
  /\ server = Down \/ server \in [tls : BOOLEAN, devMode : BOOLEAN, origins : SUBSET Urls(Pages),
                                  saw : SUBSET Files]
  /\ web = Down \/ web \in [https : BOOLEAN, target : Urls(Service), api : Urls(Service) \cup {Unset},
                            byDefault : BOOLEAN, saw : SUBSET Files]
  /\ page = NoPage \/ page \in [origin : Urls(Pages), api : Urls(Service) \cup {Unset}]

Init == files \in SUBSET Files /\ server = Down /\ web = Down /\ page = NoPage

WriteOrRemove ==
  /\ \E f \in Files : files' \in {files \cup {f}, files \ {f}}
  /\ UNCHANGED <<server, web, page>>

(***************************************************************************)
(* The service.                                                            *)
(***************************************************************************)
\* A bug for the checks to find: the key is not looked for.
HasTLS_CertOnly == "cert" \in files

HasTLS == Files \subseteq files

\* The allowed origins of dev mode.
DefaultOrigins == Urls(Pages)

\* In production the origins are listed; here they are the pages with TLS.
StartServer(devMode) ==
  /\ server = Down
  /\ server' = [tls |-> HasTLS, devMode |-> devMode,
                origins |-> IF devMode THEN DefaultOrigins ELSE {Url(TRUE, Pages)},
                saw |-> files]
  /\ UNCHANGED <<files, web, page>>

StopServer == server # Down /\ server' = Down /\ UNCHANGED <<files, web, page>>

(***************************************************************************)
(* Vite and the page.                                                      *)
(***************************************************************************)
HasCerts == Files \subseteq files

\* VITE_BACKEND_TARGET, or the service as the certificates suggest it.
BackendTarget(override) == IF override # Unset THEN override ELSE Url(HasCerts, Service)

StartWeb(override, api) ==
  /\ web = Down
  /\ web' = [https |-> HasCerts, target |-> BackendTarget(override), api |-> api,
             byDefault |-> override = Unset, saw |-> files]
  /\ UNCHANGED <<files, server, page>>

\* A page that is open stays open.
StopWeb == web # Down /\ web' = Down /\ UNCHANGED <<files, server, page>>

OpenPage ==
  /\ web # Down
  /\ page' = [origin |-> Url(web.https, Pages), api |-> web.api]
  /\ UNCHANGED <<files, server, web>>

\* getApiBaseUrl: VITE_API_URL, or where the page came from.
ApiBaseUrl == IF page.api # Unset THEN page.api ELSE page.origin

Listens(url) == server # Down /\ server.tls = url.https

\* Vite hands calls of the service on to its target; calls to the service
\* itself come from another origin and carry credentials, which the service
\* has to allow.
Proxied == web # Down /\ web.https = page.origin.https /\ Listens(web.target)
Direct(url) == Listens(url) /\ page.origin \in server.origins
Answered == IF ApiBaseUrl = page.origin THEN Proxied ELSE Direct(ApiBaseUrl)

\* The servers the embedded documentation offers to try the calls on.
DocsServers == Urls(Service)

Next ==
  \/ WriteOrRemove
  \/ (\E devMode \in BOOLEAN : StartServer(devMode)) \/ StopServer
  \/ (\E override, api \in Urls(Service) \cup {Unset} : StartWeb(override, api)) \/ StopWeb
  \/ OpenPage

Spec == Init /\ [][Next]_vars

(***************************************************************************)
(* Properties.                                                             *)
(***************************************************************************)
FromWeb == page # NoPage /\ web # Down /\ page.origin.https = web.https

\* Without overrides the pages reach the service if both programs found the
\* same files when they started, whichever they were and whatever has become
\* of them since: main.go:127-132 and vite.config.ts:7-15 decide alike.
PagesReachService ==
  FromWeb /\ server # Down /\ web.byDefault /\ page.api = Unset /\ server.saw = web.saw =>
    Answered

\* In dev mode a page that is told where the service is reaches it, with or
\* without TLS on either side, and so does one of the two servers that the
\* embedded documentation offers (Docs.tsx:23): the default origins do.
DevModeAllowsPages ==
  page # NoPage /\ server # Down /\ server.devMode =>
    /\ page.api # Unset /\ Listens(page.api) => Answered
    /\ \E url \in DocsServers : Direct(url)
=============================================================================
