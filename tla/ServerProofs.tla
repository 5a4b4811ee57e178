---------------------------- MODULE ServerProofs ----------------------------
(***************************************************************************)
(* Proofs about the server: its life from start to exit, for any set of    *)
(* requests and any number of signals; who a request is taken to come      *)
(* from, whatever the names and tokens are as long as they are different   *)
(* things; and how a page reaches the service.                             *)
(***************************************************************************)
EXTENDS MCServer, TLAPS

(***************************************************************************)
(* The life of the process.                                                *)
(***************************************************************************)
\* Where main() is when a connection may be open, and when the pool is.
Connected == {"waiting", "stopping", "draining"}
Pooled == {"migration", "handler", "notify"} \cup Serving

RequestsNeedMain ==
  \A r \in Requests : request[r] \in {"sent", "running"} => main \in Connected

ServingNeedsMain ==
  /\ listener = "serving" => main \in {"waiting", "stopping"}
  /\ listener = "starting" => main \in Connected \cup Deferred

PoolNeedsMain == main \in Pooled => pool = "open"

\* Nothing is cut off before the process ends, and at the end only what was
\* being served.
CutOffAtTheEnd ==
  (\E r \in Requests : request[r] = "cutOff") => exit \in {"failed", "forced"}

MigratedBeforeServing ==
  autoMigrate = "on" =>
    /\ main \in {"handler", "notify"} \cup Serving => tables = "current"
    /\ \A r \in Requests : request[r] \in {"sent", "running", "answered", "cutOff"} => tables = "current"

SpansAfterFlush ==
  /\ tracing = "flushed" => spans = {}
  /\ tracing = "flushed" => main \in {"returning", "gone"}

IInv ==
  /\ TypeOK
  /\ RequestsNeedMain
  /\ ServingNeedsMain
  /\ PoolNeedsMain
  /\ CutOffAtTheEnd
  /\ MigratedBeforeServing
  /\ SpansAfterFlush

\* The inductive invariant gives the four properties of a stop.
LEMMA InvImplies ==
  IInv => OrderlyLife
<1> SUFFICES ASSUME IInv
             PROVE  OrderlyLife
  OBVIOUS
<1>1. PoolOutlivesRequests
  BY DEF IInv, RequestsNeedMain, PoolNeedsMain, PoolOutlivesRequests, Connected, Pooled, Serving
<1>2. CleanStopAnswersAll
  BY DEF IInv, CutOffAtTheEnd, CleanStopAnswersAll
<1>3. CleanStopExportsAll
  BY DEF IInv, SpansAfterFlush, CleanStopExportsAll
<1>4. ServesMigratedTables
  BY DEF IInv, MigratedBeforeServing, ServesMigratedTables, Accepted
<1>5. QED
  BY <1>1, <1>2, <1>3, <1>4 DEF OrderlyLife

\* The invariant holds of a process that has just started.
LEMMA InitInv == Init => IInv
BY MaxSignalsAssumption
   DEF Init, IInv, TypeOK, RequestsNeedMain, ServingNeedsMain, PoolNeedsMain,
       CutOffAtTheEnd, MigratedBeforeServing, SpansAfterFlush, Unnotified, Serving,
       Connected, Pooled

\* The end of the process keeps the invariant, whatever ends it, if a request
\* is cut off only by an end that says so.
LEMMA GoneInv ==
  ASSUME IInv,
         NEW how \in {"clean", "failed", "forced", "killed"},
         Gone(how),
         how \in {"failed", "forced"} \/ main \notin Connected,
         main # "gone",
         stop' = stop,
         signals' \in 0..MaxSignals,
         UNCHANGED <<autoMigrate, pool, tables, tracing, spans>>
  PROVE  IInv'
<1> USE DEF IInv, Gone
<1>1. \A r \in Requests : request'[r] \in {"unsent", "answered", "refused", "cutOff"}
  BY DEF TypeOK
<1>2. TypeOK'
  BY DEF TypeOK
<1>3. RequestsNeedMain' /\ ServingNeedsMain' /\ PoolNeedsMain'
  BY <1>1 DEF RequestsNeedMain, ServingNeedsMain, PoolNeedsMain, Pooled, Serving
<1>4. CutOffAtTheEnd'
  <2>1. \A r \in Requests : request[r] # "cutOff"
    BY DEF CutOffAtTheEnd, TypeOK
  <2>2. CASE how \in {"failed", "forced"}
    BY <2>2 DEF CutOffAtTheEnd
  <2>3. CASE main \notin Connected
    BY <2>1, <2>3 DEF RequestsNeedMain, CutOffAtTheEnd, TypeOK
  <2>4. QED
    BY <2>2, <2>3
<1>5. MigratedBeforeServing'
  BY DEF MigratedBeforeServing, TypeOK, Serving
<1>6. SpansAfterFlush'
  BY DEF SpansAfterFlush
<1>7. QED
  BY <1>2, <1>3, <1>4, <1>5, <1>6

\* Every step of the process keeps the invariant.
LEMMA StepInv == IInv /\ [Next]_vars => IInv'
<1> SUFFICES ASSUME IInv, [Next]_vars
             PROVE  IInv'
  OBVIOUS
<1>1. Signal => signals' \in 0..MaxSignals
  BY MaxSignalsAssumption DEF Signal, IInv, TypeOK
<1>2. CASE Ends("failed") /\ main # "gone"
  BY <1>2, GoneInv DEF Ends, IInv, TypeOK
<1>3. CASE Deadline
  BY <1>3, GoneInv DEF Deadline, Ends, IInv, TypeOK
<1>4. CASE Return
  BY <1>4, GoneInv DEF Return, Ends, IInv, TypeOK, Connected
<1>5. CASE Signal /\ ~Notified
  <2>1. main \notin Connected /\ main # "gone" /\ signals' \in 0..MaxSignals
    BY <1>5, <1>1 DEF Signal, Notified, Connected, Serving
  <2>2. Gone("killed") /\ stop' = stop /\ UNCHANGED <<autoMigrate, pool, tables, tracing, spans>>
    BY <1>5 DEF Signal
  <2>3. QED
    BY <2>1, <2>2, GoneInv
<1> USE DEF IInv, RequestsNeedMain, ServingNeedsMain, PoolNeedsMain, CutOffAtTheEnd,
            MigratedBeforeServing, SpansAfterFlush, Connected, Pooled,
            Unnotified, Serving, Deferred
<1>6. CASE InitTelemetry
  BY <1>6 DEF InitTelemetry, TypeOK
<1>7. CASE ConnectPool /\ ~Ends("failed")
  BY <1>7 DEF ConnectPool, TypeOK
<1>8. CASE AutoMigrate /\ ~Ends("failed")
  BY <1>8 DEF AutoMigrate, TypeOK
<1>9. CASE NewServerHandler /\ ~Ends("failed")
  BY <1>9 DEF NewServerHandler, TypeOK
<1>10. CASE Notify
  BY <1>10 DEF Notify, TypeOK
<1>11. CASE GoListen
  BY <1>11 DEF GoListen, TypeOK
<1>12. CASE Signal /\ Notified
  BY <1>12, <1>1 DEF Signal, Notified, Buffered, TypeOK
<1>13. CASE Listen /\ ~Ends("failed")
  BY <1>13 DEF Listen, ShuttingDown, TypeOK
<1>14. CASE Export
  BY <1>14 DEF Export, TypeOK
<1>15. ASSUME NEW r \in Requests, Send(r) PROVE IInv'
  BY <1>15 DEF Send, Step, TypeOK
<1>16. ASSUME NEW r \in Requests, Accept(r) PROVE IInv'
  BY <1>16 DEF Accept, Step, TypeOK
<1>17. ASSUME NEW r \in Requests, CloseIdle(r) PROVE IInv'
  BY <1>17 DEF CloseIdle, Step, TypeOK
<1>18. ASSUME NEW r \in Requests, Answer(r) PROVE IInv'
  BY <1>18 DEF Answer, Step, TypeOK
<1>19. CASE ReceiveStop
  BY <1>19 DEF ReceiveStop, TypeOK
<1>20. CASE BeginShutdown
  BY <1>20 DEF BeginShutdown, TypeOK
<1>21. CASE ShutdownReturns
  <2>1. \A r \in Requests : request'[r] \notin {"sent", "running"}
    BY <1>21 DEF ShutdownReturns, Idle
  <2>2. QED
    BY <1>21, <2>1 DEF ShutdownReturns, TypeOK
<1>22. CASE ClosePool
  BY <1>22 DEF ClosePool, TypeOK
<1>23. CASE Flush
  BY <1>23 DEF Flush, TypeOK
<1>24. CASE UNCHANGED vars
  BY <1>24 DEF vars, TypeOK
<1>25. ~(Ends("failed") /\ main # "gone") =>
         /\ ListenerFails => FALSE
         /\ ConnectPool \/ AutoMigrate \/ NewServerHandler \/ Listen => ~Ends("failed")
  BY DEF ListenerFails, ConnectPool, AutoMigrate, NewServerHandler, Listen, TypeOK
<1>26. QED
  BY <1>2, <1>3, <1>4, <1>5, <1>6, <1>7, <1>8, <1>9, <1>10, <1>11, <1>12, <1>13,
     <1>14, <1>15, <1>16, <1>17, <1>18, <1>19, <1>20, <1>21, <1>22, <1>23, <1>24,
     <1>25
     DEF Next, Stopping

\* A stop costs nothing but what the deadline or a failing listener cuts off:
\* the pool outlives the requests, a process that leaves by returning from
\* main has answered and exported everything, and none is ever served on
\* tables that AUTO_MIGRATE should have changed (main.go:56-161).
THEOREM GracefulStop ==
  Spec => []OrderlyLife
<1>1. QED
  BY InitInv, StepInv, InvImplies, PTL DEF Spec

\* The variables keep their types.
THEOREM TypeCorrect == Spec => []TypeOK
<1>1. IInv => TypeOK
  BY DEF IInv
<1>2. QED
  BY <1>1, InitInv, StepInv, PTL DEF Spec

(***************************************************************************)
(* Who is let in: the configuration.                                       *)
(***************************************************************************)
\* What config.Load makes of an environment, setting by setting.
LEMMA LoadedIs ==
  ASSUME NEW e \in Auth!Environments
  PROVE  /\ Auth!Load(e).devMode =
              (e.DEV_MODE = "true" \/ (e.DEV_MODE # "false" /\ e.APP_ENV # "production"))
         /\ Auth!Load(e).authEnabled = (e.AUTH_ENABLED # "false")
         /\ Auth!Load(e).trustProxyHeaders = (e.TRUST_PROXY_HEADERS = "true")
         /\ Auth!Load(e).tokens = Auth!Tokens(e.AUTH_TOKENS, Auth!Load(e).devMode)
         /\ Auth!Load(e).devEmail \in {LocalTest, Own}
<1> DEFINE c == Auth!Load(e)
           devMode == Auth!Flag(e.DEV_MODE, e.APP_ENV # "production")
<1>1. c = [devMode |-> devMode,
           authEnabled |-> Auth!Flag(e.AUTH_ENABLED, TRUE),
           tokens |-> Auth!Tokens(e.AUTH_TOKENS, devMode),
           trustProxyHeaders |-> Auth!Flag(e.TRUST_PROXY_HEADERS, FALSE),
           devEmail |-> IF e.DEV_EMAIL = None THEN LocalTest ELSE e.DEV_EMAIL]
  BY DEF Auth!Load
<1>2. /\ e.DEV_MODE \in Auth!Flags /\ e.AUTH_ENABLED \in Auth!Flags /\ e.TRUST_PROXY_HEADERS \in Auth!Flags
      /\ e.DEV_EMAIL \in {None, Own}
  BY DEF Auth!Environments
<1>3. /\ c.devMode = devMode /\ c.authEnabled = Auth!Flag(e.AUTH_ENABLED, TRUE)
      /\ c.tokens = Auth!Tokens(e.AUTH_TOKENS, devMode)
      /\ c.trustProxyHeaders = Auth!Flag(e.TRUST_PROXY_HEADERS, FALSE)
      /\ c.devEmail = (IF e.DEV_EMAIL = None THEN LocalTest ELSE e.DEV_EMAIL)
  BY <1>1
<1>. HIDE DEF c
<1>4. \A value \in Auth!Flags, default \in BOOLEAN :
        Auth!Flag(value, default) = (value = "true" \/ (value # "false" /\ default))
  BY DEF Auth!Flag, Auth!Flags
<1>5. devMode = (e.DEV_MODE = "true" \/ (e.DEV_MODE # "false" /\ e.APP_ENV # "production"))
  BY <1>2, <1>4
<1>6. Auth!Flag(e.AUTH_ENABLED, TRUE) = (e.AUTH_ENABLED # "false")
  BY <1>2, <1>4 DEF Auth!Flags
<1>7. Auth!Flag(e.TRUST_PROXY_HEADERS, FALSE) = (e.TRUST_PROXY_HEADERS = "true")
  BY <1>2, <1>4
<1>. QED
  BY <1>2, <1>3, <1>5, <1>6, <1>7 DEF c

\* Tokens are the listed one, the one of development, or none.
LEMMA TokensAre ==
  ASSUME NEW e \in Auth!Environments
  PROVE  /\ Auth!Load(e).tokens \in {{}, {Secret}, {DevToken}}
         /\ ~Auth!Load(e).devMode /\ Auth!Load(e).tokens # {} =>
              e.AUTH_TOKENS = "listed" /\ Auth!Load(e).tokens = {Secret}
<1>1. e.AUTH_TOKENS \in {"unset", "blank", "listed"}
  BY DEF Auth!Environments
<1>2. Auth!Load(e).tokens = Auth!Tokens(e.AUTH_TOKENS, Auth!Load(e).devMode)
  BY LoadedIs
<1>. QED
  BY <1>1, <1>2 DEF Auth!Tokens

(***************************************************************************)
(* Who is let in: the way of a request.                                    *)
(***************************************************************************)
\* In dev mode a request without credentials gets the developer's address.
LEMMA DeveloperIsNamed ==
  ASSUME Auth!NamesAssumption, NEW e \in Auth!Environments, Auth!Load(e).devMode, Auth!Load(e).authEnabled
  PROVE  Auth!Intercepted(Auth!Load(e), Auth!DevIdentity(Auth!Load(e), Auth!NoHeaders)) =
           Auth!Identity("iap", Auth!Load(e).devEmail)
<1> DEFINE c == Auth!Load(e)
           seen == Auth!DevIdentity(c, Auth!NoHeaders)
<1>1. c.devEmail # None
  BY LoadedIs DEF Auth!NamesAssumption
<1>2. seen = [Auth!NoHeaders EXCEPT !.iapEmail = c.devEmail, !.forwardedEmail = c.devEmail,
                               !.forwardedUser = "dev-user-001"]
  BY DEF Auth!DevIdentity, Auth!NoHeaders
<1>3. seen.iapEmail = c.devEmail
  BY <1>2 DEF Auth!NoHeaders
<1>. HIDE DEF seen, c
<1>4. c.devMode /\ c.authEnabled
  BY DEF c
<1>5. Auth!Intercepted(c, seen) = Auth!Identity("iap", c.devEmail)
  BY <1>1, <1>3, <1>4 DEF Auth!Intercepted, Auth!Authenticate, Auth!Trusts
<1>. QED
  BY <1>5 DEF seen, c

\* Outside dev mode the headers reach the interceptor as they arrived.
LEMMA OnlyDevModeNames ==
  ASSUME NEW c, NEW h, ~c.devMode
  PROVE  Auth!DevIdentity(c, h) = h
BY DEF Auth!DevIdentity

\* Whoever is let in by name or by token is not the refused identity.
LEMMA LetInIsNotRefused ==
  ASSUME NEW provider, NEW email, provider # "none"
  PROVE  Auth!Identity(provider, email) # Auth!Refused
BY DEF Auth!Identity, Auth!Refused

\* A usable configuration lets somebody in: the developer, whom the proxy
\* names, or the bearer of the token.
LEMMA UsableLetsIn ==
  ASSUME Auth!NamesAssumption, NEW e \in Auth!Environments, Auth!Usable(Auth!Load(e))
  PROVE  \E h \in Auth!Headers : Auth!Intercepted(Auth!Load(e), Auth!DevIdentity(Auth!Load(e), h)) # Auth!Refused
<1> DEFINE c == Auth!Load(e)
<1>1. Auth!NoHeaders \in Auth!Headers
  BY DEF Auth!NoHeaders, Auth!Headers
<1>2. CASE ~c.authEnabled
  <2>1. Auth!Intercepted(c, Auth!DevIdentity(c, Auth!NoHeaders)) = Auth!Identity("disabled", "anonymous")
    BY <1>2 DEF Auth!Intercepted
  <2>. QED
    BY <1>1, <2>1, LetInIsNotRefused
<1>3. CASE c.authEnabled /\ c.devMode
  BY <1>1, <1>3, DeveloperIsNamed, LetInIsNotRefused
<1>4. CASE c.authEnabled /\ ~c.devMode /\ c.trustProxyHeaders
  <2> DEFINE h == [Auth!NoHeaders EXCEPT !.iapEmail = Ada]
  <2>1. h \in Auth!Headers /\ h.iapEmail = Ada
    BY DEF Auth!NoHeaders, Auth!Headers
  <2>. HIDE DEF h
  <2>2. Auth!Intercepted(c, Auth!DevIdentity(c, h)) = Auth!Identity("iap", Ada)
    BY <1>4, <2>1, OnlyDevModeNames DEF Auth!Intercepted, Auth!Authenticate, Auth!Trusts, Auth!NamesAssumption
  <2>. QED
    BY <2>1, <2>2, LetInIsNotRefused
<1>5. CASE c.authEnabled /\ ~c.devMode /\ ~c.trustProxyHeaders
  <2>1. c.tokens = {Secret}
    BY <1>5, TokensAre DEF Auth!Usable
  <2> DEFINE h == [Auth!NoHeaders EXCEPT !.authorization = Secret]
  <2>2. h \in Auth!Headers /\ h.authorization = Secret
    BY DEF Auth!NoHeaders, Auth!Headers
  <2>. HIDE DEF h
  <2>3. Auth!Bearer(h)
    BY <2>2 DEF Auth!Bearer, Auth!NamesAssumption
  <2>4. Auth!Intercepted(c, Auth!DevIdentity(c, h)) = Auth!Identity("bearer", "service@internal")
    BY <1>5, <2>1, <2>2, <2>3, OnlyDevModeNames
    DEF Auth!Intercepted, Auth!Authenticate, Auth!Trusts, Auth!FromToken
  <2>. QED
    BY <2>2, <2>4, LetInIsNotRefused
<1>. QED
  BY <1>2, <1>3, <1>4, <1>5

\* Any other configuration lets nobody in.
LEMMA UnusableRefusesAll ==
  ASSUME NEW c, ~Auth!Usable(c), NEW h
  PROVE  Auth!Intercepted(c, Auth!DevIdentity(c, h)) = Auth!Refused
BY OnlyDevModeNames DEF Auth!Usable, Auth!Intercepted, Auth!Authenticate, Auth!Trusts, Auth!FromToken

(***************************************************************************)
(* Who is let in: the server.                                              *)
(***************************************************************************)
\* The configuration is that of the environment, main() has decided by it, and
\* the one request there may be went through the whole way.
AuthInv ==
  /\ env \in Auth!Environments /\ cfg = Auth!Load(env)
  /\ server \in {"down", "up", "refused"}
  /\ server # "down" => (server = "up" <=> Auth!Usable(cfg))
  /\ Auth!Answered => \E h \in Auth!Headers :
       last = [headers |-> h, seen |-> Auth!DevIdentity(cfg, h),
               who |-> Auth!Intercepted(cfg, Auth!DevIdentity(cfg, h))]

LEMMA InitAuth == Auth!Init => AuthInv
BY DEF Auth!Init, AuthInv, Auth!Answered

LEMMA StepAuth ==
  ASSUME AuthInv, [Auth!Next]_(Auth!vars)
  PROVE  AuthInv'
<1>1. CASE Auth!Start
  BY <1>1 DEF Auth!Start, AuthInv, Auth!Answered
<1>2. ASSUME NEW h \in Auth!Headers, Auth!Request(h)
      PROVE  AuthInv'
  <2>1. /\ last' = [headers |-> h, seen |-> Auth!DevIdentity(cfg, h),
                    who |-> Auth!Intercepted(cfg, Auth!DevIdentity(cfg, h))]
        /\ UNCHANGED <<env, cfg, server>>
    BY <1>2 DEF Auth!Request
  <2>. QED
    BY <2>1 DEF AuthInv
<1>3. CASE UNCHANGED Auth!vars
  BY <1>3 DEF Auth!vars, AuthInv, Auth!Answered
<1>. QED
  BY <1>1, <1>2, <1>3 DEF Auth!Next

LEMMA AlwaysAuthInv == Auth!Spec => []AuthInv
<1>1. AuthInv /\ [Auth!Next]_(Auth!vars) => AuthInv'
  BY StepAuth
<1>. QED
  BY <1>1, InitAuth, PTL DEF Auth!Spec

\* The check of main.go:60 and authenticate are written apart and agree in
\* every environment: the server that starts can let somebody in, and the one
\* that does not start could have let in nobody.
THEOREM StartsIfOfUse ==
  Auth!Spec => []RefusesOnlyTheUnusable
<1>1. AuthInv => RefusesOnlyTheUnusable
  <2>. SUFFICES ASSUME AuthInv, server # "down"
                PROVE  server = "refused" <=>
                         \A h \in Auth!Headers : Auth!Intercepted(cfg, Auth!DevIdentity(cfg, h)) = Auth!Refused
    BY DEF RefusesOnlyTheUnusable, Auth!RefusesOnlyTheUnusable
  <2>1. server = "refused" <=> ~Auth!Usable(cfg)
    BY DEF AuthInv
  <2>2. env \in Auth!Environments /\ cfg = Auth!Load(env)
    BY DEF AuthInv
  <2>. QED
    BY <2>1, <2>2, AuthAssumption, UsableLetsIn, UnusableRefusesAll
<1>. QED
  BY <1>1, AlwaysAuthInv, PTL

\* Whoever is let in has earned the name: in production by a listed token or a
\* proxy that is trusted; by a token only if AUTH_TOKENS lists it or, in dev
\* mode, is not set; and in dev mode without credentials as the developer.
THEOREM NamesAreEarned ==
  Auth!Spec => []IdentitiesAreEarned
<1>1. ASSUME AuthInv, Auth!Answered PROVE IdentitiesAreEarned
  <2>. DEFINE c == Auth!Load(env)
  <2>1. PICK h \in Auth!Headers :
          last = [headers |-> h, seen |-> Auth!DevIdentity(c, h),
                  who |-> Auth!Intercepted(c, Auth!DevIdentity(c, h))]
    BY <1>1 DEF AuthInv
  <2>2. /\ env \in Auth!Environments /\ cfg = c
        /\ last.headers = h /\ last.who = Auth!Intercepted(c, Auth!DevIdentity(c, h))
    BY <1>1, <2>1 DEF AuthInv
  <2>3. Auth!ProductionNeedsEvidence
    <3>. SUFFICES ASSUME Auth!LetIn, env.APP_ENV = "production",
                         env.DEV_MODE \in {"unset", "false", "unreadable"},
                         env.AUTH_ENABLED # "false"
                  PROVE  \/ /\ last.who.provider = "bearer"
                            /\ env.AUTH_TOKENS = "listed"
                            /\ last.headers.authorization = Secret
                         \/ /\ env.TRUST_PROXY_HEADERS = "true"
                            /\ \/ last.who = Auth!Identity("iap", last.headers.iapEmail)
                               \/ last.who = Auth!Identity("oauth2-proxy", last.headers.forwardedEmail)
      BY DEF Auth!ProductionNeedsEvidence
    <3>1. ~c.devMode /\ c.authEnabled /\ c.trustProxyHeaders = (env.TRUST_PROXY_HEADERS = "true")
      BY <2>2, LoadedIs
    <3>2. last.who = Auth!Authenticate(c, h)
      BY <2>2, <3>1, OnlyDevModeNames DEF Auth!Intercepted
    <3>3. CASE Auth!Trusts(c) /\ (h.iapEmail # None \/ h.iapJWT)
      BY <2>2, <3>1, <3>2, <3>3 DEF Auth!Authenticate, Auth!Trusts
    <3>4. CASE Auth!Trusts(c) /\ ~(h.iapEmail # None \/ h.iapJWT)
               /\ (h.forwardedEmail # None \/ h.forwardedUser # None)
      BY <2>2, <3>1, <3>2, <3>4 DEF Auth!Authenticate, Auth!Trusts
    <3>5. CASE last.who = Auth!FromToken(c, h)
      <4>1. Auth!Bearer(h) /\ h.authorization \in c.tokens /\ last.who = Auth!Identity("bearer", "service@internal")
        BY <3>1, <3>5 DEF Auth!FromToken, Auth!LetIn
      <4>2. env.AUTH_TOKENS = "listed" /\ c.tokens = {Secret}
        BY <2>2, <3>1, <4>1, TokensAre
      <4>. QED
        BY <2>2, <4>1, <4>2 DEF Auth!Identity
    <3>. QED
      BY <3>2, <3>3, <3>4, <3>5 DEF Auth!Authenticate
  <2>4. Auth!OnlyKnownTokensAreTaken
    <3>. SUFFICES ASSUME Auth!LetIn, c.authEnabled, Auth!ByToken(h)
                  PROVE  \/ env.AUTH_TOKENS = "listed" /\ h.authorization = Secret
                         \/ /\ env.AUTH_TOKENS = "unset" /\ c.devMode
                            /\ h.authorization = DevToken
      BY <2>2 DEF Auth!OnlyKnownTokensAreTaken
    <3>1. /\ h.iapEmail = None /\ h.iapJWT = FALSE /\ h.forwardedEmail = None
          /\ h.forwardedUser = None /\ Auth!Bearer(h)
      BY DEF Auth!ByToken, Auth!NoHeaders
    <3>2. Auth!DevIdentity(c, h) = h
      BY <3>1 DEF Auth!DevIdentity, Auth!Bearer
    <3>3. last.who = Auth!FromToken(c, h)
      BY <2>2, <3>1, <3>2 DEF Auth!Intercepted, Auth!Authenticate
    <3>4. h.authorization \in c.tokens
      BY <3>1, <3>3 DEF Auth!FromToken, Auth!LetIn
    <3>5. c.tokens = Auth!Tokens(env.AUTH_TOKENS, c.devMode)
      BY DEF Auth!Load
    <3>. QED
      BY <3>4, <3>5 DEF Auth!Tokens
  <2>5. Auth!DeveloperIsKnown
    BY <2>2, AuthAssumption, DeveloperIsNamed DEF Auth!DeveloperIsKnown, Auth!Identity
  <2>. QED
    BY <2>3, <2>4, <2>5 DEF IdentitiesAreEarned, Auth!IdentitiesAreEarned
<1>2. ~Auth!Answered => IdentitiesAreEarned
  BY DEF IdentitiesAreEarned, Auth!IdentitiesAreEarned, Auth!ProductionNeedsEvidence,
         Auth!OnlyKnownTokensAreTaken, Auth!DeveloperIsKnown, Auth!LetIn
<1>3. AuthInv => IdentitiesAreEarned
  BY <1>1, <1>2
<1>. QED
  BY <1>3, AlwaysAuthInv, PTL

(***************************************************************************)
(* The service and the pages.                                              *)
(***************************************************************************)
\* Each program is what the files it saw make it.
ServiceIsAsSeen ==
  service # Down =>
    /\ service.tls = (Access!Files \subseteq service.saw)
    /\ service.devMode => service.origins = Access!Urls(Access!Pages)

WebIsAsSeen ==
  web # Down =>
    /\ web.https \in BOOLEAN
    /\ web.api \in Access!Urls(Access!Service) \cup {Unset}
    /\ web.byDefault => web.target = Access!Url(Access!Files \subseteq web.saw, Access!Service)

\* An open page came from where the pages are served, and calls the service.
PageIsServed ==
  page # NoPage =>
    /\ page.origin \in Access!Urls(Access!Pages)
    /\ page.api \in Access!Urls(Access!Service) \cup {Unset}

WebInv == ServiceIsAsSeen /\ WebIsAsSeen /\ PageIsServed

LEMMA StepWeb ==
  ASSUME WebInv, [Access!Next]_(Access!vars)
  PROVE  WebInv'
<1>. USE DEF WebInv, Access!vars
<1>1. ServiceIsAsSeen'
  <2>1. ASSUME NEW devMode \in BOOLEAN, Access!StartServer(devMode)
        PROVE  ServiceIsAsSeen'
    <3>1. /\ service'.tls = (Access!Files \subseteq files) /\ service'.saw = files
          /\ service'.devMode = devMode
          /\ service'.origins = (IF devMode THEN Access!Urls(Access!Pages) ELSE {Access!Url(TRUE, Access!Pages)})
      BY <2>1 DEF Access!StartServer, Access!HasTLS, Access!DefaultOrigins
    <3>. QED
      BY <3>1 DEF ServiceIsAsSeen
  <2>2. CASE service' \in {service, Down}
    BY <2>2 DEF ServiceIsAsSeen
  <2>. QED
    BY <2>1, <2>2 DEF Access!Next, Access!WriteOrRemove, Access!StopServer, Access!StartWeb, Access!StopWeb, Access!OpenPage
<1>2. WebIsAsSeen'
  <2>1. ASSUME NEW override \in Access!Urls(Access!Service) \cup {Unset},
               NEW api \in Access!Urls(Access!Service) \cup {Unset},
               Access!StartWeb(override, api)
        PROVE  WebIsAsSeen'
    <3>1. /\ web'.https = (Access!Files \subseteq files) /\ web'.saw = files
          /\ web'.api = api /\ web'.byDefault = (override = Unset)
          /\ web'.target = Access!BackendTarget(override)
      BY <2>1 DEF Access!StartWeb, Access!HasCerts
    <3>2. override = Unset =>
            Access!BackendTarget(override) = Access!Url(Access!Files \subseteq files, Access!Service)
      BY DEF Access!BackendTarget, Access!HasCerts
    <3>. QED
      BY <3>1, <3>2 DEF WebIsAsSeen
  <2>2. CASE web' \in {web, Down}
    BY <2>2 DEF WebIsAsSeen
  <2>. QED
    BY <2>1, <2>2 DEF Access!Next, Access!WriteOrRemove, Access!StartServer, Access!StopServer, Access!StopWeb, Access!OpenPage
<1>3. PageIsServed'
  <2>1. CASE Access!OpenPage
    <3>1. page'.origin = Access!Url(web.https, Access!Pages) /\ page'.api = web.api /\ web # Down
      BY <2>1 DEF Access!OpenPage
    <3>2. web.https \in BOOLEAN /\ web.api \in Access!Urls(Access!Service) \cup {Unset}
      BY <3>1 DEF WebIsAsSeen
    <3>3. Access!Url(web.https, Access!Pages) \in Access!Urls(Access!Pages)
      BY <3>2 DEF Access!Urls
    <3>. QED
      BY <3>1, <3>2, <3>3 DEF PageIsServed
  <2>2. CASE page' = page
    BY <2>2 DEF PageIsServed
  <2>. QED
    BY <2>1, <2>2 DEF Access!Next, Access!WriteOrRemove, Access!StartServer, Access!StopServer, Access!StartWeb, Access!StopWeb
<1>. QED
  BY <1>1, <1>2, <1>3

\* However often certificates come and go and either program is restarted: if
\* both saw the same files, the pages reach the service through Vite's proxy.
LEMMA SameFilesReach == WebInv => Access!PagesReachService
<1>. SUFFICES ASSUME WebInv, Access!FromWeb, service # Down, web.byDefault, page.api = Unset,
                     service.saw = web.saw
              PROVE  Access!Answered
  BY DEF Access!PagesReachService
<1>1. page # NoPage /\ web # Down /\ page.origin.https = web.https
  BY DEF Access!FromWeb
<1>2. web.target.https = (Access!Files \subseteq web.saw)
  BY <1>1 DEF WebInv, WebIsAsSeen, Access!Url
<1>3. service.tls = web.target.https
  BY <1>2 DEF WebInv, ServiceIsAsSeen
<1>4. Access!ApiBaseUrl = page.origin
  BY DEF Access!ApiBaseUrl
<1>. QED
  BY <1>1, <1>3, <1>4 DEF Access!Answered, Access!Proxied, Access!Listens

\* In dev mode the default origins are those of the pages, with TLS or not.
LEMMA OriginsAreAllowed == WebInv => Access!DevModeAllowsPages
<1>. SUFFICES ASSUME WebInv, page # NoPage, service # Down, service.devMode
              PROVE  /\ page.api # Unset /\ Access!Listens(page.api) => Access!Answered
                     /\ \E url \in Access!DocsServers : Access!Direct(url)
  BY DEF Access!DevModeAllowsPages
<1>1. page.origin \in service.origins
  BY DEF WebInv, PageIsServed, ServiceIsAsSeen
<1>2. ASSUME page.api # Unset, Access!Listens(page.api) PROVE Access!Answered
  <2>1. page.api.port = "8080" /\ page.origin.port = "4321"
    BY <1>2 DEF WebInv, PageIsServed, Access!Urls, Access!Url, Access!Service, Access!Pages
  <2>2. page.api # page.origin
    BY <2>1
  <2>. QED
    BY <1>1, <1>2, <2>2 DEF Access!Answered, Access!ApiBaseUrl, Access!Direct
<1>3. \E url \in Access!DocsServers : Access!Direct(url)
  <2> DEFINE url == Access!Url(service.tls, Access!Service)
  <2>1. service.tls \in BOOLEAN
    BY DEF WebInv, ServiceIsAsSeen
  <2>2. url \in Access!DocsServers /\ url.https = service.tls
    BY <2>1 DEF Access!DocsServers, Access!Urls, Access!Url
  <2>. HIDE DEF url
  <2>3. Access!Direct(url)
    BY <1>1, <2>2 DEF Access!Direct, Access!Listens
  <2>. QED
    BY <2>2, <2>3
<1>. QED
  BY <1>2, <1>3

\* At first nothing runs and no page is open.
LEMMA InitWeb == Access!Init => WebInv
BY DEF Access!Init, WebInv, ServiceIsAsSeen, WebIsAsSeen, PageIsServed

\* main.go and vite.config.ts decide alike about TLS, and the origins that
\* config.Load allows in dev mode are those the pages come from.
THEOREM PagesReach == Access!Spec => []PagesReachService
<1>1. Access!Init => WebInv
  BY InitWeb
<1>2. WebInv /\ [Access!Next]_(Access!vars) => WebInv'
  BY StepWeb
<1>3. WebInv => PagesReachService
  BY SameFilesReach, OriginsAreAllowed DEF PagesReachService
<1>. QED
  BY <1>1, <1>2, <1>3, PTL DEF Access!Spec

(***************************************************************************)
(* The three parts together.                                               *)
(***************************************************************************)
\* What is remembered of a request has its type.
LEMMA AuthIsTyped == AuthInv => Auth!TypeOK
<1>. SUFFICES ASSUME AuthInv PROVE Auth!TypeOK
  OBVIOUS
<1>1. env \in Auth!Environments /\ cfg = Auth!Load(env)
  BY DEF AuthInv
<1>2. cfg \in [devMode : BOOLEAN, authEnabled : BOOLEAN, tokens : SUBSET {DevToken, Secret},
               trustProxyHeaders : BOOLEAN, devEmail : {LocalTest, Own}]
  <2>1. cfg = [devMode |-> cfg.devMode, authEnabled |-> cfg.authEnabled, tokens |-> cfg.tokens,
               trustProxyHeaders |-> cfg.trustProxyHeaders, devEmail |-> cfg.devEmail]
    BY <1>1 DEF Auth!Load
  <2>2. /\ cfg.devMode \in BOOLEAN /\ cfg.authEnabled \in BOOLEAN
        /\ cfg.trustProxyHeaders \in BOOLEAN /\ cfg.devEmail \in {LocalTest, Own}
    BY <1>1, LoadedIs
  <2>3. cfg.tokens \in SUBSET {DevToken, Secret}
    BY <1>1, TokensAre
  <2>. QED
    BY <2>1, <2>2, <2>3
<1>3. ASSUME Auth!Answered
      PROVE  last \in [headers : Auth!Headers,
                       seen : [iapEmail : {None, Ada, LocalTest, Own},
                               iapJWT : BOOLEAN,
                               forwardedEmail : {None, Ben, LocalTest, Own},
                               forwardedUser : {None, Cy, "dev-user-001"},
                               authorization : {None, "Basic", DevToken, Secret, Wrong}],
                       who : [provider : Auth!Providers, email : Auth!Emails]]
  <2>1. PICK h \in Auth!Headers :
          last = [headers |-> h, seen |-> Auth!DevIdentity(cfg, h),
                  who |-> Auth!Intercepted(cfg, Auth!DevIdentity(cfg, h))]
    BY <1>3 DEF AuthInv
  <2> DEFINE seenBy == Auth!DevIdentity(cfg, h)
  <2>2. seenBy \in [iapEmail : {None, Ada, LocalTest, Own},
                    iapJWT : BOOLEAN,
                    forwardedEmail : {None, Ben, LocalTest, Own},
                    forwardedUser : {None, Cy, "dev-user-001"},
                    authorization : {None, "Basic", DevToken, Secret, Wrong}]
    BY <1>2 DEF Auth!DevIdentity, Auth!Headers
  <2>. HIDE DEF seenBy
  <2>3. Auth!Intercepted(cfg, seenBy) \in [provider : Auth!Providers, email : Auth!Emails]
    BY <2>2 DEF Auth!Intercepted, Auth!Authenticate, Auth!FromToken, Auth!Identity,
                Auth!Refused, Auth!Providers, Auth!Emails
  <2>. QED
    BY <2>1, <2>2, <2>3 DEF seenBy
<1>. QED
  BY <1>1, <1>2, <1>3 DEF Auth!TypeOK, AuthInv, Auth!Answered

LEMMA StepAccessTypes ==
  ASSUME Access!TypeOK, [Access!Next]_(Access!vars)
  PROVE  Access!TypeOK'
<1>. USE DEF Access!TypeOK
<1>1. CASE Access!WriteOrRemove
  BY <1>1 DEF Access!WriteOrRemove
<1>2. ASSUME NEW devMode \in BOOLEAN, Access!StartServer(devMode)
      PROVE  Access!TypeOK'
  <2>1. {Access!Url(TRUE, Access!Pages)} \subseteq Access!Urls(Access!Pages)
    BY DEF Access!Urls
  <2>. QED
    BY <1>2, <2>1 DEF Access!StartServer, Access!HasTLS, Access!DefaultOrigins
<1>3. CASE Access!StopServer
  BY <1>3 DEF Access!StopServer
<1>4. ASSUME NEW override \in Access!Urls(Access!Service) \cup {Unset},
             NEW api \in Access!Urls(Access!Service) \cup {Unset},
             Access!StartWeb(override, api)
      PROVE  Access!TypeOK'
  <2>1. Access!BackendTarget(override) \in Access!Urls(Access!Service)
    BY DEF Access!BackendTarget, Access!HasCerts, Access!Urls
  <2>. QED
    BY <1>4, <2>1 DEF Access!StartWeb, Access!HasCerts
<1>5. CASE Access!StopWeb
  BY <1>5 DEF Access!StopWeb
<1>6. CASE Access!OpenPage
  BY <1>6 DEF Access!OpenPage, Access!Urls
<1>7. CASE UNCHANGED Access!vars
  BY <1>7 DEF Access!vars
<1>. QED
  BY <1>1, <1>2, <1>3, <1>4, <1>5, <1>6, <1>7 DEF Access!Next

\* What is inductive in each part holds in all of them while one is looked at:
\* the step of one part is a stuttering step of the others.
LEMMA PartsHold == StudySpec => [](IInv /\ AuthInv /\ Access!TypeOK /\ WebInv)
<1> DEFINE Inv == IInv /\ AuthInv /\ Access!TypeOK /\ WebInv
<1>1. StudyInit => Inv
  <2>1. Access!Init => Access!TypeOK
    BY DEF Access!Init, Access!TypeOK
  <2>. QED
    BY <2>1, InitInv, InitAuth, InitWeb DEF StudyInit
<1>2. Inv /\ [StudyNext]_<<study, vars, authVars, accessVars>> => Inv'
  <2>. SUFFICES ASSUME Inv, [StudyNext]_<<study, vars, authVars, accessVars>> PROVE Inv'
    OBVIOUS
  <2>1. [Next]_vars /\ [Auth!Next]_(Auth!vars) /\ [Access!Next]_(Access!vars)
    BY DEF StudyNext, authVars, accessVars, Auth!vars, Access!vars
  <2>. QED
    BY <2>1, StepInv, StepAuth, StepAccessTypes, StepWeb
<1>. QED
  BY <1>1, <1>2, PTL DEF StudySpec

\* Whichever of its parts is looked at, the variables of all keep their types.
THEOREM PartsAreTyped == StudySpec => []ServerTypeOK
<1>1. IInv /\ AuthInv /\ Access!TypeOK => ServerTypeOK
  BY AuthIsTyped DEF IInv, ServerTypeOK
<1>. QED
  BY <1>1, PartsHold, PTL

\* And every safety property of the parts holds in the studies: clean stops
\* (main.go:56-161), a guard that refuses only the unusable (main.go:60),
\* identities that are earned (auth.go), pages that reach the service.
THEOREM ServerStudies ==
  StudySpec => [](OrderlyLife /\ RefusesOnlyTheUnusable /\ IdentitiesAreEarned /\ PagesReachService)
<1>1. IInv => OrderlyLife
  BY InvImplies
<1>2. StudySpec => Auth!Spec
  <2>1. [StudyNext]_<<study, vars, authVars, accessVars>> => [Auth!Next]_(Auth!vars)
    BY DEF StudyNext, authVars, Auth!vars
  <2>2. StudyInit => Auth!Init
    BY DEF StudyInit
  <2>. QED
    BY <2>1, <2>2, PTL DEF StudySpec, Auth!Spec
<1>3. WebInv => PagesReachService
  BY SameFilesReach, OriginsAreAllowed DEF PagesReachService
<1>. QED
  BY <1>1, <1>2, <1>3, PartsHold, StartsIfOfUse, NamesAreEarned, PTL
=============================================================================
