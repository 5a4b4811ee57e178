--------------------------- MODULE Authentication ---------------------------
(***************************************************************************)
(* Who a request is taken to come from: the environment as config.Load     *)
(* reads it, the check main() makes before it starts (main.go:60), and the *)
(* way of a request through DevIdentityMiddleware and the authentication   *)
(* interceptor to the handlers that record who wrote a pet.                *)
(*                                                                         *)
(* newServerHandler passes no validator of tokens and no procedure that    *)
(* skips authentication, so neither is here; roles are not read by         *)
(* anything and are left out.                                              *)
(***************************************************************************)
CONSTANTS
  None,         \* no header, or an empty one
  Ada, Ben,     \* e-mail addresses a proxy in front of the server reports
  Cy,           \* a user name it reports
  LocalTest,    \* DefaultDevEmail, developer@local.test
  Own,          \* another address in DEV_EMAIL
  DevToken,     \* dev-secret-token
  Secret,       \* the token in AUTH_TOKENS
  Wrong         \* another token

\* A proxy reports names, a token is a text of its own, and no other is either
\* of the two the server knows.
NamesAssumption ==
  /\ None \notin {Ada, Ben, Cy, LocalTest, Own, DevToken, Secret, Wrong}
  /\ None \notin {"Basic", "dev-user-001"}
  /\ "Basic" \notin {DevToken, Secret, Wrong}
  /\ Wrong \notin {DevToken, Secret}

VARIABLES
  env,     \* the environment variables
  cfg,     \* the configuration they give
  server,  \* "down", "up" or "refused": main() exited with an error
  last     \* a request: its headers as they arrived and as the handlers
           \* see them, and who it is from

vars == <<env, cfg, server, last>>

Flags == {"unset", "true", "false", "unreadable"}

Environments ==
  [APP_ENV : {"development", "production"}, DEV_MODE : Flags,
   AUTH_ENABLED : Flags, TRUST_PROXY_HEADERS : Flags,
   AUTH_TOKENS : {"unset", "blank", "listed"},
   DEV_EMAIL : {None, Own}]

\* The header Authorization is absent, "Bearer" and a token, or something else.
Headers ==
  [iapEmail : {None, Ada}, iapJWT : BOOLEAN,
   forwardedEmail : {None, Ben}, forwardedUser : {None, Cy},
   authorization : {None, "Basic", DevToken, Secret, Wrong}]

Refused == [provider |-> "none", email |-> None]

Identity(provider, email) == [provider |-> provider, email |-> email]

Providers == {"none", "disabled", "iap", "oauth2-proxy", "bearer", "dev"}
Emails == {None, "anonymous", Ada, Ben, LocalTest, Own, "service@internal"}

(***************************************************************************)
(* config.Load                                                             *)
(***************************************************************************)
\* ParseBool: a value it cannot read leaves the default in place.
Flag(value, default) ==
  CASE value = "true" -> TRUE
    [] value = "false" -> FALSE
    [] OTHER -> default

\* The token of development stands in for an unset AUTH_TOKENS only, not for
\* one that lists nothing but blanks.
Tokens(value, devMode) ==
  CASE value = "listed" -> {Secret}
    [] value = "unset" /\ devMode -> {DevToken}
    [] OTHER -> {}

Load(e) ==
  LET devMode == Flag(e.DEV_MODE, e.APP_ENV # "production")
  IN  [devMode |-> devMode,
       authEnabled |-> Flag(e.AUTH_ENABLED, TRUE),
       tokens |-> Tokens(e.AUTH_TOKENS, devMode),
       trustProxyHeaders |-> Flag(e.TRUST_PROXY_HEADERS, FALSE),
       devEmail |-> IF e.DEV_EMAIL = None THEN LocalTest ELSE e.DEV_EMAIL]

\* A bug for the checks to find: only AUTH_TOKENS counts.
Usable_TokensOnly(c) == ~c.authEnabled \/ c.devMode \/ c.tokens # {}

\* main() exits unless somebody can be let in.
Usable(c) ==
  ~c.authEnabled \/ c.devMode \/ c.trustProxyHeaders \/ c.tokens # {}

(***************************************************************************)
(* The way of a request.                                                   *)
(***************************************************************************)
\* DevIdentityMiddleware, which newServerHandler puts in front in dev mode.
DevIdentity(c, h) ==
  IF c.devMode /\ h.iapEmail = None /\ h.forwardedEmail = None /\ h.authorization = None
  THEN [h EXCEPT !.iapEmail = c.devEmail, !.forwardedEmail = c.devEmail,
                 !.forwardedUser = "dev-user-001"]
  ELSE h

Bearer(h) == h.authorization \notin {None, "Basic"}

\* A bug for the checks to find: a token that matches nothing is passed over,
\* as a missing one is.
FromToken_PassedOver(c, h) ==
  IF Bearer(h) /\ h.authorization \in c.tokens
  THEN Identity("bearer", "service@internal")
  ELSE IF c.devMode THEN Identity("dev", LocalTest) ELSE Refused

FromToken(c, h) ==
  IF Bearer(h)
  THEN IF h.authorization \in c.tokens
       THEN Identity("bearer", "service@internal") ELSE Refused
  ELSE IF c.devMode THEN Identity("dev", LocalTest) ELSE Refused

\* TrustProxyHeaders as newServerHandler sets it.
Trusts(c) == c.trustProxyHeaders \/ c.devMode

\* authenticate: the headers of Google's proxy, those of an OAuth2 proxy, the
\* token, the developer; the first that is there decides.
Authenticate(c, h) ==
  IF Trusts(c) /\ (h.iapEmail # None \/ h.iapJWT)
    THEN Identity("iap", h.iapEmail)
  ELSE IF Trusts(c) /\ (h.forwardedEmail # None \/ h.forwardedUser # None)
    THEN Identity("oauth2-proxy", h.forwardedEmail)
  ELSE FromToken(c, h)

\* NewInterceptor
Intercepted(c, h) ==
  IF ~c.authEnabled THEN Identity("disabled", "anonymous") ELSE Authenticate(c, h)

TypeOK ==
  /\ env \in Environments
  /\ cfg \in [devMode : BOOLEAN, authEnabled : BOOLEAN, tokens : SUBSET {DevToken, Secret},
              trustProxyHeaders : BOOLEAN, devEmail : {LocalTest, Own}]
  /\ server \in {"down", "up", "refused"}
  /\ last = None \/ last \in [headers : Headers,
                              seen : [iapEmail : {None, Ada, LocalTest, Own},
                                      iapJWT : BOOLEAN,
                                      forwardedEmail : {None, Ben, LocalTest, Own},
                                      forwardedUser : {None, Cy, "dev-user-001"},
                                      authorization : {None, "Basic", DevToken, Secret, Wrong}],
                              who : [provider : Providers, email : Emails]]

Init ==
  /\ env \in Environments
  /\ cfg = Load(env)
  /\ server = "down"
  /\ last = None

\* main() loads the configuration and goes on only if it is usable.
Start ==
  /\ server = "down"
  /\ server' = IF Usable(cfg) THEN "up" ELSE "refused"
  /\ UNCHANGED <<env, cfg, last>>

\* Nothing is remembered from one request to the next, so one is enough.
Request(h) ==
  /\ server = "up"
  /\ last = None
  /\ LET seen == DevIdentity(cfg, h)
     IN  last' = [headers |-> h, seen |-> seen, who |-> Intercepted(cfg, seen)]
  /\ UNCHANGED <<env, cfg, server>>

Next == Start \/ \E h \in Headers : Request(h)

Spec == Init /\ [][Next]_vars

(***************************************************************************)
(* Properties of the whole way, from the environment to the handler.       *)
(***************************************************************************)
Answered == last # None

LetIn == Answered /\ last.who # Refused

NoHeaders == [iapEmail |-> None, iapJWT |-> FALSE, forwardedEmail |-> None,
              forwardedUser |-> None, authorization |-> None]

\* main() refuses to start exactly when no request could ever be let in: the
\* check of main.go:60 and authenticate are written apart and agree.
RefusesOnlyTheUnusable ==
  server # "down" =>
    (server = "refused" <=>
       \A h \in Headers : Intercepted(cfg, DevIdentity(cfg, h)) = Refused)

\* In production nobody is let in but by what the environment names: a listed
\* token, or a proxy that TRUST_PROXY_HEADERS says to trust, under the name
\* the proxy gave; nothing of dev mode shows (config.go:54-63, main.go:175).
ProductionNeedsEvidence ==
  LetIn /\ env.APP_ENV = "production" /\ env.DEV_MODE \in {"unset", "false", "unreadable"}
        /\ env.AUTH_ENABLED # "false" =>
    \/ /\ last.who.provider = "bearer"
       /\ env.AUTH_TOKENS = "listed"
       /\ last.headers.authorization = Secret
    \/ /\ env.TRUST_PROXY_HEADERS = "true"
       /\ \/ last.who = Identity("iap", last.headers.iapEmail)
          \/ last.who = Identity("oauth2-proxy", last.headers.forwardedEmail)

\* A token decides where no proxy names anyone, in dev mode too: one is taken if
\* AUTH_TOKENS lists it, the development token if AUTH_TOKENS is not set at all
\* (config.go:54-58), and whoever carries another never becomes the developer
\* (auth.go:166-178).
ByToken(h) == Bearer(h) /\ h = [NoHeaders EXCEPT !.authorization = h.authorization]
OnlyKnownTokensAreTaken ==
  LetIn /\ cfg.authEnabled /\ ByToken(last.headers) =>
    \/ env.AUTH_TOKENS = "listed" /\ last.headers.authorization = Secret
    \/ env.AUTH_TOKENS = "unset" /\ cfg.devMode /\ last.headers.authorization = DevToken

\* In dev mode a request without credentials is the developer's, under the
\* address DEV_EMAIL gives (README.md:187).
DeveloperIsKnown ==
  Answered /\ cfg.devMode /\ cfg.authEnabled /\ last.headers = NoHeaders
    => last.who.email = cfg.devEmail

\* Everyone let in is who the environment and the headers say.
IdentitiesAreEarned ==
  ProductionNeedsEvidence /\ OnlyKnownTokensAreTaken /\ DeveloperIsKnown
=============================================================================
