---------------------------- MODULE RequestsProofs ----------------------------
(***************************************************************************)
(* Theorems about Server and Requests, for every configuration an operator *)
(* can give, all defaults and limits, and every behaviour of a             *)
(* coordinator.                                                            *)
(***************************************************************************)
EXTENDS Requests, TLAPS

USE SettingsAssumption, DefaultsAssumption

(***************************************************************************)
(* The server.                                                             *)
(***************************************************************************)
\* What completion makes of a name (config.go:76-79).
Named(user) == IF user = NoUser THEN DefaultUser ELSE user

\* The configuration in force is the operator's own, completed (server.go:55).
Completed == cfg = IF phase = "loaded" THEN given ELSE WithDefaults(given)

\* Who has passed validation, in whatever phase.
Accepted == phase \in {"validated", "built", "serving"}

\* The inductive invariant: what a phase may rely on because of the phases before it,
\* and that an exit code is the end (server.go:22-60).
ServerInv ==
    /\ TypeOK
    /\ Completed
    /\ phase # "loaded" => cfg.window # 0
    /\ Accepted => Valid(cfg) /\ auth = pickAuth(cfg)
    /\ exitCode # -1 => phase = "exited"
    /\ SuccessIsEarned

LEMMA GivenIsAConfig == Given \subseteq Config
<1> SUFFICES ASSUME NEW c \in Given PROVE c \in Config
    OBVIOUS
<1>1. /\ c = [url |-> c.url, user |-> c.user, password |-> c.password, token |-> c.token,
               timeout |-> c.timeout, window |-> c.window, ttl |-> c.ttl,
               cacheSize |-> c.cacheSize, logFile |-> c.logFile]
      /\ c.url \in {"blank", "http", "otherScheme"} /\ c.logFile \in {"none", "present", "absent"}
      /\ c.user \in Users \union {NoUser} /\ c.password \in BOOLEAN /\ c.token \in BOOLEAN
      /\ c.timeout \in Settings /\ c.window \in Settings
      /\ c.ttl \in Settings /\ c.cacheSize \in Settings
    BY DEF Given
<1>2. c.user \in Names
    BY <1>1 DEF Names
<1>3. c.timeout \in Int /\ c.window \in Int /\ c.ttl \in Int /\ c.cacheSize \in Int
    BY <1>1
<1> QED
    BY <1>1, <1>2, <1>3, Zenon DEF Config

\* Completion fills in numbers and a name.
LEMMA Completion ==
    ASSUME NEW c \in Config
    PROVE  /\ WithDefaults(c) \in Config
           /\ WithDefaults(c).user = Named(c.user)
           /\ WithDefaults(c).password = c.password
           /\ WithDefaults(c).token = c.token
           /\ WithDefaults(c).window # 0
<1>1. \A value, default \in Int : OrDefault(value, default) \in Int
    BY DEF OrDefault
<1>2. OrDefault(c.window, DefaultWindow) # 0
    BY DEF OrDefault
<1>3. /\ OrDefault(c.timeout, DefaultTimeout) \in Int /\ OrDefault(c.window, DefaultWindow) \in Int
      /\ OrDefault(c.ttl, DefaultTTL) \in Int /\ OrDefault(c.cacheSize, DefaultCacheSize) \in Int
    <2>1. /\ c.timeout \in Int /\ c.window \in Int /\ c.ttl \in Int /\ c.cacheSize \in Int
          /\ DefaultTimeout \in Int /\ DefaultWindow \in Int
          /\ DefaultTTL \in Int /\ DefaultCacheSize \in Int
        BY DEF Config
    <2> QED
        BY <1>1, <2>1, Zenon
<1>4. WithDefaults(c) \in Config
    <2>1. /\ c \in [url : {"blank", "http", "otherScheme"},
                    user : Names, password : BOOLEAN, token : BOOLEAN,
                    timeout : Int, window : Int, ttl : Int, cacheSize : Int,
                    logFile : {"none", "present", "absent"}]
          /\ WithDefaults(c) = [c EXCEPT !.user = Named(c.user),
                                         !.timeout = OrDefault(c.timeout, DefaultTimeout),
                                         !.window = OrDefault(c.window, DefaultWindow),
                                         !.ttl = OrDefault(c.ttl, DefaultTTL),
                                         !.cacheSize = OrDefault(c.cacheSize, DefaultCacheSize)]
        BY DEF WithDefaults, Config, Named
    <2>2. Named(c.user) \in Names
        BY DEF Config, Named, Names
    <2> QED
        BY <1>3, <2>1, <2>2 DEF Config
<1>5. /\ WithDefaults(c).user = Named(c.user) /\ WithDefaults(c).password = c.password
      /\ WithDefaults(c).token = c.token
      /\ WithDefaults(c).window = OrDefault(c.window, DefaultWindow)
    BY DEF WithDefaults, Config, Named
<1> QED
    BY <1>2, <1>4, <1>5

LEMMA AuthType ==
    ASSUME NEW c \in Config
    PROVE  pickAuth(c) \in [kind : {"none", "basic", "bearer"}, user : Names, secret : BOOLEAN]
BY DEF pickAuth, BearerAuth, BasicAuth, NoAuth, Config

\* A cached fetcher has room and a lifetime, whatever it is asked for.
LEMMA CachedFetcherType ==
    ASSUME NEW ttl \in Int, NEW size \in Int
    PROVE  NewCachedFetcher(ttl, size) \in [kind : {"cached"}, ttl : Nat \ {0}, cap : Nat \ {0}]
BY DEF NewCachedFetcher

LEMMA ServerInit == Init => ServerInv
<1> SUFFICES ASSUME Init PROVE ServerInv
    OBVIOUS
<1>1. TypeOK
    BY GivenIsAConfig DEF Init, TypeOK, NoAuth, Names
<1> QED
    BY <1>1 DEF Init, ServerInv, Completed, Accepted, SuccessIsEarned

LEMMA ServerNext == ServerInv /\ [Next]_vars => ServerInv'
<1> SUFFICES ASSUME ServerInv, [Next]_vars PROVE ServerInv'
    OBVIOUS
<1>a. TypeOK /\ Completed /\ (Accepted => Valid(cfg) /\ auth = pickAuth(cfg))
    BY DEF ServerInv
<1>b. cfg \in Config
    BY <1>a DEF TypeOK
<1>1. CASE CompleteConfig
    <2>1. cfg' \in Config /\ Completed' /\ cfg'.window # 0
        BY <1>1, <1>a, <1>b, Completion DEF CompleteConfig, Completed
    <2>2. TypeOK'
        BY <1>1, <1>a, <2>1 DEF CompleteConfig, TypeOK
    <2> QED
        BY <1>1, <2>1, <2>2 DEF CompleteConfig, ServerInv, Accepted, SuccessIsEarned
<1>2. CASE RejectConfig \/ RejectURL
    BY <1>2 DEF RejectConfig, RejectURL, Exit, ServerInv, TypeOK, Completed, Accepted,
       SuccessIsEarned
<1>3. CASE AcceptConfig
    <2>1. TypeOK'
        BY <1>3, <1>a, <1>b, AuthType DEF AcceptConfig, TypeOK
    <2> QED
        BY <1>3, <2>1 DEF AcceptConfig, ServerInv, Completed, Accepted, SuccessIsEarned,
           Valid, pickAuth
<1>4. CASE ConnectFetcher
    <2>1. NewCachedFetcher(cfg.ttl, cfg.cacheSize)
             \in [kind : {"cached"}, ttl : Nat \ {0}, cap : Nat \ {0}]
        BY <1>b, CachedFetcherType DEF Config
    <2>2. TypeOK'
        BY <1>4, <1>a, <2>1 DEF ConnectFetcher, TypeOK
    <2> QED
        BY <1>4, <2>2 DEF ConnectFetcher, ServerInv, Completed, Accepted, SuccessIsEarned,
           Valid, pickAuth
<1>5. CASE StartServing
    <2>1. TypeOK'
        BY <1>5, <1>a DEF StartServing, TypeOK
    <2> QED
        BY <1>5, <2>1 DEF StartServing, ServerInv, Completed, Accepted, SuccessIsEarned,
           Valid, pickAuth
<1>6. CASE Signal
    <2>1. TypeOK'
        BY <1>6, <1>a DEF Signal, TypeOK
    <2> QED
        BY <1>6, <2>1 DEF Signal, ServerInv, Completed, Accepted, SuccessIsEarned,
           Valid, pickAuth
<1>7. ASSUME NEW result \in {"nil", "error"}, RunReturns(result) PROVE ServerInv'
    <2>1. TypeOK'
        BY <1>7, <1>a DEF RunReturns, TypeOK
    <2> QED
        BY <1>7, <2>1 DEF RunReturns, ServerInv, Completed, Accepted, SuccessIsEarned,
           Valid, pickAuth
<1>8. CASE SelectDone \/ SelectResult
    <2>1. TypeOK' /\ SuccessIsEarned'
        BY <1>8, <1>a DEF SelectDone, SelectResult, Exit, TypeOK, SuccessIsEarned
    <2> QED
        BY <1>8, <2>1 DEF SelectDone, SelectResult, Exit, ServerInv, Completed, Accepted
<1>9. CASE UNCHANGED vars
    BY <1>9 DEF vars, ServerInv, TypeOK, Completed, Accepted, SuccessIsEarned, Valid, pickAuth
<1> QED
    BY <1>1, <1>2, <1>3, <1>4, <1>5, <1>6, <1>7, <1>8, <1>9 DEF Next, Startup

LEMMA ServerInvariance == Spec => []ServerInv
BY ServerInit, ServerNext, PTL DEF Spec

\* A request under way never changes what the server does (server.go:22-41 knows
\* nothing of requests): what holds of Server holds of it while it serves them.
THEOREM RequestsKeepOut == RequestSpec => Spec
<1>1. RequestInit => Init
    BY DEF RequestInit
<1>2. [RequestNext]_allVars => [Next]_vars
    BY DEF RequestNext, allVars, FetchWithoutID, newRequest, TransportFails,
       CoordinatorResponds, BodyArrives, TimesOut, AnswerTool
<1> QED
    BY <1>1, <1>2, PTL DEF RequestSpec, Spec

\* Whatever the operator gave, a server that serves has a timeout, a window in
\* range, one secret at most, and a cache with room (config.go:42-98, cache.go:25-47).
THEOREM Soundness == RequestSpec => []ServesSoundly
<1>1. ServerInv => ServesSoundly
    <2> SUFFICES ASSUME ServerInv, phase = "serving"
                 PROVE  /\ cfg.timeout > 0
                        /\ 0 < cfg.window /\ cfg.window <= MaxWindow
                        /\ ~(cfg.password /\ cfg.token)
                        /\ fetcher.kind = "cached" => fetcher.ttl > 0 /\ fetcher.cap > 0
        BY DEF ServesSoundly
    <2>1. Valid(cfg) /\ cfg.window # 0 /\ cfg.window \in Int
        BY DEF ServerInv, Accepted, TypeOK, Config
    <2>2. fetcher.kind = "cached" => fetcher.ttl \in Nat \ {0} /\ fetcher.cap \in Nat \ {0}
        BY DEF ServerInv, TypeOK, NoFetcher, RestFetcher
    <2> QED
        BY <2>1, <2>2 DEF Valid
<1> QED
    BY <1>1, ServerInvariance, RequestsKeepOut, PTL

\* No error is swallowed (main.go:24-28).
THEOREM Success == RequestSpec => []SuccessIsEarned
<1>1. ServerInv => SuccessIsEarned
    BY DEF ServerInv
<1> QED
    BY <1>1, ServerInvariance, RequestsKeepOut, PTL

(***************************************************************************)
(* Its requests.                                                           *)
(***************************************************************************)
\* The inductive invariant: headers, once sent, are those of the operator's own
\* settings, which passed validation (server.go:43-57).
RequestInv ==
    /\ ServerInv
    /\ RequestTypeOK
    /\ request.pc \in {"sent", "reading"} =>
          /\ request.headers = Apply(pickAuth(WithDefaults(given)))
          /\ ~(given.password /\ given.token)

LEMMA HeadersType ==
    ASSUME ServerInv
    PROVE  Apply(auth) \in Headers
BY DEF Apply, Headers, ServerInv, TypeOK

\* An ended request has an outcome.
LEMMA OutcomeType ==
    ASSUME NEW status, NEW body
    PROVE  Outcome(status, body) \in Outcomes \ {"none"}
BY DEF Outcome, Outcomes

\* A step of the server leaves the request alone, and the other way round.
LEMMA EndKeepsInv ==
    ASSUME RequestInv, UNCHANGED vars,
           NEW status \in {0} \union Statuses, NEW outcome \in Outcomes \ {"none"},
           End(status, outcome)
    PROVE  RequestInv'
<1>1. ServerInv' /\ TypeOK'
    BY ServerNext DEF RequestInv, ServerInv
<1>2. request' = [request EXCEPT !.pc = "ended", !.status = status, !.outcome = outcome]
    BY DEF End
<1>3. RequestTypeOK'
    <2>1. request \in [pc : {"none", "sent", "reading", "ended"}, headers : Headers,
                        status : {0} \union Statuses, outcome : Outcomes]
        BY DEF RequestInv, RequestTypeOK
    <2>2. request' \in [pc : {"none", "sent", "reading", "ended"}, headers : Headers,
                         status : {0} \union Statuses, outcome : Outcomes]
        BY <1>2, <2>1
    <2>3. request'.pc = "ended" /\ request'.outcome # "none"
        BY <1>2, <2>1
    <2> QED
        BY <1>1, <2>2, <2>3 DEF RequestTypeOK
<1>4. request'.pc = "ended"
    BY <1>2 DEF RequestInv, RequestTypeOK
<1> QED
    BY <1>1, <1>3, <1>4 DEF RequestInv

LEMMA RequestInvInit == RequestInit => RequestInv
<1>1. RequestInit => ServerInv
    BY ServerInit DEF RequestInit
<1>2. NoHeaders \in Headers
    BY DEF NoHeaders, Headers, Names
<1> QED
    BY <1>1, <1>2 DEF RequestInit, RequestInv, RequestTypeOK, ServerInv, NoRequest, Outcomes

LEMMA RequestInvNext == RequestInv /\ [RequestNext]_allVars => RequestInv'
<1> SUFFICES ASSUME RequestInv, [RequestNext]_allVars PROVE RequestInv'
    OBVIOUS
<1>a. ServerInv /\ RequestTypeOK
    BY DEF RequestInv
<1>b. request.status \in {0} \union Statuses
    BY <1>a DEF RequestTypeOK
<1>c. "failed" \in Outcomes \ {"none"} /\ 0 \in {0} \union Statuses
    BY DEF Outcomes
<1>1. CASE Next /\ UNCHANGED request
    <2>1. ServerInv' /\ TypeOK'
        BY <1>1, <1>a, ServerNext DEF ServerInv
    <2>2. given' = given
        BY <1>1 DEF Next, Startup, CompleteConfig, RejectConfig, AcceptConfig, RejectURL,
           ConnectFetcher, StartServing, Signal, RunReturns, SelectDone, SelectResult
    <2> QED
        BY <1>1, <2>1, <2>2 DEF RequestInv, RequestTypeOK, pickAuth, Apply
<1>2. CASE FetchWithoutID \/ TransportFails
    BY <1>2, <1>c, EndKeepsInv DEF FetchWithoutID, TransportFails
<1>3. CASE newRequest
    <2>1. ServerInv' /\ TypeOK'
        BY <1>3, <1>a, ServerNext DEF newRequest, ServerInv
    <2>2. Valid(cfg) /\ auth = pickAuth(cfg) /\ Completed
        BY <1>3, <1>a DEF newRequest, ServerInv, Accepted
    <2>3. auth = pickAuth(WithDefaults(given)) /\ ~(given.password /\ given.token)
        <3>1. cfg = WithDefaults(given)
            BY <1>3, <2>2 DEF newRequest, Completed
        <3>2. given \in Config
            BY <1>a, GivenIsAConfig DEF ServerInv, TypeOK
        <3>3. cfg.password = given.password /\ cfg.token = given.token
            BY <3>1, <3>2, Completion
        <3> QED
            BY <2>2, <3>1, <3>3 DEF Valid
    <2>4. request' = [NoRequest EXCEPT !.pc = "sent", !.headers = Apply(auth)]
        BY <1>3 DEF newRequest
    <2>5. Apply(auth) \in Headers
        BY <1>a, HeadersType
    <2>6. RequestTypeOK'
        <3>1. request' = [pc |-> "sent", headers |-> Apply(auth), status |-> 0, outcome |-> "none"]
            BY <2>4 DEF NoRequest
        <3>2. request'.pc = "sent" /\ request'.outcome = "none" /\ "none" \in Outcomes
            BY <3>1 DEF Outcomes
        <3> QED
            BY <2>1, <2>5, <3>1, <3>2 DEF RequestTypeOK
    <2>7. given' = given
        BY <1>3 DEF newRequest, vars
    <2> QED
        BY <2>1, <2>3, <2>4, <2>6, <2>7 DEF RequestInv, NoRequest, pickAuth, Apply
<1>4. ASSUME NEW status \in Statuses, CoordinatorResponds(status) PROVE RequestInv'
    <2>1. ServerInv' /\ TypeOK' /\ given' = given
        BY <1>4, <1>a, ServerNext DEF CoordinatorResponds, ServerInv, vars
    <2>2. /\ request' = [request EXCEPT !.pc = "reading", !.status = status]
          /\ request.pc = "sent"
        BY <1>4 DEF CoordinatorResponds, Under
    <2>3. RequestTypeOK /\ request.headers = Apply(pickAuth(WithDefaults(given)))
          /\ ~(given.password /\ given.token)
        BY <1>a, <2>2 DEF RequestInv
    <2>4. request'.headers = request.headers
        BY <2>2, <2>3 DEF RequestTypeOK
    <2>5. RequestTypeOK'
        BY <2>1, <2>2, <2>3 DEF RequestTypeOK
    <2>6. Apply(pickAuth(WithDefaults(given)))' = Apply(pickAuth(WithDefaults(given)))
        BY <2>1 DEF Apply, pickAuth, BearerAuth, BasicAuth, NoAuth
    <2> QED
        BY <2>1, <2>3, <2>4, <2>5, <2>6 DEF RequestInv
<1>5. ASSUME NEW body, BodyArrives(body) PROVE RequestInv'
    BY <1>5, <1>b, OutcomeType, EndKeepsInv DEF BodyArrives
<1>6. CASE TimesOut
    <2>1. UNCHANGED vars
        BY <1>6 DEF TimesOut
    <2>2. CASE End(0, "failed")
        BY <2>1, <2>2, <1>c, EndKeepsInv
    <2>3. CASE End(request.status, Outcome(request.status, "unreadable"))
        BY <2>1, <2>3, <1>b, OutcomeType, EndKeepsInv
    <2> QED
        BY <1>6, <2>2, <2>3 DEF TimesOut
<1>7. CASE AnswerTool
    <2>1. ServerInv' /\ TypeOK'
        BY <1>7, <1>a, ServerNext DEF AnswerTool, ServerInv
    <2>2. NoHeaders \in Headers
        BY DEF NoHeaders, Headers, Names
    <2> QED
        BY <1>7, <2>1, <2>2 DEF AnswerTool, RequestInv, RequestTypeOK, NoRequest, Outcomes
<1>8. CASE UNCHANGED allVars
    <2>1. ServerInv' /\ TypeOK' /\ given' = given
        BY <1>8, <1>a, ServerNext DEF allVars, ServerInv, vars
    <2> QED
        BY <1>8, <2>1 DEF allVars, RequestInv, RequestTypeOK, pickAuth, Apply
<1> QED
    BY <1>1, <1>2, <1>3, <1>4, <1>5, <1>6, <1>7, <1>8 DEF RequestNext

LEMMA RequestInvariance == RequestSpec => []RequestInv
BY RequestInvInit, RequestInvNext, PTL DEF RequestSpec

\* Types; a request has an outcome when it has ended, and not before (client.go:98-121).
THEOREM TypeCorrectness == RequestSpec => []RequestTypeOK
<1>1. RequestInv => RequestTypeOK
    BY DEF RequestInv
<1> QED
    BY <1>1, RequestInvariance, PTL

\* Whatever is configured, and whenever the process stops, the wire carries the
\* secret the operator gave, in its scheme, and no other, and a name: the operator's,
\* or the default (server.go:43-56, config.go:77-79).
THEOREM Secrets == RequestSpec => []SecretsAsConfigured
<1>1. RequestInv => SecretsAsConfigured
    <2> SUFFICES ASSUME RequestInv, request.pc \in {"sent", "reading"}
                 PROVE  /\ request.headers.user = Named(given.user)
                        /\ request.headers.authorization = "bearer" <=> given.token
                        /\ request.headers.authorization = "basic" <=> given.password
        BY DEF SecretsAsConfigured, Named
    <2>0. PICK c : c = WithDefaults(given)
        OBVIOUS
    <2>1. request.headers = Apply(pickAuth(c)) /\ ~(given.password /\ given.token)
        BY <2>0 DEF RequestInv
    <2>2. given \in Config
        BY GivenIsAConfig DEF RequestInv, ServerInv, TypeOK
    <2>3. /\ c.user = Named(given.user) /\ c.password = given.password /\ c.token = given.token
          /\ c.user \in Names /\ c.password \in BOOLEAN /\ c.token \in BOOLEAN
        BY <2>0, <2>2, Completion DEF Config
    <2>4. CASE given.token
        BY <2>1, <2>3, <2>4 DEF pickAuth, Apply, BearerAuth
    <2>5. CASE given.password /\ ~given.token
        BY <2>1, <2>3, <2>5 DEF pickAuth, Apply, BasicAuth
    <2>6. CASE ~given.password /\ ~given.token
        BY <2>1, <2>3, <2>6 DEF pickAuth, Apply, NoAuth
    <2> QED
        BY <2>3, <2>4, <2>5, <2>6
<1> QED
    BY <1>1, RequestInvariance, PTL
================================================================================
