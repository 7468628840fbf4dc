-------------------------------- MODULE Server --------------------------------
(***************************************************************************)
(* One life of the server process: the configuration is completed and      *)
(* validated (pkg/config), the client, the fetcher and the inventory are   *)
(* built from it, the MCP server runs on stdio in a goroutine of its own,  *)
(* and a signal or the end of that goroutine stops the process             *)
(* (internal/timcp/server.go, cmd/main.go).                                *)
(*                                                                         *)
(* Durations and sizes keep their sign and their order only: the constants *)
(* are small numbers that stand for the defaults and limits of the code.   *)
(***************************************************************************)
EXTENDS Integers

CONSTANTS
    Users,             \* names an operator gives
    Settings,          \* values an operator gives a duration or a size, 0 among them
    DefaultTimeout,    \* 15s
    DefaultWindow,     \* 16 KiB
    MaxWindow,         \* 64 KiB
    DefaultTTL,        \* 5m
    DefaultCacheSize   \* 256

ASSUME SettingsAssumption == Settings \subseteq Int
ASSUME DefaultsAssumption ==
    /\ DefaultTimeout \in Nat \ {0} /\ DefaultTTL \in Nat \ {0}
    /\ DefaultCacheSize \in Nat \ {0} /\ DefaultWindow \in Nat \ {0}
    /\ MaxWindow \in Nat /\ DefaultWindow <= MaxWindow

VARIABLES
    given,      \* the configuration as the operator gave it
    cfg,        \* the configuration as the server completes it
    phase,      \* how far RunStdio has come
    fetcher,    \* what the tools fetch with
    auth,       \* how requests authenticate
    signalled,  \* SIGINT or SIGTERM arrived: the context is cancelled
    run,        \* the goroutine of server.Run
    errC,       \* the buffered channel it reports on
    exitCode    \* exit status of the process

vars == <<given, cfg, phase, fetcher, auth, signalled, run, errC, exitCode>>

DefaultUser == "insights"
NoUser == ""
Names == Users \union {NoUser, DefaultUser}

Config == [url : {"blank", "http", "otherScheme"},
           user : Names, password : BOOLEAN, token : BOOLEAN,
           timeout : Int, window : Int, ttl : Int, cacheSize : Int,
           logFile : {"none", "present", "absent"}]

Given == [url : {"blank", "http", "otherScheme"},
          user : Users \union {NoUser}, password : BOOLEAN, token : BOOLEAN,
          timeout : Settings, window : Settings, ttl : Settings, cacheSize : Settings,
          logFile : {"none", "present", "absent"}]

NoFetcher == [kind |-> "none"]
RestFetcher == [kind |-> "rest"]
NewCachedFetcher(ttl, size) ==
    [kind |-> "cached",
     ttl |-> IF ttl <= 0 THEN DefaultTTL ELSE ttl,
     cap |-> IF size <= 0 THEN DefaultCacheSize ELSE size]

(***************************************************************************)
(* Config.WithDefaults, Config.Validate, pickAuth.                         *)
(***************************************************************************)
OrDefault(value, default) == IF value = 0 THEN default ELSE value

WithDefaults(c) ==
    [c EXCEPT !.user = IF @ = NoUser THEN DefaultUser ELSE @,
              !.timeout = OrDefault(@, DefaultTimeout),
              !.window = OrDefault(@, DefaultWindow),
              !.ttl = OrDefault(@, DefaultTTL),
              !.cacheSize = OrDefault(@, DefaultCacheSize)]

\* Faulty variant: the timeout is trusted.
ValidExceptTimeout(c) ==
    /\ c.url # "blank"
    /\ ~(c.password /\ c.token)
    /\ 0 <= c.window /\ c.window <= MaxWindow
    /\ c.ttl >= 0
    /\ c.cacheSize > 0
    /\ c.logFile # "absent"

Valid(c) ==
    /\ c.url # "blank"
    /\ ~(c.password /\ c.token)
    /\ 0 <= c.window /\ c.window <= MaxWindow
    /\ c.ttl >= 0
    /\ c.cacheSize > 0
    /\ c.timeout > 0
    /\ c.logFile # "absent"

\* An authenticator knows a user name, and whether it has a secret.
NoAuth(user) == [kind |-> "none", user |-> user, secret |-> FALSE]
BasicAuth(user, password) == [kind |-> "basic", user |-> user, secret |-> password]
BearerAuth(user, token) == [kind |-> "bearer", user |-> user, secret |-> token]

\* Faulty variant: basic authentication for whoever has a name.
pickAuthByUser(c) ==
    IF c.token THEN BearerAuth(c.user, c.token)
    ELSE IF c.user # NoUser \/ c.password THEN BasicAuth(c.user, c.password)
    ELSE NoAuth(c.user)

pickAuth(c) ==
    IF c.token THEN BearerAuth(c.user, c.token)
    ELSE IF c.password THEN BasicAuth(c.user, c.password)
    ELSE NoAuth(c.user)

Init ==
    /\ given \in Given
    /\ cfg = given
    /\ phase = "loaded"
    /\ fetcher = NoFetcher
    /\ auth = NoAuth(NoUser)
    /\ signalled = FALSE
    /\ run = "notStarted"
    /\ errC = "empty"
    /\ exitCode = -1

(***************************************************************************)
(* buildServer, one early return after the other.                          *)
(***************************************************************************)
Exit(code) == phase' = "exited" /\ exitCode' = code

CompleteConfig ==
    /\ phase = "loaded"
    /\ cfg' = WithDefaults(cfg)
    /\ phase' = "completed"
    /\ UNCHANGED <<given, fetcher, auth, signalled, run, errC, exitCode>>

\* Faulty variant: a panic instead of a returned error; Go exits with status 2.
RejectConfigPanicking ==
    /\ phase = "completed"
    /\ ~Valid(cfg)
    /\ Exit(2)
    /\ UNCHANGED <<given, cfg, fetcher, auth, signalled, run, errC>>

RejectConfig ==
    /\ phase = "completed"
    /\ ~Valid(cfg)
    /\ Exit(1)
    /\ UNCHANGED <<given, cfg, fetcher, auth, signalled, run, errC>>

AcceptConfig ==
    /\ phase = "completed"
    /\ Valid(cfg)
    /\ auth' = pickAuth(cfg)
    /\ phase' = "validated"
    /\ UNCHANGED <<given, cfg, fetcher, signalled, run, errC, exitCode>>

\* rest.NewClient refuses any scheme but http and https.
RejectURL ==
    /\ phase = "validated"
    /\ cfg.url = "otherScheme"
    /\ Exit(1)
    /\ UNCHANGED <<given, cfg, fetcher, auth, signalled, run, errC>>

ConnectFetcher ==
    /\ phase = "validated"
    /\ cfg.url # "otherScheme"
    /\ fetcher' = IF cfg.ttl > 0 THEN NewCachedFetcher(cfg.ttl, cfg.cacheSize) ELSE RestFetcher
    /\ phase' = "built"
    /\ UNCHANGED <<given, cfg, auth, signalled, run, errC, exitCode>>

(***************************************************************************)
(* RunStdio: the server goroutine and the select.                          *)
(***************************************************************************)
StartServing ==
    /\ phase = "built"
    /\ run' = "running"
    /\ phase' = "serving"
    /\ UNCHANGED <<given, cfg, fetcher, auth, signalled, errC, exitCode>>

Signal ==
    /\ phase # "exited"
    /\ ~signalled
    /\ signalled' = TRUE
    /\ UNCHANGED <<given, cfg, phase, fetcher, auth, run, errC, exitCode>>

\* server.Run returns: stdin is closed, the transport breaks, or the context is
\* cancelled.  The channel has room for its one result.
RunReturns(result) ==
    /\ phase = "serving"
    /\ run = "running"
    /\ run' = "returned"
    /\ errC' = result
    /\ UNCHANGED <<given, cfg, phase, fetcher, auth, signalled, exitCode>>

SelectDone ==
    /\ phase = "serving"
    /\ signalled
    /\ Exit(0)
    /\ UNCHANGED <<given, cfg, fetcher, auth, signalled, run, errC>>

\* Faulty variants: the result of the goroutine is dropped; or awaited in vain.
SelectResultIgnored ==
    /\ phase = "serving"
    /\ errC # "empty"
    /\ Exit(0)
    /\ UNCHANGED <<given, cfg, fetcher, auth, signalled, run, errC>>

SelectResultOnlyAfterSignal ==
    /\ phase = "serving"
    /\ signalled
    /\ errC # "empty"
    /\ Exit(IF errC = "error" THEN 1 ELSE 0)
    /\ UNCHANGED <<given, cfg, fetcher, auth, signalled, run, errC>>

SelectResult ==
    /\ phase = "serving"
    /\ errC # "empty"
    /\ Exit(IF errC = "error" THEN 1 ELSE 0)
    /\ UNCHANGED <<given, cfg, fetcher, auth, signalled, run, errC>>

Startup ==
    \/ CompleteConfig
    \/ RejectConfig
    \/ AcceptConfig
    \/ RejectURL
    \/ ConnectFetcher
    \/ StartServing

Next ==
    \/ Startup
    \/ Signal
    \/ \E result \in {"nil", "error"} : RunReturns(result)
    \/ SelectDone
    \/ SelectResult

Spec == Init /\ [][Next]_vars

\* Startup and the select are straight-line code of the main goroutine.  Nothing is
\* assumed of signals, nor that server.Run ever returns.
Fairness == WF_vars(Startup) /\ WF_vars(SelectDone \/ SelectResult)

FairSpec == Spec /\ Fairness

(***************************************************************************)
(* Properties.                                                             *)
(***************************************************************************)
\* Types; the process exits with 0 or 1 only, and a cached fetcher has a positive
\* lifetime and capacity (config.go:42-98, cache.go:25-47, main.go:24-28).
TypeOK ==
    /\ given \in Given
    /\ cfg \in Config
    /\ phase \in {"loaded", "completed", "validated", "built", "serving", "exited"}
    /\ fetcher \in {NoFetcher, RestFetcher} \union [kind : {"cached"}, ttl : Nat \ {0}, cap : Nat \ {0}]
    /\ auth \in [kind : {"none", "basic", "bearer"}, user : Names, secret : BOOLEAN]
    /\ signalled \in BOOLEAN
    /\ run \in {"notStarted", "running", "returned"}
    /\ errC \in {"empty", "nil", "error"}
    /\ exitCode \in {-1, 0, 1}

\* Whoever serves has a fetch that ends (a positive HTTP timeout), at most one secret,
\* a content window in range, and a cache with room and lifetimes:
\* what the cache and the tools are verified under.  WithDefaults runs before
\* Validate (server.go:55-56), so zero settings must be caught by one of the two.
ServesSoundly ==
    phase = "serving" =>
        /\ cfg.timeout > 0
        /\ 0 < cfg.window /\ cfg.window <= MaxWindow
        /\ ~(cfg.password /\ cfg.token)
        /\ fetcher.kind = "cached" => fetcher.ttl > 0 /\ fetcher.cap > 0

\* A process that reports success was told to stop, or its MCP session ended in
\* order: a configuration or transport error is never swallowed (main.go:24-28).
SuccessIsEarned ==
    exitCode = 0 => signalled \/ errC = "nil"

\* Once a signal arrived or the session ended, the process ends: the select of
\* server.go:35-40 waits for both, and the goroutine cannot block on its channel.
AlwaysStops == (signalled \/ run = "returned") ~> phase = "exited"

\* "0 disables caching" (main.go:69; config.go:31; config_test.go:113).  But
\* WithDefaults replaces 0 by five minutes before anyone looks at it.
ZeroTTLDisablesCache ==
    (phase = "serving" /\ given.ttl = 0) => fetcher.kind = "rest"
===============================================================================
