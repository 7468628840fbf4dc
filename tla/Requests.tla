-------------------------------- MODULE Requests --------------------------------
(***************************************************************************)
(* A request to the coordinator (pkg/rest, RestFetcher.Fetch) in the life  *)
(* of the server that makes it: one GET of a QueryInfo, from the headers   *)
(* the authenticator adds to what the tool is told.                        *)
(*                                                                         *)
(* The coordinator is external: it may refuse the connection, answer with  *)
(* any final status, send a body that is a QueryInfo, null or unreadable,  *)
(* or never answer at all.  The client's timeout, which runs from the      *)
(* request to the last byte of the body, is all that ends such a request.  *)
(***************************************************************************)
EXTENDS Server

CONSTANT Statuses  \* the HTTP statuses a coordinator answers with

ASSUME StatusesAssumption == Statuses \subseteq 200 .. 599

VARIABLE request  \* the request under way

allVars == <<vars, request>>

Headers == [user : Names, authorization : {"none", "basic", "bearer"}]
NoHeaders == [user |-> NoUser, authorization |-> "none"]

\* "purged" is the error for a query that is not found, "empty" a QueryInfo without content.
Outcomes == {"none", "info", "empty", "purged", "failed"}

NoRequest == [pc |-> "none", headers |-> NoHeaders, status |-> 0, outcome |-> "none"]

RequestInit == Init /\ request = NoRequest

\* Authenticator.Apply: X-Trino-User, unless the name is empty, and Authorization.
Apply(a) ==
    [user |-> a.user,
     authorization |->
         IF (a.kind = "basic" /\ (a.user # NoUser \/ a.secret)) \/ (a.kind = "bearer" /\ a.secret)
         THEN a.kind ELSE "none"]

\* A status of 299 counts as a failure.
Successful(status) == 200 <= status /\ status < 299

\* do, with what RestFetcher.Fetch makes of its error: whatever becomes of the body
\* of a failure, the status decides.
Outcome(status, body) ==
    CASE status = 404 -> "purged"
      [] Successful(status) /\ body = "queryInfo" -> "info"
      [] Successful(status) /\ body = "null" -> "empty"
      [] OTHER -> "failed"

Under(pc) == phase # "exited" /\ request.pc = pc

End(status, outcome) ==
    request' = [request EXCEPT !.pc = "ended", !.status = status, !.outcome = outcome]

(***************************************************************************)
(* A tool call fetches, and is answered.                                   *)
(***************************************************************************)
\* Without a query ID nothing is sent.
FetchWithoutID ==
    /\ phase = "serving" /\ run = "running"
    /\ Under("none")
    /\ End(0, "failed")
    /\ UNCHANGED vars

newRequest ==
    /\ phase = "serving" /\ run = "running"
    /\ Under("none")
    /\ request' = [NoRequest EXCEPT !.pc = "sent", !.headers = Apply(auth)]
    /\ UNCHANGED vars

\* The connection is refused or lost, or the call is cancelled.
TransportFails ==
    /\ Under("sent")
    /\ End(0, "failed")
    /\ UNCHANGED vars

CoordinatorResponds(status) ==
    /\ Under("sent")
    /\ request' = [request EXCEPT !.pc = "reading", !.status = status]
    /\ UNCHANGED vars

BodyArrives(body) ==
    /\ Under("reading")
    /\ End(request.status, Outcome(request.status, body))
    /\ UNCHANGED vars

\* Faulty variant: the timer is stopped when the headers arrive.
TimesOutBeforeHeaders ==
    /\ cfg.timeout > 0
    /\ Under("sent")
    /\ End(0, "failed")
    /\ UNCHANGED vars

\* http.Client sets a deadline for positive timeouts only.
TimesOut ==
    /\ cfg.timeout > 0
    /\ \/ Under("sent") /\ End(0, "failed")
       \/ Under("reading") /\ End(request.status, Outcome(request.status, "unreadable"))
    /\ UNCHANGED vars

AnswerTool ==
    /\ Under("ended")
    /\ request' = NoRequest
    /\ UNCHANGED vars

RequestNext ==
    \/ Next /\ UNCHANGED request
    \/ FetchWithoutID
    \/ newRequest
    \/ TransportFails
    \/ \E status \in Statuses : CoordinatorResponds(status)
    \/ \E body \in {"queryInfo", "null", "unreadable"} : BodyArrives(body)
    \/ TimesOut
    \/ AnswerTool

RequestSpec == RequestInit /\ [][RequestNext]_allVars

\* Timers fire and handlers run on.  Nothing is assumed of the coordinator.
RequestFairness == Fairness /\ WF_allVars(TimesOut) /\ WF_allVars(AnswerTool)

FairRequestSpec == RequestSpec /\ RequestFairness

(***************************************************************************)
(* Properties.                                                             *)
(***************************************************************************)
\* Types; an outcome is there exactly when the request has ended (client.go:98-121).
RequestTypeOK ==
    /\ TypeOK
    /\ request \in [pc : {"none", "sent", "reading", "ended"}, headers : Headers,
                    status : {0} \union Statuses, outcome : Outcomes]
    /\ request.pc = "ended" <=> request.outcome # "none"

\* What goes over the wire is what the operator configured: the one secret given, in
\* its own scheme and never another; nothing like a secret if none was given, although
\* every authenticator has a name, which is where basic authentication could start; and
\* never a request without a name: the operator's, or "insights" (server.go:43-56,
\* auth.go:17-50, config.go:47-49 and 77-79).
SecretsAsConfigured ==
    request.pc \in {"sent", "reading"} =>
        /\ request.headers.user = IF given.user = NoUser THEN DefaultUser ELSE given.user
        /\ request.headers.authorization = "bearer" <=> given.token
        /\ request.headers.authorization = "basic" <=> given.password

\* Every tool call gets its answer while the process lives, even from a coordinator
\* that takes the request and stays silent: whatever the operator configured, a
\* server that serves has a timeout (config.go:63, client.go:46-59).
EveryRequestEnds == request.pc # "none" ~> (request.pc = "none" \/ phase = "exited")
=================================================================================
