--------------------------- MODULE BoundedStaleness ---------------------------
(***************************************************************************)
(* What a QueryInfo fetcher promises a tool call, whatever it keeps in     *)
(* between (config.go:27-31, cache.go): the answer to a call is an error,  *)
(* or a snapshot that the coordinator really took of the query asked for,  *)
(* and that had not outlived its lifetime when the call began -- TTL for a *)
(* terminal query, the shorter live lifetime otherwise.                    *)
(*                                                                         *)
(* There is no cache here, no mutex and no stored entry: FetchCache        *)
(* implements this specification.                                          *)
(***************************************************************************)
EXTENDS Integers

CONSTANTS Callers, Queries, EmptyID, TTL, LiveTTL, Endings, MaxClock

VARIABLES
    clock,
    coordinator,  \* per query: its state, when it ended, whether it is purged
    request       \* per call: its phase, the query, when it began, its answer

vars == <<clock, coordinator, request>>

Snapshots == [of : Queries, state : {"RUNNING"} \union Endings, at : 0 .. MaxClock]

\* Some instant of the coordinator's past shows what the snapshot shows.
Truthful(s) ==
    IF s.state = "RUNNING"
    THEN coordinator[s.of].state \in Endings => s.at <= coordinator[s.of].ended
    ELSE s.state = coordinator[s.of].state /\ coordinator[s.of].ended <= s.at

Lifetime(s) == IF s.state \in Endings THEN TTL ELSE LiveTTL

\* The snapshot was still within its lifetime when a call began at time began.
Current(s, began) == began < s.at + Lifetime(s)

Nothing == [err |-> TRUE, qi |-> [of |-> EmptyID, state |-> "RUNNING", at |-> 0]]
None == [phase |-> "none", q |-> EmptyID, began |-> 0, answer |-> Nothing]

Init ==
    /\ clock = 0
    /\ coordinator = [q \in Queries |-> [state |-> "RUNNING", ended |-> 0, purged |-> FALSE]]
    /\ request = [c \in Callers |-> None]

Tick ==
    /\ clock < MaxClock
    /\ clock' = clock + 1
    /\ UNCHANGED <<coordinator, request>>

QueryEnds(q, state) ==
    /\ coordinator[q].state = "RUNNING"
    /\ coordinator' = [coordinator EXCEPT ![q].state = state, ![q].ended = clock]
    /\ UNCHANGED <<clock, request>>

Purge(q) ==
    /\ coordinator[q].state \in Endings
    /\ ~coordinator[q].purged
    /\ coordinator' = [coordinator EXCEPT ![q].purged = TRUE]
    /\ UNCHANGED <<clock, request>>

Ask(c, q) ==
    /\ request[c].phase = "none"
    /\ request' = [request EXCEPT ![c] = [phase |-> "asked", q |-> q, began |-> clock,
                                           answer |-> Nothing]]
    /\ UNCHANGED <<clock, coordinator>>

\* A request without a query ID is refused on the spot.
Refuse(c) ==
    /\ request[c].phase = "none"
    /\ request' = [request EXCEPT ![c].phase = "answered"]
    /\ UNCHANGED <<clock, coordinator>>

Fail(c) ==
    /\ request[c].phase = "asked"
    /\ request' = [request EXCEPT ![c].phase = "answered"]
    /\ UNCHANGED <<clock, coordinator>>

Serve(c, s) ==
    /\ request[c].phase = "asked"
    /\ s.of = request[c].q
    /\ s.at <= clock
    /\ Truthful(s)
    /\ Current(s, request[c].began)
    /\ request' = [request EXCEPT ![c] = [phase |-> "answered", q |-> @.q, began |-> @.began,
                                           answer |-> [err |-> FALSE, qi |-> s]]]
    /\ UNCHANGED <<clock, coordinator>>

Finish(c) ==
    /\ request[c].phase = "answered"
    /\ request' = [request EXCEPT ![c] = None]
    /\ UNCHANGED <<clock, coordinator>>

Next ==
    \/ Tick
    \/ \E q \in Queries : Purge(q) \/ \E state \in Endings : QueryEnds(q, state)
    \/ \E c \in Callers :
          \/ Refuse(c)
          \/ Fail(c)
          \/ Finish(c)
          \/ \E q \in Queries : Ask(c, q)
          \/ \E s \in Snapshots : Serve(c, s)

Spec == Init /\ [][Next]_vars
===============================================================================
