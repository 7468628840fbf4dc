------------------------------- MODULE AgentView -------------------------------
(***************************************************************************)
(* What an agent makes of the answers it gets from the cache over time: a  *)
(* history of the queries it has been told have ended, and of the queries  *)
(* that were fetched twice at once.  The history never constrains          *)
(* FetchCache; it only remembers.                                          *)
(***************************************************************************)
EXTENDS FetchCache

VARIABLES
    settled,    \* queries some call has RETURNED a terminal answer for
    informed,   \* calls that began when their query was already settled
    overlapped  \* queries of which two fetches have been under way together

agentVars == <<vars, settled, informed, overlapped>>

\* Calls that begin and end in this step, whoever they belong to.
Starting == {c \in Callers : At(c, "idle") /\ call'[c].pc = "lookup"}
Ending == {c \in Callers : At(c, "done") /\ call'[c].pc = "idle"}

Ended(reply) == ~reply.err /\ isTerminalState(reply.qi.state)

Learnt == {call[c].q : c \in {d \in Ending : Ended(call[d].reply)}}

\* Between the lookup that misses and the store.
UnderWay(r, q) == r.q = q /\ r.pc \in {"fetching", "store", "storeLocked"}

Overlapping(q) ==
    \E c, d \in Callers : c # d /\ UnderWay(call[c], q) /\ UnderWay(call[d], q)

Remember ==
    /\ settled' = settled \union Learnt
    /\ informed' = (informed \ Ending)
                      \union {c \in Starting : call'[c].q \in settled}
    /\ overlapped' = overlapped \union {q \in Queries : Overlapping(q)'}

AgentInit == Init /\ settled = {} /\ informed = {} /\ overlapped = {}

AgentNext == Next /\ Remember

AgentSpec == AgentInit /\ [][AgentNext]_agentVars

FairAgentSpec == AgentSpec /\ Fairness

(***************************************************************************)
(* Properties.                                                             *)
(***************************************************************************)
\* A call that is told that a query still runs, after its end was known.
Regressed(c) ==
    /\ c \in informed
    /\ At(c, "done") /\ ~call[c].reply.err
    /\ ~isTerminalState(call[c].reply.qi.state)

\* A call that begins after another call has returned the terminal state of the
\* query is not told that the query is still running: "the agent never sees stale
\* stats" (config.go:30).  Two overlapping fetches break it: the one that left the
\* coordinator first is stored last (cache.go:67-73 stores unconditionally).
NeverBackToRunning == \A c \in Callers : ~Regressed(c)

\* Nothing but such an overlap breaks it: while no two fetches of a query have been
\* under way together, whatever else overlaps, is evicted, expires or fails, and
\* however many agents call, a query that has ended stays so (cache.go:54-75).
OnlyOverlapsRegress == \A c \in Callers : Regressed(c) => call[c].q \in overlapped

(***************************************************************************)
(* The inductive invariant behind it.                                      *)
(***************************************************************************)
\* Call c is about to tell the agent that query q has ended.
TellsEnd(c, q) == At(c, "done") /\ call[c].q = q /\ Ended(call[c].reply)

Heard(q) == q \in settled \/ \E c \in Callers : TellsEnd(c, q)

HoldsEnd(q) == q \in DOMAIN cache /\ isTerminalState(cache[q].qi.state)

\* Once the end of q is held or heard of, no older answer is on its way to the cache;
\* and once it is heard of, no older answer is left in the cache.
Monotone(q) ==
    /\ (Heard(q) \/ HoldsEnd(q)) =>
          \A c \in Callers : (call[c].q = q /\ call[c].pc \in Answered)
                                 => isTerminalState(call[c].qi.state)
    /\ (Heard(q) /\ q \in DOMAIN cache) => HoldsEnd(q)

\* What holds in every reachable state and every step preserves: what has been heard
\* is true, and queries without overlapping fetches have monotone answers (cache.go:54-75).
AgentInv ==
    /\ settled \subseteq Queries /\ informed \subseteq Callers
    /\ \A q \in settled : isTerminalState(coordinator[q].state)
    /\ \A q \in Queries : Overlapping(q) => q \in overlapped
    /\ \A c \in informed : ~At(c, "idle") /\ call[c].q \in settled
    /\ \A q \in Queries \ overlapped : Monotone(q)
    /\ OnlyOverlapsRegress
================================================================================
