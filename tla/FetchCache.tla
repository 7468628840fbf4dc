------------------------------ MODULE FetchCache ------------------------------
(***************************************************************************)
(* The QueryInfo cache (pkg/queryinfo/cache.go) under concurrent tool      *)
(* calls.                                                                  *)
(*                                                                         *)
(* Every call of CachingFetcher.Fetch reads the wall clock ONCE, before it *)
(* takes the mutex, and uses that reading for the lookup, and -- a whole   *)
(* HTTP round trip later -- for the eviction and for the expiry of what it *)
(* stores.  The mutex is released during the round trip, so any number of  *)
(* other calls, for the same query or for others, run in between.          *)
(*                                                                         *)
(* The coordinator is external: a query runs until it ends, keeps its      *)
(* terminal QueryInfo for a while, and is then purged (fetch.go:34-36      *)
(* turns the 404 into an error).  A QueryInfo is abstracted to a snapshot: *)
(* the query it describes, its state, and the instant the coordinator took *)
(* it.  That instant is a history value the code never sees.               *)
(***************************************************************************)
EXTENDS Integers, FiniteSets

CONSTANTS
    Callers,            \* concurrent tool calls (goroutines of the MCP server)
    Queries,            \* query IDs an agent asks for
    EmptyID,            \* the query ID ""
    Cap,                \* CachingFetcher.Cap
    TTL,                \* CachingFetcher.TTL, of terminal queries
    NonTerminalTTLCap,  \* nonTerminalTTLCap, 30s in the code
    Endings,            \* the terminal states the workload's queries end in
    MaxClock,           \* bound: the clock stops here
    NoOne               \* owner of the free mutex

ASSUME CapAssumption == Cap \in Nat \ {0}
ASSUME TTLAssumption == TTL \in Nat \ {0} /\ NonTerminalTTLCap \in Nat \ {0}
ASSUME EndingsAssumption == Endings \subseteq {"FINISHED", "FAILED"}
ASSUME ClockAssumption == MaxClock \in Nat
ASSUME NamesAssumption == EmptyID \notin Queries /\ NoOne \notin Callers
ASSUME QueriesAssumption == IsFiniteSet(Queries)

VARIABLES
    clock,        \* wall clock
    coordinator,  \* what the coordinator knows of each query
    mu,           \* CachingFetcher.mu: its holder, or NoOne
    cache,        \* CachingFetcher.cache: a map from query IDs to entries
    call          \* the local variables and the program counter of each call

vars == <<clock, coordinator, mu, cache, call>>

Time == 0 .. MaxClock

(***************************************************************************)
(* Snapshots and coordinator knowledge.                                    *)
(***************************************************************************)
States == {"RUNNING"} \union Endings

isTerminalState(state) == state \in {"FINISHED", "FAILED", "CANCELED"}

Snapshot == [of : Queries, state : States, at : Time]
NoSnapshot == [of |-> EmptyID, state |-> "RUNNING", at |-> 0]

\* ended is meaningful once the state is terminal.
Known == [state : States, ended : Time, purged : BOOLEAN]

(***************************************************************************)
(* NewCachedFetcher caps the lifetime of a live answer.                    *)
(***************************************************************************)
NonTerminalTTL == IF TTL > NonTerminalTTLCap THEN NonTerminalTTLCap ELSE TTL

\* Faulty variant: no cap for live answers.
ttlForUncapped(qi) == TTL

ttlFor(qi) == IF isTerminalState(qi.state) THEN TTL ELSE NonTerminalTTL

Entry == [qi : Snapshot, expires : Nat]

PCs == {"idle", "lookup", "lookupLocked", "fetching", "store", "storeLocked", "done"}

\* A reply is an error or a QueryInfo; hit says it came out of the cache.
Error == [err |-> TRUE, hit |-> FALSE, qi |-> NoSnapshot]
Answer(qi, fromCache) == [err |-> FALSE, hit |-> fromCache, qi |-> qi]
Reply == {Error} \union [err : {FALSE}, hit : BOOLEAN, qi : Snapshot]

Idle == [pc |-> "idle", q |-> EmptyID, now |-> 0, qi |-> NoSnapshot, reply |-> Error]

Call == [pc : PCs, q : Queries \union {EmptyID}, now : Time,
         qi : Snapshot \union {NoSnapshot}, reply : Reply]

\* Types; every entry expires at a time that can be compared with the clock, and
\* the map has no other keys than query IDs (cache.go:9-21).
TypeOK ==
    /\ clock \in Time
    /\ coordinator \in [Queries -> Known]
    /\ mu \in Callers \union {NoOne}
    /\ DOMAIN cache \subseteq Queries
    /\ cache \in [DOMAIN cache -> Entry]
    /\ call \in [Callers -> Call]

Init ==
    /\ clock = 0
    /\ coordinator = [q \in Queries |-> [state |-> "RUNNING", ended |-> 0, purged |-> FALSE]]
    /\ mu = NoOne
    /\ cache = [q \in {} |-> NoSnapshot]
    /\ call = [c \in Callers |-> Idle]

(***************************************************************************)
(* The world outside the server.                                           *)
(***************************************************************************)
Tick ==
    /\ clock < MaxClock
    /\ clock' = clock + 1
    /\ UNCHANGED <<coordinator, mu, cache, call>>

QueryEnds(q, state) ==
    /\ ~isTerminalState(coordinator[q].state)
    /\ coordinator' = [coordinator EXCEPT ![q].state = state, ![q].ended = clock]
    /\ UNCHANGED <<clock, mu, cache, call>>

Purge(q) ==
    /\ isTerminalState(coordinator[q].state)
    /\ ~coordinator[q].purged
    /\ coordinator' = [coordinator EXCEPT ![q].purged = TRUE]
    /\ UNCHANGED <<clock, mu, cache, call>>

(***************************************************************************)
(* CachingFetcher.Fetch, step by step.                                     *)
(***************************************************************************)
At(c, pc) == call[c].pc = pc

Reach(c, pc) == call' = [call EXCEPT ![c].pc = pc]

Respond(c, reply) ==
    call' = [call EXCEPT ![c].pc = "done", ![c].reply = reply]

\* The clock is read here, before the mutex is requested.
Begin(c, q) ==
    /\ At(c, "idle")
    /\ call' = [call EXCEPT ![c].pc = "lookup", ![c].q = q, ![c].now = clock]
    /\ UNCHANGED <<clock, coordinator, mu, cache>>

\* errMissingQueryID
BeginWithoutID(c) ==
    /\ At(c, "idle")
    /\ Respond(c, Error)
    /\ UNCHANGED <<clock, coordinator, mu, cache>>

\* Faulty variant: the mutex does not exclude.
LockBarging(c, before, after) ==
    /\ At(c, before)
    /\ mu' = c
    /\ Reach(c, after)
    /\ UNCHANGED <<clock, coordinator, cache>>

Lock(c, before, after) ==
    /\ At(c, before)
    /\ mu = NoOne
    /\ mu' = c
    /\ Reach(c, after)
    /\ UNCHANGED <<clock, coordinator, cache>>

LockForLookup(c) == Lock(c, "lookup", "lookupLocked")
LockForStore(c) == Lock(c, "store", "storeLocked")

\* Faulty variant: the expiry is not looked at.
UsableForever(q, now) == q \in DOMAIN cache

Usable(q, now) == q \in DOMAIN cache /\ now < cache[q].expires

Hit(c) ==
    /\ At(c, "lookupLocked")
    /\ Usable(call[c].q, call[c].now)
    /\ mu' = NoOne
    /\ Respond(c, Answer(cache[call[c].q].qi, TRUE))
    /\ UNCHANGED <<clock, coordinator, cache>>

Miss(c) ==
    /\ At(c, "lookupLocked")
    /\ ~Usable(call[c].q, call[c].now)
    /\ mu' = NoOne
    /\ Reach(c, "fetching")
    /\ UNCHANGED <<clock, coordinator, cache>>

\* The inner fetch succeeds: the coordinator takes the snapshot now.
TakeSnapshot(q) == [of |-> q, state |-> coordinator[q].state, at |-> clock]

CoordinatorAnswers(c) ==
    /\ At(c, "fetching")
    /\ ~coordinator[call[c].q].purged
    /\ call' = [call EXCEPT ![c].pc = "store", ![c].qi = TakeSnapshot(call[c].q)]
    /\ UNCHANGED <<clock, coordinator, mu, cache>>

\* Faulty variant: a failed fetch is tried again from the start, without a limit.
FetchFailsAndStartsOver(c) ==
    /\ At(c, "fetching")
    /\ Reach(c, "lookup")
    /\ UNCHANGED <<clock, coordinator, mu, cache>>

\* 404 of a purged query, another bad status, a timeout, a cancelled context,
\* an unreadable body: the error goes to the caller and the cache is untouched.
FetchFails(c) ==
    /\ At(c, "fetching")
    /\ Respond(c, Error)
    /\ UNCHANGED <<clock, coordinator, mu, cache>>

\* evictOldestLocked: the keys that may be left.  Go's map order breaks ties.
Fresh(now) == {k \in DOMAIN cache : ~(now > cache[k].expires)}

\* Faulty variant: the comparison is the wrong way round.
FarthestFromExpiry(keys) ==
    {k \in keys : \A other \in keys : cache[k].expires >= cache[other].expires}

ClosestToExpiry(keys) ==
    {k \in keys : \A other \in keys : cache[k].expires <= cache[other].expires}

evictOldestLocked(now) ==
    IF Cardinality(Fresh(now)) < Cap
    THEN {Fresh(now)}
    ELSE {Fresh(now) \ {k} : k \in ClosestToExpiry(Fresh(now))}

\* Faulty variant: room is made one entry too late.
MakeRoomLate(now) ==
    IF Cardinality(DOMAIN cache) > Cap THEN evictOldestLocked(now) ELSE {DOMAIN cache}

MakeRoom(now) ==
    IF Cardinality(DOMAIN cache) >= Cap THEN evictOldestLocked(now) ELSE {DOMAIN cache}

\* Faulty variants: the expiry counts from the moment of storing; or backwards; or it
\* is all that is renewed of an entry that is there.
NewEntryFromStore(c) == [qi |-> call[c].qi, expires |-> clock + ttlFor(call[c].qi)]
NewEntryBackdated(c) == [qi |-> call[c].qi, expires |-> call[c].now - ttlFor(call[c].qi)]
NewEntryRenewed(c) ==
    [qi |-> IF call[c].q \in DOMAIN cache THEN cache[call[c].q].qi ELSE call[c].qi,
     expires |-> call[c].now + ttlFor(call[c].qi)]

\* The expiry of a new entry counts from the reading taken before the lookup.
NewEntry(c) == [qi |-> call[c].qi, expires |-> call[c].now + ttlFor(call[c].qi)]

Store(c) ==
    /\ At(c, "storeLocked")
    /\ \E kept \in MakeRoom(call[c].now) :
          cache' = [k \in kept \union {call[c].q} |->
                       IF k = call[c].q THEN NewEntry(c) ELSE cache[k]]
    /\ mu' = NoOne
    /\ Respond(c, Answer(call[c].qi, FALSE))
    /\ UNCHANGED <<clock, coordinator>>

Return(c) ==
    /\ At(c, "done")
    /\ call' = [call EXCEPT ![c] = Idle]
    /\ UNCHANGED <<clock, coordinator, mu, cache>>

(***************************************************************************)
(* The specification.                                                      *)
(***************************************************************************)
World ==
    \/ Tick
    \/ \E q \in Queries : Purge(q) \/ \E state \in Endings : QueryEnds(q, state)

Step(c) ==
    \/ LockForLookup(c)
    \/ Hit(c)
    \/ Miss(c)
    \/ CoordinatorAnswers(c)
    \/ FetchFails(c)
    \/ LockForStore(c)
    \/ Store(c)
    \/ Return(c)

Next ==
    \/ World
    \/ \E c \in Callers : BeginWithoutID(c) \/ Step(c) \/ \E q \in Queries : Begin(c, q)

Spec == Init /\ [][Next]_vars

(***************************************************************************)
(* Fairness.  The Go scheduler runs every goroutine that can run; the HTTP *)
(* client has a positive timeout (config.go:63 and client.go:33-72), so a  *)
(* fetch ends; a sync.Mutex hands itself over to a waiter that has starved *)
(* for 1ms, so a goroutine that keeps finding it free gets it.             *)
(***************************************************************************)
Fairness ==
    \A c \in Callers :
        /\ WF_vars(Hit(c) \/ Miss(c))
        /\ WF_vars(CoordinatorAnswers(c) \/ FetchFails(c))
        /\ WF_vars(Store(c))
        /\ WF_vars(Return(c))
        /\ SF_vars(LockForLookup(c))
        /\ SF_vars(LockForStore(c))

FairSpec == Spec /\ Fairness

(***************************************************************************)
(* Properties.                                                             *)
(***************************************************************************)

\* The map never holds more than Cap entries, whatever calls were in flight
\* together when they missed (the size check and the insertion of cache.go:69-73
\* happen a round trip after the lookup that decided to fetch).
CacheBounded == Cardinality(DOMAIN cache) <= Cap

\* An entry is filed under the query it describes and dies no later than its
\* lifetime after the instant the coordinator took it, however long the answer
\* travelled and the caller waited for the mutex (cache.go:54 and 73).
EntriesDieOnTime ==
    \A k \in DOMAIN cache :
        LET e == cache[k]
        IN  e.qi.of = k /\ e.expires <= e.qi.at + ttlFor(e.qi)

\* A call that began NonTerminalTTL or more after a query ended never reports it
\* as still running, whichever in-flight answers raced for the entry: the 30s cap
\* of cache.go:77-83 that config.go:29-30 promises.
EndedQueriesCatchUp ==
    \A c \in Callers :
        LET r == call[c].reply
            known == coordinator[call[c].q]
        IN  (At(c, "done") /\ ~r.err /\ ~isTerminalState(r.qi.state)
                           /\ isTerminalState(known.state))
               => call[c].now < known.ended + NonTerminalTTL

\* Eviction (cache.go:100-122) works with a clock reading that is a round trip
\* old.  Still, it gives up an entry that has not expired only when the map is
\* full, one per insertion, and none that expires sooner than it is kept.
EvictionStep ==
    LET dropped == DOMAIN cache \ DOMAIN cache'
        live == {k \in dropped : clock < cache[k].expires}
    IN  /\ Cardinality(live) <= 1
        /\ \A k \in live :
              /\ Cardinality(DOMAIN cache) = Cap
              /\ \A other \in DOMAIN cache \ dropped :
                    cache'[other] = cache[other] => cache[k].expires <= cache[other].expires

EvictsClosestToExpiry == [][EvictionStep]_vars

\* Every tool call gets its reply: no call is left waiting for the mutex or for
\* the coordinator, whatever the others do.
EveryCallReturns == \A c \in Callers : ~At(c, "idle") ~> At(c, "idle")

(***************************************************************************)
(* The cache implements BoundedStaleness: a caller cannot tell that there  *)
(* is a cache, except by the bounded age of the answers.                   *)
(***************************************************************************)
Phase(pc) ==
    CASE pc = "idle" -> "none"
      [] pc = "done" -> "answered"
      [] OTHER -> "asked"

\* What the caller sees of its call.
Seen(r) ==
    [phase |-> Phase(r.pc), q |-> r.q, began |-> r.now,
     answer |-> [err |-> r.reply.err, qi |-> r.reply.qi]]

Request == [c \in Callers |-> Seen(call[c])]

Promise == INSTANCE BoundedStaleness WITH LiveTTL <- NonTerminalTTL, request <- Request

\* Every behaviour of the cache is one of the cacheless abstract fetcher.
ImplementsBoundedStaleness == Promise!Spec

(***************************************************************************)
(* The inductive invariant behind the safety properties.  Each part says   *)
(* what one kind of state in flight may be relied on for.                  *)
(***************************************************************************)
Locked == {"lookupLocked", "storeLocked"}
Answered == {"store", "storeLocked"}

\* A snapshot of query q that was really taken, by now.
Genuine(s, q) ==
    /\ s \in Snapshot
    /\ s.of = q
    /\ s.at <= clock
    /\ Promise!Truthful(s)

CoordinatorInv == \A q \in Queries : coordinator[q].ended <= clock

\* Call r of caller c: which of its local variables mean something, and what.
GoodCall(c, r) ==
    /\ r.pc \in Locked => mu = c
    /\ r.pc = "idle" => r = Idle
    /\ r.pc # "done" => r.reply = Error
    /\ r.pc \notin {"idle", "done"} => r.q \in Queries
    /\ r.now <= clock
    /\ r.pc \in Answered => Genuine(r.qi, r.q) /\ r.now <= r.qi.at
    /\ (r.pc = "done" /\ ~r.reply.err) =>
          /\ r.q \in Queries
          /\ Genuine(r.reply.qi, r.q)
          /\ r.now < r.reply.qi.at + ttlFor(r.reply.qi)

CallsInv == \A c \in Callers : GoodCall(c, call[c])

EntriesGenuine == \A k \in DOMAIN cache : Genuine(cache[k].qi, k)

\* What holds in every reachable state and is preserved by every step: above all
\* that entries, in-flight answers and replies are genuine and die on time
\* (cache.go:49-75), which the freshness of the replies rests on.
IndInv ==
    /\ TypeOK
    /\ CoordinatorInv
    /\ CallsInv
    /\ EntriesGenuine
    /\ EntriesDieOnTime
===============================================================================
