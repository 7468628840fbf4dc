--------------------------- MODULE FetchCacheProofs ---------------------------
(***************************************************************************)
(* Theorems about FetchCache, for every number of callers and queries, any *)
(* capacity and any lifetimes.                                             *)
(***************************************************************************)
EXTENDS FetchCache, FiniteSetTheorems, TLAPS

USE CapAssumption, TTLAssumption, EndingsAssumption, ClockAssumption, NamesAssumption

\* A lifetime is a positive number of ticks (cache.go:25-47 and 77-83).
LEMMA LifetimePositive ==
    ASSUME NEW s \in Snapshot
    PROVE  ttlFor(s) \in Nat /\ ttlFor(s) > 0
BY DEF ttlFor, NonTerminalTTL

LEMMA IdleIsACall == Idle \in Call
BY DEF Idle, Call, PCs, Reply, Time

\* The empty cache with every call idle satisfies the inductive invariant.
LEMMA InitIndInv == Init => IndInv
<1> SUFFICES ASSUME Init PROVE IndInv
    OBVIOUS
<1>1. \A c \in Callers : call[c] = Idle
    BY DEF Init
<1>2. TypeOK
    <2>2. call \in [Callers -> Call]
        BY IdleIsACall DEF Init
    <2>3. coordinator \in [Queries -> Known]
        BY DEF Init, Known, States, Time
    <2>4. DOMAIN cache = {}
        BY DEF Init
    <2>5. cache \in [DOMAIN cache -> Entry]
        BY <2>4 DEF Init
    <2> QED
        BY <2>2, <2>3, <2>4, <2>5 DEF TypeOK, Init, Time
<1>3. CallsInv
    BY <1>1 DEF CallsInv, GoodCall, Idle, Locked, Answered, Init
<1>4. CoordinatorInv /\ EntriesGenuine /\ EntriesDieOnTime
    BY DEF Init, CoordinatorInv, EntriesGenuine, EntriesDieOnTime
<1> QED
    BY <1>2, <1>3, <1>4 DEF IndInv

\* Eviction only removes keys.
LEMMA RoomIsMadeByRemoval ==
    ASSUME NEW now, NEW kept \in MakeRoom(now)
    PROVE  kept \subseteq DOMAIN cache
BY DEF MakeRoom, evictOldestLocked, Fresh

\* Moving a call on, or replying to it, leaves the calls well typed.
LEMMA ReachType ==
    ASSUME call \in [Callers -> Call], NEW c \in Callers, NEW pc \in PCs, Reach(c, pc)
    PROVE  call' \in [Callers -> Call]
BY DEF Reach, Call

LEMMA RespondType ==
    ASSUME call \in [Callers -> Call], NEW c \in Callers, NEW r \in Reply, Respond(c, r)
    PROVE  call' \in [Callers -> Call]
<1>1. "done" \in PCs
    BY DEF PCs
<1> QED
    BY <1>1 DEF Respond, Call

LEMMA TypeNext == IndInv /\ [Next]_vars => TypeOK'
<1> SUFFICES ASSUME IndInv, [Next]_vars PROVE TypeOK'
    OBVIOUS
<1>a. TypeOK /\ CallsInv
    BY DEF IndInv
<1>b. Error \in Reply /\ \A s \in Snapshot, b \in BOOLEAN : Answer(s, b) \in Reply
    BY DEF Reply, Answer
<1> HIDE DEF IndInv
<1>1. CASE Tick
    BY <1>1, <1>a DEF Tick, Time, TypeOK
<1>2. ASSUME NEW q \in Queries, Purge(q) PROVE TypeOK'
    <2>1. coordinator' \in [Queries -> Known]
        BY <1>2, <1>a DEF Purge, Known, TypeOK
    <2> QED
        BY <1>2, <1>a, <2>1 DEF Purge, TypeOK
<1>3. ASSUME NEW q \in Queries, NEW state \in Endings, QueryEnds(q, state) PROVE TypeOK'
    <2>1. coordinator' \in [Queries -> Known]
        BY <1>3, <1>a DEF QueryEnds, Known, States, TypeOK
    <2> QED
        BY <1>3, <1>a, <2>1 DEF QueryEnds, TypeOK
<1>4. ASSUME NEW c \in Callers, BeginWithoutID(c) PROVE TypeOK'
    BY <1>4, <1>a, <1>b, RespondType DEF BeginWithoutID, TypeOK
<1>5. ASSUME NEW c \in Callers, NEW q \in Queries, Begin(c, q) PROVE TypeOK'
    <2>1. call' \in [Callers -> Call]
        <3> DEFINE begun == [call[c] EXCEPT !.pc = "lookup", !.q = q, !.now = clock]
        <3>1. call[c] \in Call /\ clock \in Time /\ "lookup" \in PCs
            BY <1>a DEF TypeOK, PCs
        <3>2. begun \in Call
            BY <3>1 DEF Call
        <3>3. call' = [call EXCEPT ![c] = begun]
            BY <1>5 DEF Begin
        <3> QED
            BY <3>2, <3>3, <1>a DEF TypeOK
    <2> QED
        BY <1>5, <1>a, <2>1 DEF Begin, TypeOK
<1>6. ASSUME NEW c \in Callers, LockForLookup(c) PROVE TypeOK'
    <2>1. call' \in [Callers -> Call]
        BY <1>6, <1>a, ReachType DEF LockForLookup, Lock, PCs, TypeOK
    <2> QED
        BY <1>6, <1>a, <2>1 DEF LockForLookup, Lock, TypeOK
<1>7. ASSUME NEW c \in Callers, LockForStore(c) PROVE TypeOK'
    <2>1. call' \in [Callers -> Call]
        BY <1>7, <1>a, ReachType DEF LockForStore, Lock, PCs, TypeOK
    <2> QED
        BY <1>7, <1>a, <2>1 DEF LockForStore, Lock, TypeOK
<1>8. ASSUME NEW c \in Callers, Hit(c) PROVE TypeOK'
    <2>1. cache[call[c].q].qi \in Snapshot
        BY <1>8, <1>a DEF Hit, Usable, Entry, TypeOK
    <2>2. call' \in [Callers -> Call]
        BY <1>8, <1>a, <1>b, <2>1, RespondType DEF Hit, TypeOK
    <2> QED
        BY <1>8, <1>a, <2>2 DEF Hit, TypeOK
<1>9. ASSUME NEW c \in Callers, Miss(c) PROVE TypeOK'
    <2>1. call' \in [Callers -> Call]
        BY <1>9, <1>a, ReachType DEF Miss, PCs, TypeOK
    <2> QED
        BY <1>9, <1>a, <2>1 DEF Miss, TypeOK
<1>10. ASSUME NEW c \in Callers, CoordinatorAnswers(c) PROVE TypeOK'
    <2>1. call[c].q \in Queries
        BY <1>10, <1>a DEF CoordinatorAnswers, At, CallsInv, GoodCall
    <2>2. TakeSnapshot(call[c].q) \in Snapshot
        BY <2>1, <1>a DEF TakeSnapshot, Snapshot, Known, TypeOK
    <2>3. call' \in [Callers -> Call]
        <3> DEFINE answered ==
                [call[c] EXCEPT !.pc = "store", !.qi = TakeSnapshot(call[c].q)]
        <3>1. call[c] \in Call /\ "store" \in PCs
            BY <1>a DEF TypeOK, PCs
        <3>2. answered \in Call
            BY <3>1, <2>2 DEF Call
        <3>3. call' = [call EXCEPT ![c] = answered]
            BY <1>10 DEF CoordinatorAnswers
        <3> QED
            BY <3>2, <3>3, <1>a DEF TypeOK
    <2> QED
        BY <1>10, <1>a, <2>3 DEF CoordinatorAnswers, TypeOK
<1>11. ASSUME NEW c \in Callers, FetchFails(c) PROVE TypeOK'
    BY <1>11, <1>a, <1>b, RespondType DEF FetchFails, TypeOK
<1>12. ASSUME NEW c \in Callers, Store(c) PROVE TypeOK'
    <2>1. call[c].q \in Queries /\ call[c].qi \in Snapshot
        BY <1>12, <1>a DEF Store, At, CallsInv, GoodCall, Answered, Genuine
    <2>2. NewEntry(c) \in Entry
        BY <2>1, <1>a, LifetimePositive DEF NewEntry, Entry, Call, Time, TypeOK
    <2>3. PICK kept \in MakeRoom(call[c].now) :
             cache' = [k \in kept \union {call[c].q} |->
                          IF k = call[c].q THEN NewEntry(c) ELSE cache[k]]
        BY <1>12 DEF Store
    <2>4. kept \subseteq DOMAIN cache
        BY RoomIsMadeByRemoval
    <2>5. DOMAIN cache' \subseteq Queries /\ cache' \in [DOMAIN cache' -> Entry]
        BY <2>1, <2>2, <2>3, <2>4, <1>a DEF TypeOK
    <2>6. call' \in [Callers -> Call]
        BY <1>12, <1>a, <1>b, <2>1, RespondType DEF Store, TypeOK
    <2> QED
        BY <1>12, <2>5, <2>6, <1>a DEF Store, TypeOK
<1>13. ASSUME NEW c \in Callers, Return(c) PROVE TypeOK'
    BY <1>13, <1>a, IdleIsACall DEF Return, TypeOK
<1>14. CASE UNCHANGED vars
    BY <1>14, <1>a DEF vars, TypeOK
<1> QED
    BY <1>1, <1>2, <1>3, <1>4, <1>5, <1>6, <1>7, <1>8, <1>9, <1>10, <1>11, <1>12,
       <1>13, <1>14 DEF Next, World, Step

\* What was genuine stays genuine: the clock only moves forward, and what the
\* coordinator decided about a query it never takes back.
LEMMA GenuineStays ==
    ASSUME IndInv, [Next]_vars, NEW s, NEW q, Genuine(s, q)
    PROVE  Genuine(s, q)'
<1>a. TypeOK /\ CoordinatorInv
    BY DEF IndInv
<1>b. s \in Snapshot /\ s.of = q /\ q \in Queries /\ s.at <= clock /\ s.at \in Nat /\ clock \in Nat
    BY <1>a DEF Genuine, Snapshot, Time, TypeOK
<1>1. CASE Tick
    BY <1>1, <1>a, <1>b DEF Tick, Genuine, Promise!Truthful, TypeOK, Time
<1>2. ASSUME NEW p \in Queries, Purge(p) PROVE Genuine(s, q)'
    <2>1. coordinator'[q].state = coordinator[q].state /\ coordinator'[q].ended = coordinator[q].ended
        BY <1>2, <1>a, <1>b DEF Purge, TypeOK, Known
    <2> QED
        BY <1>2, <1>b, <2>1 DEF Purge, Genuine, Promise!Truthful
<1>3. ASSUME NEW p \in Queries, NEW state \in Endings, QueryEnds(p, state) PROVE Genuine(s, q)'
    <2>1. CASE p # q
        <3>1. coordinator'[q] = coordinator[q]
            BY <1>3, <2>1, <1>a, <1>b DEF QueryEnds, TypeOK
        <3> QED
            BY <1>3, <1>b, <3>1 DEF QueryEnds, Genuine, Promise!Truthful
    <2>2. CASE p = q
        <3>1. coordinator'[q].state = state /\ coordinator'[q].ended = clock
            BY <1>3, <2>2, <1>a, <1>b DEF QueryEnds, TypeOK, Known
        <3>2. s.state = "RUNNING"
            BY <1>3, <2>2, <1>b DEF QueryEnds, Genuine, Promise!Truthful, isTerminalState,
               Snapshot, States
        <3> QED
            BY <1>3, <1>b, <3>1, <3>2 DEF QueryEnds, Genuine, Promise!Truthful
    <2> QED
        BY <2>1, <2>2
<1>4. CASE UNCHANGED <<clock, coordinator>>
    BY <1>4 DEF Genuine, Promise!Truthful
<1> QED
    <2>1. ASSUME NEW c \in Callers,
                 BeginWithoutID(c) \/ Step(c) \/ \E p \in Queries : Begin(c, p)
          PROVE  UNCHANGED <<clock, coordinator>>
        BY <2>1 DEF BeginWithoutID, Begin, Step, LockForLookup, LockForStore, Lock, Hit, Miss,
           CoordinatorAnswers, FetchFails, Store, Return
    <2>2. CASE UNCHANGED vars
        BY <2>2, <1>4 DEF vars
    <2> QED
        BY <1>1, <1>2, <1>3, <1>4, <2>1, <2>2 DEF Next, World

\* A step of one call leaves the world and the other calls as they are.
LEMMA CallerFrame ==
    ASSUME IndInv, NEW c \in Callers,
           BeginWithoutID(c) \/ Step(c) \/ \E q \in Queries : Begin(c, q)
    PROVE  /\ UNCHANGED <<clock, coordinator>>
           /\ \A d \in Callers \ {c} : call'[d] = call[d]
<1>1. call \in [Callers -> Call]
    BY DEF IndInv, TypeOK
<1> QED
    BY <1>1 DEF BeginWithoutID, Begin, Step, LockForLookup, LockForStore, Lock, Hit, Miss,
       CoordinatorAnswers, FetchFails, Store, Return, Respond, Reach

\* It is therefore enough to look at the call that moved, when the mutex was
\* taken while it was free or was the moving call's own to release.
LEMMA OnlyMoved ==
    ASSUME IndInv, [Next]_vars, NEW c \in Callers,
           BeginWithoutID(c) \/ Step(c) \/ \E q \in Queries : Begin(c, q),
           mu' = mu \/ mu = NoOne \/ mu = c,
           GoodCall(c, call[c])'
    PROVE  CallsInv'
<1> SUFFICES ASSUME NEW d \in Callers PROVE GoodCall(d, call[d])'
    BY DEF CallsInv
<1>1. CASE d = c
    BY <1>1
<1>2. CASE d # c
    <2>1. call'[d] = call[d] /\ clock' = clock /\ coordinator' = coordinator
        BY <1>2, CallerFrame
    <2>2. GoodCall(d, call[d])
        BY DEF IndInv, CallsInv
    <2>3. call[d].pc \in Locked => mu' = d
        BY <2>2, <1>2, NamesAssumption DEF GoodCall
    <2>4. \A s, q : Genuine(s, q) => Genuine(s, q)'
        BY GenuineStays
    <2> QED
        BY <2>1, <2>2, <2>3, <2>4 DEF GoodCall
<1> QED
    BY <1>1, <1>2

LEMMA CallsNext == IndInv /\ [Next]_vars => CallsInv'
<1> SUFFICES ASSUME IndInv, [Next]_vars PROVE CallsInv'
    OBVIOUS
<1>a. TypeOK /\ CallsInv /\ EntriesGenuine /\ EntriesDieOnTime
    BY DEF IndInv
<1>b. \A c \in Callers : call[c] \in Call /\ GoodCall(c, call[c])
    BY <1>a DEF TypeOK, CallsInv
<1>c. \A s, q : Genuine(s, q) => Genuine(s, q)'
    BY GenuineStays
<1>1. CASE World \/ UNCHANGED vars
    <2>1. UNCHANGED <<mu, call>> /\ (clock' = clock \/ clock' = clock + 1)
        BY <1>1 DEF World, Tick, Purge, QueryEnds, vars
    <2>2. ASSUME NEW c \in Callers PROVE GoodCall(c, call[c])'
        <3>1. call[c].now <= clock'
            <4>1. call[c].now \in Nat /\ clock \in Nat /\ call[c].now <= clock
                BY <1>a, <1>b DEF GoodCall, Call, Time, TypeOK
            <4> QED
                BY <4>1, <2>1
        <3> QED
            BY <1>b, <1>c, <2>1, <3>1 DEF GoodCall
    <2> QED
        BY <2>2 DEF CallsInv
<1>2. ASSUME NEW c \in Callers, BeginWithoutID(c) PROVE CallsInv'
    <2>1. call'[c].pc = "done" /\ call'[c].reply = Error /\ call'[c].now = call[c].now
        BY <1>2, <1>b, <1>a DEF BeginWithoutID, Respond, Call, TypeOK
    <2>2. GoodCall(c, call[c])'
        BY <1>2, <1>b, <2>1 DEF GoodCall, BeginWithoutID, Locked, Answered, Error
    <2> QED
        BY <1>2, <2>2, OnlyMoved DEF BeginWithoutID
<1>3. ASSUME NEW c \in Callers, NEW q \in Queries, Begin(c, q) PROVE CallsInv'
    <2>1. /\ call'[c].pc = "lookup" /\ call'[c].q = q
          /\ call'[c].now = clock /\ call'[c].reply = call[c].reply
        BY <1>3, <1>b, <1>a DEF Begin, Call, TypeOK
    <2>2. GoodCall(c, call[c])'
        BY <1>3, <1>a, <1>b, <2>1 DEF GoodCall, Begin, At, Locked, Answered, TypeOK, Time
    <2> QED
        BY <1>3, <2>2, OnlyMoved DEF Begin
<1>4. ASSUME NEW c \in Callers, LockForLookup(c) \/ LockForStore(c) PROVE CallsInv'
    <2>1. PICK pc \in Locked : Reach(c, pc)
        BY <1>4 DEF LockForLookup, LockForStore, Lock, Locked
    <2>2. /\ call'[c].pc = pc /\ call'[c].q = call[c].q /\ call'[c].now = call[c].now
          /\ call'[c].qi = call[c].qi /\ call'[c].reply = call[c].reply
        BY <1>b, <1>a, <2>1 DEF Reach, Call, TypeOK
    <2>3. pc = "storeLocked" => call[c].pc = "store"
        BY <1>4, <1>a, <2>1, <2>2 DEF LockForLookup, LockForStore, Lock, Reach, At, TypeOK, Call
    <2>4. GoodCall(c, call[c])'
        BY <1>4, <1>b, <1>c, <2>1, <2>2, <2>3 DEF GoodCall, LockForLookup, LockForStore, Lock,
           At, Locked, Answered
    <2> QED
        BY <1>4, <2>4, OnlyMoved DEF LockForLookup, LockForStore, Lock, Step
<1>5. ASSUME NEW c \in Callers, Hit(c) PROVE CallsInv'
    <2>1. PICK e : e = cache[call[c].q]
        OBVIOUS
    <2>2. /\ call'[c].pc = "done" /\ call'[c].q = call[c].q /\ call'[c].now = call[c].now
          /\ call'[c].reply = Answer(e.qi, TRUE)
        BY <1>5, <1>b, <1>a, <2>1 DEF Hit, Respond, Call, TypeOK
    <2>3. call[c].q \in DOMAIN cache /\ call[c].now < e.expires /\ call[c].q \in Queries
        BY <1>5, <1>a, <2>1 DEF Hit, Usable, TypeOK
    <2>4. Genuine(e.qi, call[c].q) /\ e.expires <= e.qi.at + ttlFor(e.qi)
        BY <1>a, <2>1, <2>3 DEF EntriesGenuine, EntriesDieOnTime
    <2>5. call[c].now < e.qi.at + ttlFor(e.qi)
        <3>1. e.qi \in Snapshot /\ e.expires \in Nat /\ call[c].now \in Nat
            BY <1>a, <1>b, <2>1, <2>3 DEF TypeOK, Entry, Call, Time
        <3>2. e.qi.at \in Nat /\ ttlFor(e.qi) \in Nat
            BY <3>1, LifetimePositive DEF Snapshot, Time
        <3> QED
            BY <2>3, <2>4, <3>1, <3>2
    <2>6. GoodCall(c, call[c])'
        <3>1. call'[c].reply.qi = e.qi /\ clock' = clock /\ call[c].now <= clock
            BY <2>2, <1>5, <1>b DEF Answer, Hit, GoodCall
        <3>2. Genuine(call[c].reply.qi, call[c].q)'
            BY <1>c, <2>2, <2>4, <3>1
        <3> QED
            BY <2>2, <2>3, <2>5, <3>1, <3>2 DEF GoodCall, Locked, Answered
    <2> QED
        BY <1>5, <1>b, <2>6, OnlyMoved DEF Hit, Step, GoodCall, Locked, At
<1>6. ASSUME NEW c \in Callers, Miss(c) PROVE CallsInv'
    <2>1. /\ call'[c].pc = "fetching" /\ call'[c].q = call[c].q
          /\ call'[c].now = call[c].now /\ call'[c].reply = call[c].reply
        BY <1>6, <1>b, <1>a DEF Miss, Reach, Call, TypeOK
    <2>2. GoodCall(c, call[c])'
        BY <1>6, <1>b, <2>1 DEF GoodCall, Miss, At, Locked, Answered
    <2> QED
        BY <1>6, <1>b, <2>2, OnlyMoved DEF Miss, Step, GoodCall, Locked, At
<1>7. ASSUME NEW c \in Callers, CoordinatorAnswers(c) PROVE CallsInv'
    <2>1. PICK s : s = TakeSnapshot(call[c].q)
        OBVIOUS
    <2>2. /\ call'[c].pc = "store" /\ call'[c].q = call[c].q /\ call'[c].now = call[c].now
          /\ call'[c].qi = s /\ call'[c].reply = call[c].reply
        BY <1>7, <1>b, <1>a, <2>1 DEF CoordinatorAnswers, Call, TypeOK
    <2>3. call[c].q \in Queries /\ clock \in Time /\ call[c].now <= clock
        BY <1>7, <1>a, <1>b DEF CoordinatorAnswers, GoodCall, At, TypeOK
    <2>4. Genuine(s, call[c].q)
        <3>1. s \in Snapshot /\ s.of = call[c].q /\ s.at = clock
              /\ s.state = coordinator[call[c].q].state
            BY <1>a, <2>1, <2>3 DEF TakeSnapshot, Snapshot, Known, TypeOK
        <3>2. coordinator[call[c].q].ended <= clock
            BY <2>3 DEF IndInv, CoordinatorInv
        <3> QED
            BY <2>3, <3>1, <3>2 DEF Genuine, Promise!Truthful, Snapshot, States, Time
    <2>5. call[c].now <= s.at
        BY <2>1, <2>3 DEF TakeSnapshot
    <2>6. GoodCall(c, call[c])'
        <3>1. Genuine(call[c].qi, call[c].q)'
            BY <1>c, <2>2, <2>4
        <3> QED
            BY <1>7, <1>b, <2>2, <2>3, <2>5, <3>1 DEF GoodCall, CoordinatorAnswers, At,
               Locked, Answered
    <2> QED
        BY <1>7, <2>6, OnlyMoved DEF CoordinatorAnswers, Step
<1>8. ASSUME NEW c \in Callers, FetchFails(c) PROVE CallsInv'
    <2>1. call'[c].pc = "done" /\ call'[c].reply = Error /\ call'[c].now = call[c].now
        BY <1>8, <1>b, <1>a DEF FetchFails, Respond, Call, TypeOK
    <2>2. GoodCall(c, call[c])'
        BY <1>8, <1>b, <2>1 DEF GoodCall, FetchFails, Locked, Answered, Error
    <2> QED
        BY <1>8, <2>2, OnlyMoved DEF FetchFails, Step
<1>9. ASSUME NEW c \in Callers, Store(c) PROVE CallsInv'
    <2>1. PICK s : s = call[c].qi
        OBVIOUS
    <2>2. /\ call'[c].pc = "done" /\ call'[c].q = call[c].q /\ call'[c].now = call[c].now
          /\ call'[c].reply = Answer(s, FALSE)
        BY <1>9, <1>b, <1>a, <2>1 DEF Store, Respond, Call, TypeOK
    <2>3. call[c].q \in Queries /\ Genuine(s, call[c].q) /\ call[c].now <= s.at
        BY <1>9, <1>b, <2>1 DEF Store, GoodCall, At, Answered
    <2>4. call[c].now < s.at + ttlFor(s)
        <3>1. s \in Snapshot /\ s.at \in Nat /\ call[c].now \in Nat
            BY <1>b, <2>3 DEF Genuine, Snapshot, Call, Time
        <3>2. ttlFor(s) \in Nat /\ ttlFor(s) > 0
            BY <3>1, LifetimePositive
        <3> QED
            BY <2>3, <3>1, <3>2
    <2>5. GoodCall(c, call[c])'
        <3>1. call'[c].reply.qi = s /\ clock' = clock /\ call[c].now <= clock
            BY <2>2, <1>9, <1>b DEF Answer, Store, GoodCall
        <3>2. Genuine(call[c].reply.qi, call[c].q)'
            BY <1>c, <2>2, <2>3, <3>1
        <3> QED
            BY <2>2, <2>3, <2>4, <3>1, <3>2 DEF GoodCall, Locked, Answered
    <2> QED
        BY <1>9, <1>b, <2>5, OnlyMoved DEF Store, Step, GoodCall, Locked, At
<1>10. ASSUME NEW c \in Callers, Return(c) PROVE CallsInv'
    <2>1. call'[c] = Idle
        BY <1>10, <1>a DEF Return, TypeOK
    <2>2. GoodCall(c, call[c])'
        BY <1>10, <1>a, <2>1 DEF GoodCall, Return, Idle, Locked, Answered, TypeOK, Time
    <2> QED
        BY <1>10, <2>2, OnlyMoved DEF Return, Step
<1> QED
    BY <1>1, <1>2, <1>3, <1>4, <1>5, <1>6, <1>7, <1>8, <1>9, <1>10 DEF Next, Step

\* Only Store writes the map, and what it writes is genuine and dies on time.
LEMMA CacheNext == IndInv /\ [Next]_vars => (EntriesGenuine /\ EntriesDieOnTime)'
<1> SUFFICES ASSUME IndInv, [Next]_vars PROVE (EntriesGenuine /\ EntriesDieOnTime)'
    OBVIOUS
<1>a. TypeOK /\ CallsInv /\ EntriesGenuine /\ EntriesDieOnTime
    BY DEF IndInv
<1>b. \A s, q : Genuine(s, q) => Genuine(s, q)'
    BY GenuineStays
<1>1. CASE UNCHANGED cache
    BY <1>1, <1>a, <1>b DEF EntriesGenuine, EntriesDieOnTime
<1>2. ASSUME NEW c \in Callers, Store(c) PROVE (EntriesGenuine /\ EntriesDieOnTime)'
    <2>1. GoodCall(c, call[c]) /\ call[c] \in Call /\ call[c].pc = "storeLocked"
        BY <1>2, <1>a DEF CallsInv, Store, At, TypeOK
    <2>2. PICK e : e = NewEntry(c)
        OBVIOUS
    <2>3. Genuine(e.qi, call[c].q) /\ call[c].now <= e.qi.at
        BY <2>1, <2>2 DEF NewEntry, GoodCall, Answered
    <2>4. e.qi.of = call[c].q /\ e.expires <= e.qi.at + ttlFor(e.qi)
        <3>1. e.qi \in Snapshot /\ e.qi.at \in Nat /\ call[c].now \in Nat
            BY <2>1, <2>3 DEF Genuine, Snapshot, Call, Time
        <3>2. ttlFor(e.qi) \in Nat
            BY <3>1, LifetimePositive
        <3> QED
            BY <2>2, <2>3, <3>1, <3>2 DEF NewEntry, Genuine
    <2>5. \A k \in DOMAIN cache' :
             \/ k = call[c].q /\ cache'[k] = e
             \/ k \in DOMAIN cache /\ cache'[k] = cache[k]
        BY <1>2, <2>2, RoomIsMadeByRemoval DEF Store
    <2>6. ASSUME NEW k \in DOMAIN cache' PROVE Genuine(cache[k].qi, k)'
        BY <1>a, <1>b, <2>3, <2>5 DEF EntriesGenuine
    <2>7. ASSUME NEW k \in DOMAIN cache'
          PROVE  cache'[k].qi.of = k /\ cache'[k].expires <= cache'[k].qi.at + ttlFor(cache'[k].qi)
        BY <1>a, <2>4, <2>5 DEF EntriesDieOnTime
    <2> QED
        BY <2>6, <2>7 DEF EntriesGenuine, EntriesDieOnTime
<1> QED
    BY <1>1, <1>2 DEF Next, World, Tick, Purge, QueryEnds, BeginWithoutID, Begin, Step,
       LockForLookup, LockForStore, Lock, Hit, Miss, CoordinatorAnswers, FetchFails,
       Return, vars

LEMMA CoordinatorNext == IndInv /\ [Next]_vars => CoordinatorInv'
<1> SUFFICES ASSUME IndInv, [Next]_vars, NEW q \in Queries
             PROVE  coordinator'[q].ended <= clock'
    BY DEF CoordinatorInv
<1>a. /\ coordinator \in [Queries -> Known] /\ coordinator[q].ended \in Nat
      /\ clock \in Nat /\ coordinator[q].ended <= clock
    BY DEF IndInv, TypeOK, CoordinatorInv, Known, Time
<1>1. CASE Tick
    BY <1>1, <1>a DEF Tick
<1>2. ASSUME NEW p \in Queries, Purge(p) PROVE coordinator'[q].ended <= clock'
    BY <1>2, <1>a DEF Purge, Known
<1>3. ASSUME NEW p \in Queries, NEW state \in Endings, QueryEnds(p, state)
      PROVE  coordinator'[q].ended <= clock'
    BY <1>3, <1>a DEF QueryEnds, Known
<1>4. CASE UNCHANGED <<clock, coordinator>>
    BY <1>4, <1>a
<1> QED
    BY <1>1, <1>2, <1>3, <1>4, CallerFrame DEF Next, World, vars

\* The inductive invariant of the cache holds in every reachable state.
THEOREM Invariance == Spec => []IndInv
<1>1. IndInv /\ [Next]_vars => IndInv'
    BY TypeNext, CallsNext, CacheNext, CoordinatorNext DEF IndInv
<1> QED
    BY InitIndInv, <1>1, PTL DEF Spec

\* The local variables of the calls, the map and the coordinator keep their types.
THEOREM TypeCorrectness == Spec => []TypeOK
<1>1. IndInv => TypeOK
    BY DEF IndInv
<1> QED
    BY Invariance, <1>1, PTL

\* No entry outlives the instant it was taken by more than its lifetime
\* (cache.go:54, 73, 77-83).
THEOREM EntriesOnTime == Spec => []EntriesDieOnTime
<1>1. IndInv => EntriesDieOnTime
    BY DEF IndInv
<1> QED
    BY Invariance, <1>1, PTL

\* Whatever the interleaving, a call that begins once a query has been over for
\* NonTerminalTTL is not told that it still runs (config.go:29-30).
THEOREM CatchUp == Spec => []EndedQueriesCatchUp
<1>1. IndInv => EndedQueriesCatchUp
    <2> SUFFICES ASSUME IndInv, NEW c \in Callers,
                        call[c].pc = "done", ~call[c].reply.err,
                        ~isTerminalState(call[c].reply.qi.state),
                        isTerminalState(coordinator[call[c].q].state)
                 PROVE  call[c].now < coordinator[call[c].q].ended + NonTerminalTTL
        BY DEF EndedQueriesCatchUp, At
    <2> DEFINE s == call[c].reply.qi
               q == call[c].q
    <2>1. q \in Queries /\ Genuine(s, q) /\ call[c].now < s.at + ttlFor(s)
        BY DEF IndInv, CallsInv, GoodCall
    <2>2. s.state = "RUNNING" /\ ttlFor(s) = NonTerminalTTL
        BY <2>1 DEF Genuine, Snapshot, States, isTerminalState, ttlFor
    <2>3. coordinator[q].state \in Endings /\ coordinator[q].ended \in Nat
        BY <2>1 DEF IndInv, TypeOK, Known, States, isTerminalState, Time
    <2>4. s.at <= coordinator[q].ended
        BY <2>1, <2>2, <2>3 DEF Genuine, Promise!Truthful
    <2>5. s.at \in Nat /\ call[c].now \in Nat /\ NonTerminalTTL \in Nat
        BY <2>1 DEF Genuine, Snapshot, Time, IndInv, TypeOK, Call, NonTerminalTTL
    <2> HIDE DEF s, q
    <2> QED
        BY <2>1, <2>2, <2>3, <2>4, <2>5 DEF q
<1> QED
    BY Invariance, <1>1, PTL

\* Room is made for one more key, provided the map was within its capacity.
LEMMA RoomForOne ==
    ASSUME IndInv, CacheBounded, NEW now, NEW kept \in MakeRoom(now)
    PROVE  IsFiniteSet(kept) /\ Cardinality(kept) \in Nat /\ Cardinality(kept) < Cap
<1> DEFINE D == DOMAIN cache
           F == Fresh(now)
<1>1. IsFiniteSet(D) /\ F \subseteq D /\ IsFiniteSet(F)
    BY QueriesAssumption, FS_Subset DEF IndInv, TypeOK, Fresh
<1>2. /\ Cardinality(D) \in Nat /\ Cardinality(F) \in Nat
      /\ Cardinality(F) <= Cardinality(D) /\ Cardinality(D) <= Cap /\ Cap \in Nat
    BY <1>1, FS_Subset, FS_CardinalityType DEF CacheBounded
<1>3. CASE kept = D /\ ~(Cardinality(D) >= Cap)
    BY <1>1, <1>2, <1>3
<1>4. CASE kept = F /\ Cardinality(F) < Cap
    BY <1>1, <1>2, <1>4
<1>5. ASSUME NEW k \in F, kept = F \ {k}
      PROVE  IsFiniteSet(kept) /\ Cardinality(kept) \in Nat /\ Cardinality(kept) < Cap
    <2>1. IsFiniteSet(kept) /\ Cardinality(kept) = Cardinality(F) - 1
        BY <1>1, <1>5, FS_RemoveElement
    <2>2. Cardinality(kept) \in Nat
        BY <2>1, FS_CardinalityType
    <2> HIDE DEF F, D
    <2> QED
        BY <1>2, <2>1, <2>2
<1> QED
    BY <1>3, <1>4, <1>5 DEF MakeRoom, evictOldestLocked, ClosestToExpiry

\* The map never holds more than Cap entries (cache.go:68-73), however many calls
\* missed together and store one after the other.
THEOREM Bounded == Spec => []CacheBounded
<1>1. Init => CacheBounded
    <2>1. Init => DOMAIN cache = {}
        BY DEF Init
    <2> QED
        BY <2>1, FS_EmptySet DEF CacheBounded
<1>2. IndInv /\ CacheBounded /\ [Next]_vars => CacheBounded'
    <2> SUFFICES ASSUME IndInv, CacheBounded, [Next]_vars PROVE CacheBounded'
        OBVIOUS
    <2>1. CASE UNCHANGED cache
        BY <2>1 DEF CacheBounded
    <2>2. ASSUME NEW c \in Callers, Store(c) PROVE CacheBounded'
        <3>1. PICK kept \in MakeRoom(call[c].now) : DOMAIN cache' = kept \union {call[c].q}
            BY <2>2 DEF Store
        <3>2. IsFiniteSet(kept) /\ Cardinality(kept) \in Nat /\ Cardinality(kept) < Cap
            BY RoomForOne
        <3>3. Cardinality(DOMAIN cache') <= Cardinality(kept) + 1
            BY <3>1, <3>2, FS_AddElement
        <3>4. Cardinality(DOMAIN cache') \in Nat
            <4>1. IsFiniteSet(DOMAIN cache')
                BY <3>1, <3>2, FS_AddElement
            <4> QED
                BY <4>1, FS_CardinalityType
        <3> QED
            BY <3>2, <3>3, <3>4 DEF CacheBounded
    <2> QED
        BY <2>1, <2>2 DEF Next, World, Tick, Purge, QueryEnds, BeginWithoutID, Begin, Step,
           LockForLookup, LockForStore, Lock, Hit, Miss, CoordinatorAnswers, FetchFails,
           Return, vars
<1> QED
    BY Invariance, <1>1, <1>2, PTL DEF Spec

\* Eviction never prefers an entry that still has time to live over one that
\* expires sooner, although its clock reading is stale (cache.go:100-122).
THEOREM EvictionOrder == Spec => EvictsClosestToExpiry
<1>1. IndInv /\ CacheBounded /\ [Next]_vars => [EvictionStep]_vars
    <2> SUFFICES ASSUME IndInv, CacheBounded, [Next]_vars PROVE EvictionStep
        OBVIOUS
    <2> DEFINE dropped == DOMAIN cache \ DOMAIN cache'
               live == {k \in dropped : clock < cache[k].expires}
    <2>1. CASE UNCHANGED cache
        <3>1. live = {}
            BY <2>1
        <3> QED
            BY <3>1, FS_EmptySet DEF EvictionStep
    <2>2. ASSUME NEW c \in Callers, Store(c) PROVE EvictionStep
        <3> DEFINE q == call[c].q
                   now == call[c].now
        <3>1. PICK kept \in MakeRoom(now) :
                 cache' = [k \in kept \union {q} |-> IF k = q THEN NewEntry(c) ELSE cache[k]]
            BY <2>2 DEF Store
        <3>2. now \in Nat /\ clock \in Nat /\ now <= clock
            BY DEF IndInv, TypeOK, Call, CallsInv, GoodCall, Time
        <3>3. \A k \in DOMAIN cache : cache[k].expires \in Nat
            BY DEF IndInv, TypeOK, Entry
        <3>4. NewEntry(c).expires \in Nat /\ NewEntry(c).expires > now
            <4>1. call[c].qi \in Snapshot
                BY <2>2 DEF Store, At, IndInv, CallsInv, GoodCall, Answered, Genuine
            <4> QED
                BY <4>1, <3>2, LifetimePositive DEF NewEntry
        <3>5. \A k \in DOMAIN cache \ Fresh(now) : cache[k].expires < now
            BY <3>2, <3>3 DEF Fresh
        <3>6. CASE kept = DOMAIN cache \/ kept = Fresh(now)
            <4>1. live = {}
                BY <3>1, <3>2, <3>3, <3>5, <3>6
            <4>2. Cardinality(live) = 0
                BY <4>1, FS_EmptySet, Zenon
            <4> QED
                BY <4>1, <4>2 DEF EvictionStep
        <3>7. ASSUME Cardinality(DOMAIN cache) >= Cap,
                     NEW k \in ClosestToExpiry(Fresh(now)), kept = Fresh(now) \ {k}
              PROVE  EvictionStep
            <4>1. live \subseteq {k}
                BY <3>1, <3>2, <3>3, <3>5, <3>7
            <4>2. live = {} \/ live = {k}
                BY <4>1
            <4>3. Cardinality(live) <= 1
                <5>1. Cardinality({}) = 0 /\ Cardinality({k}) = 1
                    BY FS_EmptySet, FS_Singleton, Zenon
                <5> HIDE DEF live
                <5> QED
                    BY <4>2, <5>1
            <4>4. Cardinality(DOMAIN cache) = Cap
                <5>1. Cardinality(DOMAIN cache) \in Nat
                    BY QueriesAssumption, FS_Subset, FS_CardinalityType DEF IndInv, TypeOK
                <5> QED
                    BY <5>1, <3>7 DEF CacheBounded
            <4>5. ASSUME k \in live, NEW other \in DOMAIN cache \ dropped,
                         cache'[other] = cache[other]
                  PROVE  cache[k].expires <= cache[other].expires
                <5>1. CASE other \in Fresh(now)
                    BY <5>1, <3>7 DEF ClosestToExpiry
                <5>2. CASE other \notin Fresh(now)
                    <6>1. other = q
                        BY <3>1, <3>7, <5>2
                    <6>2. cache'[other] = NewEntry(c)
                        BY <3>1, <6>1
                    <6> QED
                        BY <6>2, <3>2, <3>3, <3>4, <3>5, <4>5, <5>2
                <5> QED
                    BY <5>1, <5>2
            <4> QED
                BY <4>1, <4>3, <4>4, <4>5 DEF EvictionStep
        <3> QED
            BY <3>6, <3>7 DEF MakeRoom, evictOldestLocked
    <2> QED
        BY <2>1, <2>2 DEF Next, World, Tick, Purge, QueryEnds, BeginWithoutID, Begin, Step,
           LockForLookup, LockForStore, Lock, Hit, Miss, CoordinatorAnswers, FetchFails,
           Return, vars
<1> QED
    BY Invariance, Bounded, <1>1, PTL DEF Spec, EvictsClosestToExpiry

\* The caller's view of the one call that moved decides the abstract step.
LEMMA RequestFrame ==
    ASSUME IndInv, NEW c \in Callers, NEW v,
           BeginWithoutID(c) \/ Step(c) \/ \E q \in Queries : Begin(c, q),
           Seen(call'[c]) = v
    PROVE  /\ UNCHANGED <<clock, coordinator>>
           /\ Request' = [Request EXCEPT ![c] = v]
<1>1. UNCHANGED <<clock, coordinator>> /\ \A d \in Callers \ {c} : call'[d] = call[d]
    BY CallerFrame
<1>2. Request' = [d \in Callers |-> Seen(call'[d])]
    BY DEF Request
<1>3. \A d \in Callers : Seen(call'[d]) = IF d = c THEN v ELSE Request[d]
    BY <1>1 DEF Request
<1> QED
    BY <1>1, <1>2, <1>3 DEF Request

\* A reply that is not an error is one the abstract fetcher may serve.
LEMMA Servable ==
    ASSUME IndInv, IndInv', NEW c \in Callers, UNCHANGED <<clock, coordinator>>,
           call'[c].pc = "done", NEW s, NEW b \in BOOLEAN, call'[c].reply = Answer(s, b),
           call'[c].q = call[c].q, call'[c].now = call[c].now,
           Seen(call[c]).phase = "asked",
           Request' = [Request EXCEPT ![c] =
                          [phase |-> "answered", q |-> call[c].q, began |-> call[c].now,
                           answer |-> [err |-> FALSE, qi |-> s]]]
    PROVE  Promise!Next
<1>1. Genuine(s, call[c].q)' /\ call[c].now < s.at + ttlFor(s)
    BY DEF IndInv, CallsInv, GoodCall, Answer
<1>2. Genuine(s, call[c].q) /\ s \in Promise!Snapshots
    BY <1>1 DEF Genuine, Promise!Truthful, Snapshot, States, Promise!Snapshots, Time
<1>3. Promise!Lifetime(s) = ttlFor(s)
    BY <1>2 DEF Promise!Lifetime, ttlFor, isTerminalState, Genuine, Snapshot, States
<1>4. Request[c] = Seen(call[c]) /\ Seen(call[c]).q = call[c].q /\ Seen(call[c]).began = call[c].now
    BY DEF Request, Seen
<1>5. Promise!Serve(c, s)
    BY <1>1, <1>2, <1>3, <1>4 DEF Promise!Serve, Promise!Current, Genuine, Request
<1> QED
    BY <1>2, <1>5 DEF Promise!Next

\* An idle call is an absent request.
LEMMA IdleSeen == Seen(Idle) = Promise!None
BY DEF Seen, Phase, Idle, Error, NoSnapshot, Promise!None, Promise!Nothing

LEMMA StepRefines == IndInv /\ IndInv' /\ [Next]_vars => [Promise!Next]_(Promise!vars)
<1> SUFFICES ASSUME IndInv, IndInv', [Next]_vars PROVE [Promise!Next]_(Promise!vars)
    OBVIOUS
<1>a. /\ call \in [Callers -> Call]
      /\ \A c \in Callers : GoodCall(c, call[c]) /\ call[c] \in Call
      /\ \A q \in Queries : coordinator[q].state \in States
    BY DEF IndInv, TypeOK, CallsInv, Known
<1>b. \A state \in States : isTerminalState(state) <=> state \in Endings
    BY DEF States, isTerminalState
<1>c. \A c \in Callers : Request[c] = Seen(call[c])
    BY DEF Request
<1>1. CASE Tick
    BY <1>1 DEF Tick, Promise!Next, Promise!Tick, Request
<1>2. ASSUME NEW q \in Queries, Purge(q) PROVE Promise!Next
    <2>1. Promise!Purge(q)
        BY <1>2, <1>a, <1>b DEF Purge, Promise!Purge, Request
    <2> QED
        BY <2>1 DEF Promise!Next
<1>3. ASSUME NEW q \in Queries, NEW state \in Endings, QueryEnds(q, state) PROVE Promise!Next
    <2>1. Promise!QueryEnds(q, state)
        BY <1>3, <1>a, <1>b DEF QueryEnds, Promise!QueryEnds, Request, States
    <2> QED
        BY <2>1 DEF Promise!Next
<1>4. ASSUME NEW c \in Callers, BeginWithoutID(c) PROVE Promise!Next
    <2>1. call[c].pc = "idle" /\ call[c].reply = Error
        BY <1>4, <1>a DEF BeginWithoutID, At, GoodCall
    <2>2. /\ call'[c].pc = "done" /\ call'[c].q = call[c].q
          /\ call'[c].now = call[c].now /\ call'[c].reply = Error
        BY <1>4, <1>a DEF BeginWithoutID, Respond, Call
    <2>3. Seen(call[c]).phase = "none"
        BY <2>1 DEF Seen, Phase
    <2>4. Seen(call'[c]) = [Seen(call[c]) EXCEPT !.phase = "answered"]
        BY <2>1, <2>2 DEF Seen, Phase
    <2>5. Promise!Refuse(c)
        BY <1>4, <1>c, <2>3, <2>4, RequestFrame DEF Promise!Refuse, Request
    <2> QED
        BY <2>5 DEF Promise!Next
<1>5. ASSUME NEW c \in Callers, NEW q \in Queries, Begin(c, q) PROVE Promise!Next
    <2>1. /\ call[c].pc = "idle"
          /\ call'[c].pc = "lookup" /\ call'[c].q = q
          /\ call'[c].now = clock /\ call'[c].reply = Error
        BY <1>5, <1>a DEF Begin, At, Call, GoodCall
    <2>2. Seen(call[c]).phase = "none"
        BY <2>1 DEF Seen, Phase
    <2>3. Seen(call'[c]) = [phase |-> "asked", q |-> q, began |-> clock,
                               answer |-> Promise!Nothing]
        BY <2>1 DEF Seen, Phase, Error, NoSnapshot, Promise!Nothing
    <2>4. Promise!Ask(c, q)
        BY <1>5, <1>c, <2>2, <2>3, RequestFrame DEF Promise!Ask, Request
    <2> QED
        BY <2>4 DEF Promise!Next
<1>6. ASSUME NEW c \in Callers,
             LockForLookup(c) \/ LockForStore(c) \/ Miss(c) \/ CoordinatorAnswers(c)
      PROVE  UNCHANGED Promise!vars
    <2>1. /\ Phase(call'[c].pc) = Phase(call[c].pc) /\ call'[c].q = call[c].q
          /\ call'[c].now = call[c].now /\ call'[c].reply = call[c].reply
        BY <1>6, <1>a DEF LockForLookup, LockForStore, Lock, Miss, CoordinatorAnswers, Reach,
           At, Call, Phase
    <2>2. Seen(call'[c]) = Request[c]
        BY <1>c, <2>1 DEF Seen
    <2>3. UNCHANGED <<clock, coordinator>> /\ Request' = [Request EXCEPT ![c] = Request[c]]
        BY <1>6, <2>2, RequestFrame DEF Step
    <2>4. Request' = Request
        BY <2>3 DEF Request
    <2> QED
        BY <2>3, <2>4 DEF Promise!vars
<1>7. ASSUME NEW c \in Callers, FetchFails(c) PROVE Promise!Next
    <2>1. call[c].pc = "fetching" /\ call[c].reply = Error
        BY <1>7, <1>a DEF FetchFails, At, GoodCall
    <2>2. /\ call'[c].pc = "done" /\ call'[c].q = call[c].q
          /\ call'[c].now = call[c].now /\ call'[c].reply = Error
        BY <1>7, <1>a DEF FetchFails, Respond, Call
    <2>3. Seen(call[c]).phase = "asked"
        BY <2>1 DEF Seen, Phase
    <2>4. Seen(call'[c]) = [Seen(call[c]) EXCEPT !.phase = "answered"]
        BY <2>1, <2>2 DEF Seen, Phase
    <2>5. Promise!Fail(c)
        BY <1>7, <1>c, <2>3, <2>4, RequestFrame DEF Promise!Fail, Request, Step
    <2> QED
        BY <2>5 DEF Promise!Next
<1>8. ASSUME NEW c \in Callers, Hit(c) \/ Store(c) PROVE Promise!Next
    <2>1. PICK s : \E b \in BOOLEAN : Respond(c, Answer(s, b))
        BY <1>8 DEF Hit, Store
    <2>b. PICK b \in BOOLEAN : Respond(c, Answer(s, b))
        BY <2>1
    <2>2. /\ call'[c].pc = "done" /\ call'[c].q = call[c].q
          /\ call'[c].now = call[c].now /\ call'[c].reply = Answer(s, b)
        BY <1>a, <2>b DEF Respond, Call
    <2>3. Seen(call[c]).phase = "asked"
        BY <1>8 DEF Hit, Store, At, Seen, Phase
    <2>4. Seen(call'[c]) = [phase |-> "answered", q |-> call[c].q, began |-> call[c].now,
                               answer |-> [err |-> FALSE, qi |-> s]]
        BY <2>2 DEF Seen, Phase, Answer
    <2> QED
        BY <1>8, <2>2, <2>3, <2>4, RequestFrame, Servable DEF Step
<1>9. ASSUME NEW c \in Callers, Return(c) PROVE Promise!Next
    <2>1. call[c].pc = "done" /\ call'[c] = Idle
        BY <1>9, <1>a DEF Return, At
    <2>2. Seen(call[c]).phase = "answered"
        BY <2>1 DEF Seen, Phase
    <2>3. Seen(call'[c]) = Promise!None
        BY <2>1, IdleSeen
    <2>4. Promise!Finish(c)
        BY <1>9, <1>c, <2>2, <2>3, RequestFrame DEF Promise!Finish, Step, Request
    <2> QED
        BY <2>4 DEF Promise!Next
<1>10. CASE UNCHANGED vars
    BY <1>10 DEF vars, Promise!vars, Request
<1> QED
    BY <1>1, <1>2, <1>3, <1>4, <1>5, <1>6, <1>7, <1>8, <1>9, <1>10 DEF Next, World, Step

\* Every behaviour of the cache is a behaviour of the abstract fetcher: what a
\* caller gets is an error or a genuine snapshot of bounded age (cache.go:49-75).
THEOREM Refinement == Spec => ImplementsBoundedStaleness
<1>1. Init => Promise!Init
    <2> SUFFICES ASSUME Init PROVE Promise!Init
        OBVIOUS
    <2> QED
        BY IdleSeen DEF Init, Promise!Init, Request
<1> QED
    BY <1>1, Invariance, StepRefines, PTL DEF Spec, ImplementsBoundedStaleness, Promise!Spec
===============================================================================
