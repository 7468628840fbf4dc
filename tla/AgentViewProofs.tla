---------------------------- MODULE AgentViewProofs ----------------------------
(***************************************************************************)
(* Theorems about AgentView, for every number of callers and queries, any  *)
(* capacity and any lifetimes.                                             *)
(***************************************************************************)
EXTENDS AgentView, FetchCacheProofs

USE EndingsAssumption, NamesAssumption

\* A step of call c, in FetchCache's terms.
StepOf(c) == BeginWithoutID(c) \/ Step(c) \/ \E q \in Queries : Begin(c, q)

\* What the coordinator has ended stays ended, also when it is purged.
LEMMA EndsStay ==
    ASSUME IndInv, [Next]_vars, NEW q \in Queries, isTerminalState(coordinator[q].state)
    PROVE  isTerminalState(coordinator'[q].state)
<1>a. coordinator \in [Queries -> Known]
    BY DEF IndInv, TypeOK
<1>1. CASE UNCHANGED coordinator
    BY <1>1
<1>2. ASSUME NEW p \in Queries, Purge(p) PROVE isTerminalState(coordinator'[q].state)
    BY <1>2, <1>a DEF Purge, Known
<1>3. ASSUME NEW p \in Queries, NEW state \in Endings, QueryEnds(p, state)
      PROVE  isTerminalState(coordinator'[q].state)
    BY <1>3, <1>a DEF QueryEnds, Known, isTerminalState
<1>4. ASSUME NEW c \in Callers, StepOf(c) PROVE UNCHANGED coordinator
    BY <1>4, CallerFrame DEF StepOf
<1> QED
    BY <1>1, <1>2, <1>3, <1>4 DEF Next, World, StepOf, Tick, vars

\* A genuine terminal snapshot is of a query that has ended.
LEMMA EndsAreTrue ==
    ASSUME NEW s, NEW q, Genuine(s, q), isTerminalState(s.state)
    PROVE  isTerminalState(coordinator[q].state)
BY DEF Genuine, Promise!Truthful, isTerminalState

\* What has been heard of, or is held, has ended.
LEMMA OverHasEnded ==
    ASSUME IndInv, AgentInv, NEW q \in Queries, Heard(q) \/ HoldsEnd(q)
    PROVE  isTerminalState(coordinator[q].state)
<1>1. CASE q \in settled
    BY <1>1 DEF AgentInv
<1>2. ASSUME NEW c \in Callers, TellsEnd(c, q) PROVE isTerminalState(coordinator[q].state)
    <2>1. Genuine(call[c].reply.qi, q) /\ isTerminalState(call[c].reply.qi.state)
        BY <1>2 DEF TellsEnd, Ended, At, IndInv, CallsInv, GoodCall
    <2> QED
        BY <2>1, EndsAreTrue
<1>3. CASE HoldsEnd(q)
    <2>1. Genuine(cache[q].qi, q) /\ isTerminalState(cache[q].qi.state)
        BY <1>3 DEF HoldsEnd, IndInv, EntriesGenuine
    <2> QED
        BY <2>1, EndsAreTrue
<1> QED
    BY <1>1, <1>2, <1>3 DEF Heard

\* The agent learns nothing that was not on its way to it.
LEMMA LearntIsHeard ==
    ASSUME Remember, NEW q, q \in settled'
    PROVE  Heard(q)
BY DEF Remember, Learnt, Ending, Heard, TellsEnd

\* Nobody but the call that moved hears of anything new.
LEMMA HeardByMover ==
    ASSUME Remember, NEW c, \A d \in Callers \ {c} : call'[d] = call[d],
           NEW q, Heard(q)', ~(c \in Callers /\ TellsEnd(c, q)')
    PROVE  Heard(q)
<1>1. CASE q \in settled'
    BY <1>1, LearntIsHeard
<1>2. ASSUME NEW d \in Callers, TellsEnd(d, q)' PROVE Heard(q)
    <2>1. call'[d] = call[d]
        BY <1>2
    <2> QED
        BY <1>2, <2>1 DEF TellsEnd, Heard, At, Ended
<1> QED
    BY <1>1, <1>2 DEF Heard

\* A call that was informed stays where it was, or was informed when it began.
LEMMA OthersDoNotRegress ==
    ASSUME AgentInv, Remember, NEW d \in Callers, call'[d] = call[d], Regressed(d)'
    PROVE  call'[d].q \in overlapped'
<1>1. d \in informed
    <2>1. d \notin Starting
        BY DEF Starting, At, Regressed
    <2> QED
        BY <2>1 DEF Remember, Regressed, Starting
<1>2. Regressed(d)
    BY <1>1 DEF Regressed, At
<1> QED
    BY <1>2 DEF AgentInv, OnlyOverlapsRegress, Remember

\* A step that neither touches the cache nor answers its caller, and whose snapshot,
\* if it has one, is no older than what is known.
LEMMA QuietStep ==
    ASSUME AgentInv, Remember, NEW c,
           \A d \in Callers \ {c} : call'[d] = call[d],
           UNCHANGED cache,
           c \in Callers =>
              /\ call'[c].pc = "done" => call'[c].reply.err
              /\ call'[c].pc \in Answered =>
                    \/ isTerminalState(call'[c].qi.state)
                    \/ ~(Heard(call'[c].q) \/ HoldsEnd(call'[c].q))
                    \/ call'[c].q \in overlapped
    PROVE  (\A q \in Queries \ overlapped' : Monotone(q)') /\ OnlyOverlapsRegress'
<1>1. ASSUME NEW q \in Queries \ overlapped' PROVE Monotone(q)'
    <2>1. q \notin overlapped /\ Monotone(q)
        BY DEF Remember, AgentInv
    <2>2. Heard(q)' => Heard(q)
        BY HeardByMover DEF TellsEnd, Ended, At
    <2>3. HoldsEnd(q)' <=> HoldsEnd(q)
        BY DEF HoldsEnd
    <2>4. ASSUME Heard(q)' \/ HoldsEnd(q)',
                 NEW d \in Callers, call'[d].q = q, call'[d].pc \in Answered
          PROVE  isTerminalState(call'[d].qi.state)
        <3>1. Heard(q) \/ HoldsEnd(q)
            BY <2>2, <2>3, <2>4
        <3>2. CASE d # c
            BY <2>1, <2>4, <3>1, <3>2 DEF Monotone
        <3>3. CASE d = c
            BY <2>1, <2>4, <3>1, <3>3
        <3> QED
            BY <3>2, <3>3
    <2>5. (Heard(q)' /\ q \in DOMAIN cache') => HoldsEnd(q)'
        BY <2>1, <2>2, <2>3 DEF Monotone
    <2> QED
        BY <2>4, <2>5 DEF Monotone
<1>2. ASSUME NEW d \in Callers, Regressed(d)' PROVE call'[d].q \in overlapped'
    <2>1. d # c
        BY <1>2 DEF Regressed, At
    <2> QED
        BY <1>2, <2>1, OthersDoNotRegress
<1> QED
    BY <1>1, <1>2 DEF OnlyOverlapsRegress

\* A hit tells what the cache holds.
LEMMA HitIsMonotone ==
    ASSUME IndInv, AgentInv, Remember, [Next]_vars, NEW c \in Callers, Hit(c)
    PROVE  (\A q \in Queries \ overlapped' : Monotone(q)') /\ OnlyOverlapsRegress'
<1>a. call \in [Callers -> Call] /\ \A d \in Callers \ {c} : call'[d] = call[d]
    BY CallerFrame DEF Step, IndInv, TypeOK
<1>b. PICK p : p = call[c].q
    OBVIOUS
<1>c. PICK s : s = cache[p].qi
    OBVIOUS
<1>1. /\ call'[c].pc = "done" /\ call'[c].q = p /\ call'[c].reply = Answer(s, TRUE)
      /\ p \in DOMAIN cache /\ cache' = cache /\ p \in Queries
      /\ call[c].pc = "lookupLocked"
    BY <1>a, <1>b, <1>c DEF Hit, Respond, Call, Usable, At, IndInv, TypeOK
<1>2. Ended(call'[c].reply) => HoldsEnd(p)
    BY <1>1, <1>c DEF Ended, Answer, HoldsEnd
<1>3. ASSUME NEW q \in Queries \ overlapped' PROVE Monotone(q)'
    <2>1. Monotone(q)
        BY DEF Remember, AgentInv
    <2>2. TellsEnd(c, q)' => HoldsEnd(q)
        BY <1>1, <1>2 DEF TellsEnd
    <2>3. Heard(q)' => Heard(q) \/ HoldsEnd(q)
        BY <1>a, <2>2, HeardByMover
    <2>4. HoldsEnd(q)' <=> HoldsEnd(q)
        BY <1>1 DEF HoldsEnd
    <2>5. ASSUME Heard(q)' \/ HoldsEnd(q)',
                 NEW d \in Callers, call'[d].q = q, call'[d].pc \in Answered
          PROVE  isTerminalState(call'[d].qi.state)
        <3>1. d # c
            BY <1>1, <2>5 DEF Answered
        <3> QED
            BY <1>a, <2>1, <2>3, <2>4, <2>5, <3>1 DEF Monotone
    <2>6. (Heard(q)' /\ q \in DOMAIN cache') => HoldsEnd(q)'
        BY <1>1, <2>1, <2>3, <2>4 DEF Monotone
    <2> QED
        BY <2>5, <2>6 DEF Monotone
<1>4. ASSUME NEW d \in Callers, Regressed(d)' PROVE call'[d].q \in overlapped'
    <2>1. CASE d # c
        BY <1>4, <1>a, <2>1, OthersDoNotRegress
    <2>2. CASE d = c
        <3>1. c \in informed
            BY <1>1, <1>4, <2>2 DEF Regressed, Remember, Starting
        <3>2. Heard(p)
            BY <1>b, <3>1 DEF AgentInv, Heard
        <3>3. ~HoldsEnd(p)
            BY <1>1, <1>c, <1>4, <2>2 DEF Regressed, Answer, HoldsEnd
        <3>4. p \in overlapped
            BY <1>1, <3>2, <3>3 DEF AgentInv, Monotone
        <3> QED
            BY <1>1, <2>2, <3>4 DEF Remember
    <2> QED
        BY <2>1, <2>2
<1> QED
    BY <1>3, <1>4 DEF OnlyOverlapsRegress

\* A fetch that nobody overlapped stores the newest there is.
LEMMA StoreIsMonotone ==
    ASSUME IndInv, AgentInv, Remember, [Next]_vars, NEW c \in Callers, Store(c)
    PROVE  (\A q \in Queries \ overlapped' : Monotone(q)') /\ OnlyOverlapsRegress'
<1>a. call \in [Callers -> Call] /\ \A d \in Callers \ {c} : call'[d] = call[d]
    BY CallerFrame DEF Step, IndInv, TypeOK
<1>b. PICK p : p = call[c].q
    OBVIOUS
<1>c. PICK s : s = call[c].qi
    OBVIOUS
<1>1. /\ call'[c].pc = "done" /\ call'[c].q = p /\ call'[c].reply = Answer(s, FALSE)
      /\ call[c].pc = "storeLocked"
    BY <1>a, <1>b, <1>c DEF Store, Respond, Call, At
<1>2. p \in Queries
    BY <1>1, <1>b DEF IndInv, CallsInv, GoodCall
<1>3. PICK kept \in MakeRoom(call[c].now) :
         cache' = [k \in kept \union {p} |-> IF k = p THEN NewEntry(c) ELSE cache[k]]
    BY <1>b DEF Store
<1>4. kept \subseteq DOMAIN cache
    BY RoomIsMadeByRemoval
<1>5. p \in DOMAIN cache' /\ cache'[p].qi = s
    BY <1>3, <1>c DEF NewEntry
<1>6. ASSUME NEW q \in Queries, q # p, q \in DOMAIN cache'
      PROVE  q \in DOMAIN cache /\ cache'[q] = cache[q]
    BY <1>3, <1>4, <1>6
<1>7. p \notin overlapped /\ Heard(p) => isTerminalState(s.state)
    BY <1>1, <1>2, <1>b, <1>c DEF AgentInv, Monotone, Answered
<1>8. ASSUME NEW q \in Queries \ overlapped' PROVE Monotone(q)'
    <2>1. Monotone(q) /\ ~Overlapping(q) /\ q \notin overlapped
        BY DEF Remember, AgentInv
    <2>2. CASE q # p
        <3>1. Heard(q)' => Heard(q)
            BY <1>a, <1>1, <2>2, HeardByMover DEF TellsEnd
        <3>2. HoldsEnd(q)' => HoldsEnd(q)
            BY <1>6, <2>2 DEF HoldsEnd
        <3>3. ASSUME Heard(q)' \/ HoldsEnd(q)',
                     NEW d \in Callers, call'[d].q = q, call'[d].pc \in Answered
              PROVE  isTerminalState(call'[d].qi.state)
            <4>1. d # c
                BY <1>1, <3>3 DEF Answered
            <4> QED
                BY <1>a, <2>1, <3>1, <3>2, <3>3, <4>1 DEF Monotone
        <3>4. (Heard(q)' /\ q \in DOMAIN cache') => HoldsEnd(q)'
            BY <1>6, <2>1, <2>2, <3>1 DEF Monotone, HoldsEnd
        <3> QED
            BY <3>3, <3>4 DEF Monotone
    <2>3. CASE q = p
        <3>1. ASSUME NEW d \in Callers, call'[d].q = q, call'[d].pc \in Answered
              PROVE  FALSE
            <4>1. d # c
                BY <1>1, <3>1 DEF Answered
            <4>2. UnderWay(call[c], q) /\ UnderWay(call[d], q)
                BY <1>a, <1>b, <1>1, <2>3, <3>1, <4>1 DEF UnderWay, Answered
            <4> QED
                BY <2>1, <4>1, <4>2 DEF Overlapping
        <3>2. TellsEnd(c, q)' => isTerminalState(s.state)
            BY <1>1 DEF TellsEnd, Ended, Answer
        <3>3. Heard(q)' => isTerminalState(s.state)
            BY <1>a, <1>7, <2>1, <2>3, <3>2, HeardByMover
        <3>4. (Heard(q)' /\ q \in DOMAIN cache') => HoldsEnd(q)'
            BY <1>5, <2>3, <3>3 DEF HoldsEnd
        <3> QED
            BY <3>1, <3>4 DEF Monotone
    <2> QED
        BY <2>2, <2>3
<1>9. ASSUME NEW d \in Callers, Regressed(d)' PROVE call'[d].q \in overlapped'
    <2>1. CASE d # c
        BY <1>9, <1>a, <2>1, OthersDoNotRegress
    <2>2. CASE d = c
        <3>1. c \in informed
            BY <1>1, <1>9, <2>2 DEF Regressed, Remember, Starting
        <3>2. Heard(p)
            BY <1>b, <3>1 DEF AgentInv, Heard
        <3>3. ~isTerminalState(s.state)
            BY <1>1, <1>9, <2>2 DEF Regressed, Answer
        <3>4. p \in overlapped
            BY <1>7, <3>2, <3>3
        <3> QED
            BY <1>1, <2>2, <3>4 DEF Remember
    <2> QED
        BY <2>1, <2>2
<1> QED
    BY <1>8, <1>9 DEF OnlyOverlapsRegress

\* Whatever step is taken, answers stay monotone where no fetches overlapped.
LEMMA StepIsMonotone ==
    ASSUME IndInv, AgentInv, Remember, [Next]_vars
    PROVE  (\A q \in Queries \ overlapped' : Monotone(q)') /\ OnlyOverlapsRegress'
<1>a. call \in [Callers -> Call] /\ \A c \in Callers : GoodCall(c, call[c])
    BY DEF IndInv, TypeOK, CallsInv
<1>f. ASSUME NEW c \in Callers, StepOf(c) PROVE \A d \in Callers \ {c} : call'[d] = call[d]
    BY <1>f, CallerFrame DEF StepOf
<1>1. CASE World \/ UNCHANGED vars
    <2>1. UNCHANGED <<call, cache>>
        BY <1>1 DEF World, Tick, Purge, QueryEnds, vars
    <2>2. NoOne \notin Callers
        BY NamesAssumption
    <2> QED
        BY <2>1, <2>2, QuietStep
<1>2. ASSUME NEW c \in Callers, BeginWithoutID(c) \/ FetchFails(c)
      PROVE  (\A q \in Queries \ overlapped' : Monotone(q)') /\ OnlyOverlapsRegress'
    <2>1. UNCHANGED cache /\ call'[c].pc = "done" /\ call'[c].reply = Error
        BY <1>2, <1>a DEF BeginWithoutID, FetchFails, Respond, Call
    <2>2. StepOf(c)
        BY <1>2 DEF StepOf, Step
    <2> QED
        BY <1>f, <2>1, <2>2, QuietStep DEF Error, Answered
<1>3. ASSUME NEW c \in Callers,
             LockForLookup(c) \/ Miss(c) \/ Return(c) \/ \E q \in Queries : Begin(c, q)
      PROVE  (\A q \in Queries \ overlapped' : Monotone(q)') /\ OnlyOverlapsRegress'
    <2>1. UNCHANGED cache /\ call'[c].pc \in {"lookupLocked", "fetching", "idle", "lookup"}
        <3>1. CASE LockForLookup(c) \/ Miss(c)
            BY <3>1, <1>a DEF LockForLookup, Lock, Miss, Reach, Call
        <3>2. CASE Return(c)
            BY <3>2, <1>a DEF Return, Idle
        <3>3. ASSUME NEW q \in Queries, Begin(c, q) PROVE UNCHANGED cache /\ call'[c].pc = "lookup"
            BY <3>3, <1>a DEF Begin, Call
        <3> QED
            BY <1>3, <3>1, <3>2, <3>3
    <2>2. StepOf(c)
        BY <1>3 DEF StepOf, Step
    <2> QED
        BY <1>f, <2>1, <2>2, QuietStep DEF Answered
<1>4. ASSUME NEW c \in Callers, LockForStore(c)
      PROVE  (\A q \in Queries \ overlapped' : Monotone(q)') /\ OnlyOverlapsRegress'
    <2>1. /\ UNCHANGED cache /\ call[c].pc = "store" /\ call'[c].pc = "storeLocked"
          /\ call'[c].q = call[c].q /\ call'[c].qi = call[c].qi
        BY <1>4, <1>a DEF LockForStore, Lock, Reach, At, Call
    <2>2. call[c].q \in Queries
        BY <1>a, <2>1 DEF GoodCall
    <2>3. \/ isTerminalState(call[c].qi.state)
          \/ ~(Heard(call[c].q) \/ HoldsEnd(call[c].q))
          \/ call[c].q \in overlapped
        BY <2>1, <2>2 DEF AgentInv, Monotone, Answered
    <2>4. StepOf(c)
        BY <1>4 DEF StepOf, Step
    <2> QED
        BY <1>f, <2>1, <2>3, <2>4, QuietStep
<1>5. ASSUME NEW c \in Callers, CoordinatorAnswers(c)
      PROVE  (\A q \in Queries \ overlapped' : Monotone(q)') /\ OnlyOverlapsRegress'
    <2>1. /\ UNCHANGED cache /\ call[c].pc = "fetching" /\ call'[c].pc = "store"
          /\ call'[c].q = call[c].q /\ call'[c].qi.state = coordinator[call[c].q].state
        BY <1>5, <1>a DEF CoordinatorAnswers, TakeSnapshot, At, Call
    <2>2. call[c].q \in Queries
        BY <1>a, <2>1 DEF GoodCall
    <2>3. \/ isTerminalState(call'[c].qi.state)
          \/ ~(Heard(call'[c].q) \/ HoldsEnd(call'[c].q))
        BY <2>1, <2>2, OverHasEnded
    <2>4. StepOf(c)
        BY <1>5 DEF StepOf, Step
    <2> QED
        BY <1>f, <2>1, <2>3, <2>4, QuietStep
<1> QED
    BY <1>1, <1>2, <1>3, <1>4, <1>5, HitIsMonotone, StoreIsMonotone DEF Next, Step

\* A call keeps its query until it has returned.
LEMMA CallsKeepTheirQuery ==
    ASSUME IndInv, [Next]_vars, NEW c \in Callers, call[c].pc # "idle"
    PROVE  \/ call'[c].pc # "idle" /\ call'[c].q = call[c].q
           \/ call[c].pc = "done" /\ call'[c].pc = "idle"
<1>a. call \in [Callers -> Call]
    BY DEF IndInv, TypeOK
<1>1. CASE UNCHANGED call
    BY <1>1
<1>2. ASSUME NEW d \in Callers, StepOf(d), d # c PROVE call'[c] = call[c]
    BY <1>2, CallerFrame DEF StepOf
<1>3. CASE \/ LockForLookup(c) \/ LockForStore(c) \/ Miss(c)
           \/ CoordinatorAnswers(c) \/ FetchFails(c) \/ Hit(c) \/ Store(c)
    <2>1. CASE LockForLookup(c) \/ LockForStore(c) \/ Miss(c)
        BY <2>1, <1>a DEF LockForLookup, LockForStore, Lock, Miss, Reach, Call
    <2>2. CASE CoordinatorAnswers(c)
        BY <2>2, <1>a DEF CoordinatorAnswers, Call
    <2>3. CASE FetchFails(c) \/ Hit(c) \/ Store(c)
        <3>1. PICK reply : Respond(c, reply)
            BY <2>3 DEF FetchFails, Hit, Store
        <3> QED
            BY <3>1, <1>a DEF Respond, Call
    <2> QED
        BY <1>3, <2>1, <2>2, <2>3
<1>4. CASE Return(c)
    BY <1>4, <1>a DEF Return, At, Idle
<1>5. CASE BeginWithoutID(c) \/ \E q \in Queries : Begin(c, q)
    BY <1>5 DEF BeginWithoutID, Begin, At
<1>6. CASE World \/ UNCHANGED vars
    BY <1>6, <1>1 DEF World, Tick, Purge, QueryEnds, vars
<1> QED
    BY <1>2, <1>3, <1>4, <1>5, <1>6 DEF Next, Step, StepOf

LEMMA AgentInvInit == AgentInit => AgentInv
<1> SUFFICES ASSUME AgentInit PROVE AgentInv
    OBVIOUS
<1>1. \A c \in Callers : call[c] = Idle
    BY DEF AgentInit, Init
<1>2. ASSUME NEW q \in Queries PROVE ~Overlapping(q) /\ Monotone(q)
    BY <1>1 DEF Overlapping, UnderWay, Monotone, Heard, HoldsEnd, TellsEnd, At, Idle, Answered,
       AgentInit, Init
<1> QED
    BY <1>1, <1>2 DEF AgentInv, AgentInit, OnlyOverlapsRegress, Regressed

LEMMA AgentInvNext == IndInv /\ AgentInv /\ [AgentNext]_agentVars => AgentInv'
<1> SUFFICES ASSUME IndInv, AgentInv, [AgentNext]_agentVars PROVE AgentInv'
    OBVIOUS
<1>1. CASE UNCHANGED agentVars
    BY <1>1 DEF agentVars, vars, AgentInv, Overlapping, UnderWay, Monotone, Heard, HoldsEnd,
       TellsEnd, At, OnlyOverlapsRegress, Regressed, Ended
<1>2. CASE AgentNext
    <2>a. Remember /\ [Next]_vars
        BY <1>2 DEF AgentNext
    <2>1. ASSUME NEW q \in settled' PROVE q \in Queries /\ isTerminalState(coordinator'[q].state)
        <3>1. Heard(q)
            BY <2>a, LearntIsHeard
        <3>2. q \in Queries
            BY <3>1 DEF Heard, TellsEnd, Ended, At, AgentInv, IndInv, CallsInv, GoodCall
        <3> QED
            BY <2>a, <3>1, <3>2, OverHasEnded, EndsStay
    <2>2. informed' \subseteq Callers
        BY <2>a DEF Remember, Starting, AgentInv
    <2>3. \A q \in Queries : Overlapping(q)' => q \in overlapped'
        BY <2>a DEF Remember
    <2>4. ASSUME NEW c \in informed' PROVE ~At(c, "idle")' /\ call'[c].q \in settled'
        <3>1. CASE c \in Starting /\ call'[c].q \in settled
            BY <2>a, <3>1 DEF Starting, At, Remember
        <3>2. CASE c \in informed \ Ending
            <4>1. c \in Callers /\ call[c].pc # "idle" /\ call[c].q \in settled
                BY <3>2 DEF AgentInv, At
            <4>2. call'[c].pc # "idle" /\ call'[c].q = call[c].q
                BY <2>a, <3>2, <4>1, CallsKeepTheirQuery DEF Ending, At
            <4> QED
                BY <2>a, <4>1, <4>2 DEF Remember, At
        <3> QED
            BY <2>a, <3>1, <3>2 DEF Remember
    <2>5. (\A q \in Queries \ overlapped' : Monotone(q)') /\ OnlyOverlapsRegress'
        BY <2>a, StepIsMonotone
    <2> QED
        BY <2>1, <2>2, <2>3, <2>4, <2>5 DEF AgentInv
<1> QED
    BY <1>1, <1>2

\* Whatever else is concurrent, evicted, expired or failed, an agent that knows a query
\* has ended is told otherwise only after two fetches of it overlapped: the store that
\* does not look at what it overwrites (cache.go:67-73) is the one way back.
THEOREM Regression == AgentSpec => []OnlyOverlapsRegress
<1>1. AgentInit => Init
    BY DEF AgentInit
<1>2. [AgentNext]_agentVars => [Next]_vars
    BY DEF AgentNext, agentVars
<1>3. AgentSpec => Spec
    BY <1>1, <1>2, PTL DEF AgentSpec, Spec
<1>4. AgentInv => OnlyOverlapsRegress
    BY DEF AgentInv
<1> QED
    BY <1>3, <1>4, Invariance, AgentInvInit, AgentInvNext, PTL DEF AgentSpec
================================================================================
