---------------------------- MODULE InventoryProofs ----------------------------
(***************************************************************************)
(* Theorems about Inventory, for every set of tools and toolsets and every *)
(* history of selections.                                                  *)
(***************************************************************************)
EXTENDS Inventory, SequenceTheorems, TLAPS

USE ToolsAssumption, ToolsetsAssumption

\* In every state the server offers exactly what Build makes of the selection in
\* force: nothing of an earlier selection survives a restart (inventory.go:103-200).
AsSelected ==
    /\ builder \in Builder
    /\ inventory = Build(builder)
    /\ offered = RegisterAll(Build(builder))

\* "all" is resolved: it is never enabled as a toolset (inventory.go:114-132).
LEMMA AllIsResolved ==
    ASSUME NEW b \in Builder
    PROVE  enabledToolsets(b) \subseteq ToolsetIDs \ {"all"}
<1>1. \A i \in DOMAIN b.toolsets : b.toolsets[i] \in ToolsetIDs
    BY DEF Builder
<1>2. \A i \in DOMAIN b.toolsets : i \in 1 .. i
    BY DEF Builder
<1>3. BeforeAll(b.toolsets) \subseteq ToolsetIDs \ {"all"}
    BY <1>1, <1>2 DEF BeforeAll
<1> QED
    BY <1>3 DEF enabledToolsets

\* A list of toolsets of a bounded length, as a builder holds it.
LEMMA ListsAreSelections ==
    ASSUME NEW n \in 0 .. MaxToolsets, NEW ids \in [1 .. n -> ToolsetIDs]
    PROVE  ids \in UNION {[1 .. m -> ToolsetIDs] : m \in 0 .. MaxToolsets}
OBVIOUS

LEMMA NoToolset == << >> \in UNION {[1 .. n -> ToolsetIDs] : n \in 0 .. MaxToolsets}
<1>1. 0 \in 0 .. MaxToolsets /\ << >> \in [1 .. 0 -> ToolsetIDs]
    OBVIOUS
<1> QED
    BY <1>1, ListsAreSelections

\* One more toolset is named while there is room.
LEMMA OneMoreToolset ==
    ASSUME NEW b \in Builder, NEW id \in ToolsetIDs, Len(b.toolsets) < MaxToolsets
    PROVE  [b EXCEPT !.toolsets = Append(@, id)] \in Builder
<1>1. PICK n \in 0 .. MaxToolsets : b.toolsets \in [1 .. n -> ToolsetIDs]
    BY DEF Builder
<1>2. b.toolsets \in Seq(ToolsetIDs) /\ Len(b.toolsets) = n
    BY <1>1
<1>3. n + 1 \in 0 .. MaxToolsets /\ Append(b.toolsets, id) \in [1 .. n + 1 -> ToolsetIDs]
    <2>1. n \in Nat /\ n < MaxToolsets
        BY <1>2
    <2>2. n + 1 \in 0 .. MaxToolsets
        BY <2>1
    <2>3. /\ Append(b.toolsets, id) \in Seq(ToolsetIDs)
          /\ Len(Append(b.toolsets, id)) = n + 1
        BY <1>2, AppendProperties
    <2> QED
        BY <2>2, <2>3, LenProperties
<1>4. Append(b.toolsets, id) \in UNION {[1 .. m -> ToolsetIDs] : m \in 0 .. MaxToolsets}
    BY <1>3, ListsAreSelections
<1> QED
    BY <1>4 DEF Builder

LEMMA SelectedInit == Init => AsSelected
<1>1. DefaultBuilder \in Builder
    BY NoToolset DEF DefaultBuilder, Builder
<1> QED
    BY <1>1 DEF Init, AsSelected

LEMMA SelectedNext == AsSelected /\ [Next]_vars => AsSelected'
<1> SUFFICES ASSUME AsSelected, [Next]_vars PROVE AsSelected'
    OBVIOUS
<1>a. builder \in Builder
    BY DEF AsSelected
<1>s. ASSUME NEW b \in Builder, Start(b) PROVE AsSelected'
    BY <1>s DEF Start, AsSelected
<1>1. ASSUME NEW id \in ToolsetIDs, NameToolset(id) PROVE AsSelected'
    BY <1>1, <1>a, <1>s, OneMoreToolset DEF NameToolset
<1>2. CASE UseDefaultToolsets
    <2>1. [builder EXCEPT !.toolsets = << >>] \in Builder
        BY <1>a, NoToolset DEF Builder
    <2> QED
        BY <1>2, <2>1, <1>s DEF UseDefaultToolsets
<1>3. ASSUME NEW name \in Names, OptIn(name) \/ OptOut(name) PROVE AsSelected'
    <2>1. /\ [builder EXCEPT !.tools = @ \union {name}] \in Builder
          /\ [builder EXCEPT !.tools = @ \ {name}] \in Builder
        BY <1>a DEF Builder
    <2> QED
        BY <1>3, <2>1, <1>s DEF OptIn, OptOut
<1>4. ASSUME NEW name \in Names, Exclude(name) \/ Readmit(name) PROVE AsSelected'
    <2>1. /\ [builder EXCEPT !.exclude = @ \union {name}] \in Builder
          /\ [builder EXCEPT !.exclude = @ \ {name}] \in Builder
        BY <1>a DEF Builder
    <2> QED
        BY <1>4, <2>1, <1>s DEF Exclude, Readmit
<1>5. CASE ToggleReadOnly
    <2>1. [builder EXCEPT !.readOnly = ~@] \in Builder
        BY <1>a DEF Builder
    <2> QED
        BY <1>5, <2>1, <1>s DEF ToggleReadOnly
<1>6. CASE UNCHANGED vars
    BY <1>6 DEF vars, AsSelected
<1> QED
    BY <1>1, <1>2, <1>3, <1>4, <1>5, <1>6 DEF Next

\* What is offered is a function of the selection in force, after any sequence of
\* edits and restarts (inventory.go:103-200).
THEOREM Rebuilt == Spec => []AsSelected
BY SelectedInit, SelectedNext, PTL DEF Spec

\* An offered tool is one that passes the filters.
LEMMA OfferedIsKept ==
    ASSUME AsSelected
    PROVE  offered = {t.name : t \in {u \in Tools : Kept(builder, u) /\ u.handled}}
BY DEF AsSelected, RegisterAll, Build, filtered

\* Types, and "all" never becomes a toolset (inventory.go:114-132).
THEOREM TypeCorrectness == Spec => []TypeOK
<1>1. AsSelected => TypeOK
    <2> SUFFICES ASSUME AsSelected PROVE TypeOK
        OBVIOUS
    <2>1. builder \in Builder
        BY DEF AsSelected
    <2>2. enabledToolsets(builder) \subseteq ToolsetIDs \ {"all"}
        BY <2>1, AllIsResolved
    <2>3. inventory.tools \subseteq Tools
        BY DEF AsSelected, Build, filtered
    <2>4. inventory.enabledToolsets = enabledToolsets(builder)
        BY DEF AsSelected, Build
    <2>5. offered \subseteq Names
        BY OfferedIsKept DEF Names
    <2> QED
        BY <2>1, <2>2, <2>3, <2>4, <2>5 DEF TypeOK
<1> QED
    BY <1>1, Rebuilt, PTL

\* No toolset, "all" or opt-in brings back what is excluded, or what a read-only
\* server does not offer: a name stands for one tool (config.go:22-24).
THEOREM Filters == Spec => []FiltersAreFinal
<1>1. AsSelected => FiltersAreFinal
    <2> SUFFICES ASSUME AsSelected, NEW t \in Tools, t.name \in offered
                 PROVE  t.name \notin builder.exclude /\ (builder.readOnly => t.readOnly)
        BY DEF FiltersAreFinal
    <2>1. PICK u \in Tools : Kept(builder, u) /\ u.name = t.name
        BY OfferedIsKept
    <2>2. u = t
        BY <2>1, NamesAssumption
    <2> QED
        BY <2>1, <2>2 DEF Kept
<1> QED
    BY <1>1, Rebuilt, PTL

\* Instructions come with a tool of their toolset (inventory.go:162-188).
THEOREM Instructed == Spec => []InstructionsHaveTools
<1>1. AsSelected => InstructionsHaveTools
    <2> SUFFICES ASSUME AsSelected, NEW id \in inventory.instructions
                 PROVE  \E t \in Tools : t.toolset = id /\ t.name \in offered
        BY DEF InstructionsHaveTools
    <2>1. PICK t \in Tools : Kept(builder, t) /\ t.instructs /\ t.toolset = id
        BY DEF AsSelected, Build, Instructive, filtered
    <2>2. t.handled
        BY <2>1, HandlersAssumption
    <2>3. t.name \in offered
        BY <2>1, <2>2, OfferedIsKept
    <2> QED
        BY <2>1, <2>3
<1> QED
    BY <1>1, Rebuilt, PTL

\* Naming one more tool never takes one away, whatever the rest of the selection is
\* (config.go:22).
THEOREM OptingIn == Spec => OptInsOnlyAdd
<1>1. AsSelected /\ AsSelected' => [SameButForOptIns => offered \subseteq offered']_vars
    <2> SUFFICES ASSUME AsSelected, AsSelected', SameButForOptIns, NEW name \in offered
                 PROVE  name \in offered'
        OBVIOUS
    <2>1. PICK t \in Tools : Kept(builder, t) /\ t.handled /\ t.name = name
        BY OfferedIsKept
    <2>2. enabledToolsets(builder') = enabledToolsets(builder)
        BY DEF SameButForOptIns, enabledToolsets, BeforeAll
    <2>3. Kept(builder', t)
        BY <2>1, <2>2 DEF SameButForOptIns, Kept
    <2>4. offered' = RegisterAll(Build(builder'))
        BY DEF AsSelected
    <2> QED
        BY <2>1, <2>3, <2>4 DEF RegisterAll, Build, filtered
<1> QED
    BY <1>1, Rebuilt, PTL DEF OptInsOnlyAdd
================================================================================
