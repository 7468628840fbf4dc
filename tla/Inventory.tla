------------------------------- MODULE Inventory -------------------------------
(***************************************************************************)
(* Which tools the server offers (pkg/inventory/inventory.go).  The        *)
(* operator edits the selection -- toolsets, additional tools, excluded    *)
(* tools, read-only mode -- and every start of the server builds the       *)
(* inventory anew from it.                                                 *)
(***************************************************************************)
EXTENDS Integers, Sequences, FiniteSets

CONSTANTS
    Tools,        \* the tool definitions: AllTools in pkg/trino.go/tools.go
    ToolsetIDs,   \* the toolset IDs an operator may name, "all" among them
    MaxToolsets   \* bound: toolset IDs named at once

\* A definition carries its name, its toolset with that toolset's Default flag,
\* the read-only annotation, and whether the toolset has an InstructionsFunc and
\* the tool a HandlerFunc.
ASSUME ToolsAssumption ==
    \A t \in Tools : /\ DOMAIN t = {"name", "toolset", "byDefault", "readOnly",
                                    "instructs", "handled"}
                     /\ t.byDefault \in BOOLEAN /\ t.readOnly \in BOOLEAN
                     /\ t.instructs \in BOOLEAN /\ t.handled \in BOOLEAN
ASSUME ToolsetsAssumption ==
    /\ "all" \in ToolsetIDs
    /\ \A t \in Tools : t.toolset \in ToolsetIDs \ {"all"}
    /\ MaxToolsets \in Nat

\* The definitions of AllTools have names of their own, and whatever comes with
\* instructions comes with a handler (tools.go and the two tools' definitions).
ASSUME NamesAssumption == \A t, u \in Tools : t.name = u.name => t = u
ASSUME HandlersAssumption == \A t \in Tools : t.instructs => t.handled

VARIABLES
    builder,    \* Builder: the operator's selection
    inventory,  \* Inventory: what Build made of it
    offered     \* tools the MCP server has registered

vars == <<builder, inventory, offered>>

Names == {t.name : t \in Tools}

Builder == [toolsets : UNION {[1 .. n -> ToolsetIDs] : n \in 0 .. MaxToolsets},
            tools : SUBSET Names,
            exclude : SUBSET Names,
            readOnly : BOOLEAN]

(***************************************************************************)
(* Builder.Build.                                                          *)
(***************************************************************************)

\* The loop over the named toolsets stops at the first "all".
BeforeAll(ids) ==
    {ids[i] : i \in {j \in DOMAIN ids : \A k \in 1 .. j : ids[k] # "all"}}

\* Faulty variant: "all" is enabled as if it were a toolset.
enabledToolsetsVerbatim(b) ==
    IF b.toolsets = << >>
    THEN {t.toolset : t \in {u \in Tools : u.byDefault}}
    ELSE {b.toolsets[i] : i \in DOMAIN b.toolsets}

enabledToolsets(b) ==
    IF b.toolsets = << >>
    THEN {t.toolset : t \in {u \in Tools : u.byDefault}}
    ELSE BeforeAll(b.toolsets)
            \union (IF \E i \in DOMAIN b.toolsets : b.toolsets[i] = "all"
                    THEN {t.toolset : t \in Tools} ELSE {})

\* Faulty variants of the filter: an opt-in overrides read-only mode; opting in
\* replaces the toolsets.
KeptOptInFirst(b, t) ==
    /\ t.name \notin b.exclude
    /\ t.name \in b.tools \/ (t.toolset \in enabledToolsets(b) /\ (b.readOnly => t.readOnly))

KeptIfOnlyOptedIn(b, t) ==
    /\ t.name \notin b.exclude
    /\ b.readOnly => t.readOnly
    /\ IF b.tools = {} THEN t.toolset \in enabledToolsets(b) ELSE t.name \in b.tools

\* A tool passes the three filters, in the order of lines 149-157.
Kept(b, t) ==
    /\ t.name \notin b.exclude
    /\ b.readOnly => t.readOnly
    /\ t.toolset \in enabledToolsets(b) \/ t.name \in b.tools

filtered(b) == {t \in Tools : Kept(b, t)}

\* Faulty variant: the instructions of every toolset that is switched on.
InstructiveByToolset(b) ==
    {t.toolset : t \in {u \in Tools : u.instructs /\ u.toolset \in enabledToolsets(b)}}

\* Toolsets whose instructions are sent to the agent, once each.
Instructive(b) == {t.toolset : t \in {u \in filtered(b) : u.instructs}}

Build(b) ==
    [tools |-> filtered(b),
     enabledToolsets |-> enabledToolsets(b),
     enabledTools |-> {t.name : t \in filtered(b)},
     excludeTools |-> b.exclude,
     readOnly |-> b.readOnly,
     instructions |-> Instructive(b)]

\* RegisterAll skips tools without a handler.
RegisterAll(inv) == {t.name : t \in {u \in inv.tools : u.handled}}

Start(b) ==
    /\ builder' = b
    /\ inventory' = Build(b)
    /\ offered' = RegisterAll(Build(b))

(***************************************************************************)
(* The operator edits the selection and restarts the server.               *)
(***************************************************************************)
DefaultBuilder == [toolsets |-> << >>, tools |-> {}, exclude |-> {}, readOnly |-> TRUE]

Init ==
    /\ builder = DefaultBuilder
    /\ inventory = Build(DefaultBuilder)
    /\ offered = RegisterAll(Build(DefaultBuilder))

NameToolset(id) ==
    /\ Len(builder.toolsets) < MaxToolsets
    /\ Start([builder EXCEPT !.toolsets = Append(@, id)])

UseDefaultToolsets ==
    /\ builder.toolsets # << >>
    /\ Start([builder EXCEPT !.toolsets = << >>])

OptIn(name) ==
    /\ name \notin builder.tools
    /\ Start([builder EXCEPT !.tools = @ \union {name}])

OptOut(name) ==
    /\ name \in builder.tools
    /\ Start([builder EXCEPT !.tools = @ \ {name}])

Exclude(name) ==
    /\ name \notin builder.exclude
    /\ Start([builder EXCEPT !.exclude = @ \union {name}])

Readmit(name) ==
    /\ name \in builder.exclude
    /\ Start([builder EXCEPT !.exclude = @ \ {name}])

ToggleReadOnly == Start([builder EXCEPT !.readOnly = ~@])

Next ==
    \/ \E id \in ToolsetIDs : NameToolset(id)
    \/ UseDefaultToolsets
    \/ \E name \in Names : OptIn(name) \/ OptOut(name) \/ Exclude(name) \/ Readmit(name)
    \/ ToggleReadOnly

Spec == Init /\ [][Next]_vars

(***************************************************************************)
(* Properties.                                                             *)
(***************************************************************************)
\* Types; "all" is resolved and never left as the ID of a toolset
\* (inventory.go:114-132).
TypeOK ==
    /\ builder \in Builder
    /\ inventory.tools \subseteq Tools
    /\ inventory.enabledToolsets \subseteq ToolsetIDs \ {"all"}
    /\ offered \subseteq Names

\* ExcludeTools is a "hard kill switch" (config.go:23), and a read-only server offers
\* no tool that is not annotated so: however the selection has been edited, no
\* toolset, "all" or opt-in brings back what one of the two takes away.
FiltersAreFinal ==
    \A t \in Tools : t.name \in offered =>
        t.name \notin builder.exclude /\ (builder.readOnly => t.readOnly)

SameButForOptIns ==
    /\ builder.tools \subseteq builder'.tools
    /\ builder'.toolsets = builder.toolsets
    /\ builder'.exclude = builder.exclude
    /\ builder'.readOnly = builder.readOnly

\* Tools are "additive opt-ins" (config.go:22): naming one more never takes a tool
\* away, in whatever state the rest of the selection is.
OptInsOnlyAdd == [][SameButForOptIns => offered \subseteq offered']_vars

\* The agent is given instructions only for toolsets it can use a tool of: they are
\* collected after the filters (lines 162-188), not from the selection.
InstructionsHaveTools ==
    \A id \in inventory.instructions :
        \E t \in Tools : t.toolset = id /\ t.name \in offered
===============================================================================
