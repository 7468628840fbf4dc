-------------------------------- MODULE SqlTool --------------------------------
(***************************************************************************)
(* The get_query_sql tool (pkg/trino.go/get_query_sql.go): which of the    *)
(* texts of a QueryInfo an agent receives, and how they are cut to the     *)
(* content window.  A text is abstracted to its length in bytes; all       *)
(* lengths, the minimum and the maximum budget are scaled down together.   *)
(***************************************************************************)
EXTENDS Integers

CONSTANTS
    MinSQLBudgetBytes,  \* 2 KiB in the code
    MaxQuerySQLBytes,   \* 64 KiB in the code
    Windows,            \* content-window sizes the server may be started with
    Lengths             \* bound: lengths of the texts of a query

ASSUME BudgetAssumption ==
    /\ MinSQLBudgetBytes \in Nat \ {0}
    /\ MaxQuerySQLBytes \in Nat
    /\ MinSQLBudgetBytes < MaxQuerySQLBytes
ASSUME WindowsAssumption == Windows \subseteq Int
ASSUME LengthsAssumption == Lengths \subseteq Nat

VARIABLES
    window,  \* ToolDependencies.ContentWindowSize, fixed at startup
    texts,   \* the QueryInfo the handler works on: Query, QueryTextPreview, PreparedQuery,
             \* and what SubstitutePreparedLiterals makes of them as they are, 0 for ""
    reply    \* what the tool answered to the last call

vars == <<window, texts, reply>>

\* Faulty variant: only the upper bound is enforced.
effectiveSQLBudgetCapped(contentWindowSize) ==
    IF contentWindowSize > MaxQuerySQLBytes THEN MaxQuerySQLBytes ELSE contentWindowSize

effectiveSQLBudget(contentWindowSize) ==
    IF contentWindowSize < MinSQLBudgetBytes THEN MinSQLBudgetBytes
    ELSE IF contentWindowSize > MaxQuerySQLBytes THEN MaxQuerySQLBytes
    ELSE contentWindowSize

Budget == effectiveSQLBudget(window)

Chosen(t) == IF t.query # 0 THEN t.query ELSE t.preview

\* A literal is at least as long as the question mark it replaces, and all of them are
\* taken from the SQL: PreparedSql!ResultIsShort.
Substitutable(t) == t.prepared <= t.filled /\ t.filled < t.prepared + Chosen(t)

Texts ==
    {t \in [query : Lengths, preview : Lengths, prepared : Lengths, filled : Lengths] :
        t.filled # 0 => t.prepared # 0 /\ Substitutable(t)}

Smaller(a, b) == IF a < b THEN a ELSE b
Larger(a, b) == IF a < b THEN b ELSE a

(***************************************************************************)
(* Cutting.  A prepared query is cut first, to what the SQL leaves of the  *)
(* budget but never below the minimum; the SQL gets what is left then.     *)
(***************************************************************************)
\* Faulty variants: the floor alone decides; or there is no floor.
PreparedCutToMinimum(sql, prepared) == Smaller(prepared, MinSQLBudgetBytes)
PreparedCutWithoutFloor(sql, prepared) == Smaller(prepared, Larger(Budget - sql, 0))

PreparedCut(sql, prepared) ==
    Smaller(prepared, Larger(Budget - sql, MinSQLBudgetBytes))

\* Faulty variant: only the prepared query is cut.
SQLUncut(sql, prepared) == sql

SQLCut(sql, prepared) ==
    LET remaining == Budget - prepared
    IN  IF remaining > 0 THEN Smaller(sql, remaining) ELSE sql

Fits(sql, prepared) == sql + prepared <= Budget

\* The lengths of the SQL and of the prepared query that are sent.
Cut(sql, prepared) ==
    IF Fits(sql, prepared) THEN [sql |-> sql, prepared |-> prepared]
    ELSE IF prepared = 0 THEN [sql |-> Budget, prepared |-> 0]
    ELSE [sql |-> SQLCut(sql, PreparedCut(sql, prepared)),
          prepared |-> PreparedCut(sql, prepared)]

Source(t) ==
    IF t.prepared # 0 THEN "PreparedQuery"
    ELSE IF t.query # 0 THEN "Query"
    ELSE "QueryTextPreview"

\* Faulty variant: literals go into whatever is sent.
LiteralsAlways(t) == t.filled

\* preparedWithLiterals, which nothing cuts or counts.
Literals(t) == IF t.prepared # 0 /\ Fits(Chosen(t), t.prepared) THEN t.filled ELSE 0

NoReply == [kind |-> "none"]
ToolError == [kind |-> "error"]

Result(t) ==
    LET sql == Chosen(t)
        sent == Cut(sql, t.prepared)
        truncated == ~Fits(sql, t.prepared)
    IN  [kind |-> "sql",
         sql |-> sent.sql,
         prepared |-> sent.prepared,
         literals |-> Literals(t),
         truncated |-> truncated,
         original |-> sql + t.prepared,
         returned |-> sent.sql + sent.prepared,
         source |-> Source(t)]

(***************************************************************************)
(* The handler.                                                            *)
(***************************************************************************)
NoTexts == [query |-> 0, preview |-> 0, prepared |-> 0, filled |-> 0]

Init ==
    /\ window \in Windows
    /\ texts = NoTexts
    /\ reply = NoReply

\* query_id is missing, or the fetch failed.
Refuse ==
    /\ texts' = NoTexts
    /\ reply' = ToolError
    /\ UNCHANGED window

NoTextAvailable(t) ==
    /\ Chosen(t) = 0
    /\ texts' = t
    /\ reply' = ToolError
    /\ UNCHANGED window

SendSQL(t) ==
    /\ Chosen(t) # 0
    /\ texts' = t
    /\ reply' = Result(t)
    /\ UNCHANGED window

Next == Refuse \/ \E t \in Texts : NoTextAvailable(t) \/ SendSQL(t)

Spec == Init /\ [][Next]_vars

(***************************************************************************)
(* Properties.                                                             *)
(***************************************************************************)
Replies ==
    {NoReply, ToolError} \union
    [kind : {"sql"}, sql : Nat, prepared : Nat, literals : Nat, truncated : BOOLEAN,
     original : Nat, returned : Nat, source : {"PreparedQuery", "Query", "QueryTextPreview"}]

\* Types; what is sent of each text has a length (get_query_sql.go:15-32).
TypeOK ==
    /\ window \in Windows
    /\ texts \in Texts \union {NoTexts}
    /\ reply \in Replies

Answered == reply.kind = "sql"

\* The tool description: "truncated to the configured content-window-size"
\* (get_query_sql.go:39-40).  With the smallest budget the branch of line 104
\* leaves the SQL whole next to a prepared query that already fills the budget.
WithinBudget == Answered => reply.returned <= Budget

\* All the SQL text in a reply.
Payload == reply.sql + reply.prepared + reply.literals

\* Above the smallest budget, the two cuts of lines 93-110 always add up.  The window
\* is no "cap on response payload bytes" (main.go:67) all the same: the SQL with its
\* literals comes on top of two texts that may fill it, and is neither cut nor counted
\* (lines 112-125).  It is sent with whole texts only, so a reply stays below twice the
\* window.
PayloadBounded ==
    (Answered /\ Budget > MinSQLBudgetBytes) =>
        /\ reply.sql + reply.prepared <= Budget
        /\ Payload > Budget => ~reply.truncated /\ Payload < 2 * Budget

\* Above the smallest budget "truncated" is said exactly when bytes are missing,
\* and then the window is used to the full: no byte is dropped that would fit.
TruncatedTightly ==
    (Answered /\ Budget > MinSQLBudgetBytes) =>
        /\ reply.truncated <=> reply.returned < reply.original
        /\ reply.truncated => reply.returned = Budget

\* However large the prepared query is, some of the SQL is sent, and however
\* large the SQL is, the minimum of the prepared query is (lines 96-106).
NeitherTextStarves ==
    Answered =>
        /\ reply.sql > 0
        /\ reply.prepared >= Smaller(texts.prepared, MinSQLBudgetBytes)

\* Literals are substituted only into whole texts: a cut USING list or template
\* would bind parameters to the wrong placeholders (lines 112-119).
LiteralsOnlyInWholeTexts ==
    (Answered /\ reply.literals # 0) =>
        reply.prepared = texts.prepared /\ reply.sql = Chosen(texts)
================================================================================
