----------------------------- MODULE SqlToolProofs -----------------------------
(***************************************************************************)
(* Theorems about SqlTool, for texts of any length and any content window. *)
(***************************************************************************)
EXTENDS SqlTool, TLAPS

USE BudgetAssumption, WindowsAssumption, LengthsAssumption

\* The budget is a length between the two limits (plans.go:11-25).
LEMMA BudgetRange ==
    ASSUME window \in Int
    PROVE  Budget \in Nat /\ MinSQLBudgetBytes <= Budget /\ Budget <= MaxQuerySQLBytes
BY DEF Budget, effectiveSQLBudget

\* What the two cuts of get_query_sql.go:93-110 leave of a non-empty SQL text and
\* a prepared query.
LEMMA CutBounds ==
    ASSUME window \in Int, NEW sql \in Nat \ {0}, NEW prepared \in Nat
    PROVE  LET sent == Cut(sql, prepared)
           IN  /\ sent.sql \in Nat \ {0} /\ sent.prepared \in Nat
               /\ sent.sql <= sql /\ sent.prepared <= prepared
               /\ sent.prepared >= Smaller(prepared, MinSQLBudgetBytes)
               /\ Fits(sql, prepared) => sent.sql = sql /\ sent.prepared = prepared
               /\ (Budget > MinSQLBudgetBytes /\ ~Fits(sql, prepared)) =>
                     sent.sql + sent.prepared = Budget
<1> DEFINE B == Budget
           pq == PreparedCut(sql, prepared)
<1>1. B \in Nat /\ MinSQLBudgetBytes <= B
    BY BudgetRange
<1>2. CASE Fits(sql, prepared)
    BY <1>2 DEF Cut, Smaller
<1>3. CASE ~Fits(sql, prepared) /\ prepared = 0
    BY <1>1, <1>3 DEF Cut, Fits, Smaller
<1>4. CASE ~Fits(sql, prepared) /\ prepared # 0
    <2>1. /\ pq \in Nat /\ pq <= prepared /\ pq <= B
          /\ pq >= Smaller(prepared, MinSQLBudgetBytes)
          /\ B > MinSQLBudgetBytes => pq < B
        BY <1>1 DEF PreparedCut, Smaller, Larger
    <2>2. SQLCut(sql, pq) \in Nat \ {0} /\ SQLCut(sql, pq) <= sql
        BY <1>1, <2>1 DEF SQLCut, Smaller
    <2>3. B > MinSQLBudgetBytes => SQLCut(sql, pq) + pq = B
        BY <1>1, <1>4, <2>1 DEF SQLCut, PreparedCut, Smaller, Larger, Fits
    <2>4. Cut(sql, prepared) = [sql |-> SQLCut(sql, pq), prepared |-> pq]
        BY <1>4 DEF Cut
    <2> HIDE DEF pq
    <2> QED
        BY <1>4, <2>1, <2>2, <2>3, <2>4
<1> QED
    BY <1>2, <1>3, <1>4

\* Every reply with SQL is the result computed from the current texts.
ReplyInv ==
    /\ window \in Windows
    /\ texts \in Texts \union {NoTexts}
    /\ reply \in {NoReply, ToolError} \/ (reply = Result(texts) /\ Chosen(texts) # 0)

LEMMA ReplyInvariance == Spec => []ReplyInv
<1>1. Init => ReplyInv
    BY DEF Init, ReplyInv
<1>2. ReplyInv /\ [Next]_vars => ReplyInv'
    BY DEF ReplyInv, Next, Refuse, NoTextAvailable, SendSQL, vars, Result, Chosen, Source,
       Cut, Fits, Budget, PreparedCut, SQLCut, Literals
<1> QED
    BY <1>1, <1>2, PTL DEF Spec

\* What the properties below need to know of a reply.
LEMMA ReplyFacts ==
    ASSUME ReplyInv, Answered
    PROVE  LET sql == Chosen(texts)
               sent == Cut(sql, texts.prepared)
           IN  /\ window \in Int /\ sql \in Nat \ {0} /\ texts.prepared \in Nat
               /\ reply = Result(texts)
               /\ reply.sql = sent.sql /\ reply.prepared = sent.prepared
               /\ reply.returned = sent.sql + sent.prepared
               /\ reply.original = sql + texts.prepared
               /\ reply.truncated = ~Fits(sql, texts.prepared)
               /\ reply.literals = Literals(texts)
<1>1. reply = Result(texts) /\ Chosen(texts) # 0
    BY DEF ReplyInv, Answered, NoReply, ToolError
<1>2. Chosen(texts) \in Nat /\ texts.prepared \in Nat /\ window \in Int
    <2>1. texts.query \in Nat /\ texts.preview \in Nat /\ texts.prepared \in Nat
        <3>1. texts \in Texts \/ texts = NoTexts
            BY DEF ReplyInv
        <3>2. CASE texts \in Texts
            BY <3>2 DEF Texts
        <3>3. CASE texts = NoTexts
            BY <3>3 DEF NoTexts
        <3> QED
            BY <3>1, <3>2, <3>3
    <2> QED
        BY <2>1 DEF ReplyInv, Chosen
<1> QED
    BY <1>1, <1>2 DEF Result

\* A substituted text is sent with two whole texts, and shorter than both together.
LEMMA LiteralsFit ==
    ASSUME ReplyInv, Answered
    PROVE  /\ reply.literals \in Nat
           /\ reply.literals # 0 => /\ Fits(Chosen(texts), texts.prepared)
                                   /\ reply.literals < texts.prepared + Chosen(texts)
<1>1. reply.literals = Literals(texts)
    BY ReplyFacts
<1>2. CASE texts \in Texts
    <2>1. texts.filled \in Nat /\ (texts.filled # 0 => texts.filled < texts.prepared + Chosen(texts))
        BY <1>2 DEF Texts, Substitutable
    <2> QED
        BY <1>1, <2>1 DEF Literals
<1>3. CASE texts = NoTexts
    BY <1>1, <1>3 DEF Literals, NoTexts
<1> QED
    BY <1>2, <1>3 DEF ReplyInv

\* With any budget above the minimum the two texts fit the content window, and the
\* third one at most doubles it (get_query_sql.go:93-125).
THEOREM PayloadsAreBounded == Spec => []PayloadBounded
<1>1. ReplyInv => PayloadBounded
    <2> SUFFICES ASSUME ReplyInv, Answered, Budget > MinSQLBudgetBytes
                 PROVE  /\ reply.sql + reply.prepared <= Budget
                        /\ Payload > Budget => ~reply.truncated /\ Payload < 2 * Budget
        BY DEF PayloadBounded
    <2>0. PICK sql, pq, sent : /\ sql = Chosen(texts) /\ pq = texts.prepared
                               /\ sent = Cut(sql, pq)
        OBVIOUS
    <2>1. /\ window \in Int /\ sql \in Nat \ {0} /\ pq \in Nat
          /\ reply.sql = sent.sql /\ reply.prepared = sent.prepared
          /\ reply.truncated = ~Fits(sql, pq)
        BY <2>0, ReplyFacts
    <2>2. /\ reply.literals \in Nat
          /\ reply.literals # 0 => Fits(sql, pq) /\ reply.literals < pq + sql
        BY <2>0, LiteralsFit
    <2>3. CASE Fits(sql, pq)
        <3>1. sent.sql = sql /\ sent.prepared = pq
            BY <2>0, <2>1, <2>3, CutBounds
        <3>2. sql + pq <= Budget /\ Budget \in Nat
            BY <2>1, <2>3, BudgetRange DEF Fits
        <3>3. Payload < 2 * Budget
            BY <2>1, <2>2, <3>1, <3>2 DEF Payload
        <3>4. ~reply.truncated
            BY <2>1, <2>3
        <3> QED
            BY <2>1, <3>1, <3>2, <3>3, <3>4
    <2>4. CASE ~Fits(sql, pq)
        <3>1. sent.sql + sent.prepared = Budget /\ Budget \in Nat
            BY <2>0, <2>1, <2>4, CutBounds, BudgetRange
        <3>2. Payload = Budget
            BY <2>1, <2>2, <2>4, <3>1 DEF Payload
        <3> QED
            BY <2>1, <3>1, <3>2
    <2> QED
        BY <2>3, <2>4
<1> QED
    BY <1>1, ReplyInvariance, PTL

\* Above the minimum the two texts waste nothing of it, and the reply says so exactly
\* when it dropped something.
THEOREM TruncationIsTight == Spec => []TruncatedTightly
<1>1. ReplyInv => TruncatedTightly
    <2> SUFFICES ASSUME ReplyInv, Answered, Budget > MinSQLBudgetBytes
                 PROVE  /\ reply.truncated <=> reply.returned < reply.original
                        /\ reply.truncated => reply.returned = Budget
        BY DEF TruncatedTightly
    <2>0. PICK sql, pq, sent : /\ sql = Chosen(texts) /\ pq = texts.prepared
                               /\ sent = Cut(sql, pq)
        OBVIOUS
    <2>1. window \in Int /\ sql \in Nat \ {0} /\ pq \in Nat
          /\ reply.returned = sent.sql + sent.prepared
          /\ reply.original = sql + pq
          /\ reply.truncated = ~Fits(sql, pq)
        BY <2>0, ReplyFacts
    <2>2. CASE Fits(sql, pq)
        <3>1. sent.sql = sql /\ sent.prepared = pq
            BY <2>0, <2>1, <2>2, CutBounds
        <3>2. ~(reply.returned < reply.original)
            BY <2>1, <3>1
        <3>3. ~reply.truncated
            BY <2>1, <2>2
        <3> QED
            BY <3>2, <3>3
    <2>3. CASE ~Fits(sql, pq)
        <3>1. sent.sql + sent.prepared = Budget /\ Budget \in Nat
            BY <2>0, <2>1, <2>3, CutBounds, BudgetRange
        <3>2. sql + pq > Budget
            BY <2>1, <2>3, <3>1 DEF Fits
        <3>3. reply.returned < reply.original /\ reply.returned = Budget
            BY <2>1, <3>1, <3>2
        <3>4. reply.truncated
            BY <2>1, <2>3
        <3> QED
            BY <3>3, <3>4
    <2> QED
        BY <2>2, <2>3
<1> QED
    BY <1>1, ReplyInvariance, PTL

\* Neither text pushes the other one out of the reply (lines 96-106).
THEOREM NoTextStarves == Spec => []NeitherTextStarves
<1>1. ReplyInv => NeitherTextStarves
    BY ReplyFacts, CutBounds DEF NeitherTextStarves
<1> QED
    BY <1>1, ReplyInvariance, PTL

\* Literals are only ever substituted into whole texts (lines 112-119).
THEOREM LiteralsAreWhole == Spec => []LiteralsOnlyInWholeTexts
<1>1. ReplyInv => LiteralsOnlyInWholeTexts
    BY ReplyFacts, CutBounds DEF LiteralsOnlyInWholeTexts, Literals
<1> QED
    BY <1>1, ReplyInvariance, PTL

\* Whatever the texts and the window, every field of a reply has its type: the
\* lengths that are sent are never negative (lines 15-32 and 93-110).
THEOREM TypeCorrect == Spec => []TypeOK
<1>1. ReplyInv => TypeOK
    <2> SUFFICES ASSUME ReplyInv, Answered
                 PROVE  reply \in Replies
        BY DEF ReplyInv, TypeOK, Replies, Answered, Result
    <2>0. PICK sql, pq, sent : /\ sql = Chosen(texts) /\ pq = texts.prepared
                               /\ sent = Cut(sql, pq)
        OBVIOUS
    <2>1. /\ window \in Int /\ sql \in Nat \ {0} /\ pq \in Nat
          /\ reply = Result(texts)
        BY <2>0, ReplyFacts
    <2>2. sent.sql \in Nat /\ sent.prepared \in Nat
        BY <2>0, <2>1, CutBounds
    <2>3. /\ Literals(texts) \in Nat
          /\ Source(texts) \in {"PreparedQuery", "Query", "QueryTextPreview"}
        BY <2>1, LiteralsFit DEF Result, Source
    <2>4. Result(texts) = [kind |-> "sql", sql |-> sent.sql, prepared |-> sent.prepared,
                           literals |-> Literals(texts),
                           truncated |-> ~Fits(sql, pq), original |-> sql + pq,
                           returned |-> sent.sql + sent.prepared, source |-> Source(texts)]
        BY <2>0 DEF Result
    <2> QED
        BY <2>1, <2>2, <2>3, <2>4 DEF Replies
<1> QED
    BY <1>1, ReplyInvariance, PTL
================================================================================
