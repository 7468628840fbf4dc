------------------------- MODULE PreparedSqlLexerProofs -------------------------
(***************************************************************************)
(* Theorems about PreparedSql, for statements and templates of any length: *)
(* the two scanners agree with the SQL lexer that PreparedSql states       *)
(* without a scan.                                                         *)
(***************************************************************************)
EXTENDS PreparedSqlProofs

(***************************************************************************)
(* Counting.                                                               *)
(***************************************************************************)
Below(S, x) == {q \in S : q < x}

\* Walking past x raises the count by one exactly when x is counted.
LEMMA Counting ==
    ASSUME NEW m \in Nat, NEW S \in SUBSET (1 .. m), NEW x \in Nat
    PROVE  /\ IsFiniteSet(Below(S, x)) /\ Cardinality(Below(S, x)) \in Nat
           /\ x \in S => /\ Cardinality(Below(S, x + 1)) = Cardinality(Below(S, x)) + 1
                         /\ Rank(S, x) = Cardinality(Below(S, x)) + 1
           /\ x \notin S => Below(S, x + 1) = Below(S, x)
<1>0. \A q \in S : q \in Nat
    OBVIOUS
<1>1. IsFiniteSet(1 .. m)
    BY FS_Interval
<1>2. Below(S, x) \in SUBSET (1 .. m)
    BY DEF Below
<1>3. IsFiniteSet(Below(S, x)) /\ Cardinality(Below(S, x)) \in Nat
    BY <1>1, <1>2, FS_Subset, FS_CardinalityType
<1>4. CASE x \in S
    <2>1. x \notin Below(S, x)
        BY DEF Below
    <2>0. \A q \in S : (q < x + 1 <=> q < x \/ q = x) /\ (q <= x <=> q < x \/ q = x)
        BY <1>0
    <2>2. Below(S, x + 1) = Below(S, x) \union {x}
        BY <1>4, <2>0, Zenon DEF Below
    <2>3. {q \in S : q <= x} = Below(S, x) \union {x}
        BY <1>4, <2>0, Zenon DEF Below
    <2> QED
        BY <1>3, <1>4, <2>1, <2>2, <2>3, FS_AddElement DEF Rank
<1>5. CASE x \notin S
    <2>0. \A q \in S : q < x + 1 <=> q < x
        BY <1>0, <1>5
    <2>1. Below(S, x + 1) = Below(S, x)
        BY <2>0, Zenon DEF Below
    <2> QED
        BY <1>3, <1>5, <2>1
<1> QED
    BY <1>4, <1>5

\* The rank of what is below x is a position in a list of that many elements.
LEMMA RankBelow ==
    ASSUME NEW m \in Nat, NEW S \in SUBSET (1 .. m), NEW x \in Nat, NEW p \in Below(S, x)
    PROVE  Rank(S, p) \in 1 .. Cardinality(Below(S, x))
<1>1. p \in Nat /\ p \in S /\ p < x /\ \A q \in S : q \in Nat
    BY DEF Below
<1>2. Rank(S, p) = Cardinality(Below(S, p)) + 1 /\ Cardinality(Below(S, p)) \in Nat
    BY <1>1, Counting
<1>3. Rank(S, p) = Cardinality(Below(S, p + 1))
    BY <1>1, <1>2, Counting
<1>4. Below(S, p + 1) \in SUBSET Below(S, x)
    <2>1. \A q \in S : q < p + 1 => q < x
        BY <1>1
    <2> QED
        BY <2>1, Zenon DEF Below
<1>5. Cardinality(Below(S, p + 1)) <= Cardinality(Below(S, x))
    BY <1>4, Counting, FS_Subset
<1>6. Cardinality(Below(S, x)) \in Nat
    BY Counting
<1> QED
    BY <1>2, <1>3, <1>5, <1>6

\* A quote more.
LEMMA QuotesStep ==
    ASSUME NEW s, NEW a \in Nat, NEW b \in Nat, a <= b + 1
    PROVE  /\ QuotesIn(s, a, b) \in Nat
           /\ s[b + 1] = Quote => QuotesIn(s, a, b + 1) = QuotesIn(s, a, b) + 1
           /\ s[b + 1] # Quote => QuotesIn(s, a, b + 1) = QuotesIn(s, a, b)
<1>1. PICK Q : Q = {k \in a .. b : s[k] = Quote}
    OBVIOUS
<1>2. PICK R : R = {k \in a .. b + 1 : s[k] = Quote}
    OBVIOUS
<1>3. IsFiniteSet(Q)
    <2>1. IsFiniteSet(a .. b) /\ Q \in SUBSET (a .. b)
        BY <1>1, FS_Interval
    <2> QED
        BY <2>1, FS_Subset
<1>4. Cardinality(Q) \in Nat /\ b + 1 \notin Q
    BY <1>1, <1>3, FS_CardinalityType
<1>5. CASE s[b + 1] = Quote
    <2>1. R = Q \union {b + 1}
        BY <1>1, <1>2, <1>5
    <2>2. Cardinality(R) = Cardinality(Q) + 1
        BY <1>3, <1>4, <2>1, FS_AddElement
    <2> QED
        BY <1>1, <1>2, <1>4, <1>5, <2>2 DEF QuotesIn
<1>6. CASE s[b + 1] # Quote
    <2>1. R = Q
        BY <1>1, <1>2, <1>6
    <2> QED
        BY <1>1, <1>2, <1>4, <1>6, <2>1 DEF QuotesIn
<1> QED
    BY <1>5, <1>6

LEMMA NoQuotes ==
    ASSUME NEW s, NEW a \in Nat, NEW b \in Nat, b < a
    PROVE  QuotesIn(s, a, b) = 0
<1>1. {k \in a .. b : s[k] = Quote} = {}
    OBVIOUS
<1> QED
    BY <1>1, FS_EmptySet DEF QuotesIn

(***************************************************************************)
(* The list of literals.                                                   *)
(***************************************************************************)
LEMMA ListEndIs ==
    ASSUME NEW s \in Seq(STRING)
    PROVE  /\ ListEnd(s) \in 1 .. Len(s) + 1
           /\ ListEnd(s) = Len(s) + 1 \/ ListEnd(s) \in TopLevel(s, Semicolon)
           /\ \A p \in TopLevel(s, Semicolon) : ListEnd(s) <= p
<1>1. Len(s) \in Nat /\ DOMAIN s = 1 .. Len(s)
    BY LenProperties
<1>2. PICK S : S = TopLevel(s, Semicolon) \union {Len(s) + 1}
    OBVIOUS
<1>3. S \in SUBSET (1 .. Len(s) + 1) /\ S # {} /\ S \in SUBSET Nat
    <2>1. TopLevel(s, Semicolon) \in SUBSET (1 .. Len(s))
        BY <1>1 DEF TopLevel
    <2>2. 1 .. Len(s) \subseteq 1 .. Len(s) + 1 /\ Len(s) + 1 \in 1 .. Len(s) + 1
        BY <1>1
    <2>3. 1 .. Len(s) + 1 \subseteq Nat
        BY <1>1
    <2> QED
        BY <1>2, <2>1, <2>2, <2>3, Zenon
<1>4. Min(S) \in S /\ \A p \in S : Min(S) <= p
    BY <1>3, MinOf
<1>5. ListEnd(s) = Min(S)
    BY <1>2 DEF ListEnd
<1> QED
    BY <1>2, <1>3, <1>4, <1>5

LEMMA SeparatorsAre ==
    ASSUME NEW s \in Seq(STRING)
    PROVE  /\ Separators(s) \in SUBSET (1 .. Len(s))
           /\ LiteralEnds(s) \in SUBSET (1 .. Len(s) + 1)
           /\ Len(s) \in Nat
<1>1. Len(s) \in Nat /\ DOMAIN s = 1 .. Len(s)
    BY LenProperties
<1>2. Separators(s) \in SUBSET (1 .. Len(s))
    BY <1>1 DEF Separators, TopLevel
<1>3. ListEnd(s) \in 1 .. Len(s) + 1
    BY ListEndIs
<1>4. 1 .. Len(s) \subseteq 1 .. Len(s) + 1
    BY <1>1
<1>5. LiteralEnds(s) \in SUBSET (1 .. Len(s) + 1)
    BY <1>2, <1>3, <1>4 DEF LiteralEnds
<1> QED
    BY <1>1, <1>2, <1>5

\* An element begins behind the last separator.
LEMMA ElementStartIs ==
    ASSUME NEW s \in Seq(STRING), NEW x \in 1 .. Len(s) + 1
    PROVE  /\ ElementStart(s, x) \in 1 .. x
           /\ x \in Separators(s) => ElementStart(s, x + 1) = x + 1
           /\ x \notin Separators(s) => ElementStart(s, x + 1) = ElementStart(s, x)
<1>1. Len(s) \in Nat /\ \A p \in Separators(s) : p \in Nat
    BY SeparatorsAre
<1>2. PICK S, T : /\ S = {0} \union {c \in Separators(s) : c < x}
                  /\ T = {0} \union {c \in Separators(s) : c < x + 1}
    OBVIOUS
<1>3. ElementStart(s, x) = Max(S) + 1 /\ ElementStart(s, x + 1) = Max(T) + 1
    BY <1>2 DEF ElementStart
<1>4. S \in SUBSET (0 .. x - 1) /\ T \in SUBSET (0 .. x) /\ S # {} /\ T # {}
    BY <1>1, <1>2
<1>5. Max(S) \in 0 .. x - 1
    <2>1. PICK m \in Nat : m = x - 1
        BY <1>1
    <2>2. S \in SUBSET (0 .. m)
        BY <1>4, <2>1
    <2>3. Max(S) \in S
        BY <1>4, <2>2, MaxOf
    <2> QED
        BY <1>4, <2>3
<1>6. Max(T) \in T /\ (\A y \in T : y <= Max(T)) /\ Max(T) \in 0 .. x
    <2>1. x \in Nat
        BY <1>1
    <2>2. Max(T) \in T /\ \A y \in T : y <= Max(T)
        BY <1>4, <2>1, MaxOf
    <2> QED
        BY <1>4, <2>2
<1>7. ASSUME x \in Separators(s)
      PROVE  Max(T) = x
    <2>1. x \in T
        BY <1>1, <1>2, <1>7
    <2> QED
        BY <1>1, <1>6, <2>1
<1>8. ASSUME x \notin Separators(s)
      PROVE  T = S
    <2>1. \A c \in Separators(s) : c < x + 1 <=> c < x
        BY <1>1, <1>8
    <2> QED
        BY <1>2, <2>1, Zenon
<1> QED
    BY <1>1, <1>3, <1>5, <1>7, <1>8

\* What list holds when the scan has come to x.
ListedBefore(list, s, x) ==
    LET ends == Below(LiteralEnds(s), x)
    IN  /\ Len(list) = Cardinality(ends)
        /\ \A p \in ends : list[Rank(LiteralEnds(s), p)] = LiteralBefore(s, p)

\* The scan of the list has not reached its end, knows whether it is in a string,
\* and has the bytes since the last separator in the builder (prepared_sql.go:111-144).
SplitSoFar(s) ==
    /\ text = s
    /\ \A p \in TopLevel(s, Semicolon) : i <= p
    /\ \/ mode = "code" /\ QuotesIn(s, 1, i - 1) % 2 = 0
       \/ mode = "string" /\ QuotesIn(s, 1, i - 1) % 2 = 1
    /\ Len(buf) = i - ElementStart(s, i)
    /\ \A k \in 1 .. Len(buf) : buf[k] = <<s[ElementStart(s, i) + k - 1]>>
    /\ ListedBefore(values, s, i)

LEMMA TokenIsElement ==
    ASSUME TypeInv, NEW s \in Seq(STRING), SplitSoFar(s)
    PROVE  TokenBytes = SubSeq(s, ElementStart(s, i), i - 1)
<1>1. /\ i \in 1 .. Len(s) + 1 /\ Len(s) \in Nat
      /\ buf \in Seq(Piece) /\ Len(buf) \in Nat /\ DOMAIN buf = 1 .. Len(buf)
    BY LenProperties DEF TypeInv, TypeOK, SplitSoFar
<1>2. PICK a \in 1 .. i : a = ElementStart(s, i)
    BY <1>1, ElementStartIs
<1>3. Len(buf) = i - a /\ \A k \in 1 .. i - a : buf[k] = <<s[a + k - 1]>>
    BY <1>1, <1>2 DEF SplitSoFar
<1>4. PICK b \in Int : b = i - 1
    BY <1>1
<1>5. PICK u \in Seq(STRING) : /\ u = SubSeq(s, a, i - 1)
                              /\ Len(u) = i - a /\ \A k \in 1 .. i - a : u[k] = s[a + k - 1]
    <2>1. \A k \in a .. b : s[k] \in STRING
        <3>1. \A k \in a .. b : k \in 1 .. Len(s)
            BY <1>1, <1>2, <1>4
        <3> QED
            BY <3>1, ElementOfSeq
    <2>2. PICK u : u = SubSeq(s, a, b)
        OBVIOUS
    <2>3. /\ u \in Seq(STRING)
          /\ Len(u) = IF a <= b THEN b - a + 1 ELSE 0
          /\ \A k \in 1 .. b - a + 1 : u[k] = s[a + k - 1]
        BY <1>1, <1>2, <2>1, <2>2, SubSeqProperties
    <2>4. Len(u) = i - a /\ b - a + 1 = i - a
        BY <1>1, <1>2, <1>4, <2>3
    <2> QED
        BY <1>4, <2>2, <2>3, <2>4
<1>6. PICK t \in Seq(STRING) : t = TokenBytes
    BY FlushedType
<1>7. Len(t) = i - a /\ \A k \in 1 .. i - a : t[k] = s[a + k - 1]
    <2>1. DOMAIN t = 1 .. i - a /\ \A k \in 1 .. i - a : t[k] = buf[k][1]
        BY <1>1, <1>3, <1>6 DEF TokenBytes
    <2>2. DOMAIN t = 1 .. Len(t) /\ Len(t) \in Nat
        BY <1>6, LenProperties
    <2>3. Len(t) = i - a
        BY <1>1, <1>2, <2>1, <2>2, SameInterval
    <2>4. ASSUME NEW k \in 1 .. i - a
          PROVE  t[k] = s[a + k - 1]
        <3>1. buf[k] = <<s[a + k - 1]>>
            BY <1>3, Zenon
        <3>2. t[k] = buf[k][1]
            BY <2>1, Zenon
        <3> QED
            BY <3>1, <3>2
    <2> QED
        BY <2>3, <2>4, Zenon
<1>8. t = u
    BY <1>5, <1>7, SeqEqual
<1> QED
    BY <1>2, <1>5, <1>6, <1>8

\* flushToken at a separator or at the end of the list (prepared_sql.go:171-178).
LEMMA Flushing ==
    ASSUME TypeInv, NEW s \in Seq(STRING), SplitSoFar(s),
           i \in Separators(s) \union {ListEnd(s)}
    PROVE  ListedBefore(Flushed, s, i + 1)
<1>1. /\ i \in Nat /\ values \in Seq(Piece) /\ Len(values) \in Nat
      /\ ListedBefore(values, s, i)
    BY LenProperties DEF TypeInv, TypeOK, SplitSoFar, Piece
<1>2. PICK L : L = LiteralEnds(s)
    OBVIOUS
<1>3. PICK m \in Nat : m = Len(s) + 1 /\ L \in SUBSET (1 .. m)
    BY <1>2, SeparatorsAre
<1>4. PICK c \in Nat : c = Cardinality(Below(L, i))
    BY <1>1, <1>3, Counting
<1>5. Len(values) = c /\ \A p \in Below(L, i) : values[Rank(L, p)] = LiteralBefore(s, p)
    BY <1>1, <1>2, <1>4 DEF ListedBefore
<1>6. PICK token : token = Trim(TokenBytes) /\ token = LiteralBefore(s, i)
    BY TokenIsElement DEF LiteralBefore
<1>7. i \in L <=> token # << >>
    BY <1>2, <1>6 DEF LiteralEnds
<1>8. CASE token = << >>
    <2>1. Flushed = values
        BY <1>6, <1>8 DEF Flushed
    <2>2. Below(L, i + 1) = Below(L, i)
        BY <1>1, <1>3, <1>7, <1>8, Counting
    <2> QED
        BY <1>2, <1>4, <1>5, <2>1, <2>2 DEF ListedBefore
<1>9. CASE token # << >>
    <2>1. Flushed = Append(values, token)
        BY <1>6, <1>9 DEF Flushed
    <2>2. /\ Len(Append(values, token)) = c + 1
          /\ \A j \in 1 .. c : Append(values, token)[j] = values[j]
          /\ Append(values, token)[c + 1] = token
        <3>1. AnySeq(values)
            BY <1>1 DEF AnySeq
        <3> QED
            BY <1>5, <3>1, Appending
    <2>3. i \in L /\ Cardinality(Below(L, i + 1)) = c + 1 /\ Rank(L, i) = c + 1
        BY <1>1, <1>3, <1>4, <1>7, <1>9, Counting
    <2>4. \A p \in Below(L, i + 1) : p = i \/ p \in Below(L, i)
        <3>1. \A p \in L : p < i + 1 => p = i \/ p < i
            BY <1>1, <1>3
        <3> QED
            BY <3>1, Zenon DEF Below
    <2>5. \A p \in Below(L, i) : Rank(L, p) \in 1 .. c
        BY <1>1, <1>3, <1>4, RankBelow
    <2>6. \A p \in Below(L, i + 1) : Flushed[Rank(L, p)] = LiteralBefore(s, p)
        BY <1>5, <1>6, <2>1, <2>2, <2>3, <2>4, <2>5
    <2> QED
        BY <1>2, <2>1, <2>2, <2>3, <2>6 DEF ListedBefore
<1> QED
    BY <1>8, <1>9

\* One byte that is neither a separator nor the end of the list.
LEMMA ByteMore ==
    ASSUME NEW s \in Seq(STRING), NEW x \in 1 .. Len(s),
           \A p \in TopLevel(s, Semicolon) : x <= p,
           x \notin TopLevel(s, Comma), x \notin TopLevel(s, Semicolon)
    PROVE  /\ \A p \in TopLevel(s, Semicolon) : x + 1 <= p
           /\ ElementStart(s, x + 1) = ElementStart(s, x)
           /\ Below(LiteralEnds(s), x + 1) = Below(LiteralEnds(s), x)
<1>1. Len(s) \in Nat /\ DOMAIN s = 1 .. Len(s) /\ \A p \in TopLevel(s, Semicolon) : p \in Nat
    BY LenProperties DEF TopLevel
<1>2. \A p \in TopLevel(s, Semicolon) : x + 1 <= p
    <2>1. \A p \in TopLevel(s, Semicolon) : x # p
        OBVIOUS
    <2> QED
        BY <1>1, <2>1
<1>3. x \notin Separators(s)
    BY DEF Separators
<1>4. x \notin LiteralEnds(s)
    <2>1. x # ListEnd(s)
        BY <1>1, ListEndIs
    <2> QED
        BY <1>3, <2>1 DEF LiteralEnds
<1>5. ElementStart(s, x + 1) = ElementStart(s, x)
    <2>1. x \in 1 .. Len(s) + 1
        BY <1>1
    <2> QED
        BY <1>3, <2>1, ElementStartIs
<1>6. Below(LiteralEnds(s), x + 1) = Below(LiteralEnds(s), x)
    <2>1. PICK m \in Nat : m = Len(s) + 1
        BY <1>1
    <2>2. LiteralEnds(s) \in SUBSET (1 .. m) /\ x \in Nat
        BY <1>1, <2>1, SeparatorsAre
    <2> QED
        BY <1>4, <2>2, Counting
<1> QED
    BY <1>2, <1>5, <1>6

\* What a copier adds to the builder.
LEMMA Copied ==
    ASSUME TypeInv, NEW s, text = s, NEW count \in 0 .. 2, NEW next, Copy(count, next)
    PROVE  \E r : /\ buf' = r /\ Len(r) = Len(buf) + count
                  /\ \A j \in 1 .. Len(buf) : r[j] = buf[j]
                  /\ \A j \in Len(buf) + 1 .. Len(buf) + count :
                        r[j] = <<s[i + (j - Len(buf)) - 1]>>
<1>1. buf \in Seq(Piece) /\ Len(buf) \in Nat /\ i \in Nat
    BY LenProperties DEF TypeInv, TypeOK
<1>2. PICK c : c = [k \in 1 .. count |-> <<text[i + k - 1]>>]
    OBVIOUS
<1>3. PICK T : T = {<<text[i + k - 1]>> : k \in 1 .. count}
    OBVIOUS
<1>4. c \in [1 .. count -> T] /\ \A k \in 1 .. count : c[k] = <<s[i + k - 1]>>
    BY <1>2, <1>3
<1>5. count \in Nat
    OBVIOUS
<1>6. /\ Len(buf \o c) = Len(buf) + count
      /\ \A j \in 1 .. Len(buf) : (buf \o c)[j] = buf[j]
      /\ \A j \in Len(buf) + 1 .. Len(buf) + count : (buf \o c)[j] = c[j - Len(buf)]
    BY <1>1, <1>4, <1>5, Copying
<1>7. \A j \in Len(buf) + 1 .. Len(buf) + count :
         (buf \o c)[j] = <<s[i + (j - Len(buf)) - 1]>>
    BY <1>1, <1>4, <1>5, <1>6
<1>8. buf' = buf \o c
    BY <1>2 DEF Copy
<1> QED
    BY <1>6, <1>7, <1>8

\* A copier that takes such bytes keeps the builder in step.
LEMMA CopyWhileListing ==
    ASSUME TypeInv, NEW s \in Seq(STRING), SplitSoFar(s),
           NEW count \in 1 .. 2, NEW next, Copy(count, next),
           i + count <= Len(s) + 1,
           \A p \in i .. i + count - 1 : p \notin TopLevel(s, Comma) /\ p \notin TopLevel(s, Semicolon),
           \/ next = "code" /\ QuotesIn(s, 1, i + count - 1) % 2 = 0
           \/ next = "string" /\ QuotesIn(s, 1, i + count - 1) % 2 = 1
    PROVE  SplitSoFar(s)'
<1>1. /\ text = s /\ i \in 1 .. Len(s) /\ Len(s) \in Nat
      /\ buf \in Seq(Piece) /\ Len(buf) \in Nat
    BY LenProperties DEF TypeInv, TypeOK, SplitSoFar
<1>2. /\ \A p \in TopLevel(s, Semicolon) : i + count <= p
      /\ ElementStart(s, i + count) = ElementStart(s, i)
      /\ Below(LiteralEnds(s), i + count) = Below(LiteralEnds(s), i)
    <2>1. /\ \A p \in TopLevel(s, Semicolon) : i + 1 <= p
          /\ ElementStart(s, i + 1) = ElementStart(s, i)
          /\ Below(LiteralEnds(s), i + 1) = Below(LiteralEnds(s), i)
        BY <1>1, ByteMore DEF SplitSoFar
    <2>2. CASE count = 1
        BY <2>1, <2>2
    <2>3. CASE count = 2
        <3>1. PICK x \in 1 .. Len(s) : x = i + 1
            BY <1>1, <2>3
        <3>2. x \in i .. i + count - 1
            BY <1>1, <2>3, <3>1
        <3>3. /\ \A p \in TopLevel(s, Semicolon) : x + 1 <= p
              /\ ElementStart(s, x + 1) = ElementStart(s, x)
              /\ Below(LiteralEnds(s), x + 1) = Below(LiteralEnds(s), x)
            BY <2>1, <3>1, <3>2, ByteMore
        <3>4. x + 1 = i + count
            BY <1>1, <2>3, <3>1
        <3> QED
            BY <2>1, <3>1, <3>3, <3>4
    <2> QED
        BY <2>2, <2>3
<1>3. PICK a \in 1 .. i : a = ElementStart(s, i)
    BY <1>1, ElementStartIs
<1>4. PICK r : /\ buf' = r /\ Len(r) = Len(buf) + count
               /\ \A j \in 1 .. Len(buf) : r[j] = buf[j]
               /\ \A j \in Len(buf) + 1 .. Len(buf) + count :
                     r[j] = <<s[i + (j - Len(buf)) - 1]>>
    <2>1. count \in 0 .. 2
        OBVIOUS
    <2> QED
        BY <1>1, <2>1, Copied
<1>5. Len(buf) = i - a /\ \A k \in 1 .. Len(buf) : buf[k] = <<s[a + k - 1]>>
    BY <1>3 DEF SplitSoFar
<1>6. Len(r) = i + count - a /\ \A k \in 1 .. Len(r) : r[k] = <<s[a + k - 1]>>
    <2>1. Len(r) = i + count - a
        BY <1>1, <1>4, <1>5
    <2>2. ASSUME NEW k \in 1 .. Len(r)
          PROVE  r[k] = <<s[a + k - 1]>>
        <3>1. CASE k \in 1 .. Len(buf)
            BY <1>4, <1>5, <3>1
        <3>2. CASE k \in Len(buf) + 1 .. Len(buf) + count
            <4>1. i + (k - Len(buf)) - 1 = a + k - 1
                BY <1>1, <1>5
            <4> QED
                BY <1>4, <3>2, <4>1
        <3> QED
            BY <1>1, <1>4, <3>1, <3>2
    <2> QED
        BY <2>1, <2>2
<1>7. /\ text' = text /\ values' = values /\ i' = i + count /\ mode' = next
    BY DEF Copy
<1>8. /\ text' = s
      /\ \A p \in TopLevel(s, Semicolon) : i' <= p
      /\ \/ mode' = "code" /\ QuotesIn(s, 1, i' - 1) % 2 = 0
         \/ mode' = "string" /\ QuotesIn(s, 1, i' - 1) % 2 = 1
    BY <1>1, <1>2, <1>7
<1>9. ElementStart(s, i') = a /\ Len(buf') = i' - a
    <2>1. ElementStart(s, i') = a
        BY <1>2, <1>3, <1>7
    <2>2. Len(buf') = i + count - a
        BY <1>4, <1>6
    <2>3. i' = i + count
        BY <1>7
    <2>4. Len(buf') = i' - a
        BY <1>1, <2>2, <2>3
    <2> QED
        BY <2>1, <2>4
<1>10. ListedBefore(values', s, i')
    <2>1. ListedBefore(values, s, i)
        BY DEF SplitSoFar
    <2> QED
        BY <1>2, <1>7, <2>1 DEF ListedBefore
<1>11. \A k \in 1 .. Len(buf') : buf'[k] = <<s[ElementStart(s, i') + k - 1]>>
    BY <1>4, <1>6, <1>9
<1> QED
    BY <1>8, <1>9, <1>10, <1>11 DEF SplitSoFar

LEMMA Different == Quote # Comma /\ Quote # Semicolon /\ Comma # Semicolon
BY Zenon DEF Quote, Comma, Semicolon

\* How many quotes there are once the byte at i is scanned.
LEMMA QuotesSoFar ==
    ASSUME NEW s \in Seq(STRING), NEW x \in 1 .. Len(s)
    PROVE  /\ QuotesIn(s, 1, x - 1) \in Nat
           /\ s[x] = Quote => QuotesIn(s, 1, x) = QuotesIn(s, 1, x - 1) + 1
           /\ s[x] # Quote => QuotesIn(s, 1, x) = QuotesIn(s, 1, x - 1)
<1>1. Len(s) \in Nat
    BY LenProperties
<1>2. PICK b \in Nat : b = x - 1 /\ b + 1 = x
    BY <1>1
<1>3. /\ QuotesIn(s, 1, b) \in Nat
      /\ s[b + 1] = Quote => QuotesIn(s, 1, b + 1) = QuotesIn(s, 1, b) + 1
      /\ s[b + 1] # Quote => QuotesIn(s, 1, b + 1) = QuotesIn(s, 1, b)
    <2>1. 1 \in Nat /\ 1 <= b + 1
        BY <1>2
    <2> QED
        BY <2>1, QuotesStep, Zenon
<1> QED
    BY <1>2, <1>3

\* An iteration of splitLiterals inside of the list (prepared_sql.go:111-144).
LEMMA SplitStep ==
    ASSUME TypeInv, NEW s \in Seq(STRING), SplitSoFar(s), phase = "split",
           Strings \/ SplitByte \/ SplitComma
    PROVE  SplitSoFar(s)'
<1> DEFINE Q(x) == QuotesIn(s, 1, x)
<1>1. text = s /\ i \in 1 .. Len(s) + 1 /\ Len(s) \in Nat /\ DOMAIN s = 1 .. Len(s)
    BY LenProperties DEF TypeInv, TypeOK, SplitSoFar
<1>2. i \in 1 .. Len(s)
    BY <1>1 DEF Strings, OpenString, StringByte, EscapedQuote, CloseString, SplitByte, SplitComma, In
<1>3. /\ Q(i - 1) \in Nat
      /\ s[i] = Quote => Q(i) = Q(i - 1) + 1
      /\ s[i] # Quote => Q(i) = Q(i - 1)
    BY <1>2, QuotesSoFar
<1>4. \A p \in 1 .. Len(s) : p \in TopLevel(s, Comma) \/ p \in TopLevel(s, Semicolon) =>
         s[p] # Quote /\ Q(p - 1) % 2 = 0
    BY Different DEF TopLevel
<1>5. /\ mode = "code" => Q(i - 1) % 2 = 0
      /\ mode = "string" => Q(i - 1) % 2 = 1
    BY DEF SplitSoFar
<1> HIDE DEF Q
<1>6. ASSUME NEW next, Copy(1, next), i \notin TopLevel(s, Comma), i \notin TopLevel(s, Semicolon),
             (next = "code" /\ Q(i) % 2 = 0) \/ (next = "string" /\ Q(i) % 2 = 1)
      PROVE  SplitSoFar(s)'
    <2>1. \A p \in i .. i + 1 - 1 : p = i
        BY <1>2
    <2>2. i + 1 - 1 = i /\ i + 1 <= Len(s) + 1
        BY <1>1, <1>2
    <2> QED
        BY <1>6, <2>1, <2>2, CopyWhileListing DEF Q
<1>7. CASE OpenString
    <2>1. s[i] = Quote /\ mode = "code" /\ Copy(1, "string")
        BY <1>1, <1>7 DEF OpenString, In
    <2>2. Q(i) % 2 = 1
        BY <1>3, <1>5, <2>1
    <2> QED
        BY <1>2, <1>4, <1>6, <2>1, <2>2
<1>8. CASE StringByte
    <2>1. s[i] # Quote /\ mode = "string" /\ Copy(1, "string")
        BY <1>1, <1>8 DEF StringByte
    <2>2. Q(i - 1) % 2 = 1 /\ Q(i) % 2 = 1
        BY <1>3, <1>5, <2>1
    <2> QED
        BY <1>2, <1>4, <1>6, <2>1, <2>2
<1>9. CASE CloseString
    <2>1. s[i] = Quote /\ mode = "string" /\ Copy(1, "code")
        BY <1>1, <1>9 DEF CloseString, In
    <2>2. Q(i) % 2 = 0
        BY <1>3, <1>5, <2>1
    <2> QED
        BY <1>2, <1>4, <1>6, <2>1, <2>2
<1>10. CASE EscapedQuote
    <2>1. /\ s[i] = Quote /\ mode = "string" /\ Copy(2, "string")
          /\ s[i + 1] = Quote /\ i < Len(s)
        BY <1>1, <1>10 DEF EscapedQuote, In, Next2Are
    <2>2. PICK x \in 1 .. Len(s) : x = i + 1 /\ x - 1 = i
        BY <1>1, <1>2, <2>1
    <2>3. Q(x) = Q(i) + 1
        BY <2>1, <2>2, QuotesSoFar DEF Q
    <2>4. Q(x) % 2 = 1
        BY <1>3, <1>5, <2>1, <2>3
    <2>5. \A p \in i .. i + 2 - 1 : p = i \/ p = x
        BY <1>2, <2>2
    <2>6. i + 2 - 1 = x /\ i + 2 <= Len(s) + 1
        BY <1>1, <1>2, <2>2
    <2>7. \A p \in i .. i + 2 - 1 : p \notin TopLevel(s, Comma) /\ p \notin TopLevel(s, Semicolon)
        BY <1>2, <1>4, <2>1, <2>2, <2>5
    <2> QED
        BY <2>1, <2>4, <2>6, <2>7, CopyWhileListing DEF Q
<1>11. CASE SplitByte
    <2>1. /\ s[i] \notin {Quote, Comma, Semicolon} /\ mode = "code" /\ Copy(1, "code")
        BY <1>1, <1>11 DEF SplitByte
    <2>2. i \notin TopLevel(s, Comma) /\ i \notin TopLevel(s, Semicolon)
        BY <2>1 DEF TopLevel
    <2>3. Q(i) % 2 = 0
        BY <1>3, <1>5, <2>1
    <2> QED
        BY <1>6, <2>1, <2>2, <2>3
<1>12. CASE SplitComma
    <2>1. /\ s[i] = Comma /\ mode = "code"
          /\ values' = Flushed /\ buf' = << >> /\ i' = i + 1 /\ text' = text /\ mode' = mode
        BY <1>1, <1>12 DEF SplitComma, In
    <2>2. i \in TopLevel(s, Comma) /\ i \notin TopLevel(s, Semicolon)
        BY <1>1, <1>2, <1>5, <2>1, Different DEF TopLevel, Q
    <2>3. i < ListEnd(s)
        <3>1. \A p \in TopLevel(s, Semicolon) : i <= p /\ i # p /\ p \in Nat
            BY <1>1, <2>2 DEF SplitSoFar, TopLevel
        <3> QED
            BY <1>1, <1>2, <3>1, ListEndIs
    <2>4. i \in Separators(s)
        BY <2>2, <2>3 DEF Separators
    <2>5. ListedBefore(Flushed, s, i + 1)
        BY <2>4, Flushing
    <2>6. ElementStart(s, i + 1) = i + 1
        BY <1>1, <2>4, ElementStartIs
    <2>7. \A p \in TopLevel(s, Semicolon) : i + 1 <= p
        BY <1>1, <2>2 DEF SplitSoFar, TopLevel
    <2>8. Q(i) % 2 = 0 /\ i + 1 - 1 = i
        BY <1>2, <1>3, <1>5, <2>1, Different
    <2>9. Len(<< >>) = 0 /\ i + 1 - (i + 1) = 0
        BY <1>2, EmptySeq
    <2> QED
        BY <1>1, <2>1, <2>5, <2>6, <2>7, <2>8, <2>9 DEF SplitSoFar, Q
<1> QED
    BY <1>7, <1>8, <1>9, <1>10, <1>11, <1>12 DEF Strings

\* Where the loop ends outside of a string, the list ends, and all is flushed.
LEMMA ListComplete ==
    ASSUME TypeInv, NEW s \in Seq(STRING), SplitSoFar(s), AtEndOfList
    PROVE  WellQuoted(s) /\ AreLiteralsOf(Flushed, s)
<1>1. /\ text = s /\ i \in 1 .. Len(s) + 1 /\ Len(s) \in Nat /\ DOMAIN s = 1 .. Len(s)
      /\ mode = "code" /\ (i <= Len(s) => s[i] = Semicolon)
    BY LenProperties DEF TypeInv, TypeOK, SplitSoFar, AtEndOfList
<1>2. QuotesIn(s, 1, i - 1) % 2 = 0
    BY <1>1 DEF SplitSoFar
<1>3. ListEnd(s) = i
    <2>1. ListEnd(s) >= i
        BY <1>1, ListEndIs DEF SplitSoFar
    <2>2. i <= Len(s) => i \in TopLevel(s, Semicolon)
        BY <1>1, <1>2 DEF TopLevel
    <2> QED
        BY <1>1, <2>1, <2>2, ListEndIs
<1>4. ListedBefore(Flushed, s, i + 1)
    BY <1>3, Flushing
<1>5. Below(LiteralEnds(s), i + 1) = LiteralEnds(s)
    <2>1. \A p \in LiteralEnds(s) : p < i + 1
        BY <1>1, <1>3, SeparatorsAre DEF LiteralEnds, Separators
    <2> QED
        BY <2>1, Zenon DEF Below
<1> QED
    BY <1>2, <1>3, <1>4, <1>5 DEF WellQuoted, AreLiteralsOf, ListedBefore

\* Where it ends inside of one, a quote is missing.
LEMMA ListOpen ==
    ASSUME TypeInv, NEW s \in Seq(STRING), SplitSoFar(s), mode = "string", i > Len(text)
    PROVE  ~WellQuoted(s)
<1>1. text = s /\ i = Len(s) + 1 /\ Len(s) \in Nat
    BY LenProperties DEF TypeInv, TypeOK, SplitSoFar
<1>2. ListEnd(s) = i
    BY <1>1, ListEndIs DEF SplitSoFar
<1> QED
    BY <1>2 DEF WellQuoted, SplitSoFar

\* Nothing is listed yet.
LEMMA ListStart ==
    ASSUME NEW s \in Seq(STRING), text' = s, i' = 1, mode' = "code", buf' = << >>, values' = << >>
    PROVE  SplitSoFar(s)'
<1>1. Len(s) \in Nat /\ Len(<< >>) = 0 /\ 1 \in 1 .. Len(s) + 1
    BY EmptySeq, LenProperties
<1>2. \A p \in TopLevel(s, Semicolon) : 1 <= p
    BY LenProperties DEF TopLevel
<1>3. QuotesIn(s, 1, 1 - 1) % 2 = 0
    BY NoQuotes
<1>4. ElementStart(s, 1) = 1
    BY <1>1, ElementStartIs
<1>5. Below(LiteralEnds(s), 1) = {}
    <2>1. \A p \in LiteralEnds(s) : ~(p < 1)
        BY SeparatorsAre
    <2> QED
        BY <2>1, Zenon DEF Below
<1>6. ListedBefore(<< >>, s, 1)
    BY <1>1, <1>5, FS_EmptySet DEF ListedBefore
<1> QED
    BY <1>1, <1>2, <1>3, <1>4, <1>6 DEF SplitSoFar

(***************************************************************************)
(* The lexer: tokens follow one another and do not overlap.                *)
(***************************************************************************)
StartsUpTo(f, s, m) ==
    /\ f \in [1 .. m -> BOOLEAN]
    /\ \A p \in 1 .. m : f[p] <=> (p = 1 \/ \E b \in 1 .. p - 1 : f[b] /\ TokenEnd(s, b) = p - 1)

\* The recursion that defines TokenStarts has a solution.
LEMMA StartsExist ==
    ASSUME NEW s, NEW m \in Nat
    PROVE  \E f : StartsUpTo(f, s, m)
<1> SUFFICES ASSUME ~\E f : StartsUpTo(f, s, m)
             PROVE  FALSE
    OBVIOUS
<1>1. PICK S : S = {k \in Nat : ~\E f : StartsUpTo(f, s, k)}
    OBVIOUS
<1>2. S \in SUBSET Nat /\ S # {}
    BY <1>1
<1>3. PICK k \in S : \A j \in S : k <= j
    BY <1>2, LeastOf
<1>4. CASE k = 0
    <2>1. PICK f : f = [p \in 1 .. 0 |-> TRUE]
        OBVIOUS
    <2>2. StartsUpTo(f, s, 0)
        BY <2>1 DEF StartsUpTo
    <2> QED
        BY <1>1, <1>4, <2>2
<1>5. CASE k # 0
    <2>0. k \in Nat \ {0}
        BY <1>2, <1>5
    <2>1. k - 1 \in Nat /\ k - 1 \notin S
        BY <1>3, <2>0
    <2>2. PICK f : StartsUpTo(f, s, k - 1)
        BY <1>1, <2>1
    <2>3. PICK last \in BOOLEAN :
             last <=> (k = 1 \/ \E b \in 1 .. k - 1 : f[b] /\ TokenEnd(s, b) = k - 1)
        OBVIOUS
    <2>4. PICK g : g = [p \in 1 .. k |-> IF p = k THEN last ELSE f[p]]
        OBVIOUS
    <2>5. g[k] = last /\ \A p \in 1 .. k - 1 : g[p] = f[p]
        BY <2>0, <2>4
    <2>6. g \in [1 .. k -> BOOLEAN]
        <3>1. \A p \in 1 .. k : p = k \/ p \in 1 .. k - 1
            BY <2>0
        <3>2. f \in [1 .. k - 1 -> BOOLEAN]
            BY <2>2 DEF StartsUpTo
        <3> QED
            BY <2>4, <3>1, <3>2
    <2>7. ASSUME NEW p \in 1 .. k
          PROVE  g[p] <=> (p = 1 \/ \E b \in 1 .. p - 1 : g[b] /\ TokenEnd(s, b) = p - 1)
        <3>1. \A b \in 1 .. p - 1 : g[b] = f[b]
            <4>1. 1 .. p - 1 \subseteq 1 .. k - 1
                BY <2>0
            <4> QED
                BY <2>5, <4>1
        <3>2. CASE p = k
            BY <2>3, <2>5, <3>1, <3>2
        <3>3. CASE p \in 1 .. k - 1
            <4>1. f[p] <=> (p = 1 \/ \E b \in 1 .. p - 1 : f[b] /\ TokenEnd(s, b) = p - 1)
                BY <2>2, <3>3 DEF StartsUpTo
            <4> QED
                BY <2>5, <3>1, <3>3, <4>1
        <3> QED
            BY <2>0, <3>2, <3>3
    <2>8. StartsUpTo(g, s, k)
        BY <2>6, <2>7 DEF StartsUpTo
    <2> QED
        BY <1>1, <2>8
<1> QED
    BY <1>4, <1>5

\* A token starts at the beginning and behind every token.
LEMMA StartsAre ==
    ASSUME NEW s \in Seq(STRING)
    PROVE  /\ TokenStarts(s) \in SUBSET (1 .. Len(s) + 1)
           /\ \A p \in 1 .. Len(s) + 1 :
                 p \in TokenStarts(s) <=>
                     (p = 1 \/ \E b \in 1 .. p - 1 : b \in TokenStarts(s) /\ TokenEnd(s, b) = p - 1)
<1>1. PICK m \in Nat : m = Len(s) + 1
    BY LenProperties
<1>2. PICK f : StartsUpTo(f, s, m)
    BY StartsExist
<1>3. f = [p \in 1 .. m |-> p = 1 \/ \E b \in 1 .. p - 1 : f[b] /\ TokenEnd(s, b) = p - 1]
    BY <1>2 DEF StartsUpTo
<1>4. PICK h : /\ h = [p \in 1 .. m |-> p = 1 \/ \E b \in 1 .. p - 1 : h[b] /\ TokenEnd(s, b) = p - 1]
               /\ TokenStarts(s) = {p \in DOMAIN h : h[p]}
    BY <1>1, <1>3 DEF TokenStarts
<1>5. DOMAIN h = 1 .. m
    BY <1>4
<1>6. \A p \in 1 .. m : h[p] = (p = 1 \/ \E b \in 1 .. p - 1 : h[b] /\ TokenEnd(s, b) = p - 1)
    BY <1>4
<1>7. \A p \in 1 .. m : h[p] <=> p \in TokenStarts(s)
    BY <1>4, <1>5
<1>8. ASSUME NEW p \in 1 .. m
      PROVE  p \in TokenStarts(s) <=>
                 (p = 1 \/ \E b \in 1 .. p - 1 : b \in TokenStarts(s) /\ TokenEnd(s, b) = p - 1)
    <2>1. 1 .. p - 1 \subseteq 1 .. m
        BY <1>1
    <2> QED
        BY <1>6, <1>7, <2>1
<1> QED
    BY <1>1, <1>4, <1>5, <1>8

LEMMA TokenEndIs ==
    ASSUME NEW s \in Seq(STRING), NEW b \in 1 .. Len(s)
    PROVE  /\ TokenEnd(s, b) \in b .. Len(s)
           /\ ~Opens(s, b) => TokenEnd(s, b) = b
           /\ Opens(s, b) =>
                 /\ TokenEnd(s, b) = Len(s) \/ (TokenEnd(s, b) > b /\ Closes(s, b, TokenEnd(s, b)))
                 /\ \A e \in b + 1 .. Len(s) : Closes(s, b, e) => TokenEnd(s, b) <= e
<1>1. Len(s) \in Nat
    BY LenProperties
<1>2. CASE ~Opens(s, b)
    BY <1>1, <1>2 DEF TokenEnd
<1>3. CASE Opens(s, b)
    <2>1. PICK E : E = {e \in b + 1 .. Len(s) : Closes(s, b, e)} \union {Len(s)}
        OBVIOUS
    <2>2. E \in SUBSET Nat /\ E # {} /\ \A e \in E : e \in b .. Len(s)
        BY <1>1, <2>1
    <2>3. Min(E) \in E /\ \A e \in E : Min(E) <= e
        BY <2>2, MinOf
    <2>4. TokenEnd(s, b) = Min(E)
        BY <1>3, <2>1 DEF TokenEnd
    <2>5. Min(E) = Len(s) \/ (Min(E) \in b + 1 .. Len(s) /\ Closes(s, b, Min(E)))
        BY <2>1, <2>3
    <2>6. \A e \in b + 1 .. Len(s) : Closes(s, b, e) => Min(E) <= e
        BY <2>1, <2>3
    <2> QED
        BY <1>1, <1>3, <2>2, <2>3, <2>4, <2>5, <2>6
<1> QED
    BY <1>2, <1>3

\* A token is over before the next one starts.
LEMMA NoOverlap ==
    ASSUME NEW s \in Seq(STRING), NEW b \in TokenStarts(s), NEW c \in TokenStarts(s), b < c
    PROVE  TokenEnd(s, b) < c
<1> SUFFICES ASSUME ~(TokenEnd(s, b) < c)
             PROVE  FALSE
    OBVIOUS
<1>1. Len(s) \in Nat /\ \A p \in TokenStarts(s) : p \in 1 .. Len(s) + 1
    BY LenProperties, StartsAre
<1>2. \A x, y \in TokenStarts(s) : x < y => x \in 1 .. Len(s) /\ TokenEnd(s, x) \in x .. Len(s)
    BY <1>1, TokenEndIs
<1>3. PICK S : S = {y \in TokenStarts(s) : \E x \in TokenStarts(s) : x < y /\ ~(TokenEnd(s, x) < y)}
    OBVIOUS
<1>4. S \in SUBSET Nat /\ S # {}
    BY <1>1, <1>3
<1>5. PICK y \in S : \A z \in S : y <= z
    BY <1>4, LeastOf
<1>6. PICK x \in TokenStarts(s) : y \in TokenStarts(s) /\ x < y /\ ~(TokenEnd(s, x) < y)
    BY <1>3, <1>5
<1>7. PICK a \in 1 .. y - 1 : a \in TokenStarts(s) /\ TokenEnd(s, a) = y - 1
    <2>1. y # 1
        BY <1>1, <1>6
    <2> QED
        BY <1>1, <1>6, <2>1, StartsAre
<1>8. a < y /\ TokenEnd(s, x) \in Nat
    BY <1>1, <1>2, <1>6, <1>7
<1>9. CASE a = x
    BY <1>1, <1>6, <1>7, <1>9
<1>10. CASE a < x
    <2>1. x \notin S
        BY <1>1, <1>5, <1>6
    <2>2. TokenEnd(s, a) < x
        BY <1>3, <1>6, <1>7, <1>10, <2>1
    <2> QED
        BY <1>1, <1>6, <1>7, <2>2
<1>11. CASE x < a
    <2>1. a \notin S
        BY <1>1, <1>5, <1>6, <1>7, <1>8
    <2>2. TokenEnd(s, x) < a
        BY <1>3, <1>6, <1>7, <1>11, <2>1
    <2> QED
        BY <1>1, <1>6, <1>7, <1>8, <2>2
<1> QED
    BY <1>1, <1>6, <1>7, <1>9, <1>10, <1>11

LEMMA NextStart ==
    ASSUME NEW s \in Seq(STRING), NEW b \in TokenStarts(s), b <= Len(s)
    PROVE  /\ b \in 1 .. Len(s) /\ TokenEnd(s, b) + 1 \in TokenStarts(s)
           /\ \A p \in b + 1 .. TokenEnd(s, b) : p \notin TokenStarts(s)
<1>1. b \in 1 .. Len(s) /\ Len(s) \in Nat
    BY LenProperties, StartsAre
<1>2. PICK e \in b .. Len(s) : e = TokenEnd(s, b)
    BY <1>1, TokenEndIs
<1>3. e + 1 \in TokenStarts(s)
    <2>1. e + 1 \in 1 .. Len(s) + 1 /\ b \in 1 .. (e + 1) - 1 /\ TokenEnd(s, b) = (e + 1) - 1
        BY <1>1, <1>2
    <2> QED
        BY <2>1, StartsAre
<1>4. ASSUME NEW p \in b + 1 .. e, p \in TokenStarts(s)
      PROVE  FALSE
    <2>1. b < p
        BY <1>1, <1>2
    <2>2. e < p
        BY <1>2, <1>4, <2>1, NoOverlap
    <2> QED
        BY <1>1, <1>2, <2>2
<1> QED
    BY <1>1, <1>2, <1>3, <1>4

\* The token that starts at b goes on up to x, if the text does.
Reaches(s, b, x) == TokenEnd(s, b) >= x \/ TokenEnd(s, b) = Len(s)

LEMMA GoesOn ==
    ASSUME NEW s \in Seq(STRING), NEW b \in 1 .. Len(s), Opens(s, b),
           NEW x \in Nat, b <= x, Reaches(s, b, x), x = b \/ ~Closes(s, b, x)
    PROVE  Reaches(s, b, x + 1)
<1>1. PICK e \in b .. Len(s) : e = TokenEnd(s, b)
    BY TokenEndIs
<1>2. e = Len(s) \/ (e > b /\ Closes(s, b, e))
    BY <1>1, TokenEndIs
<1>3. e = Len(s) \/ (e >= x /\ e # x)
    BY <1>1, <1>2 DEF Reaches
<1> QED
    BY <1>1, <1>3, LenProperties DEF Reaches

LEMMA TokenOver ==
    ASSUME NEW s \in Seq(STRING), NEW b \in TokenStarts(s), b <= Len(s), Opens(s, b),
           NEW x \in b + 1 .. Len(s), Reaches(s, b, x), Closes(s, b, x)
    PROVE  x + 1 \in TokenStarts(s)
<1>1. b \in 1 .. Len(s) /\ Len(s) \in Nat
    BY NextStart, LenProperties
<1>2. PICK e \in b .. Len(s) : e = TokenEnd(s, b)
    BY <1>1, TokenEndIs
<1>3. e <= x
    BY <1>1, <1>2, TokenEndIs
<1>4. e = x
    BY <1>1, <1>2, <1>3 DEF Reaches
<1> QED
    BY <1>2, <1>4, NextStart

\* No token starts inside of another one.
LEMMA Inside ==
    ASSUME NEW s \in Seq(STRING), NEW b \in TokenStarts(s), NEW x \in 1 .. Len(s),
           b < x, Reaches(s, b, x)
    PROVE  x \notin TokenStarts(s)
<1>1. b \in 1 .. Len(s) /\ Len(s) \in Nat
    BY LenProperties, StartsAre
<1>2. PICK e \in b .. Len(s) : e = TokenEnd(s, b)
    BY <1>1, TokenEndIs
<1>3. x \in b + 1 .. e
    BY <1>1, <1>2 DEF Reaches
<1> QED
    BY <1>1, <1>2, <1>3, NextStart

(***************************************************************************)
(* The scan of the template.                                               *)
(***************************************************************************)
\* In mode m, having come to x, the scan is inside of the token that starts at b.
Within(s, m, x, b) ==
    \/ m = "string" /\ s[b] = Quote /\ Reaches(s, b, x) /\ QuotesIn(s, b + 1, x - 1) % 2 = 0
    \/ m \in Delimiters /\ s[b] = m /\ Reaches(s, b, x)
    \/ m = "line" /\ s[b] = "-" /\ Reaches(s, b, x - 1)
    \/ m = "block" /\ s[b] = "/" /\ b + 2 <= x /\ Reaches(s, b, x + 1)

\* The mode is "code" exactly between two tokens of the lexer.
InToken(s, m, x) ==
    IF m = "code" THEN x \in TokenStarts(s)
    ELSE \E b \in TokenStarts(s) : b < x /\ b <= Len(s) /\ Opens(s, b) /\ Within(s, m, x, b)

LEMMA Bytes ==
    /\ Quote \notin Delimiters /\ Quote # "-" /\ Quote # "/" /\ Quote # "?"
    /\ "-" \notin Delimiters /\ "/" \notin Delimiters /\ "?" \notin Delimiters
    /\ "-" # "/" /\ "-" # "?" /\ "/" # "?" /\ "-" # "\n"
    /\ \A d \in Delimiters : d # "code" /\ d # "string" /\ d # "line" /\ d # "block"
BY Zenon DEF Quote, Delimiters

\* Which tokens close where.
LEMMA ClosesIs ==
    ASSUME NEW s, NEW b, NEW e
    PROVE  /\ s[b] = Quote => (Closes(s, b, e) <=> ClosesString(s, b, e))
           /\ s[b] \in Delimiters => (Closes(s, b, e) <=> s[e] = s[b])
           /\ s[b] = "-" => (Closes(s, b, e) <=> e < Len(s) /\ s[e + 1] = "\n")
           /\ s[b] = "/" => (Closes(s, b, e) <=> e > b + 2 /\ s[e - 1] = "*" /\ s[e] = "/")
BY Bytes DEF Closes

\* A byte in no token but its own.
LEMMA CodeByte ==
    ASSUME NEW s \in Seq(STRING), NEW x \in 1 .. Len(s), InToken(s, "code", x), ~Opens(s, x)
    PROVE  InToken(s, "code", x + 1)
<1>1. x \in TokenStarts(s) /\ TokenEnd(s, x) = x
    BY TokenEndIs DEF InToken
<1> QED
    BY <1>1, NextStart DEF InToken

\* The start of a string, of a quoted identifier and of a comment.
LEMMA Opening ==
    ASSUME NEW s \in Seq(STRING), NEW x \in 1 .. Len(s), InToken(s, "code", x)
    PROVE  /\ s[x] = Quote => InToken(s, "string", x + 1)
           /\ s[x] \in Delimiters => InToken(s, s[x], x + 1)
           /\ (x < Len(s) /\ s[x] = "-" /\ s[x + 1] = "-") => InToken(s, "line", x + 1)
           /\ (x < Len(s) /\ s[x] = "/" /\ s[x + 1] = "*") =>
                 InToken(s, "block", x + 2) /\ x + 1 \notin TokenStarts(s)
<1>1. x \in TokenStarts(s) /\ Len(s) \in Nat /\ x \in Nat
    BY LenProperties DEF InToken
<1>2. TokenEnd(s, x) \in x .. Len(s)
    BY TokenEndIs
<1>3. Reaches(s, x, x)
    BY <1>2 DEF Reaches
<1>4. Opens(s, x) => Reaches(s, x, x + 1)
    BY <1>1, <1>3, GoesOn
<1>5. ASSUME s[x] = Quote
      PROVE  InToken(s, "string", x + 1)
    <2>1. Opens(s, x)
        BY <1>5 DEF Opens
    <2>2. QuotesIn(s, x + 1, (x + 1) - 1) % 2 = 0
        BY <1>1, NoQuotes
    <2>3. Within(s, "string", x + 1, x)
        BY <1>4, <1>5, <2>1, <2>2 DEF Within
    <2> QED
        BY <1>1, <2>1, <2>3 DEF InToken
<1>6. ASSUME s[x] \in Delimiters
      PROVE  InToken(s, s[x], x + 1)
    <2>1. Opens(s, x)
        BY <1>6 DEF Opens
    <2>2. Within(s, s[x], x + 1, x)
        BY <1>4, <1>6, <2>1 DEF Within
    <2> QED
        BY <1>1, <1>6, <2>1, <2>2, Bytes DEF InToken
<1>7. ASSUME x < Len(s), s[x] = "-", s[x + 1] = "-"
      PROVE  InToken(s, "line", x + 1)
    <2>1. Opens(s, x)
        BY <1>7 DEF Opens
    <2>2. (x + 1) - 1 = x
        BY <1>1
    <2>3. Within(s, "line", x + 1, x)
        BY <1>3, <1>7, <2>2 DEF Within
    <2> QED
        BY <1>1, <2>1, <2>3 DEF InToken
<1>8. ASSUME x < Len(s), s[x] = "/", s[x + 1] = "*"
      PROVE  InToken(s, "block", x + 2) /\ x + 1 \notin TokenStarts(s)
    <2>1. Opens(s, x)
        BY <1>8 DEF Opens
    <2>2. ~Closes(s, x, x + 1) /\ ~Closes(s, x, x + 2)
        BY <1>1, <1>8, ClosesIs
    <2>3. Reaches(s, x, (x + 1) + 1)
        BY <1>1, <1>4, <2>1, <2>2, GoesOn
    <2>4. Reaches(s, x, (x + 2) + 1)
        <3>1. (x + 1) + 1 = x + 2
            BY <1>1
        <3> QED
            BY <1>1, <2>1, <2>2, <2>3, <3>1, GoesOn
    <2>5. Within(s, "block", x + 2, x)
        BY <1>1, <1>8, <2>4 DEF Within
    <2>6. x + 1 \notin TokenStarts(s)
        <3>1. PICK y \in 1 .. Len(s) : y = x + 1
            BY <1>1, <1>8
        <3> QED
            BY <1>1, <1>4, <2>1, <3>1, Inside
    <2> QED
        BY <1>1, <2>1, <2>5, <2>6 DEF InToken
<1> QED
    BY <1>5, <1>6, <1>7, <1>8

\* Inside of a token nothing is a placeholder.
LEMMA NotAMark ==
    ASSUME NEW s \in Seq(STRING), NEW x \in 1 .. Len(s), NEW m, m # "code", InToken(s, m, x),
           m = "line" => s[x] # "\n"
    PROVE  x \notin TokenStarts(s)
<1>1. Len(s) \in Nat /\ x \in Nat
    BY LenProperties
<1>2. PICK b \in TokenStarts(s) : b < x /\ b <= Len(s) /\ Opens(s, b) /\ Within(s, m, x, b)
    BY DEF InToken
<1>3. b \in 1 .. Len(s)
    BY <1>2, NextStart
<1>4. CASE m = "line"
    <2>1. s[b] = "-" /\ Reaches(s, b, x - 1)
        BY <1>2, <1>4, Bytes DEF Within
    <2>2. PICK y \in Nat : y = x - 1 /\ y + 1 = x
        BY <1>1
    <2>3. ~Closes(s, b, y)
        BY <1>4, <2>1, <2>2, ClosesIs
    <2>4. Reaches(s, b, x)
        BY <1>2, <1>3, <2>1, <2>2, <2>3, GoesOn
    <2> QED
        BY <1>2, <2>4, Inside
<1>5. CASE m # "line"
    <2>1. Reaches(s, b, x) \/ Reaches(s, b, x + 1)
        BY <1>2, <1>5 DEF Within
    <2>2. Reaches(s, b, x)
        <3>1. TokenEnd(s, b) \in b .. Len(s)
            BY <1>3, TokenEndIs
        <3> QED
            BY <1>1, <1>3, <2>1, <3>1 DEF Reaches
    <2> QED
        BY <1>2, <2>2, Inside
<1> QED
    BY <1>4, <1>5

\* What a non-empty mode says about the token.
LEMMA TokenOf ==
    ASSUME NEW s \in Seq(STRING), NEW x \in 1 .. Len(s), NEW m, m # "code", InToken(s, m, x)
    PROVE  \E b \in TokenStarts(s) :
              /\ b \in 1 .. Len(s) /\ b \in Nat /\ b < x /\ b <= Len(s)
              /\ Opens(s, b) /\ Within(s, m, x, b)
<1>1. PICK b \in TokenStarts(s) : b < x /\ b <= Len(s) /\ Opens(s, b) /\ Within(s, m, x, b)
    BY DEF InToken
<1>2. b \in 1 .. Len(s)
    BY <1>1, NextStart
<1>3. b \in Nat
    BY <1>2
<1> QED
    BY <1>1, <1>2, <1>3

\* Inside of a string (copyStringLiteral, prepared_sql.go:256-278).
LEMMA InString ==
    ASSUME NEW s \in Seq(STRING), NEW x \in 1 .. Len(s), InToken(s, "string", x)
    PROVE  /\ s[x] # Quote => InToken(s, "string", x + 1)
           /\ (s[x] = Quote /\ x < Len(s) /\ s[x + 1] = Quote) =>
                 InToken(s, "string", x + 2) /\ x + 1 \notin TokenStarts(s)
           /\ (s[x] = Quote /\ (x < Len(s) => s[x + 1] # Quote)) => InToken(s, "code", x + 1)
<1>1. PICK b \in TokenStarts(s) :
         /\ b \in 1 .. Len(s) /\ b \in Nat /\ b < x /\ b <= Len(s)
         /\ Opens(s, b) /\ Within(s, "string", x, b)
    BY TokenOf
<1>2. s[b] = Quote /\ Reaches(s, b, x) /\ QuotesIn(s, b + 1, x - 1) % 2 = 0
    BY <1>1, Bytes DEF Within
<1>3. x \in Nat /\ Len(s) \in Nat
    BY LenProperties
<1>4. /\ QuotesIn(s, b + 1, x - 1) \in Nat
      /\ s[x] = Quote => QuotesIn(s, b + 1, x) = QuotesIn(s, b + 1, x - 1) + 1
      /\ s[x] # Quote => QuotesIn(s, b + 1, x) = QuotesIn(s, b + 1, x - 1)
    <2>1. PICK y \in Nat, a \in Nat : y = x - 1 /\ y + 1 = x /\ a = b + 1 /\ a <= y + 1
        BY <1>1, <1>3
    <2>2. /\ QuotesIn(s, a, y) \in Nat
          /\ s[y + 1] = Quote => QuotesIn(s, a, y + 1) = QuotesIn(s, a, y) + 1
          /\ s[y + 1] # Quote => QuotesIn(s, a, y + 1) = QuotesIn(s, a, y)
        BY <2>1, QuotesStep
    <2> QED
        BY <2>1, <2>2
<1>5. (x + 1) - 1 = x /\ x \in b + 1 .. Len(s)
    BY <1>1, <1>3
<1>6. ASSUME s[x] # Quote
      PROVE  InToken(s, "string", x + 1)
    <2>1. ~Closes(s, b, x)
        BY <1>2, <1>6, ClosesIs DEF ClosesString
    <2>2. Reaches(s, b, x + 1)
        BY <1>1, <1>2, <1>3, <2>1, GoesOn
    <2>3. Within(s, "string", x + 1, b)
        BY <1>2, <1>4, <1>5, <1>6, <2>2 DEF Within
    <2>4. b < x + 1
        BY <1>1, <1>3
    <2> QED
        BY <1>1, <2>3, <2>4 DEF InToken
<1>7. ASSUME s[x] = Quote, x < Len(s), s[x + 1] = Quote
      PROVE  InToken(s, "string", x + 2) /\ x + 1 \notin TokenStarts(s)
    <2>1. ~Closes(s, b, x)
        BY <1>2, <1>7, ClosesIs DEF ClosesString
    <2>2. Reaches(s, b, x + 1)
        BY <1>1, <1>2, <1>3, <2>1, GoesOn
    <2>3. PICK y \in 1 .. Len(s) : y = x + 1 /\ y \in Nat /\ y + 1 = x + 2 /\ b < y /\ b <= y
        BY <1>1, <1>3, <1>7
    <2>4. QuotesIn(s, b + 1, y) = QuotesIn(s, b + 1, x - 1) + 2
        <3>1. PICK a \in Nat : a = b + 1 /\ a <= x + 1
            BY <1>1, <1>3
        <3>2. QuotesIn(s, a, x + 1) = QuotesIn(s, a, x) + 1
            BY <1>3, <1>7, <3>1, QuotesStep
        <3> QED
            BY <1>4, <1>7, <2>3, <3>1, <3>2
    <2>5. QuotesIn(s, b + 1, y) % 2 = 0
        BY <1>2, <1>4, <2>4
    <2>6. ~Closes(s, b, y)
        BY <1>2, <2>5, ClosesIs DEF ClosesString
    <2>7. Reaches(s, b, y + 1)
        BY <1>1, <2>2, <2>3, <2>6, GoesOn
    <2>8. (x + 2) - 1 = y /\ b < x + 2
        BY <1>1, <1>3, <2>3
    <2>9. Within(s, "string", x + 2, b)
        BY <1>2, <2>3, <2>5, <2>7, <2>8 DEF Within
    <2>10. y \notin TokenStarts(s)
        BY <1>1, <2>2, <2>3, Inside
    <2> QED
        BY <1>1, <2>3, <2>8, <2>9, <2>10 DEF InToken
<1>8. ASSUME s[x] = Quote, x < Len(s) => s[x + 1] # Quote
      PROVE  InToken(s, "code", x + 1)
    <2>1. QuotesIn(s, b + 1, x) % 2 = 1
        BY <1>2, <1>4, <1>8
    <2>2. Closes(s, b, x)
        BY <1>2, <1>8, <2>1, ClosesIs DEF ClosesString
    <2> QED
        BY <1>1, <1>2, <1>5, <2>2, TokenOver DEF InToken
<1> QED
    BY <1>6, <1>7, <1>8

\* Inside of a quoted identifier.
LEMMA InDelimited ==
    ASSUME NEW s \in Seq(STRING), NEW x \in 1 .. Len(s), NEW d \in Delimiters, InToken(s, d, x)
    PROVE  InToken(s, IF s[x] = d THEN "code" ELSE d, x + 1)
<1>1. PICK b \in TokenStarts(s) :
         /\ b \in 1 .. Len(s) /\ b \in Nat /\ b < x /\ b <= Len(s)
         /\ Opens(s, b) /\ Within(s, d, x, b)
    BY TokenOf, Bytes
<1>2. s[b] = d /\ Reaches(s, b, x)
    BY <1>1, Bytes DEF Within
<1>3. x \in Nat /\ Len(s) \in Nat /\ x \in b + 1 .. Len(s)
    BY <1>1, LenProperties
<1>4. Closes(s, b, x) <=> s[x] = d
    BY <1>2, ClosesIs
<1>5. CASE s[x] = d
    BY <1>1, <1>2, <1>3, <1>4, <1>5, TokenOver DEF InToken
<1>6. CASE s[x] # d
    <2>1. Reaches(s, b, x + 1)
        BY <1>1, <1>2, <1>3, <1>4, <1>6, GoesOn
    <2>2. Within(s, d, x + 1, b) /\ b < x + 1
        BY <1>1, <1>2, <1>3, <2>1 DEF Within
    <2> QED
        BY <1>1, <1>6, <2>2, Bytes DEF InToken
<1> QED
    BY <1>5, <1>6

\* Inside of a line comment: its newline is code again.
LEMMA InLineComment ==
    ASSUME NEW s \in Seq(STRING), NEW x \in 1 .. Len(s), InToken(s, "line", x)
    PROVE  /\ s[x] # "\n" => InToken(s, "line", x + 1)
           /\ s[x] = "\n" => InToken(s, "code", x)
<1>1. PICK b \in TokenStarts(s) :
         /\ b \in 1 .. Len(s) /\ b \in Nat /\ b < x /\ b <= Len(s)
         /\ Opens(s, b) /\ Within(s, "line", x, b)
    BY TokenOf
<1>2. s[b] = "-" /\ Reaches(s, b, x - 1)
    BY <1>1, Bytes DEF Within
<1>3. PICK y \in Nat : y = x - 1 /\ y + 1 = x /\ b <= y
    BY <1>1
<1>4. Len(s) \in Nat /\ y < Len(s)
    BY <1>3, LenProperties
<1>5. Closes(s, b, y) <=> s[x] = "\n"
    BY <1>2, <1>3, <1>4, ClosesIs
<1>6. ASSUME s[x] # "\n"
      PROVE  InToken(s, "line", x + 1)
    <2>1. Reaches(s, b, x)
        BY <1>1, <1>2, <1>3, <1>5, <1>6, GoesOn
    <2>2. (x + 1) - 1 = x /\ b < x + 1
        BY <1>1
    <2>3. Within(s, "line", x + 1, b)
        BY <1>2, <2>1, <2>2 DEF Within
    <2> QED
        BY <1>1, <2>2, <2>3 DEF InToken
<1>7. ASSUME s[x] = "\n"
      PROVE  InToken(s, "code", x)
    <2>1. s[b + 1] = "-"
        BY <1>1, <1>2, Bytes DEF Opens
    <2>2. y # b
        BY <1>3, <1>7, <2>1, Bytes
    <2>3. y \in b + 1 .. Len(s)
        BY <1>1, <1>3, <1>4, <2>2
    <2> QED
        BY <1>1, <1>2, <1>3, <1>5, <1>7, <2>3, TokenOver DEF InToken
<1> QED
    BY <1>6, <1>7

\* Inside of a block comment.
LEMMA InBlockComment ==
    ASSUME NEW s \in Seq(STRING), NEW x \in 1 .. Len(s), InToken(s, "block", x)
    PROVE  /\ ~(x < Len(s) /\ s[x] = "*" /\ s[x + 1] = "/") => InToken(s, "block", x + 1)
           /\ (x < Len(s) /\ s[x] = "*" /\ s[x + 1] = "/") =>
                 InToken(s, "code", x + 2) /\ x + 1 \notin TokenStarts(s)
<1>1. PICK b \in TokenStarts(s) :
         /\ b \in 1 .. Len(s) /\ b \in Nat /\ b < x /\ b <= Len(s)
         /\ Opens(s, b) /\ Within(s, "block", x, b)
    BY TokenOf
<1>2. s[b] = "/" /\ b + 2 <= x /\ Reaches(s, b, x + 1)
    BY <1>1, Bytes DEF Within
<1>3. x \in Nat /\ Len(s) \in Nat
    BY LenProperties
<1>4. PICK y \in Nat : y = x + 1 /\ y - 1 = x /\ y > b + 2 /\ b <= y /\ b < y
    BY <1>1, <1>2, <1>3
<1>5. Closes(s, b, y) <=> s[x] = "*" /\ s[x + 1] = "/"
    BY <1>2, <1>4, ClosesIs
<1>6. ASSUME ~(x < Len(s) /\ s[x] = "*" /\ s[x + 1] = "/")
      PROVE  InToken(s, "block", x + 1)
    <2>1. Reaches(s, b, y + 1)
        <3>1. CASE x < Len(s)
            BY <1>1, <1>2, <1>4, <1>5, <1>6, <3>1, GoesOn
        <3>2. CASE x = Len(s)
            <4>1. TokenEnd(s, b) \in b .. Len(s)
                BY <1>1, TokenEndIs
            <4>2. TokenEnd(s, b) = Len(s)
                BY <1>1, <1>2, <1>3, <3>2, <4>1 DEF Reaches
            <4> QED
                BY <4>2 DEF Reaches
        <3> QED
            BY <1>3, <3>1, <3>2
    <2>2. b + 2 <= x + 1 /\ b < x + 1
        BY <1>1, <1>2, <1>3
    <2>3. Within(s, "block", x + 1, b)
        BY <1>2, <1>4, <2>1, <2>2 DEF Within
    <2> QED
        BY <1>1, <2>2, <2>3 DEF InToken
<1>7. ASSUME x < Len(s), s[x] = "*", s[x + 1] = "/"
      PROVE  InToken(s, "code", x + 2) /\ x + 1 \notin TokenStarts(s)
    <2>1. y \in b + 1 .. Len(s) /\ y + 1 = x + 2 /\ y \in 1 .. Len(s)
        BY <1>1, <1>3, <1>4, <1>7
    <2>2. Reaches(s, b, y) /\ Closes(s, b, y)
        BY <1>2, <1>4, <1>5, <1>7
    <2>3. y + 1 \in TokenStarts(s)
        BY <1>1, <2>1, <2>2, TokenOver
    <2>4. y \notin TokenStarts(s)
        BY <1>1, <1>4, <2>1, <2>2, Inside
    <2> QED
        BY <1>4, <2>1, <2>3, <2>4 DEF InToken
<1> QED
    BY <1>6, <1>7

\* What stands for the byte at p: the literal of its rank for a placeholder, itself
\* for a surplus one and for every other byte.
Replaced(list, t, p) ==
    LET marks == PlaceholdersOf(t)
    IN  IF p \in marks /\ Rank(marks, p) <= Len(list) THEN list[Rank(marks, p)] ELSE <<t[p]>>

\* The builder holds what stands for the bytes before i, and n counts the
\* placeholders among them (prepared_sql.go:188-219).
ScanSoFar(t) ==
    /\ text = t
    /\ InToken(t, mode, i)
    /\ Len(buf) = i - 1
    /\ \A p \in 1 .. i - 1 : buf[p] = Replaced(values, t, p)
    /\ n = Cardinality(Below(PlaceholdersOf(t), i))

LEMMA MarksAre ==
    ASSUME NEW t \in Seq(STRING)
    PROVE  /\ PlaceholdersOf(t) \in SUBSET (1 .. Len(t)) /\ Len(t) \in Nat
           /\ \A p \in PlaceholdersOf(t) : p \in TokenStarts(t) /\ t[p] = "?"
<1>1. Len(t) \in Nat /\ TokenStarts(t) \in SUBSET (1 .. Len(t) + 1)
    BY StartsAre, LenProperties
<1>2. \A p \in 1 .. Len(t) + 1 : p # Len(t) + 1 => p \in 1 .. Len(t)
    BY <1>1
<1> QED
    BY <1>1, <1>2 DEF PlaceholdersOf

\* A copier that takes no placeholder.
LEMMA CopyWhileScanning ==
    ASSUME TypeInv, NEW t \in Seq(STRING), ScanSoFar(t),
           NEW count \in 0 .. 2, NEW next, Copy(count, next),
           i + count <= Len(t) + 1,
           \A p \in i .. i + count - 1 : p \notin PlaceholdersOf(t),
           InToken(t, next, i + count)
    PROVE  ScanSoFar(t)'
<1>1. /\ text = t /\ i \in 1 .. Len(t) + 1 /\ Len(t) \in Nat
      /\ buf \in Seq(Piece) /\ Len(buf) = i - 1
    BY LenProperties DEF TypeInv, TypeOK, ScanSoFar
<1>2. PICK r : /\ buf' = r /\ Len(r) = Len(buf) + count
               /\ \A j \in 1 .. Len(buf) : r[j] = buf[j]
               /\ \A j \in Len(buf) + 1 .. Len(buf) + count :
                     r[j] = <<t[i + (j - Len(buf)) - 1]>>
    BY <1>1, Copied
<1>3. ASSUME NEW p \in 1 .. i + count - 1
      PROVE  r[p] = Replaced(values, t, p)
    <2>1. CASE p \in 1 .. i - 1
        BY <1>1, <1>2, <2>1 DEF ScanSoFar
    <2>2. CASE p \in i .. i + count - 1
        <3>1. p \in Len(buf) + 1 .. Len(buf) + count /\ i + (p - Len(buf)) - 1 = p
            BY <1>1, <2>2
        <3>2. r[p] = <<t[p]>>
            BY <1>2, <3>1
        <3>3. p \notin PlaceholdersOf(t)
            BY <2>2
        <3> QED
            BY <3>2, <3>3 DEF Replaced
    <2> QED
        BY <1>1, <2>1, <2>2
<1>4. Below(PlaceholdersOf(t), i + count) = Below(PlaceholdersOf(t), i)
    <2>1. \A p \in PlaceholdersOf(t) : p < i + count <=> p < i
        BY <1>1, MarksAre
    <2> QED
        BY <2>1, Zenon DEF Below
<1>5. i' = i + count /\ mode' = next /\ text' = text /\ values' = values /\ n' = n
    BY DEF Copy
<1>6. Len(buf') = i' - 1 /\ i' - 1 = i + count - 1
    BY <1>1, <1>2, <1>5
<1>7. \A p \in 1 .. i' - 1 : buf'[p] = Replaced(values', t, p)
    <2>1. buf' = r /\ values' = values
        BY <1>2, <1>5
    <2> QED
        BY <1>3, <1>6, <2>1
<1>8. n' = Cardinality(Below(PlaceholdersOf(t), i')) /\ InToken(t, mode', i') /\ text' = t
    BY <1>1, <1>4, <1>5 DEF ScanSoFar
<1> QED
    BY <1>6, <1>7, <1>8 DEF ScanSoFar

\* A placeholder becomes the literal of its rank (prepared_sql.go:205-212).
LEMMA PlaceholderWhileScanning ==
    ASSUME TypeInv, NEW t \in Seq(STRING), ScanSoFar(t), Placeholder
    PROVE  ScanSoFar(t)'
<1>1. /\ text = t /\ i \in 1 .. Len(t) /\ Len(t) \in Nat /\ t[i] = "?" /\ mode = "code"
      /\ buf \in Seq(Piece) /\ Len(buf) = i - 1 /\ n \in Nat
      /\ values \in Seq(Piece) /\ Len(values) \in Nat
    BY LenProperties DEF TypeInv, TypeOK, ScanSoFar, Placeholder, InTemplate, Piece
<1>2. PICK marks : marks = PlaceholdersOf(t)
    OBVIOUS
<1>3. i \in TokenStarts(t) /\ i \in marks
    BY <1>1, <1>2 DEF ScanSoFar, InToken, PlaceholdersOf
<1>4. Rank(marks, i) = n + 1 /\ Cardinality(Below(marks, i + 1)) = n + 1
    <2>1. marks \in SUBSET (1 .. Len(t)) /\ i \in Nat
        BY <1>1, <1>2, MarksAre
    <2>2. n = Cardinality(Below(marks, i))
        BY <1>2 DEF ScanSoFar
    <2> QED
        BY <1>1, <1>3, <2>1, <2>2, Counting
<1>5. PICK piece : /\ buf' = Append(buf, piece)
                   /\ piece = IF n < Len(values) THEN values[n + 1] ELSE <<"?">>
    BY DEF Placeholder
<1>6. piece = Replaced(values, t, i)
    BY <1>1, <1>2, <1>3, <1>4, <1>5 DEF Replaced
<1>7. PICK r : /\ buf' = r /\ Len(r) = Len(buf) + 1
               /\ \A j \in 1 .. Len(buf) : r[j] = buf[j]
               /\ r[Len(buf) + 1] = piece
    <2>1. AnySeq(buf)
        BY <1>1 DEF AnySeq
    <2>2. PICK r : r = Append(buf, piece)
        OBVIOUS
    <2>3. /\ Len(r) = Len(buf) + 1
          /\ \A j \in 1 .. Len(buf) : r[j] = buf[j]
          /\ r[Len(buf) + 1] = piece
        BY <2>1, <2>2, Appending
    <2> QED
        BY <1>5, <2>2, <2>3, Zenon
<1>8. ASSUME NEW p \in 1 .. i
      PROVE  r[p] = Replaced(values, t, p)
    <2>1. CASE p \in 1 .. i - 1
        BY <1>1, <1>7, <2>1 DEF ScanSoFar
    <2>2. CASE p = i
        <3>1. Len(buf) + 1 = i
            BY <1>1
        <3> QED
            BY <1>6, <1>7, <2>2, <3>1
    <2> QED
        BY <1>1, <2>1, <2>2
<1>9. i' = i + 1 /\ mode' = mode /\ text' = text /\ values' = values /\ n' = n + 1
    BY DEF Placeholder
<1>10. i' - 1 = i /\ Len(buf') = i' - 1
    BY <1>1, <1>7, <1>9
<1>11. \A p \in 1 .. i' - 1 : buf'[p] = Replaced(values', t, p)
    BY <1>7, <1>8, <1>9, <1>10
<1>12. InToken(t, mode', i')
    <2>1. ~Opens(t, i)
        BY <1>1, Bytes DEF Opens
    <2>2. InToken(t, "code", i)
        BY <1>1 DEF ScanSoFar
    <2> QED
        BY <1>1, <1>9, <2>1, <2>2, CodeByte
<1>13. n' = Cardinality(Below(PlaceholdersOf(t), i')) /\ text' = t
    BY <1>1, <1>2, <1>4, <1>9
<1> QED
    BY <1>10, <1>11, <1>12, <1>13 DEF ScanSoFar

\* An iteration of substituteQuestionMarks.
LEMMA ScanStep ==
    ASSUME TypeInv, NEW t \in Seq(STRING), ScanSoFar(t), phase = "scan",
           Strings \/ (Substituting /\ ~Finish)
    PROVE  ScanSoFar(t)'
<1> USE DEF InTemplate, Next2Are, In
<1>1. text = t /\ i \in 1 .. Len(t) + 1 /\ Len(t) \in Nat /\ InToken(t, mode, i)
    BY LenProperties DEF TypeInv, TypeOK, ScanSoFar
<1>2. i \in 1 .. Len(t)
    BY <1>1
    DEF Strings, OpenString, StringByte, EscapedQuote, CloseString, Substituting,
        OpenDelimited, Delimited, OpenLineComment, LineCommentByte, CloseLineComment,
        OpenBlockComment, BlockCommentByte, CloseBlockComment, Placeholder, OtherByte
<1>3. ASSUME NEW next, Copy(1, next), i \notin PlaceholdersOf(t), InToken(t, next, i + 1)
      PROVE  ScanSoFar(t)'
    <2>1. \A p \in i .. i + 1 - 1 : p = i
        BY <1>2
    <2> QED
        BY <1>1, <1>2, <1>3, <2>1, CopyWhileScanning
<1>4. ASSUME NEW next, Copy(2, next), i < Len(t), i \notin PlaceholdersOf(t),
             i + 1 \notin TokenStarts(t), InToken(t, next, i + 2)
      PROVE  ScanSoFar(t)'
    <2>1. \A p \in i .. i + 2 - 1 : p = i \/ p = i + 1
        BY <1>2
    <2>2. i + 1 \notin PlaceholdersOf(t)
        BY <1>4, MarksAre
    <2>3. i + 2 <= Len(t) + 1
        BY <1>1, <1>2, <1>4
    <2> QED
        BY <1>1, <1>2, <1>4, <2>1, <2>2, <2>3, CopyWhileScanning
<1>5. t[i] # "?" => i \notin PlaceholdersOf(t)
    BY MarksAre
<1>6. ASSUME mode # "code", mode = "line" => t[i] # "\n"
      PROVE  i \notin PlaceholdersOf(t)
    BY <1>1, <1>2, <1>6, NotAMark, MarksAre
<1>7. CASE OpenString
    <2>1. t[i] = Quote /\ mode = "code" /\ Copy(1, "string")
        BY <1>1, <1>7 DEF OpenString
    <2> QED
        BY <1>1, <1>2, <1>3, <1>5, <2>1, Opening, Bytes
<1>8. CASE StringByte
    <2>1. t[i] # Quote /\ mode = "string" /\ Copy(1, "string")
        BY <1>1, <1>8 DEF StringByte
    <2> QED
        BY <1>1, <1>2, <1>3, <1>6, <2>1, InString
<1>9. CASE EscapedQuote
    <2>1. /\ t[i] = Quote /\ mode = "string" /\ Copy(2, "string")
          /\ i < Len(t) /\ t[i + 1] = Quote
        BY <1>1, <1>9 DEF EscapedQuote
    <2> QED
        BY <1>1, <1>2, <1>4, <1>6, <2>1, InString
<1>10. CASE CloseString
    <2>1. /\ t[i] = Quote /\ mode = "string" /\ Copy(1, "code")
          /\ i < Len(t) => t[i + 1] # Quote
        BY <1>1, <1>10 DEF CloseString
    <2> QED
        BY <1>1, <1>2, <1>3, <1>6, <2>1, InString
<1>11. CASE OpenDelimited
    <2>1. t[i] \in Delimiters /\ mode = "code" /\ Copy(1, t[i])
        BY <1>1, <1>11 DEF OpenDelimited
    <2> QED
        BY <1>1, <1>2, <1>3, <1>5, <2>1, Opening, Bytes
<1>12. CASE Delimited
    <2>1. PICK d \in Delimiters : mode = d /\ Copy(1, IF t[i] = d THEN "code" ELSE d)
        BY <1>1, <1>12 DEF Delimited
    <2> QED
        BY <1>1, <1>2, <1>3, <1>6, <2>1, InDelimited, Bytes
<1>13. CASE OpenLineComment
    <2>1. /\ t[i] = "-" /\ mode = "code" /\ Copy(1, "line")
          /\ i < Len(t) /\ t[i + 1] = "-"
        BY <1>1, <1>13 DEF OpenLineComment
    <2> QED
        BY <1>1, <1>2, <1>3, <1>5, <2>1, Opening, Bytes
<1>14. CASE LineCommentByte
    <2>1. t[i] # "\n" /\ mode = "line" /\ Copy(1, "line")
        BY <1>1, <1>14 DEF LineCommentByte
    <2> QED
        BY <1>1, <1>2, <1>3, <1>6, <2>1, InLineComment
<1>15. CASE CloseLineComment
    <2>1. t[i] = "\n" /\ mode = "line" /\ Copy(0, "code")
        BY <1>1, <1>15 DEF CloseLineComment
    <2>2. InToken(t, "code", i)
        BY <1>1, <1>2, <2>1, InLineComment
    <2>3. /\ i + 0 = i /\ i + 0 <= Len(t) + 1
          /\ \A p \in i .. i + 0 - 1 : p \notin PlaceholdersOf(t)
        BY <1>1, <1>2
    <2> QED
        BY <2>1, <2>2, <2>3, CopyWhileScanning
<1>16. CASE OpenBlockComment
    <2>1. /\ t[i] = "/" /\ mode = "code" /\ Copy(2, "block")
          /\ i < Len(t) /\ t[i + 1] = "*"
        BY <1>1, <1>16 DEF OpenBlockComment
    <2> QED
        BY <1>1, <1>2, <1>4, <1>5, <2>1, Opening, Bytes
<1>17. CASE BlockCommentByte
    <2>1. /\ mode = "block" /\ Copy(1, "block")
          /\ ~(i < Len(t) /\ t[i] = "*" /\ t[i + 1] = "/")
        BY <1>1, <1>17 DEF BlockCommentByte
    <2> QED
        BY <1>1, <1>2, <1>3, <1>6, <2>1, InBlockComment
<1>18. CASE CloseBlockComment
    <2>1. /\ mode = "block" /\ Copy(2, "code")
          /\ i < Len(t) /\ t[i] = "*" /\ t[i + 1] = "/"
        BY <1>1, <1>18 DEF CloseBlockComment
    <2> QED
        BY <1>1, <1>2, <1>4, <1>6, <2>1, InBlockComment
<1>19. CASE Placeholder
    BY <1>19, PlaceholderWhileScanning
<1>20. CASE OtherByte
    <2>1. /\ mode = "code" /\ Copy(1, "code") /\ t[i] # "?" /\ ~Opens(t, i)
        BY <1>1, <1>20 DEF OtherByte, StartsComment, Opens
    <2> QED
        BY <1>1, <1>2, <1>3, <1>5, <2>1, CodeByte
<1> QED
    BY <1>7, <1>8, <1>9, <1>10, <1>11, <1>12, <1>13, <1>14, <1>15, <1>16, <1>17, <1>18, <1>19, <1>20
    DEF Strings, Substituting

LEMMA ScanStart ==
    ASSUME NEW t \in Seq(STRING), text' = t, i' = 1, mode' = "code", buf' = << >>, n' = 0
    PROVE  ScanSoFar(t)'
<1>1. Len(<< >>) = 0 /\ Len(t) \in Nat /\ 1 \in 1 .. Len(t) + 1
    BY EmptySeq, LenProperties
<1>2. InToken(t, "code", 1)
    BY <1>1, StartsAre DEF InToken
<1>3. Below(PlaceholdersOf(t), 1) = {}
    <2>1. \A p \in PlaceholdersOf(t) : ~(p < 1)
        BY MarksAre
    <2> QED
        BY <2>1, Zenon DEF Below
<1> QED
    BY <1>1, <1>2, <1>3, FS_EmptySet DEF ScanSoFar

\* What substituting list in t returns (prepared_sql.go:29-45).
Substitution(list, t) ==
    LET marks == PlaceholdersOf(t)
    IN  IF Cardinality(marks) # Len(list) THEN << >>
        ELSE [p \in DOMAIN t |-> IF p \in marks THEN list[Rank(marks, p)] ELSE <<t[p]>>]

\* At the end every placeholder has been seen.
LEMMA ScanComplete ==
    ASSUME TypeInv, NEW t \in Seq(STRING), ScanSoFar(t), Finish
    PROVE  result' = Substitution(values, t)
<1>1. /\ text = t /\ i = Len(t) + 1 /\ Len(t) \in Nat /\ DOMAIN t = 1 .. Len(t)
      /\ buf \in Seq(Piece) /\ Len(buf) = Len(t) /\ DOMAIN buf = 1 .. Len(t)
    BY LenProperties DEF TypeInv, TypeOK, ScanSoFar, Finish
<1>2. PICK marks : marks = PlaceholdersOf(t)
    OBVIOUS
<1>3. marks \in SUBSET (1 .. Len(t)) /\ i \in Nat /\ i - 1 = Len(t)
    BY <1>1, <1>2, MarksAre
<1>4. Below(marks, i) = marks
    <2>1. \A p \in marks : p < i
        BY <1>1, <1>3
    <2> QED
        BY <2>1, Zenon DEF Below
<1>5. n = Cardinality(marks)
    BY <1>2, <1>4 DEF ScanSoFar
<1>6. result' = IF n # Len(values) THEN << >> ELSE buf
    BY DEF Finish, Give
<1>7. CASE n # Len(values)
    BY <1>2, <1>5, <1>6, <1>7 DEF Substitution
<1>8. CASE n = Len(values)
    <2>1. ASSUME NEW p \in 1 .. Len(t)
          PROVE  buf[p] = IF p \in marks THEN values[Rank(marks, p)] ELSE <<t[p]>>
        <3>1. buf[p] = Replaced(values, t, p)
            BY <1>3 DEF ScanSoFar
        <3>2. p \in marks => Rank(marks, p) <= Len(values)
            <4>1. Cardinality(marks) \in Nat
                BY <1>1, <1>3, <1>4, Counting
            <4>2. p \in marks => Rank(marks, p) \in 1 .. Cardinality(marks)
                BY <1>1, <1>3, <1>4, RankBelow
            <4> QED
                BY <1>5, <1>8, <4>1, <4>2
        <3> QED
            BY <1>2, <3>1, <3>2 DEF Replaced
    <2>2. PICK r : r = [p \in 1 .. Len(t) |-> IF p \in marks THEN values[Rank(marks, p)] ELSE <<t[p]>>]
        OBVIOUS
    <2>3. buf = r
        <3>1. buf = [p \in 1 .. Len(t) |-> buf[p]]
            BY <1>1
        <3> QED
            BY <2>1, <2>2, <3>1
    <2> QED
        BY <1>1, <1>2, <1>5, <1>6, <1>8, <2>2, <2>3 DEF Substitution
<1> QED
    BY <1>7, <1>8

(***************************************************************************)
(* The invariant, for the list s and the template t.                       *)
(***************************************************************************)
Listed(s) == HasUsingClause /\ WellQuoted(s) /\ AreLiteralsOf(values, s)

LexInvOf(s, t) ==
    /\ phase = "parse" =>
          i = 1 /\ mode = "code" /\ buf = << >> /\ values = << >> /\ n = 0
    /\ phase = "split" => HasUsingClause /\ n = 0 /\ SplitSoFar(s)
    /\ phase = "scan" => Listed(s) /\ ScanSoFar(t)
    /\ phase = "done" =>
          \/ ~HasUsingClause /\ values = << >>
          \/ HasUsingClause /\ ~WellQuoted(s) /\ result = << >>
          \/ Listed(s) /\ (values = << >> \/ result = Substitution(values, t))

LexInv == LexInvOf(AfterUsing(statement), template)

LEMMA StepKeepsLexInvOf ==
    ASSUME TypeInv, [Next]_vars, NEW s, s = AfterUsing(statement), NEW t, t = template,
           LexInvOf(s, t)
    PROVE  LexInvOf(s, t)'
<1>1. /\ t \in Seq(STRING)
      /\ HasUsingClause => s \in Seq(STRING)
    BY AfterUsingType DEF TypeInv, TypeOK, HasUsingClause
<1>2. HasUsingClause' = HasUsingClause
    BY DEF Next, vars, HasUsingClause, NoUsingClause, PanicInIndex, StartSplitting, Give,
       Strings, OpenString, StringByte, EscapedQuote, CloseString, Copy,
       Splitting, SplitComma, SplitByte, StartSubstituting, GiveUp,
       Substituting, OpenDelimited, Delimited, OpenLineComment, LineCommentByte,
       CloseLineComment, OpenBlockComment, BlockCommentByte, CloseBlockComment,
       Placeholder, OtherByte, Finish
<1>3. CASE NoUsingClause
    BY <1>2, <1>3 DEF NoUsingClause, Give, LexInvOf
<1>4. CASE PanicInIndex
    BY <1>4 DEF PanicInIndex, LexInvOf
<1>5. CASE StartSplitting
    <2>1. /\ text' = s /\ i' = 1 /\ mode' = "code" /\ buf' = << >> /\ values' = << >> /\ n' = 0
          /\ phase' = "split" /\ HasUsingClause
        BY <1>5 DEF StartSplitting, LexInvOf
    <2>2. SplitSoFar(s)'
        BY <1>1, <2>1, ListStart
    <2> QED
        BY <1>2, <2>1, <2>2 DEF LexInvOf
<1>6. CASE phase = "split" /\ (Strings \/ SplitByte \/ SplitComma)
    <2>1. HasUsingClause /\ n = 0 /\ SplitSoFar(s)
        BY <1>6 DEF LexInvOf
    <2>2. SplitSoFar(s)'
        BY <1>1, <1>6, <2>1, SplitStep
    <2>3. phase' = "split" /\ n' = n
        BY <1>6 DEF Strings, OpenString, StringByte, EscapedQuote, CloseString, SplitByte,
           SplitComma, Copy
    <2> QED
        BY <1>2, <2>1, <2>2, <2>3 DEF LexInvOf
<1>7. CASE StartSubstituting
    <2>1. /\ phase = "split" /\ HasUsingClause /\ n = 0 /\ SplitSoFar(s) /\ AtEndOfList
          /\ values' = Flushed /\ mode = "code" /\ mode' = mode /\ n' = n
        BY <1>7 DEF StartSubstituting, AtEndOfList, LexInvOf
    <2>2. WellQuoted(s) /\ AreLiteralsOf(Flushed, s)
        BY <1>1, <2>1, ListComplete
    <2>3. Listed(s)'
        BY <1>2, <2>1, <2>2 DEF Listed
    <2>4. CASE Flushed = << >>
        BY <1>7, <2>1, <2>3, <2>4 DEF StartSubstituting, LexInvOf
    <2>5. CASE Flushed # << >>
        <3>1. phase' = "scan" /\ text' = t /\ i' = 1 /\ buf' = << >>
            BY <1>7, <2>5 DEF StartSubstituting
        <3>2. ScanSoFar(t)'
            BY <1>1, <2>1, <3>1, ScanStart
        <3> QED
            BY <2>3, <3>1, <3>2 DEF LexInvOf
    <2> QED
        BY <2>4, <2>5
<1>8. CASE GiveUp
    <2>1. /\ phase = "split" /\ HasUsingClause /\ SplitSoFar(s)
          /\ mode = "string" /\ i > Len(text)
        BY <1>8 DEF GiveUp, LexInvOf
    <2>2. ~WellQuoted(s)
        BY <1>1, <2>1, ListOpen
    <2>3. phase' = "done" /\ result' = << >>
        BY <1>8 DEF GiveUp, Give
    <2> QED
        BY <1>2, <2>1, <2>2, <2>3 DEF LexInvOf
<1>9. CASE phase = "scan" /\ (Strings \/ (Substituting /\ ~Finish))
    <2>1. Listed(s) /\ ScanSoFar(t)
        BY <1>9 DEF LexInvOf
    <2>2. ScanSoFar(t)'
        BY <1>1, <1>9, <2>1, ScanStep
    <2>3. phase' = "scan" /\ values' = values
        BY <1>9 DEF Strings, OpenString, StringByte, EscapedQuote, CloseString, Copy,
           Substituting, OpenDelimited, Delimited, OpenLineComment, LineCommentByte,
           CloseLineComment, OpenBlockComment, BlockCommentByte, CloseBlockComment,
           Placeholder, OtherByte
    <2>4. Listed(s)'
        BY <1>2, <2>1, <2>3 DEF Listed
    <2> QED
        BY <2>2, <2>3, <2>4 DEF LexInvOf
<1>10. CASE Finish
    <2>1. Listed(s) /\ ScanSoFar(t)
        BY <1>10 DEF Finish, LexInvOf
    <2>2. result' = Substitution(values, t)
        BY <1>1, <1>10, <2>1, ScanComplete
    <2>3. phase' = "done" /\ values' = values
        BY <1>10 DEF Finish, Give
    <2>4. Listed(s)'
        BY <1>2, <2>1, <2>3 DEF Listed
    <2> QED
        BY <2>2, <2>3, <2>4 DEF LexInvOf
<1>11. CASE UNCHANGED vars
    <2>1. /\ text' = text /\ i' = i /\ mode' = mode /\ buf' = buf /\ values' = values
          /\ n' = n /\ phase' = phase /\ result' = result
        BY <1>11 DEF vars
    <2>2. SplitSoFar(s) => SplitSoFar(s)'
        BY <2>1 DEF SplitSoFar
    <2>3. ScanSoFar(t) => ScanSoFar(t)'
        BY <2>1 DEF ScanSoFar
    <2>4. Listed(s) => Listed(s)'
        BY <1>2, <2>1 DEF Listed
    <2> QED
        BY <1>2, <2>1, <2>2, <2>3, <2>4 DEF LexInvOf
<1>12. Strings => phase = "split" \/ phase = "scan"
    BY DEF Strings, OpenString, StringByte, EscapedQuote, CloseString, In, Scanning
<1>13. Substituting => phase = "scan"
    BY DEF Substituting, OpenDelimited, Delimited, OpenLineComment, LineCommentByte,
       CloseLineComment, OpenBlockComment, BlockCommentByte, CloseBlockComment,
       Placeholder, OtherByte, Finish, InTemplate
<1>14. SplitByte \/ SplitComma => phase = "split"
    BY DEF SplitByte, SplitComma
<1> QED
    BY <1>3, <1>4, <1>5, <1>6, <1>7, <1>8, <1>9, <1>10, <1>11, <1>12, <1>13, <1>14
    DEF Next, Splitting

LEMMA StepKeepsLexInv == TypeInv /\ LexInv /\ [Next]_vars => LexInv'
<1> SUFFICES ASSUME TypeInv, LexInv, [Next]_vars
             PROVE  LexInv'
    OBVIOUS
<1>1. PICK s, t : s = AfterUsing(statement) /\ t = template
    OBVIOUS
<1>2. LexInvOf(s, t)'
    BY <1>1, StepKeepsLexInvOf DEF LexInv
<1>3. statement' = statement /\ template' = template
    BY DEF Next, vars, NoUsingClause, PanicInIndex, StartSplitting, Give,
       Strings, OpenString, StringByte, EscapedQuote, CloseString, Copy,
       Splitting, SplitComma, SplitByte, StartSubstituting, GiveUp,
       Substituting, OpenDelimited, Delimited, OpenLineComment, LineCommentByte,
       CloseLineComment, OpenBlockComment, BlockCommentByte, CloseBlockComment,
       Placeholder, OtherByte, Finish
<1>4. s = AfterUsing(statement)' /\ t = template'
    BY <1>1, <1>3
<1> QED
    BY <1>2, <1>4 DEF LexInv, LexInvOf, SplitSoFar, ScanSoFar, Listed

LEMMA LexInvariance == Spec => []LexInv
<1>1. Init => LexInv
    BY DEF Init, LexInv, LexInvOf
<1> QED
    BY <1>1, StepKeepsLexInv, TypeInvariance, PTL DEF Spec

\* Whatever is in the list: it is split exactly at its top-level commas, and an open
\* string yields nothing (prepared_sql.go:111-144).
THEOREM SplitsRight == Spec => []SplitsAtTopLevelCommas
<1>1. LexInv => SplitsAtTopLevelCommas
    BY DEF LexInv, LexInvOf, Listed, SplitsAtTopLevelCommas
<1> QED
    BY <1>1, LexInvariance, PTL

\* Whatever is in the template: the placeholders a SQL lexer finds, and only those,
\* become the literals, or nothing is returned (lines 20-45 and 188-320).
THEOREM SubstitutesRight == Spec => []SubstitutesAllOrNothing
<1>1. LexInv => SubstitutesAllOrNothing
    BY DEF LexInv, LexInvOf, Listed, Substitution, SubstitutesAllOrNothing
<1> QED
    BY <1>1, LexInvariance, PTL
================================================================================
