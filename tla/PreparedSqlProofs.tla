--------------------------- MODULE PreparedSqlProofs ---------------------------
(***************************************************************************)
(* Theorems about PreparedSql, for statements and templates of any length: *)
(* every index stays in its text, what is returned is the template with    *)
(* the literals in place, in order, no longer than what it was made from,  *)
(* and the steps of a call are bounded.                                    *)
(***************************************************************************)
EXTENDS PreparedSql, SequenceTheorems, FiniteSetTheorems, TLAPS

\* Every non-empty set of naturals has a least element ...
LEMMA LeastOf ==
    ASSUME NEW S \in SUBSET Nat, S # {}
    PROVE  \E x \in S : \A y \in S : x <= y
<1>1. PICK x \in S : \A y \in S : ~(<<y, x>> \in OpToRel(<, Nat))
    BY NatLessThanWellFounded, WFMin
<1>2. \A y \in S : ~(y < x)
    BY <1>1 DEF OpToRel
<1> QED
    BY <1>2

LEMMA MinOf ==
    ASSUME NEW S \in SUBSET Nat, S # {}
    PROVE  Min(S) \in S /\ \A y \in S : Min(S) <= y
BY LeastOf DEF Min

\* ... and a bounded one has a greatest.
LEMMA MaxOf ==
    ASSUME NEW m \in Nat, NEW S \in SUBSET (0 .. m), S # {}
    PROVE  Max(S) \in S /\ \A y \in S : y <= Max(S)
<1>0. \A y \in S : y \in Nat /\ m - y \in Nat
    OBVIOUS
<1>1. PICK T : T = {m - y : y \in S}
    OBVIOUS
<1>2. T \in SUBSET Nat /\ T # {}
    BY <1>0, <1>1
<1>3. PICK x \in T : \A y \in T : x <= y
    BY <1>2, LeastOf
<1>4. PICK z \in S : x = m - z
    BY <1>1
<1>5. \A y \in S : m - z <= m - y
    BY <1>1, <1>3, <1>4
<1>6. \A y \in S : z >= y
    BY <1>0, <1>5
<1>7. Max(S) \in S /\ \A y \in S : Max(S) >= y
    BY <1>6 DEF Max
<1> QED
    BY <1>0, <1>7

\* Trimming a text leaves bytes of it (strings.TrimSpace).
LEMMA TrimType ==
    ASSUME NEW S, NEW bytes \in Seq(S)
    PROVE  Trim(bytes) \in Seq(S)
<1>1. PICK ink : ink = {k \in DOMAIN bytes : ~isSQLWhitespace(bytes[k])}
    OBVIOUS
<1>2. Len(bytes) \in Nat /\ DOMAIN bytes = 1 .. Len(bytes)
    BY LenProperties
<1>3. CASE ink = {}
    BY <1>1, <1>3, EmptySeq DEF Trim
<1>4. CASE ink # {}
    <2>1. ink \in SUBSET Nat /\ ink \in SUBSET (0 .. Len(bytes))
        BY <1>1, <1>2
    <2>2. Min(ink) \in ink
        BY <1>4, <2>1, MinOf
    <2>3. Max(ink) \in ink
        BY <1>2, <1>4, <2>1, MaxOf
    <2>4. Min(ink) \in 1 .. Len(bytes) /\ Max(ink) \in 1 .. Len(bytes)
        BY <1>1, <1>2, <2>2, <2>3
    <2>5. PICK a \in Int, b \in Int : a = Min(ink) /\ b = Max(ink)
        BY <2>4
    <2>6. \A k \in a .. b : bytes[k] \in S
        BY <1>2, <2>4, <2>5, ElementOfSeq
    <2>7. SubSeq(bytes, a, b) \in Seq(S)
        BY <2>6, SubSeqProperties
    <2> QED
        BY <1>1, <1>4, <2>5, <2>7 DEF Trim
<1> QED
    BY <1>3, <1>4

\* A letter that shrinks in upper case is a byte before the keyword itself, so the
\* offset of an occurrence in ToUpper(sql) is one (prepared_sql.go:70-75).
LEMMA UsingIsAPosition ==
    ASSUME NEW sql \in Seq(STRING), UsingAt(sql) # 0
    PROVE  UsingAt(sql) \in Nat \ {0}
<1>1. \A p \in Nat \ {0} : p + Growth(sql, p) \in Nat \ {0}
    <2> SUFFICES ASSUME NEW p \in Nat \ {0}
                 PROVE  p + Growth(sql, p) \in Nat \ {0}
        OBVIOUS
    <2>0. PICK wide : wide = {k \in 1 .. p - 1 : sql[k] = "wide"}
        OBVIOUS
    <2>1. PICK narrow : narrow = {k \in 1 .. p - 1 : sql[k] = "narrow"}
        OBVIOUS
    <2>2. IsFiniteSet(1 .. p - 1) /\ Cardinality(1 .. p - 1) = p - 1
        BY FS_Interval
    <2>3. wide \in SUBSET (1 .. p - 1) /\ narrow \in SUBSET (1 .. p - 1)
        BY <2>0, <2>1
    <2>4. /\ IsFiniteSet(wide) /\ IsFiniteSet(narrow)
          /\ Cardinality(narrow) <= Cardinality(1 .. p - 1)
        BY <2>2, <2>3, FS_Subset
    <2>5. Cardinality(wide) \in Nat /\ Cardinality(narrow) \in Nat
        BY <2>4, FS_CardinalityType
    <2>6. Growth(sql, p) = Cardinality(wide) - Cardinality(narrow)
        BY <2>0, <2>1 DEF Growth
    <2> QED
        BY <2>2, <2>4, <2>5, <2>6
<1>2. Occurrences(sql) \subseteq Nat \ {0}
    <2>1. \A k \in 1 .. Len(sql) - 4 : k \in Nat \ {0}
        BY LenProperties
    <2> QED
        BY <1>1, <2>1 DEF Occurrences
<1>3. PICK stops : stops = {p \in Occurrences(sql) : OutOfRange(sql, p) \/ WholeWord(sql, p)}
    OBVIOUS
<1>4. stops # {} /\ UsingAt(sql) = Min(stops)
    BY <1>3 DEF UsingAt
<1>5. stops \in SUBSET Nat /\ stops \subseteq Nat \ {0}
    BY <1>2, <1>3
<1> QED
    BY <1>4, <1>5, MinOf

\* sql[idx:] is a text.
LEMMA AfterUsingType ==
    ASSUME NEW sql \in Seq(STRING), UsingAt(sql) # 0
    PROVE  AfterUsing(sql) \in Seq(STRING)
<1>1. PICK ink : ink = {k \in UsingAt(sql) + 5 .. Len(sql) : ~isSQLWhitespace(sql[k])}
    OBVIOUS
<1>2. Len(sql) \in Nat /\ UsingAt(sql) \in Nat
    BY UsingIsAPosition, LenProperties
<1>3. CASE ink = {}
    BY <1>1, <1>3, EmptySeq DEF AfterUsing
<1>4. CASE ink # {}
    <2>1. ink \in SUBSET Nat /\ \A k \in ink : k >= 1
        BY <1>1, <1>2
    <2>2. PICK a \in Nat : a = Min(ink) /\ a >= 1
        BY <1>4, <2>1, MinOf
    <2>3. \A k \in a .. Len(sql) : sql[k] \in STRING
        BY <1>2, <2>2, ElementOfSeq
    <2>4. SubSeq(sql, a, Len(sql)) \in Seq(STRING)
        BY <1>2, <2>3, SubSeqProperties
    <2> QED
        BY <1>1, <1>4, <2>2, <2>4 DEF AfterUsing
<1> QED
    BY <1>3, <1>4

Piece == Seq(STRING) \ {<< >>}

LEMMA Singleton ==
    ASSUME NEW S, NEW e \in S
    PROVE  <<e>> \in Seq(S) /\ Len(<<e>>) = 1
OBVIOUS

LEMMA OneByte ==
    ASSUME NEW byte \in STRING
    PROVE  <<byte>> \in Piece
<1>1. <<byte>> \in Seq(STRING) /\ Len(<<byte>>) = 1
    BY Singleton
<1>2. Len(<< >>) = 0
    BY EmptySeq
<1> QED
    BY <1>1, <1>2 DEF Piece

\* No piece of the builder is empty, and a scan starts at the first byte.
TypeInv ==
    /\ TypeOK
    /\ buf \in Seq(Piece)
    /\ phase = "parse" => i = 1

\* flushToken (prepared_sql.go:171-178).
LEMMA FlushedType ==
    ASSUME TypeInv
    PROVE  Flushed \in Seq(Piece) /\ TokenBytes \in Seq(STRING)
<1>1. buf \in Seq(Piece) /\ values \in Seq(Piece)
    BY DEF TypeInv, TypeOK, Piece
<1>2. PICK m \in Nat : m = Len(buf) /\ DOMAIN buf = 1 .. m
    BY <1>1, LenProperties
<1>3. \A k \in 1 .. m : buf[k][1] \in STRING
    <2> SUFFICES ASSUME NEW k \in 1 .. m
                 PROVE  buf[k][1] \in STRING
        OBVIOUS
    <2>1. PICK piece \in Piece : buf[k] = piece
        BY <1>1, <1>2, ElementOfSeq
    <2>2. Len(piece) \in Nat /\ Len(piece) # 0
        BY EmptySeq, LenProperties DEF Piece
    <2> QED
        BY <2>1, <2>2, ElementOfSeq DEF Piece
<1>4. TokenBytes \in [1 .. m -> STRING]
    BY <1>2, <1>3 DEF TokenBytes
<1>5. TokenBytes \in Seq(STRING)
    BY <1>4, SeqDef
<1>6. PICK token \in Seq(STRING) : token = Trim(TokenBytes)
    BY <1>5, TrimType
<1>7. token # << >> => Append(values, token) \in Seq(Piece)
    BY <1>1, AppendProperties DEF Piece
<1> QED
    BY <1>1, <1>5, <1>6, <1>7 DEF Flushed

\* Every copier.
LEMMA CopyKeepsTypes ==
    ASSUME TypeInv, NEW count \in 0 .. 2, NEW next \in Modes,
           Scanning, i + count <= Len(text) + 1, Copy(count, next)
    PROVE  TypeInv'
<1>1. /\ text \in Seq(STRING) /\ i \in 1 .. Len(text) + 1 /\ Len(text) \in Nat
      /\ buf \in Seq(Piece)
    BY LenProperties DEF TypeInv, TypeOK
<1>2. PICK c : c = [k \in 1 .. count |-> <<text[i + k - 1]>>]
    OBVIOUS
<1>3. \A k \in 1 .. count : <<text[i + k - 1]>> \in Piece
    <2> SUFFICES ASSUME NEW k \in 1 .. count
                 PROVE  <<text[i + k - 1]>> \in Piece
        OBVIOUS
    <2>1. i + k - 1 \in 1 .. Len(text)
        BY <1>1
    <2>2. PICK byte \in STRING : text[i + k - 1] = byte
        BY <1>1, <2>1, ElementOfSeq
    <2> QED
        BY <2>2, OneByte
<1>4. c \in [1 .. count -> Piece]
    BY <1>2, <1>3
<1>5. c \in Seq(Piece)
    BY <1>4, SeqDef
<1>6. buf \o c \in Seq(Piece)
    BY <1>1, <1>5, ConcatProperties
<1>7. buf' \in Seq(Piece) /\ buf' \in Seq(Seq(STRING))
    <2>1. buf' = buf \o c
        BY <1>2 DEF Copy
    <2>2. Seq(Piece) \subseteq Seq(Seq(STRING))
        BY DEF Piece
    <2> QED
        BY <1>6, <2>1, <2>2
<1>8. i' \in 1 .. Len(text) + 1
    BY <1>1 DEF Copy
<1> QED
    BY <1>7, <1>8 DEF Copy, TypeInv, TypeOK, Scanning

LEMMA PlaceholderKeepsTypes ==
    ASSUME TypeInv, Placeholder
    PROVE  TypeInv'
<1>1. /\ text \in Seq(STRING) /\ i \in 1 .. Len(text) /\ Len(text) \in Nat
      /\ buf \in Seq(Piece) /\ values \in Seq(Piece) /\ n \in Nat
    BY LenProperties DEF TypeInv, TypeOK, Placeholder, InTemplate, Piece
<1>2. PICK piece : /\ buf' = Append(buf, piece)
                   /\ piece = IF n < Len(values) THEN values[n + 1] ELSE <<"?">>
    BY DEF Placeholder
<1>3. piece \in Piece
    <2>1. n < Len(values) => values[n + 1] \in Piece
        BY <1>1, LenProperties, ElementOfSeq
    <2>2. <<"?">> \in Piece
        <3>1. "?" = text[i] /\ text[i] \in STRING
            BY <1>1, ElementOfSeq DEF Placeholder
        <3> QED
            BY <3>1, OneByte
    <2> QED
        BY <1>2, <2>1, <2>2
<1>4. buf' \in Seq(Piece)
    BY <1>1, <1>2, <1>3, AppendProperties
<1>5. buf' \in Seq(Seq(STRING))
    BY <1>4 DEF Piece
<1> QED
    BY <1>1, <1>4, <1>5 DEF Placeholder, InTemplate, TypeInv, TypeOK

LEMMA StringsKeepTypes ==
    ASSUME TypeInv, Strings
    PROVE  TypeInv'
<1> USE DEF In, Next2Are
<1>1. text \in Seq(STRING) /\ i \in Nat /\ Len(text) \in Nat /\ Scanning
    BY LenProperties
    DEF TypeInv, TypeOK, Strings, OpenString, StringByte, EscapedQuote, CloseString
<1>2. "code" \in Modes /\ "string" \in Modes
    BY DEF Modes
<1>3. CASE OpenString
    BY <1>1, <1>2, <1>3, CopyKeepsTypes DEF OpenString
<1>4. CASE StringByte
    BY <1>1, <1>2, <1>4, CopyKeepsTypes DEF StringByte
<1>5. CASE EscapedQuote
    BY <1>1, <1>2, <1>5, CopyKeepsTypes DEF EscapedQuote
<1>6. CASE CloseString
    BY <1>1, <1>2, <1>6, CopyKeepsTypes DEF CloseString
<1> QED
    BY <1>3, <1>4, <1>5, <1>6 DEF Strings

LEMMA SplittingKeepsTypes ==
    ASSUME TypeInv, Splitting
    PROVE  TypeInv'
<1>1. /\ text \in Seq(STRING) /\ i \in 1 .. Len(text) + 1 /\ Len(text) \in Nat
      /\ << >> \in Seq(Piece) /\ << >> \in Seq(Seq(STRING))
      /\ Flushed \in Seq(Piece)
    BY FlushedType, EmptySeq, LenProperties DEF TypeInv, TypeOK
<1>2. CASE SplitComma
    <2>1. buf' = << >> /\ i' = i + 1 /\ i <= Len(text) /\ text' = text
        BY <1>2 DEF SplitComma, In
    <2>2. values' \in Seq(Seq(STRING) \ {<< >>})
        BY <1>1, <1>2 DEF SplitComma, Piece
    <2>3. i' \in 1 .. Len(text') + 1
        BY <1>1, <2>1
    <2> QED
        BY <1>1, <1>2, <2>1, <2>2, <2>3 DEF SplitComma, TypeInv, TypeOK, Piece
<1>3. CASE SplitByte
    <2>1. "code" \in Modes
        BY DEF Modes
    <2>2. Scanning /\ Copy(1, "code") /\ i <= Len(text)
        BY <1>3 DEF SplitByte, Scanning
    <2>3. i + 1 <= Len(text) + 1
        BY <1>1, <2>2
    <2> QED
        BY <2>1, <2>2, <2>3, CopyKeepsTypes
<1>4. CASE StartSubstituting
    <2>1. template \in Seq(STRING) /\ Len(template) \in Nat
        BY LenProperties DEF TypeInv, TypeOK
    <2>2. CASE Flushed = << >>
        BY <1>1, <1>4, <2>2 DEF StartSubstituting, TypeInv, TypeOK, Piece, Phases
    <2>3. CASE Flushed # << >>
        BY <1>1, <1>4, <2>1, <2>3 DEF StartSubstituting, TypeInv, TypeOK, Piece, Phases
    <2> QED
        BY <2>2, <2>3
<1>5. CASE GiveUp
    BY <1>1, <1>5 DEF GiveUp, Give, TypeInv, TypeOK, Phases
<1> QED
    BY <1>2, <1>3, <1>4, <1>5 DEF Splitting

LEMMA SubstitutingKeepsTypes ==
    ASSUME TypeInv, Substituting
    PROVE  TypeInv'
<1> USE DEF InTemplate, Next2Are
<1>1. text \in Seq(STRING) /\ i \in Nat /\ Len(text) \in Nat /\ Scanning
    BY LenProperties
    DEF TypeInv, TypeOK, Scanning, Substituting, OpenDelimited, Delimited, OpenLineComment,
        LineCommentByte, CloseLineComment, OpenBlockComment, BlockCommentByte,
        CloseBlockComment, Placeholder, OtherByte, Finish
<1>2. /\ "code" \in Modes /\ "line" \in Modes /\ "block" \in Modes
      /\ \A delim \in Delimiters : delim \in Modes
    BY DEF Modes
<1>3. CASE OpenDelimited
    BY <1>1, <1>2, <1>3, CopyKeepsTypes DEF OpenDelimited
<1>4. CASE Delimited
    BY <1>1, <1>2, <1>4, CopyKeepsTypes DEF Delimited
<1>5. CASE OpenLineComment
    BY <1>1, <1>2, <1>5, CopyKeepsTypes DEF OpenLineComment
<1>6. CASE LineCommentByte
    BY <1>1, <1>2, <1>6, CopyKeepsTypes DEF LineCommentByte
<1>7. CASE CloseLineComment
    BY <1>1, <1>2, <1>7, CopyKeepsTypes DEF CloseLineComment
<1>8. CASE OpenBlockComment
    BY <1>1, <1>2, <1>8, CopyKeepsTypes DEF OpenBlockComment
<1>9. CASE BlockCommentByte
    BY <1>1, <1>2, <1>9, CopyKeepsTypes DEF BlockCommentByte
<1>10. CASE CloseBlockComment
    BY <1>1, <1>2, <1>10, CopyKeepsTypes DEF CloseBlockComment
<1>11. CASE OtherByte
    BY <1>1, <1>2, <1>11, CopyKeepsTypes DEF OtherByte
<1>12. CASE Placeholder
    BY <1>12, PlaceholderKeepsTypes
<1>13. CASE Finish
    <2>1. << >> \in Seq(Seq(STRING)) /\ buf \in Seq(Seq(STRING))
        BY EmptySeq DEF TypeInv, TypeOK
    <2> QED
        BY <1>13, <2>1 DEF Finish, Give, TypeInv, TypeOK, Phases
<1> QED
    BY <1>3, <1>4, <1>5, <1>6, <1>7, <1>8, <1>9, <1>10, <1>11, <1>12, <1>13 DEF Substituting

LEMMA StepKeepsTypes == TypeInv /\ [Next]_vars => TypeInv'
<1> SUFFICES ASSUME TypeInv, [Next]_vars
             PROVE  TypeInv'
    OBVIOUS
<1>0. << >> \in Seq(Seq(STRING))
    BY EmptySeq
<1>1. CASE NoUsingClause
    BY <1>0, <1>1 DEF NoUsingClause, Give, TypeInv, TypeOK, Phases
<1>2. CASE PanicInIndex
    BY <1>2 DEF PanicInIndex, TypeInv, TypeOK, Phases
<1>3. CASE StartSplitting
    <2>1. text' \in Seq(STRING) /\ Len(text') \in Nat
        BY <1>3, AfterUsingType, LenProperties
        DEF StartSplitting, HasUsingClause, TypeInv, TypeOK
    <2>2. i' \in 1 .. Len(text') + 1
        BY <1>3, <2>1 DEF StartSplitting, TypeInv
    <2> QED
        BY <1>3, <2>1, <2>2 DEF StartSplitting, TypeInv, TypeOK, Phases
<1>4. CASE Strings
    BY <1>4, StringsKeepTypes
<1>5. CASE Splitting
    BY <1>5, SplittingKeepsTypes
<1>6. CASE Substituting
    BY <1>6, SubstitutingKeepsTypes
<1>7. CASE UNCHANGED vars
    BY <1>7 DEF vars, TypeInv, TypeOK
<1> QED
    BY <1>1, <1>2, <1>3, <1>4, <1>5, <1>6, <1>7 DEF Next

LEMMA TypeInvariance == Spec => []TypeInv
<1>1. Init => TypeInv
    <2> SUFFICES ASSUME Init
                 PROVE  TypeInv
        OBVIOUS
    <2>1. statement \in Seq(STRING) /\ template \in Seq(STRING)
        BY InputsAssumption DEF Init
    <2>2. /\ << >> \in Seq(STRING) /\ << >> \in Seq(Seq(STRING)) /\ << >> \in Seq(Piece)
          /\ Len(<< >>) = 0
        BY EmptySeq
    <2> QED
        BY <2>1, <2>2 DEF Init, TypeInv, TypeOK, Phases, Modes, Piece
<1> QED
    BY <1>1, StepKeepsTypes, PTL DEF Spec

\* No index ever leaves the text that is scanned and no literal is empty, whatever
\* the statement and the template (prepared_sql.go:171-178 and 193-217).
THEOREM TypeCorrect == Spec => []TypeOK
<1>1. TypeInv => TypeOK
    BY DEF TypeInv
<1> QED
    BY <1>1, TypeInvariance, PTL

(***************************************************************************)
(* The literals arrive in order.                                           *)
(***************************************************************************)
AnySeq(s) == \E S : s \in Seq(S)

\* Substituted, while placeholders may still outnumber the literals.
InPlace(pieces, at) ==
    /\ \A k, l \in DOMAIN at : k < l => at[k] < at[l]
    /\ \A k \in DOMAIN at :
          template[at[k]] = "?" /\ (k <= Len(values) => pieces[at[k]] = values[k])
    /\ \A j \in DOMAIN pieces : pieces[j] = <<template[j]>> \/ \E k \in DOMAIN at : at[k] = j

Placed(pieces, count) == \E at \in [1 .. count -> 1 .. Len(pieces)] : InPlace(pieces, at)

Scanned ==
    /\ text = template
    /\ i \in 1 .. Len(text) + 1
    /\ AnySeq(buf)
    /\ Len(buf) = i - 1
    /\ Placed(buf, n)

Answered == Len(result) = Len(template) /\ Placed(result, n) /\ n = Len(values)

\* The builder holds what has been scanned so far, and a result what it held at the
\* end (prepared_sql.go:188-219).
ScanInv ==
    /\ template \in Seq(STRING)
    /\ AnySeq(values)
    /\ n \in Nat
    /\ phase \in {"parse", "split"} => n = 0
    /\ phase = "scan" => Scanned
    /\ result # << >> => phase = "done" /\ Answered

\* Appending to a sequence (flushToken, prepared_sql.go:171-178).
LEMMA Appending ==
    ASSUME NEW s, AnySeq(s), NEW e
    PROVE  /\ AnySeq(Append(s, e))
           /\ Len(Append(s, e)) = Len(s) + 1 /\ Len(s) \in Nat
           /\ \A j \in 1 .. Len(s) : Append(s, e)[j] = s[j]
           /\ Append(s, e)[Len(s) + 1] = e
           /\ DOMAIN s = 1 .. Len(s)
<1>1. PICK S : s \in Seq(S)
    BY DEF AnySeq
<1>2. s \in Seq(S \union {e})
    BY <1>1
<1>3. Append(s, e) \in Seq(S \union {e})
    BY <1>2
<1> QED
    BY <1>2, <1>3 DEF AnySeq

LEMMA SameInterval ==
    ASSUME NEW a \in Nat, NEW b \in Nat, 1 .. a = 1 .. b
    PROVE  a = b
<1>1. a <= b
    <2>1. a = 0 \/ a \in 1 .. b
        OBVIOUS
    <2> QED
        BY <2>1
<1>2. b <= a
    <2>1. b = 0 \/ b \in 1 .. a
        OBVIOUS
    <2> QED
        BY <2>1
<1> QED
    BY <1>1, <1>2

\* What Copy appends.
LEMMA Copying ==
    ASSUME NEW S, NEW s \in Seq(S), NEW count \in Nat, NEW T, NEW c \in [1 .. count -> T]
    PROVE  /\ s \o c \in Seq(S \union T)
           /\ Len(s \o c) = Len(s) + count /\ Len(s) \in Nat
           /\ DOMAIN s = 1 .. Len(s) /\ DOMAIN (s \o c) = 1 .. Len(s \o c)
           /\ \A j \in 1 .. Len(s) : (s \o c)[j] = s[j]
           /\ \A j \in Len(s) + 1 .. Len(s) + count : (s \o c)[j] = c[j - Len(s)]
<1>2. s \in Seq(S \union T)
    OBVIOUS
<1>3. c \in Seq(S \union T) /\ Len(c) = count
    <2>1. c \in [1 .. count -> S \union T]
        OBVIOUS
    <2>2. c \in Seq(S \union T)
        BY <2>1, SeqDef
    <2>3. DOMAIN c = 1 .. Len(c) /\ Len(c) \in Nat
        BY <2>2, LenProperties
    <2>4. 1 .. Len(c) = 1 .. count
        BY <2>3
    <2> QED
        BY <2>2, <2>3, <2>4, SameInterval
<1>4. /\ s \o c \in Seq(S \union T)
      /\ Len(s \o c) = Len(s) + count /\ Len(s) \in Nat
      /\ DOMAIN s = 1 .. Len(s) /\ DOMAIN (s \o c) = 1 .. Len(s \o c)
      /\ \A j \in 1 .. Len(s) : (s \o c)[j] = s[j]
      /\ \A j \in Len(s) + 1 .. Len(s) + count : (s \o c)[j] = c[j - Len(s)]
    <2>1. /\ s \o c \in Seq(S \union T)
          /\ Len(s \o c) = Len(s) + count
          /\ \A j \in 1 .. Len(s) + count :
                (s \o c)[j] = IF j <= Len(s) THEN s[j] ELSE c[j - Len(s)]
        BY <1>2, <1>3, ConcatProperties
    <2>2. Len(s) \in Nat /\ DOMAIN s = 1 .. Len(s) /\ DOMAIN (s \o c) = 1 .. Len(s \o c)
        BY <1>2, <2>1, LenProperties
    <2> QED
        BY <2>1, <2>2
<1> QED
    BY <1>4

\* A copier that takes count bytes of the template keeps the builder in step.
LEMMA CopyKeepsInv ==
    ASSUME ScanInv, phase = "scan", NEW count \in Nat, NEW next,
           i + count <= Len(text) + 1, Copy(count, next)
    PROVE  ScanInv'
<1> DEFINE T == {<<text[i + k - 1]>> : k \in 1 .. count}
<1>1. /\ text = template /\ i \in 1 .. Len(text) + 1 /\ AnySeq(buf)
      /\ Len(buf) = i - 1 /\ n \in Nat /\ Len(text) \in Nat
    <2>1. text \in Seq(STRING)
        BY InputsAssumption DEF ScanInv, Scanned
    <2> QED
        BY <2>1 DEF ScanInv, Scanned
<1>2. PICK at \in [1 .. n -> 1 .. Len(buf)] : InPlace(buf, at)
    BY DEF ScanInv, Scanned, Placed
<1>3. PICK r : /\ buf' = r
               /\ AnySeq(r) /\ Len(r) = Len(buf) + count
               /\ DOMAIN buf = 1 .. Len(buf) /\ DOMAIN r = 1 .. Len(r)
               /\ \A j \in 1 .. Len(buf) : r[j] = buf[j]
               /\ \A j \in Len(buf) + 1 .. Len(buf) + count :
                     r[j] = <<text[i + (j - Len(buf)) - 1]>>
    <2>0. PICK U : U = T
        OBVIOUS
    <2>1. PICK c : c = [k \in 1 .. count |-> <<text[i + k - 1]>>]
        OBVIOUS
    <2>2. \A k \in 1 .. count : c[k] = <<text[i + k - 1]>>
        BY <2>1
    <2>6. c \in [1 .. count -> U]
        BY <2>0, <2>1
    <2>3. buf' = buf \o c
        BY <2>1 DEF Copy
    <2> HIDE DEF T
    <2>4. i \in Nat
        BY <1>1
    <2>7. PICK S : buf \in Seq(S)
        BY <1>1 DEF AnySeq
    <2>5. /\ buf \o c \in Seq(S \union U)
          /\ Len(buf \o c) = Len(buf) + count
          /\ DOMAIN buf = 1 .. Len(buf) /\ DOMAIN (buf \o c) = 1 .. Len(buf \o c)
          /\ \A j \in 1 .. Len(buf) : (buf \o c)[j] = buf[j]
          /\ \A j \in Len(buf) + 1 .. Len(buf) + count : (buf \o c)[j] = c[j - Len(buf)]
          /\ Len(buf) \in Nat
        BY <2>6, <2>7, Copying
    <2>8. \A j \in Len(buf) + 1 .. Len(buf) + count :
             (buf \o c)[j] = <<text[i + (j - Len(buf)) - 1]>>
        BY <2>2, <2>4, <2>5
    <2> QED
        BY <2>3, <2>5, <2>8 DEF AnySeq
<1>4. InPlace(r, at)
    <2>1. \A k \in DOMAIN at : at[k] \in 1 .. Len(buf)
        BY <1>2
    <2>2. \A j \in Len(buf) + 1 .. Len(buf) + count : r[j] = <<template[j]>>
        BY <1>1, <1>3
    <2>3. \A j \in DOMAIN r : j \in 1 .. Len(buf) \/ j \in Len(buf) + 1 .. Len(buf) + count
        BY <1>1, <1>3
    <2>4. \A k, l \in DOMAIN at : k < l => at[k] < at[l]
        BY <1>2 DEF InPlace
    <2>5. \A k \in DOMAIN at :
             template[at[k]] = "?" /\ (k <= Len(values) => r[at[k]] = values[k])
        BY <1>2, <1>3, <2>1 DEF InPlace
    <2>6. \A j \in DOMAIN r : r[j] = <<template[j]>> \/ \E k \in DOMAIN at : at[k] = j
        BY <1>2, <1>3, <2>2, <2>3 DEF InPlace
    <2> QED
        BY <2>4, <2>5, <2>6 DEF InPlace
<1>5. at \in [1 .. n -> 1 .. Len(r)]
    BY <1>1, <1>2, <1>3
<1>6. /\ i' = i + count /\ text' = text /\ template' = template
      /\ phase' = phase /\ values' = values /\ n' = n /\ result' = result
    BY DEF Copy
<1>7. Placed(r, n)
    BY <1>4, <1>5 DEF Placed
<1>8. Scanned'
    <2>1. AnySeq(buf)'
        BY <1>3 DEF AnySeq
    <2>2. Len(buf') = i' - 1 /\ i' \in 1 .. Len(text) + 1
        BY <1>1, <1>3, <1>6
    <2>3. Placed(buf, n)'
        <3>1. buf' = r /\ n' = n /\ template' = template /\ values' = values
            BY <1>3, <1>6
        <3>2. PICK w \in [1 .. n -> 1 .. Len(r)] : InPlace(r, w)
            BY <1>7 DEF Placed
        <3>3. w \in [1 .. n' -> 1 .. Len(buf')]
            BY <3>1, <3>2
        <3>4. InPlace(buf, w)'
            BY <3>1, <3>2 DEF InPlace
        <3> QED
            BY <3>3, <3>4 DEF Placed
    <2> QED
        BY <1>1, <1>6, <2>1, <2>2, <2>3 DEF Scanned
<1> QED
    BY <1>6, <1>8 DEF ScanInv, AnySeq

LEMMA CopyWhileSplitting ==
    ASSUME ScanInv, phase = "split", NEW count, NEW next, Copy(count, next)
    PROVE  ScanInv'
BY DEF ScanInv, Copy, AnySeq

\* Every copier of both loops.
LEMMA CopierKeepsInv ==
    ASSUME ScanInv, Scanning, NEW count \in 0 .. 2, NEW next,
           phase = "scan" => i + count <= Len(text) + 1,
           Copy(count, next)
    PROVE  ScanInv'
BY CopyKeepsInv, CopyWhileSplitting DEF Scanning

LEMMA FlushedIsASeq ==
    ASSUME AnySeq(values)
    PROVE  AnySeq(Flushed)
BY Appending DEF Flushed

\* A placeholder becomes its literal, or stays when there is none left
\* (prepared_sql.go:205-212).
LEMMA PlaceholderKeepsInv ==
    ASSUME ScanInv, Placeholder
    PROVE  ScanInv'
<1>1. /\ text = template /\ i \in 1 .. Len(text) /\ AnySeq(buf) /\ phase = "scan"
      /\ Len(buf) = i - 1 /\ n \in Nat /\ Len(text) \in Nat /\ text[i] = "?"
    <2>1. text \in Seq(STRING)
        BY InputsAssumption DEF ScanInv, Scanned, Placeholder, InTemplate
    <2> QED
        BY <2>1 DEF ScanInv, Scanned, Placeholder, InTemplate
<1>2. PICK at \in [1 .. n -> 1 .. Len(buf)] : InPlace(buf, at)
    BY <1>1 DEF ScanInv, Scanned, Placed
<1>3. PICK piece : /\ buf' = Append(buf, piece)
                   /\ n < Len(values) => piece = values[n + 1]
                   /\ ~(n < Len(values)) => piece = <<"?">>
    BY DEF Placeholder
<1>4. PICK r : /\ buf' = r /\ AnySeq(r) /\ Len(r) = Len(buf) + 1
               /\ \A j \in 1 .. Len(buf) : r[j] = buf[j]
               /\ r[i] = piece
               /\ DOMAIN buf = 1 .. Len(buf) /\ DOMAIN r = 1 .. i
    <2>1. /\ AnySeq(Append(buf, piece)) /\ Len(Append(buf, piece)) = Len(buf) + 1
          /\ \A j \in 1 .. Len(buf) : Append(buf, piece)[j] = buf[j]
          /\ Append(buf, piece)[Len(buf) + 1] = piece
          /\ DOMAIN buf = 1 .. Len(buf)
        BY <1>1, Appending
    <2>2. PICK S : Append(buf, piece) \in Seq(S)
        BY <2>1 DEF AnySeq
    <2>3. DOMAIN Append(buf, piece) = 1 .. Len(Append(buf, piece))
        BY <2>2, LenProperties
    <2>4. i = Len(buf) + 1
        BY <1>1
    <2>5. Append(buf, piece)[i] = piece /\ DOMAIN Append(buf, piece) = 1 .. i
        BY <2>1, <2>3, <2>4
    <2> QED
        BY <1>3, <2>1, <2>5
<1>5. PICK next : next = [k \in 1 .. n + 1 |-> IF k = n + 1 THEN i ELSE at[k]]
    OBVIOUS
<1>6. /\ next \in [1 .. n + 1 -> 1 .. i] /\ DOMAIN next = 1 .. n + 1
      /\ next[n + 1] = i /\ \A k \in 1 .. n : next[k] = at[k] /\ at[k] \in 1 .. i - 1
    BY <1>1, <1>2, <1>5
<1>7. Len(values) \in Nat
    BY LenProperties DEF ScanInv, AnySeq
<1>8. InPlace(r, next)
    <2>1. \A k, l \in 1 .. n + 1 : k < l => next[k] < next[l]
        <3> SUFFICES ASSUME NEW k \in 1 .. n + 1, NEW l \in 1 .. n + 1, k < l
                     PROVE  next[k] < next[l]
            OBVIOUS
        <3>1. k \in 1 .. n /\ next[k] = at[k] /\ at[k] \in 1 .. i - 1
            BY <1>1, <1>6
        <3>2. CASE l = n + 1
            BY <1>1, <1>6, <3>1, <3>2
        <3>3. CASE l \in 1 .. n
            BY <1>1, <1>2, <1>6, <3>1, <3>3 DEF InPlace
        <3> QED
            BY <1>1, <3>2, <3>3
    <2>2. \A k \in 1 .. n + 1 :
             template[next[k]] = "?" /\ (k <= Len(values) => r[next[k]] = values[k])
        <3> SUFFICES ASSUME NEW k \in 1 .. n + 1
                     PROVE  /\ template[next[k]] = "?"
                            /\ k <= Len(values) => r[next[k]] = values[k]
            OBVIOUS
        <3>1. CASE k = n + 1
            BY <1>1, <1>3, <1>4, <1>6, <1>7, <3>1
        <3>2. CASE k \in 1 .. n
            BY <1>1, <1>2, <1>4, <1>6, <3>2 DEF InPlace
        <3> QED
            BY <1>1, <3>1, <3>2
    <2>3. \A j \in 1 .. i : r[j] = <<template[j]>> \/ \E k \in 1 .. n + 1 : next[k] = j
        <3> SUFFICES ASSUME NEW j \in 1 .. i
                     PROVE  r[j] = <<template[j]>> \/ \E k \in 1 .. n + 1 : next[k] = j
            OBVIOUS
        <3>1. CASE j = i
            BY <1>1, <1>6, <3>1
        <3>2. CASE j \in 1 .. Len(buf)
            <4>1. buf[j] = <<template[j]>> \/ \E k \in 1 .. n : at[k] = j
                BY <1>2, <1>4, <3>2 DEF InPlace
            <4> QED
                BY <1>1, <1>4, <1>6, <3>2, <4>1
        <3> QED
            BY <1>1, <3>1, <3>2
    <2> QED
        BY <1>4, <1>6, <2>1, <2>2, <2>3 DEF InPlace
<1>9. /\ i' = i + 1 /\ text' = text /\ template' = template /\ n' = n + 1
      /\ phase' = phase /\ values' = values /\ result' = result
    BY DEF Placeholder
<1>10. Placed(r, n + 1)
    BY <1>1, <1>4, <1>6, <1>8 DEF Placed
<1>11. Scanned'
    <2>1. AnySeq(buf)'
        BY <1>4 DEF AnySeq
    <2>2. Len(buf') = i' - 1 /\ i' \in 1 .. Len(text) + 1
        BY <1>1, <1>4, <1>9
    <2>3. Placed(buf, n)'
        <3>1. buf' = r /\ n' = n + 1 /\ template' = template /\ values' = values
            BY <1>4, <1>9
        <3>2. PICK w \in [1 .. n + 1 -> 1 .. Len(r)] : InPlace(r, w)
            BY <1>10 DEF Placed
        <3>3. w \in [1 .. n' -> 1 .. Len(buf')]
            BY <3>1, <3>2
        <3>4. InPlace(buf, w)'
            BY <3>1, <3>2 DEF InPlace
        <3> QED
            BY <3>3, <3>4 DEF Placed
    <2> QED
        BY <1>1, <1>9, <2>1, <2>2, <2>3 DEF Scanned
<1> QED
    BY <1>1, <1>9, <1>11 DEF ScanInv, AnySeq

\* The scan of the template starts with nothing placed.
LEMMA StartKeepsInv ==
    ASSUME ScanInv, StartSubstituting
    PROVE  ScanInv'
<1>1. AnySeq(values)' /\ result = << >> /\ n = 0 /\ template \in Seq(STRING)
    <2>1. AnySeq(Flushed)
        BY FlushedIsASeq DEF ScanInv
    <2> QED
        BY <2>1, InputsAssumption DEF ScanInv, StartSubstituting, AnySeq
<1>2. CASE phase' = "done"
    BY <1>1, <1>2 DEF ScanInv, StartSubstituting
<1>3. CASE phase' = "scan" /\ text' = template /\ i' = 1 /\ buf' = << >>
    <2>1. AnySeq(<< >>) /\ Len(<< >>) = 0
        BY EmptySeq DEF AnySeq
    <2>2. PICK at : at = [k \in 1 .. 0 |-> 0]
        OBVIOUS
    <2>3. at \in [1 .. 0 -> 1 .. 0] /\ DOMAIN at = {} /\ DOMAIN << >> = {}
        BY <2>2
    <2>4. InPlace(<< >>, at)
        BY <2>3 DEF InPlace
    <2>5. Placed(<< >>, 0)
        BY <2>1, <2>3, <2>4 DEF Placed
    <2>7. PICK r, m : r = << >> /\ m = 0
        OBVIOUS
    <2>8. Placed(r, m)
        BY <2>5, <2>7
    <2>6. Scanned'
        <3>1. AnySeq(buf)'
            BY <1>3, <2>1 DEF AnySeq
        <3>4. n' = 0
            BY <1>1 DEF StartSubstituting
        <3>2. Placed(buf, n)'
            <4>1. buf' = r /\ n' = m /\ DOMAIN r = {} /\ 1 .. m = {}
                BY <1>3, <2>3, <2>7, <3>4
            <4> QED
                BY <2>8, <4>1 DEF Placed, InPlace
        <3>3. Len(template) \in Nat
            BY <1>1
        <3> QED
            BY <1>3, <2>1, <3>1, <3>2, <3>3 DEF Scanned, StartSubstituting
    <2> QED
        BY <1>1, <1>3, <2>6 DEF ScanInv, StartSubstituting
<1> QED
    BY <1>2, <1>3 DEF StartSubstituting

\* The result is the whole builder, or nothing (prepared_sql.go:39-45).
LEMMA FinishKeepsInv ==
    ASSUME ScanInv, Finish
    PROVE  ScanInv'
<1>1. /\ Scanned /\ template \in Seq(STRING) /\ AnySeq(values) /\ n \in Nat
      /\ i > Len(text) /\ phase' = "done"
      /\ result' = IF n # Len(values) THEN << >> ELSE buf
      /\ UNCHANGED <<template, values, n>>
    BY DEF ScanInv, Finish, Give
<1>2. CASE n # Len(values)
    BY <1>1, <1>2 DEF ScanInv, AnySeq
<1>3. CASE n = Len(values)
    <2>1. Len(text) \in Nat
        BY <1>1, InputsAssumption DEF Scanned
    <2>2. Len(buf) = Len(template) /\ Placed(buf, n)
        BY <1>1, <2>1 DEF Scanned
    <2>3. PICK r : r = buf /\ result' = r
        BY <1>1, <1>3
    <2>4. Placed(r, n)
        BY <2>2, <2>3
    <2>5. Placed(result, n)'
        <3>1. template' = template /\ values' = values /\ n' = n
            BY <1>1
        <3>2. PICK at \in [1 .. n -> 1 .. Len(r)] : InPlace(r, at)
            BY <2>4 DEF Placed
        <3>3. InPlace(result, at)'
            BY <2>3, <3>1, <3>2 DEF InPlace
        <3> QED
            BY <2>3, <3>1, <3>2, <3>3 DEF Placed
    <2>6. Len(result') = Len(template') /\ n' = Len(values')
        BY <1>1, <1>3, <2>2, <2>3
    <2>7. Answered'
        BY <2>5, <2>6 DEF Answered
    <2> QED
        BY <1>1, <2>7 DEF ScanInv, AnySeq
<1> QED
    BY <1>2, <1>3

LEMMA StringsKeepInv ==
    ASSUME ScanInv, Strings
    PROVE  ScanInv'
<1> USE DEF In, Next2Are
<1>1. Scanning /\ (phase = "scan" => text \in Seq(STRING) /\ i \in Nat /\ Len(text) \in Nat)
    BY InputsAssumption
    DEF ScanInv, Scanned, Strings, OpenString, StringByte, EscapedQuote, CloseString
<1>2. CASE OpenString
    BY <1>1, <1>2, CopierKeepsInv DEF OpenString
<1>3. CASE StringByte
    BY <1>1, <1>3, CopierKeepsInv DEF StringByte
<1>4. CASE EscapedQuote
    BY <1>1, <1>4, CopierKeepsInv DEF EscapedQuote
<1>5. CASE CloseString
    BY <1>1, <1>5, CopierKeepsInv DEF CloseString
<1> QED
    BY <1>2, <1>3, <1>4, <1>5 DEF Strings

LEMMA SplittingKeepsInv ==
    ASSUME ScanInv, Splitting
    PROVE  ScanInv'
<1>1. CASE SplitComma
    <2>1. AnySeq(Flushed)
        BY FlushedIsASeq DEF ScanInv
    <2> QED
        BY <1>1, <2>1 DEF SplitComma, ScanInv, AnySeq
<1>2. CASE SplitByte
    BY <1>2, CopyWhileSplitting DEF SplitByte
<1>3. CASE StartSubstituting
    BY <1>3, StartKeepsInv
<1>4. CASE GiveUp
    BY <1>4 DEF GiveUp, Give, ScanInv, AnySeq
<1> QED
    BY <1>1, <1>2, <1>3, <1>4 DEF Splitting

LEMMA SubstitutingKeepsInv ==
    ASSUME ScanInv, Substituting
    PROVE  ScanInv'
<1> USE DEF InTemplate, Next2Are
<1>1. phase = "scan" /\ text \in Seq(STRING) /\ i \in Nat /\ Len(text) \in Nat
    BY InputsAssumption
    DEF ScanInv, Scanned, Substituting, OpenDelimited, Delimited, OpenLineComment,
        LineCommentByte, CloseLineComment, OpenBlockComment, BlockCommentByte,
        CloseBlockComment, Placeholder, OtherByte, Finish
<1>2. Scanning
    BY <1>1 DEF Scanning
<1>3. CASE OpenDelimited
    BY <1>1, <1>2, <1>3, CopierKeepsInv DEF OpenDelimited
<1>4. CASE Delimited
    BY <1>1, <1>2, <1>4, CopierKeepsInv DEF Delimited
<1>5. CASE OpenLineComment
    BY <1>1, <1>2, <1>5, CopierKeepsInv DEF OpenLineComment
<1>6. CASE LineCommentByte
    BY <1>1, <1>2, <1>6, CopierKeepsInv DEF LineCommentByte
<1>7. CASE CloseLineComment
    BY <1>1, <1>2, <1>7, CopierKeepsInv DEF CloseLineComment
<1>8. CASE OpenBlockComment
    BY <1>1, <1>2, <1>8, CopierKeepsInv DEF OpenBlockComment
<1>9. CASE BlockCommentByte
    BY <1>1, <1>2, <1>9, CopierKeepsInv DEF BlockCommentByte
<1>10. CASE CloseBlockComment
    BY <1>1, <1>2, <1>10, CopierKeepsInv DEF CloseBlockComment
<1>11. CASE OtherByte
    BY <1>1, <1>2, <1>11, CopierKeepsInv DEF OtherByte
<1>12. CASE Placeholder
    BY <1>12, PlaceholderKeepsInv
<1>13. CASE Finish
    BY <1>13, FinishKeepsInv
<1> QED
    BY <1>3, <1>4, <1>5, <1>6, <1>7, <1>8, <1>9, <1>10, <1>11, <1>12, <1>13 DEF Substituting

LEMMA StepKeepsInv == ScanInv /\ [Next]_vars => ScanInv'
<1> SUFFICES ASSUME ScanInv, [Next]_vars
             PROVE  ScanInv'
    OBVIOUS
<1>1. CASE NoUsingClause
    BY <1>1 DEF NoUsingClause, Give, ScanInv, AnySeq
<1>2. CASE PanicInIndex
    BY <1>2 DEF PanicInIndex, ScanInv, AnySeq
<1>3. CASE StartSplitting
    BY <1>3 DEF StartSplitting, ScanInv, AnySeq
<1>4. CASE Strings
    BY <1>4, StringsKeepInv
<1>5. CASE Splitting
    BY <1>5, SplittingKeepsInv
<1>6. CASE Substituting
    BY <1>6, SubstitutingKeepsInv
<1>7. CASE UNCHANGED vars
    <2>1. /\ template' = template /\ phase' = phase /\ text' = text /\ i' = i
          /\ buf' = buf /\ values' = values /\ n' = n /\ result' = result
        BY <1>7 DEF vars
    <2>2. Placed(buf, n) => Placed(buf, n)'
        <3> SUFFICES ASSUME Placed(buf, n)
                     PROVE  Placed(buf, n)'
            OBVIOUS
        <3>1. PICK at \in [1 .. n -> 1 .. Len(buf)] : InPlace(buf, at)
            BY DEF Placed
        <3>2. InPlace(buf, at)'
            BY <2>1, <3>1 DEF InPlace
        <3> QED
            BY <2>1, <3>1, <3>2 DEF Placed
    <2>3. Placed(result, n) => Placed(result, n)'
        <3> SUFFICES ASSUME Placed(result, n)
                     PROVE  Placed(result, n)'
            OBVIOUS
        <3>1. PICK at \in [1 .. n -> 1 .. Len(result)] : InPlace(result, at)
            BY DEF Placed
        <3>2. InPlace(result, at)'
            BY <2>1, <3>1 DEF InPlace
        <3> QED
            BY <2>1, <3>1, <3>2 DEF Placed
    <2>4. AnySeq(buf) => AnySeq(buf)'
        BY <2>1 DEF AnySeq
    <2>5. Scanned => Scanned'
        BY <2>1, <2>2, <2>4 DEF Scanned
    <2>6. Answered => Answered'
        BY <2>1, <2>3 DEF Answered
    <2> QED
        BY <2>1, <2>5, <2>6 DEF ScanInv, AnySeq
<1> QED
    BY <1>1, <1>2, <1>3, <1>4, <1>5, <1>6, <1>7 DEF Next

LEMMA InvIsEnough == ScanInv => LiteralsInOrder
<1> SUFFICES ASSUME ScanInv, result # << >>
             PROVE  /\ Len(result) = Len(template)
                    /\ \E at \in [1 .. Len(values) -> 1 .. Len(template)] :
                          Substituted(result, at)
    BY DEF LiteralsInOrder
<1>1. Len(result) = Len(template) /\ n = Len(values)
    BY DEF ScanInv, Answered
<1>2. PICK at \in [1 .. n -> 1 .. Len(result)] : InPlace(result, at)
    BY DEF ScanInv, Answered, Placed
<1>3. \A k \in DOMAIN at : k <= Len(values)
    BY <1>1, <1>2 DEF ScanInv
<1>4. Substituted(result, at)
    BY <1>2, <1>3 DEF InPlace, Substituted
<1> QED
    BY <1>1, <1>2, <1>4

\* Whatever the statement and the template: a SQL that is returned holds every
\* literal exactly once and in order in place of question marks, and is otherwise
\* the template (prepared_sql.go:31-46 and 188-320).
THEOREM InOrder == Spec => []LiteralsInOrder
<1>1. Init => ScanInv
    <2>1. AnySeq(<< >>)
        BY EmptySeq DEF AnySeq
    <2>2. Init => template \in Seq(STRING)
        BY InputsAssumption DEF Init
    <2> QED
        BY <2>1, <2>2 DEF Init, ScanInv
<1>2. Spec => []ScanInv
    BY <1>1, StepKeepsInv, PTL DEF Spec
<1> QED
    BY <1>2, InvIsEnough, PTL

(***************************************************************************)
(* A call takes a bounded number of steps.                                 *)
(***************************************************************************)
BytesLeft == Len(text) + 1 - i

\* How many steps a call may still take.  The end of a line comment is read again.
StepsLeft ==
    CASE phase = "parse" -> 2 * Len(statement) + 2 * Len(template) + 5
      [] phase = "split" -> 2 * BytesLeft + 2 * Len(template) + 2
      [] phase = "scan" -> 2 * BytesLeft + (IF mode = "line" THEN 1 ELSE 0) + 1
      [] OTHER -> 0

LEMMA StepsAreCounted ==
    ASSUME TypeInv
    PROVE  /\ StepsLeft \in Nat /\ BytesLeft \in Nat /\ i \in Nat
           /\ Len(text) \in Nat /\ Len(statement) \in Nat /\ Len(template) \in Nat
<1>1. /\ Len(text) \in Nat /\ Len(statement) \in Nat /\ Len(template) \in Nat
      /\ i \in 1 .. Len(text) + 1
    BY LenProperties DEF TypeInv, TypeOK
<1>2. BytesLeft \in Nat
    BY <1>1 DEF BytesLeft
<1> QED
    BY <1>1, <1>2 DEF StepsLeft

LEMMA CopyMovesOn ==
    ASSUME TypeInv, NEW count \in 1 .. 2, NEW next, Scanning, i + count <= Len(text) + 1, Copy(count, next)
    PROVE  StepsLeft' < StepsLeft
<1>1. /\ BytesLeft \in Nat /\ i \in Nat /\ Len(text) \in Nat /\ Len(template) \in Nat
    BY StepsAreCounted
<1>2. i' = i + count /\ text' = text /\ template' = template /\ phase' = phase
    BY DEF Copy
<1>3. BytesLeft' = BytesLeft - count
    BY <1>1, <1>2 DEF BytesLeft
<1>4. CASE phase = "split"
    <2>1. StepsLeft = 2 * BytesLeft + 2 * Len(template) + 2
        BY <1>4 DEF StepsLeft
    <2>2. StepsLeft' = 2 * BytesLeft' + 2 * Len(template) + 2
        BY <1>2, <1>4 DEF StepsLeft
    <2> QED
        BY <1>1, <1>3, <2>1, <2>2
<1>5. CASE phase = "scan"
    <2>1. PICK a \in 0 .. 1 : StepsLeft = 2 * BytesLeft + a + 1
        BY <1>5 DEF StepsLeft
    <2>2. PICK b \in 0 .. 1 : StepsLeft' = 2 * BytesLeft' + b + 1
        BY <1>2, <1>5 DEF StepsLeft
    <2> QED
        BY <1>1, <1>3, <2>1, <2>2
<1> QED
    BY <1>4, <1>5 DEF Scanning

LEMMA EndingMovesOn ==
    ASSUME TypeInv, phase \in {"parse", "split", "scan"}, phase' \in {"done", "panicked"}
    PROVE  StepsLeft' < StepsLeft
<1>1. StepsLeft' = 0
    BY DEF StepsLeft
<1>2. StepsLeft > 0
    BY StepsAreCounted DEF StepsLeft
<1> QED
    BY <1>1, <1>2

\* What is behind the keyword is no longer than the statement.
LEMMA AfterUsingIsShorter ==
    ASSUME NEW sql \in Seq(STRING), UsingAt(sql) # 0
    PROVE  Len(AfterUsing(sql)) <= Len(sql)
<1>1. PICK ink : ink = {k \in UsingAt(sql) + 5 .. Len(sql) : ~isSQLWhitespace(sql[k])}
    OBVIOUS
<1>2. Len(sql) \in Nat /\ UsingAt(sql) \in Nat
    BY UsingIsAPosition, LenProperties
<1>3. CASE ink = {}
    <2>1. AfterUsing(sql) = << >>
        BY <1>1, <1>3 DEF AfterUsing
    <2>2. Len(<< >>) = 0
        BY EmptySeq
    <2> QED
        BY <1>2, <2>1, <2>2
<1>4. CASE ink # {}
    <2>1. ink \in SUBSET Nat /\ \A k \in ink : k >= 1 /\ k <= Len(sql)
        BY <1>1, <1>2
    <2>2. PICK a \in Nat : a = Min(ink) /\ a >= 1 /\ a <= Len(sql)
        BY <1>4, <2>1, MinOf
    <2>3. \A k \in a .. Len(sql) : sql[k] \in STRING
        BY <1>2, <2>2, ElementOfSeq
    <2>4. Len(SubSeq(sql, a, Len(sql))) = Len(sql) - a + 1
        BY <1>2, <2>2, <2>3, SubSeqProperties
    <2> QED
        BY <1>1, <1>2, <1>4, <2>2, <2>4 DEF AfterUsing
<1> QED
    BY <1>3, <1>4

LEMMA StringsMoveOn ==
    ASSUME TypeInv, Strings
    PROVE  StepsLeft' < StepsLeft
<1> USE StepsAreCounted DEF In, Next2Are
<1>1. CASE OpenString
    BY <1>1, CopyMovesOn DEF OpenString
<1>2. CASE StringByte
    BY <1>2, CopyMovesOn DEF StringByte
<1>3. CASE EscapedQuote
    BY <1>3, CopyMovesOn DEF EscapedQuote
<1>4. CASE CloseString
    BY <1>4, CopyMovesOn DEF CloseString
<1> QED
    BY <1>1, <1>2, <1>3, <1>4 DEF Strings

LEMMA SplittingMovesOn ==
    ASSUME TypeInv, Splitting
    PROVE  StepsLeft' < StepsLeft
<1>0. BytesLeft \in Nat /\ i \in Nat /\ Len(text) \in Nat /\ Len(template) \in Nat
    BY StepsAreCounted
<1>1. CASE SplitComma
    <2>1. /\ phase = "split" /\ phase' = "split" /\ text' = text /\ template' = template
          /\ i' = i + 1
        BY <1>1 DEF SplitComma
    <2>2. StepsLeft = 2 * BytesLeft + 2 * Len(template) + 2
        BY <2>1 DEF StepsLeft
    <2>3. StepsLeft' = 2 * BytesLeft' + 2 * Len(template) + 2
        BY <2>1 DEF StepsLeft
    <2>4. BytesLeft' = BytesLeft - 1
        BY <1>0, <2>1 DEF BytesLeft
    <2> QED
        BY <1>0, <2>2, <2>3, <2>4
<1>2. CASE SplitByte
    BY <1>0, <1>2, CopyMovesOn DEF SplitByte, Scanning
<1>3. CASE StartSubstituting
    <2>1. phase = "split"
        BY <1>3 DEF StartSubstituting
    <2>2. CASE phase' = "done"
        BY <2>1, <2>2, EndingMovesOn
    <2>3. CASE phase' # "done"
        <3>1. phase' = "scan" /\ text' = template /\ template' = template /\ i' = 1 /\ mode' = "code"
            BY <1>3, <2>3 DEF StartSubstituting, AtEndOfList
        <3>2. BytesLeft' = Len(template)
            BY <1>0, <3>1 DEF BytesLeft
        <3>3. StepsLeft' = 2 * BytesLeft' + 1
            BY <1>0, <3>1, <3>2 DEF StepsLeft
        <3>4. StepsLeft = 2 * BytesLeft + 2 * Len(template) + 2
            BY <2>1 DEF StepsLeft
        <3> QED
            BY <1>0, <3>2, <3>3, <3>4
    <2> QED
        BY <2>2, <2>3
<1>4. CASE GiveUp
    BY <1>4, EndingMovesOn DEF GiveUp, Give
<1> QED
    BY <1>1, <1>2, <1>3, <1>4 DEF Splitting

LEMMA SubstitutingMovesOn ==
    ASSUME TypeInv, Substituting
    PROVE  StepsLeft' < StepsLeft
<1>0. BytesLeft \in Nat /\ i \in Nat /\ Len(text) \in Nat /\ Len(template) \in Nat
    BY StepsAreCounted
<1> USE <1>0 DEF InTemplate, Next2Are, Scanning
<1>1. CASE OpenDelimited
    BY <1>1, CopyMovesOn DEF OpenDelimited
<1>2. CASE Delimited
    <2>1. PICK delim \in Delimiters :
              InTemplate(delim) /\ Copy(1, IF text[i] = delim THEN "code" ELSE delim)
        BY <1>2 DEF Delimited
    <2> QED
        BY <2>1, CopyMovesOn
<1>3. CASE OpenLineComment
    BY <1>3, CopyMovesOn DEF OpenLineComment
<1>4. CASE LineCommentByte
    BY <1>4, CopyMovesOn DEF LineCommentByte
\* Here the scan stays where it is, and leaves the comment.
<1>5. CASE CloseLineComment
    <2>1. /\ phase = "scan" /\ phase' = "scan" /\ text' = text /\ i' = i + 0
          /\ mode = "line" /\ mode' = "code"
        BY <1>5 DEF CloseLineComment, Copy
    <2>2. BytesLeft' = BytesLeft
        BY <2>1 DEF BytesLeft
    <2>3. StepsLeft = 2 * BytesLeft + 1 + 1 /\ StepsLeft' = 2 * BytesLeft' + 0 + 1
        BY <2>1 DEF StepsLeft
    <2> QED
        BY <2>2, <2>3
<1>6. CASE OpenBlockComment
    BY <1>6, CopyMovesOn DEF OpenBlockComment
<1>7. CASE BlockCommentByte
    BY <1>7, CopyMovesOn DEF BlockCommentByte
<1>8. CASE CloseBlockComment
    BY <1>8, CopyMovesOn DEF CloseBlockComment
<1>9. CASE Placeholder
    <2>1. /\ phase = "scan" /\ phase' = "scan" /\ text' = text /\ i' = i + 1
          /\ mode = "code" /\ mode' = "code"
        BY <1>9 DEF Placeholder
    <2>2. BytesLeft' = BytesLeft - 1
        BY <2>1 DEF BytesLeft
    <2>3. StepsLeft = 2 * BytesLeft + 1 /\ StepsLeft' = 2 * BytesLeft' + 1
        BY <2>1, <2>2 DEF StepsLeft
    <2> QED
        BY <2>2, <2>3
<1>10. CASE OtherByte
    BY <1>10, CopyMovesOn DEF OtherByte
<1>11. CASE Finish
    BY <1>11, EndingMovesOn DEF Finish, Give
<1> QED
    BY <1>1, <1>2, <1>3, <1>4, <1>5, <1>6, <1>7, <1>8, <1>9, <1>10, <1>11 DEF Substituting

LEMMA StepMovesOn ==
    TypeInv /\ Next => StepsLeft' < StepsLeft
<1> SUFFICES ASSUME TypeInv, Next
             PROVE  StepsLeft' < StepsLeft
    OBVIOUS
<1>1. CASE NoUsingClause
    BY <1>1, EndingMovesOn DEF NoUsingClause, Give
<1>2. CASE PanicInIndex
    BY <1>2, EndingMovesOn DEF PanicInIndex
<1>3. CASE StartSplitting
    <2>1. /\ phase = "parse" /\ i = 1 /\ phase' = "split" /\ i' = i /\ text' = AfterUsing(statement)
          /\ template' = template /\ UsingAt(statement) # 0 /\ statement \in Seq(STRING)
        BY <1>3 DEF StartSplitting, HasUsingClause, TypeInv, TypeOK
    <2>2. PICK len \in Nat : len = Len(text') /\ len <= Len(statement)
        BY <2>1, AfterUsingType, AfterUsingIsShorter, LenProperties
    <2>3. BytesLeft' = len
        BY <2>1, <2>2 DEF BytesLeft
    <2>4. StepsLeft = 2 * Len(statement) + 2 * Len(template) + 5
        BY <2>1 DEF StepsLeft
    <2>5. StepsLeft' = 2 * BytesLeft' + 2 * Len(template) + 2
        BY <2>1 DEF StepsLeft
    <2> QED
        BY <2>2, <2>3, <2>4, <2>5, StepsAreCounted
<1>4. CASE Strings
    BY <1>4, StringsMoveOn
<1>5. CASE Splitting
    BY <1>5, SplittingMovesOn
<1>6. CASE Substituting
    BY <1>6, SubstitutingMovesOn
<1> QED
    BY <1>1, <1>2, <1>3, <1>4, <1>5, <1>6 DEF Next

\* Every iteration of every copier brings the call closer to its end, so it takes at
\* most 2 * (Len(statement) + Len(template)) + 5 steps (prepared_sql.go:111-144 and
\* 188-219).
THEOREM ScansMoveOn ==
    Spec => [](StepsLeft \in Nat) /\ [][StepsLeft' < StepsLeft]_vars
<1>1. TypeInv => StepsLeft \in Nat
    BY StepsAreCounted
<1>2. TypeInv /\ [Next]_vars => [StepsLeft' < StepsLeft]_vars
    BY StepMovesOn
<1> QED
    BY <1>1, <1>2, TypeInvariance, PTL DEF Spec

(***************************************************************************)
(* What is returned is shorter than what it was made from.                 *)
(***************************************************************************)
Sized(pieces) == IsFiniteSet(BytesOf(pieces))

LEMMA SizeOfNone == Sized(<< >>) /\ Size(<< >>) = 0
<1>1. BytesOf(<< >>) = {}
    BY DEF BytesOf
<1> QED
    BY <1>1, FS_EmptySet DEF Sized, Size

LEMMA UpTo ==
    ASSUME NEW m \in Nat
    PROVE  IsFiniteSet(1 .. m) /\ Cardinality(1 .. m) = m
BY FS_Interval

\* Another piece brings its bytes.
LEMMA SizeOfAppend ==
    ASSUME NEW s \in Seq(Piece), Sized(s), NEW piece \in Piece
    PROVE  Sized(Append(s, piece)) /\ Size(Append(s, piece)) = Size(s) + Len(piece)
<1>1. /\ Len(s) \in Nat /\ DOMAIN s = 1 .. Len(s)
      /\ Len(piece) \in Nat /\ DOMAIN piece = 1 .. Len(piece)
    BY LenProperties DEF Piece
<1>2. PICK last : last = Len(s) + 1 /\ last \in Nat /\ last \notin DOMAIN s
    BY <1>1
<1>3. PICK t : t = Append(s, piece)
    OBVIOUS
<1>4. DOMAIN t = DOMAIN s \union {last} /\ t[last] = piece /\ \A k \in DOMAIN s : t[k] = s[k]
    <2>1. t \in Seq(Piece) /\ Len(t) = last
        BY <1>2, <1>3, AppendProperties
    <2>2. DOMAIN t = 1 .. last
        BY <2>1, LenProperties
    <2>3. 1 .. last = (1 .. Len(s)) \union {last}
        BY <1>1, <1>2
    <2>4. AnySeq(s)
        BY DEF AnySeq
    <2>5. t[last] = piece /\ \A k \in 1 .. Len(s) : t[k] = s[k]
        BY <1>2, <1>3, <2>4, Appending
    <2> QED
        BY <1>1, <2>2, <2>3, <2>5
<1>5. BytesOf(t) = BytesOf(s) \union ({last} \X (1 .. Len(piece)))
    BY <1>1, <1>2, <1>4 DEF BytesOf
<1>6. IsFiniteSet({last} \X (1 .. Len(piece))) /\ Cardinality({last} \X (1 .. Len(piece))) = Len(piece)
    <2>1. IsFiniteSet({last}) /\ Cardinality({last}) = 1
        BY FS_Singleton
    <2>2. IsFiniteSet(1 .. Len(piece)) /\ Cardinality(1 .. Len(piece)) = Len(piece)
        BY <1>1, UpTo
    <2>3. /\ IsFiniteSet({last} \X (1 .. Len(piece)))
          /\ Cardinality({last} \X (1 .. Len(piece))) = 1 * Cardinality(1 .. Len(piece))
        BY <2>1, <2>2, FS_Product
    <2> QED
        BY <1>1, <2>2, <2>3
<1>7. BytesOf(s) \intersect ({last} \X (1 .. Len(piece))) = {}
    <2> SUFFICES ASSUME NEW b \in BytesOf(s), b \in {last} \X (1 .. Len(piece))
                 PROVE  FALSE
        OBVIOUS
    <2>1. PICK k \in DOMAIN s : b \in {k} \X DOMAIN s[k]
        BY DEF BytesOf
    <2> QED
        BY <1>2, <2>1
<1>8. Cardinality(BytesOf(s)) \in Nat /\ Cardinality({}) = 0
    BY FS_CardinalityType, FS_EmptySet DEF Sized
<1>9. /\ IsFiniteSet(BytesOf(t))
      /\ Cardinality(BytesOf(t)) = Cardinality(BytesOf(s)) + Len(piece)
    <2>1. PICK new : new = {last} \X (1 .. Len(piece))
        OBVIOUS
    <2>2. IsFiniteSet(BytesOf(s)) /\ IsFiniteSet(new) /\ BytesOf(s) \intersect new = {}
        BY <1>6, <1>7, <2>1 DEF Sized
    <2>3. /\ IsFiniteSet(BytesOf(s) \union new)
          /\ Cardinality(BytesOf(s) \union new)
                = Cardinality(BytesOf(s)) + Cardinality(new) - Cardinality({})
        BY <2>2, FS_Union
    <2> QED
        BY <1>1, <1>5, <1>6, <1>8, <2>1, <2>3
<1> QED
    BY <1>1, <1>3, <1>8, <1>9 DEF Sized, Size

\* What Copy appends is a byte a piece.
LEMMA SizeOfCopy ==
    ASSUME NEW s \in Seq(Piece), Sized(s), NEW count \in 0 .. 2, NEW c \in [1 .. count -> Piece],
           \A k \in 1 .. count : Len(c[k]) = 1
    PROVE  Sized(s \o c) /\ Size(s \o c) = Size(s) + count
<1>0. PICK r : r = s \o c
    OBVIOUS
<1>1. /\ r \in Seq(Piece) /\ Len(r) = Len(s) + count /\ Len(s) \in Nat
      /\ \A j \in 1 .. Len(s) : r[j] = s[j]
      /\ \A j \in Len(s) + 1 .. Len(s) + count : r[j] = c[j - Len(s)]
    BY <1>0, Copying
<1>2. Size(s) \in Nat
    BY FS_CardinalityType DEF Size, Sized
<1>3. CASE count = 0
    <2>1. r = s
        BY <1>1, <1>3, SeqEqual
    <2> QED
        BY <1>0, <1>2, <1>3, <2>1
<1>4. CASE count > 0
    <2>1. PICK t : t = Append(s, c[1])
        OBVIOUS
    <2>2. c[1] \in Piece /\ Len(c[1]) = 1
        BY <1>4
    <2>3. /\ t \in Seq(Piece) /\ Len(t) = Len(s) + 1
          /\ t[Len(s) + 1] = c[1] /\ \A j \in 1 .. Len(s) : t[j] = s[j]
        BY <2>1, <2>2, AppendProperties
    <2>4. Sized(t) /\ Size(t) = Size(s) + 1
        BY <2>1, <2>2, SizeOfAppend
    <2>5. r[Len(s) + 1] = c[1]
        BY <1>1, <1>4
    <2>6. CASE count = 1
        <3>1. \A j \in 1 .. Len(r) : r[j] = t[j]
            BY <1>1, <2>3, <2>5, <2>6
        <3>2. Len(r) = Len(t)
            BY <1>1, <2>3, <2>6
        <3>3. r = t
            BY <1>1, <2>3, <3>1, <3>2, SeqEqual
        <3> QED
            BY <1>0, <2>4, <2>6, <3>3
    <2>7. CASE count = 2
        <3>1. PICK u : u = Append(t, c[2])
            OBVIOUS
        <3>2. c[2] \in Piece /\ Len(c[2]) = 1
            BY <2>7
        <3>3. /\ u \in Seq(Piece) /\ Len(u) = Len(t) + 1
              /\ u[Len(t) + 1] = c[2] /\ \A j \in 1 .. Len(t) : u[j] = t[j]
            BY <2>3, <3>1, <3>2, AppendProperties
        <3>4. Sized(u) /\ Size(u) = Size(t) + 1
            BY <2>3, <2>4, <3>1, <3>2, SizeOfAppend
        <3>5. r[Len(s) + 2] = c[2]
            BY <1>1, <2>7
        <3>6. \A j \in 1 .. Len(r) : r[j] = u[j]
            <4>1. \A j \in 1 .. Len(r) : j \in 1 .. Len(s) \/ j = Len(s) + 1 \/ j = Len(s) + 2
                BY <1>1, <2>7
            <4>2. \A j \in 1 .. Len(s) : j \in 1 .. Len(t) /\ r[j] = s[j] /\ u[j] = s[j]
                BY <1>1, <2>3, <3>3
            <4>3. u[Len(s) + 1] = c[1] /\ u[Len(s) + 2] = c[2]
                BY <1>1, <2>3, <3>3
            <4> QED
                BY <2>5, <3>5, <4>1, <4>2, <4>3
        <3>7. r = u
            BY <1>1, <2>3, <2>7, <3>3, <3>6, SeqEqual
        <3> QED
            BY <1>0, <1>2, <2>4, <2>7, <3>4, <3>7
    <2> QED
        BY <1>4, <2>6, <2>7
<1> QED
    BY <1>3, <1>4

LEMMA TrimIsShorter ==
    ASSUME NEW bytes \in Seq(STRING)
    PROVE  Len(Trim(bytes)) \in Nat /\ Len(Trim(bytes)) <= Len(bytes)
<1>1. PICK ink : ink = {k \in DOMAIN bytes : ~isSQLWhitespace(bytes[k])}
    OBVIOUS
<1>2. Len(bytes) \in Nat /\ DOMAIN bytes = 1 .. Len(bytes)
    BY LenProperties
<1>3. CASE ink = {}
    <2>1. Trim(bytes) = << >>
        BY <1>1, <1>3 DEF Trim
    <2>2. Len(<< >>) = 0
        BY EmptySeq
    <2> QED
        BY <1>2, <2>1, <2>2
<1>4. CASE ink # {}
    <2>1. ink \in SUBSET Nat /\ ink \in SUBSET (0 .. Len(bytes))
        BY <1>1, <1>2
    <2>2. Min(ink) \in ink /\ Max(ink) \in ink
        BY <1>2, <1>4, <2>1, MinOf, MaxOf
    <2>3. Min(ink) \in 1 .. Len(bytes) /\ Max(ink) \in 1 .. Len(bytes)
        BY <1>1, <1>2, <2>2
    <2>4. PICK a \in Int, b \in Int : a = Min(ink) /\ b = Max(ink)
        BY <2>3
    <2>5. \A k \in a .. b : bytes[k] \in STRING
        BY <1>2, <2>3, <2>4, ElementOfSeq
    <2>6. Len(SubSeq(bytes, a, b)) = IF a <= b THEN b - a + 1 ELSE 0
        BY <2>5, SubSeqProperties
    <2>7. Trim(bytes) = SubSeq(bytes, a, b)
        BY <1>1, <1>4, <2>4 DEF Trim
    <2> QED
        BY <1>2, <2>3, <2>4, <2>6, <2>7
<1> QED
    BY <1>3, <1>4

\* The literal that is flushed was in the builder.
LEMMA SizeOfFlushed ==
    ASSUME TypeInv, Sized(values)
    PROVE  /\ Sized(Flushed)
           /\ Size(Flushed) + Len(Flushed) <= Size(values) + Len(values) + Len(buf) + 1
<1>1. /\ values \in Seq(Piece) /\ Len(values) \in Nat /\ Len(buf) \in Nat /\ Size(values) \in Nat
      /\ DOMAIN buf = 1 .. Len(buf)
    BY LenProperties, FS_CardinalityType DEF TypeInv, TypeOK, Piece, Size, Sized
<1>2. PICK token : token = Trim(TokenBytes)
    OBVIOUS
<1>3. token \in Seq(STRING) /\ Len(token) \in Nat /\ Len(token) <= Len(TokenBytes)
    BY <1>2, FlushedType, TrimType, TrimIsShorter
<1>4. Len(TokenBytes) = Len(buf)
    <2>1. DOMAIN TokenBytes = 1 .. Len(buf)
        BY <1>1 DEF TokenBytes
    <2>2. DOMAIN TokenBytes = 1 .. Len(TokenBytes) /\ Len(TokenBytes) \in Nat
        BY FlushedType, LenProperties
    <2> QED
        BY <1>1, <2>1, <2>2, SameInterval
<1>5. CASE token = << >>
    <2>1. Flushed = values
        BY <1>2, <1>5 DEF Flushed
    <2> QED
        BY <1>1, <2>1
<1>6. CASE token # << >>
    <2>1. Flushed = Append(values, token) /\ token \in Piece
        BY <1>2, <1>3, <1>6 DEF Flushed, Piece
    <2>2. Sized(Flushed) /\ Size(Flushed) = Size(values) + Len(token)
        BY <1>1, <2>1, SizeOfAppend
    <2>3. Len(Flushed) = Len(values) + 1
        BY <1>1, <2>1, AppendProperties
    <2> QED
        BY <1>1, <1>3, <1>4, <2>2, <2>3
<1> QED
    BY <1>5, <1>6

\* The bytes of the literals put in place so far.
Inserted == Size(SubSeq(values, 1, n))

\* The literals split off, with a separator each, and the bytes in the builder fit
\* what has been scanned of the list; what the builder holds of the template is as
\* long as what has been scanned, less the placeholders, plus the literals.
SizeInv ==
    /\ TypeInv
    /\ phase \in {"parse", "split", "scan"} => result = << >>
    /\ phase = "parse" => values = << >> /\ buf = << >> /\ n = 0
    /\ phase = "split" =>
          /\ text = AfterUsing(statement) /\ n = 0
          /\ Sized(values)
          /\ Size(values) + Len(values) + Len(buf) <= i - 1
    /\ phase = "scan" =>
          /\ text = template /\ AfterUsing(statement) \in Seq(STRING)
          /\ Sized(values)
          /\ Size(values) + Len(values) <= Len(AfterUsing(statement)) + 1
          /\ n <= Len(values) => Sized(buf) /\ Size(buf) + n <= i - 1 + Inserted
    /\ ResultIsShort

LEMMA SizesAreNaturals ==
    ASSUME TypeInv
    PROVE  /\ Len(values) \in Nat /\ Len(buf) \in Nat /\ Len(text) \in Nat /\ i \in 1 .. Len(text) + 1
           /\ Len(template) \in Nat /\ n \in Nat
           /\ values \in Seq(Piece) /\ buf \in Seq(Piece) /\ text \in Seq(STRING)
           /\ \A pieces : Sized(pieces) => Size(pieces) \in Nat
<1>1. \A pieces : Sized(pieces) => Size(pieces) \in Nat
    BY FS_CardinalityType DEF Size, Sized
<1> QED
    BY <1>1, LenProperties DEF TypeInv, TypeOK, Piece

\* The first k literals are some of them.
LEMMA SizedInserted ==
    ASSUME TypeInv, Sized(values), NEW k \in Nat, k <= Len(values)
    PROVE  SubSeq(values, 1, k) \in Seq(Piece) /\ Sized(SubSeq(values, 1, k))
<1>1. values \in Seq(Piece) /\ Len(values) \in Nat /\ DOMAIN values = 1 .. Len(values)
    BY LenProperties, SizesAreNaturals
<1>2. \A j \in 1 .. k : values[j] \in Piece
    BY <1>1, ElementOfSeq
<1>3. PICK s : s = SubSeq(values, 1, k)
    OBVIOUS
<1>4. s \in Seq(Piece) /\ Len(s) = k /\ \A j \in 1 .. k : s[j] = values[j]
    BY <1>2, <1>3, SubSeqProperties
<1>5. DOMAIN s = 1 .. k
    BY <1>4, LenProperties
<1>6. BytesOf(s) \in SUBSET BytesOf(values)
    BY <1>1, <1>4, <1>5 DEF BytesOf
<1>7. IsFiniteSet(BytesOf(s))
    BY <1>6, FS_Subset DEF Sized
<1> QED
    BY <1>3, <1>4, <1>7 DEF Sized

LEMMA CopyKeepsSizes ==
    ASSUME SizeInv, TypeInv', Scanning, NEW count \in 0 .. 2, NEW next,
           i + count <= Len(text) + 1, Copy(count, next)
    PROVE  SizeInv'
<1>1. /\ Len(values) \in Nat /\ Len(buf) \in Nat /\ i \in Nat /\ n \in Nat
      /\ buf \in Seq(Piece) /\ text \in Seq(STRING) /\ Len(text) \in Nat
      /\ \A pieces : Sized(pieces) => Size(pieces) \in Nat
    BY SizesAreNaturals DEF SizeInv
<1>2. PICK c : c = [k \in 1 .. count |-> <<text[i + k - 1]>>] /\ buf' = buf \o c
    BY DEF Copy
<1>3. \A k \in 1 .. count : <<text[i + k - 1]>> \in Piece /\ Len(<<text[i + k - 1]>>) = 1
    <2> SUFFICES ASSUME NEW k \in 1 .. count
                 PROVE  <<text[i + k - 1]>> \in Piece /\ Len(<<text[i + k - 1]>>) = 1
        OBVIOUS
    <2>1. i + k - 1 \in 1 .. Len(text)
        BY <1>1, SizesAreNaturals DEF SizeInv
    <2>2. PICK byte \in STRING : text[i + k - 1] = byte
        BY <1>1, <2>1, ElementOfSeq
    <2> QED
        BY <2>2, OneByte, Singleton
<1>4. c \in [1 .. count -> Piece] /\ \A k \in 1 .. count : Len(c[k]) = 1
    BY <1>2, <1>3
<1>5. Len(buf') = Len(buf) + count
    BY <1>1, <1>2, <1>4, Copying
<1>6. Sized(buf) => Sized(buf') /\ Size(buf') = Size(buf) + count
    BY <1>1, <1>2, <1>4, SizeOfCopy
<1>7. /\ i' = i + count /\ UNCHANGED <<statement, template, phase, text, values, n, result>>
      /\ Inserted' = Inserted
    BY DEF Copy, Inserted
<1>8. ResultIsShort'
    BY <1>7 DEF SizeInv, ResultIsShort, Scanning
<1>9. CASE phase = "split"
    <2>1. /\ text = AfterUsing(statement) /\ n = 0 /\ Sized(values)
          /\ Size(values) + Len(values) + Len(buf) <= i - 1 /\ result = << >>
        BY <1>9 DEF SizeInv
    <2>2. Size(values) + Len(values) + Len(buf') <= i' - 1
        BY <1>1, <1>5, <1>7, <2>1
    <2> QED
        BY <1>7, <1>8, <1>9, <2>1, <2>2 DEF SizeInv
<1>10. CASE phase = "scan"
    <2>1. /\ text = template /\ AfterUsing(statement) \in Seq(STRING) /\ Sized(values)
          /\ Size(values) + Len(values) <= Len(AfterUsing(statement)) + 1
          /\ n <= Len(values) => Sized(buf) /\ Size(buf) + n <= i - 1 + Inserted
          /\ result = << >>
        BY <1>10 DEF SizeInv
    <2>2. n <= Len(values) => Sized(buf') /\ Size(buf') + n <= i' - 1 + Inserted
        <3> SUFFICES ASSUME n <= Len(values)
                     PROVE  Sized(buf') /\ Size(buf') + n <= i' - 1 + Inserted
            OBVIOUS
        <3>1. Sized(SubSeq(values, 1, n))
            BY <1>1, <2>1, SizedInserted DEF SizeInv
        <3>2. Inserted \in Nat /\ Size(buf) \in Nat
            BY <1>1, <2>1, <3>1 DEF Inserted
        <3> QED
            BY <1>1, <1>6, <1>7, <2>1, <3>2
    <2> QED
        BY <1>7, <1>8, <1>10, <2>1, <2>2 DEF SizeInv
<1> QED
    BY <1>9, <1>10 DEF Scanning

\* A literal, or a surplus question mark, takes the place of a byte.
LEMMA PlaceholderKeepsSizes ==
    ASSUME SizeInv, TypeInv', Placeholder
    PROVE  SizeInv'
<1>1. /\ Len(values) \in Nat /\ i \in Nat /\ n \in Nat
      /\ values \in Seq(Piece) /\ buf \in Seq(Piece) /\ text \in Seq(STRING)
      /\ \A pieces : Sized(pieces) => Size(pieces) \in Nat
    BY SizesAreNaturals DEF SizeInv
<1>2. /\ phase = "scan" /\ text = template /\ Sized(values) /\ result = << >>
      /\ AfterUsing(statement) \in Seq(STRING)
      /\ Size(values) + Len(values) <= Len(AfterUsing(statement)) + 1
      /\ n <= Len(values) => Sized(buf) /\ Size(buf) + n <= i - 1 + Inserted
    BY DEF SizeInv, Placeholder, InTemplate
<1>3. /\ n' = n + 1 /\ i' = i + 1 /\ UNCHANGED <<statement, template, phase, text, values, result>>
      /\ buf' = Append(buf, IF n < Len(values) THEN values[n + 1] ELSE <<"?">>)
    BY DEF Placeholder
<1>4. n' <= Len(values) => Sized(buf') /\ Size(buf') + n' <= i' - 1 + Inserted'
    <2> SUFFICES ASSUME n + 1 <= Len(values)
                 PROVE  Sized(buf') /\ Size(buf') + n' <= i' - 1 + Inserted'
        BY <1>3
    <2>1. PICK literal \in Piece : literal = values[n + 1]
        BY <1>1, ElementOfSeq
    <2>2. buf' = Append(buf, literal)
        BY <1>1, <1>3, <2>1
    <2>3. Sized(buf) /\ Size(buf) + n <= i - 1 + Inserted
        BY <1>1, <1>2
    <2>4. Sized(buf') /\ Size(buf') = Size(buf) + Len(literal)
        BY <1>1, <2>2, <2>3, SizeOfAppend
    <2>5. SubSeq(values, 1, n) \in Seq(Piece) /\ Sized(SubSeq(values, 1, n))
        BY <1>1, <1>2, SizedInserted DEF SizeInv
    <2>6. SubSeq(values, 1, n + 1) = Append(SubSeq(values, 1, n), literal)
        <3>1. n + 1 \in 1 .. Len(values) /\ 1 \in 1 .. Len(values) /\ (n + 1) - 1 = n
            BY <1>1
        <3>2. SubSeq(values, 1, n + 1) = SubSeq(values, 1, n) \o <<values[n + 1]>>
            BY <1>1, <3>1, SubSeqRecursiveSecond
        <3>3. Append(SubSeq(values, 1, n), literal) = SubSeq(values, 1, n) \o <<literal>>
            BY <2>5, AppendIsConcat
        <3> QED
            BY <2>1, <3>2, <3>3
    <2>7. Inserted' = Size(SubSeq(values, 1, n + 1))
        BY <1>3 DEF Inserted
    <2>8. Inserted' = Inserted + Len(literal)
        BY <2>5, <2>6, <2>7, SizeOfAppend DEF Inserted
    <2>9. Inserted \in Nat /\ Size(buf) \in Nat /\ Len(literal) \in Nat
        BY <1>1, <2>3, <2>5, LenProperties DEF Inserted, Piece
    <2> QED
        BY <1>1, <1>3, <2>3, <2>4, <2>8, <2>9
<1>5. ResultIsShort'
    BY <1>2, <1>3 DEF ResultIsShort
<1> QED
    BY <1>2, <1>3, <1>4, <1>5 DEF SizeInv

LEMMA SplitCommaKeepsSizes ==
    ASSUME SizeInv, TypeInv', SplitComma
    PROVE  SizeInv'
<1>1. /\ Len(values) \in Nat /\ Len(buf) \in Nat /\ i \in Nat
      /\ \A pieces : Sized(pieces) => Size(pieces) \in Nat
    BY SizesAreNaturals DEF SizeInv
<1>2. /\ phase = "split" /\ text = AfterUsing(statement) /\ n = 0 /\ Sized(values) /\ result = << >>
      /\ Size(values) + Len(values) + Len(buf) <= i - 1
    BY DEF SizeInv, SplitComma
<1>3. /\ values' = Flushed /\ buf' = << >> /\ i' = i + 1
      /\ UNCHANGED <<statement, template, phase, text, n, result>>
    BY DEF SplitComma
<1>4. Sized(Flushed) /\ Size(Flushed) + Len(Flushed) <= Size(values) + Len(values) + Len(buf) + 1
    BY <1>2, SizeOfFlushed DEF SizeInv
<1>5. Len(Flushed) \in Nat /\ Size(Flushed) \in Nat /\ Size(values) \in Nat /\ Len(<< >>) = 0
    BY <1>1, <1>2, <1>4, FlushedType, LenProperties, EmptySeq DEF SizeInv
<1>6. Size(values') + Len(values') + Len(buf') <= i' - 1
    BY <1>1, <1>2, <1>3, <1>4, <1>5
<1> QED
    BY <1>2, <1>3, <1>4, <1>6 DEF SizeInv, ResultIsShort

LEMMA StartKeepsSizes ==
    ASSUME SizeInv, TypeInv', StartSubstituting
    PROVE  SizeInv'
<1>1. /\ Len(values) \in Nat /\ Len(buf) \in Nat /\ i \in Nat /\ Len(text) \in Nat /\ i <= Len(text) + 1
      /\ text \in Seq(STRING)
      /\ \A pieces : Sized(pieces) => Size(pieces) \in Nat
    BY SizesAreNaturals DEF SizeInv
<1>2. /\ phase = "split" /\ text = AfterUsing(statement) /\ n = 0 /\ Sized(values) /\ result = << >>
      /\ Size(values) + Len(values) + Len(buf) <= i - 1
    BY DEF SizeInv, StartSubstituting
<1>3. values' = Flushed /\ UNCHANGED <<statement, template, n, result>>
    BY DEF StartSubstituting
<1>4. Sized(Flushed) /\ Size(Flushed) + Len(Flushed) <= Size(values) + Len(values) + Len(buf) + 1
    BY <1>2, SizeOfFlushed DEF SizeInv
<1>5. /\ Flushed \in Seq(Piece) /\ Len(Flushed) \in Nat
      /\ Size(Flushed) \in Nat /\ Size(values) \in Nat
    BY <1>1, <1>2, <1>4, FlushedType, LenProperties DEF SizeInv
<1>6. ResultIsShort'
    BY <1>2, <1>3 DEF ResultIsShort
<1>7. CASE Flushed = << >>
    <2>1. phase' = "done"
        BY <1>7 DEF StartSubstituting
    <2> QED
        BY <1>6, <2>1 DEF SizeInv
<1>8. CASE Flushed # << >>
    <2>1. phase' = "scan" /\ text' = template /\ i' = 1 /\ buf' = << >>
        BY <1>8 DEF StartSubstituting
    <2>2. Size(values') + Len(values') <= Len(AfterUsing(statement)) + 1
        BY <1>1, <1>2, <1>3, <1>4, <1>5
    <2>3. Inserted' = 0
        <3>1. SubSeq(Flushed, 1, 0) = << >>
            BY SubSeqEmpty
        <3> QED
            BY <1>2, <1>3, <3>1, SizeOfNone DEF Inserted
    <2>4. Sized(buf') /\ Size(buf') + n' <= i' - 1 + Inserted'
        BY <1>2, <1>3, <2>1, <2>3, SizeOfNone
    <2> QED
        BY <1>1, <1>2, <1>3, <1>4, <1>6, <2>1, <2>2, <2>4 DEF SizeInv
<1> QED
    BY <1>7, <1>8

LEMMA FinishKeepsSizes ==
    ASSUME SizeInv, TypeInv', Finish
    PROVE  SizeInv'
<1>1. /\ Len(values) \in Nat /\ i \in Nat /\ n \in Nat /\ Len(text) \in Nat /\ i <= Len(text) + 1
      /\ values \in Seq(Piece)
      /\ \A pieces : Sized(pieces) => Size(pieces) \in Nat
    BY SizesAreNaturals DEF SizeInv
<1>2. /\ phase = "scan" /\ text = template /\ Sized(values)
      /\ AfterUsing(statement) \in Seq(STRING)
      /\ Size(values) + Len(values) <= Len(AfterUsing(statement)) + 1
      /\ n <= Len(values) => Sized(buf) /\ Size(buf) + n <= i - 1 + Inserted
    BY DEF SizeInv, Finish
<1>3. /\ phase' = "done" /\ result' = IF n # Len(values) THEN << >> ELSE buf
      /\ UNCHANGED <<statement, template, values>>
    BY DEF Finish, Give
<1>4. ResultIsShort'
    <2> SUFFICES ASSUME n = Len(values), result' = buf
                 PROVE  Size(buf) + 2 * Len(values) <= Len(template) + Len(AfterUsing(statement)) + 1
        BY <1>3 DEF ResultIsShort
    <2>1. Inserted = Size(values)
        BY <1>1, SubSeqFull DEF Inserted
    <2>2. Sized(buf) /\ Size(buf) + Len(values) <= Len(template) + Size(values)
        <3>1. Sized(buf) /\ Size(buf) + n <= i - 1 + Inserted
            BY <1>1, <1>2
        <3>2. Size(buf) \in Nat /\ Size(values) \in Nat
            BY <1>1, <1>2, <3>1
        <3> QED
            BY <1>1, <1>2, <2>1, <3>1, <3>2
    <2>3. /\ Size(buf) \in Nat /\ Size(values) \in Nat
          /\ Len(AfterUsing(statement)) \in Nat /\ Len(template) \in Nat
        BY <1>1, <1>2, <2>2, LenProperties
    <2> QED
        BY <1>1, <1>2, <2>2, <2>3
<1> QED
    BY <1>3, <1>4 DEF SizeInv

\* Every copier of both loops.
LEMMA CopiersKeepSizes ==
    ASSUME SizeInv, TypeInv', Next, ~NoUsingClause, ~PanicInIndex, ~StartSplitting,
           ~SplitComma, ~StartSubstituting, ~GiveUp, ~Placeholder, ~Finish
    PROVE  SizeInv'
<1> USE DEF In, InTemplate, Next2Are, Scanning
<1>1. i \in Nat /\ Len(text) \in Nat
    BY SizesAreNaturals DEF SizeInv
<1>2. \/ OpenString \/ StringByte \/ EscapedQuote \/ CloseString \/ SplitByte
      \/ OpenDelimited \/ Delimited \/ OpenLineComment \/ LineCommentByte \/ CloseLineComment
      \/ OpenBlockComment \/ BlockCommentByte \/ CloseBlockComment \/ OtherByte
    BY DEF Next, Strings, Splitting, Substituting
<1>3. CASE OpenString \/ StringByte \/ EscapedQuote \/ CloseString
    BY <1>1, <1>3, CopyKeepsSizes DEF OpenString, StringByte, EscapedQuote, CloseString
<1>4. CASE SplitByte
    BY <1>1, <1>4, CopyKeepsSizes DEF SplitByte
<1>5. CASE OpenDelimited
    BY <1>1, <1>5, CopyKeepsSizes DEF OpenDelimited
<1>6. CASE Delimited
    BY <1>1, <1>6, CopyKeepsSizes DEF Delimited
<1>7. CASE OpenLineComment \/ LineCommentByte \/ CloseLineComment
    BY <1>1, <1>7, CopyKeepsSizes DEF OpenLineComment, LineCommentByte, CloseLineComment
<1>8. CASE OpenBlockComment \/ BlockCommentByte \/ CloseBlockComment
    BY <1>1, <1>8, CopyKeepsSizes DEF OpenBlockComment, BlockCommentByte, CloseBlockComment
<1>9. CASE OtherByte
    BY <1>1, <1>9, CopyKeepsSizes DEF OtherByte
<1> QED
    BY <1>2, <1>3, <1>4, <1>5, <1>6, <1>7, <1>8, <1>9

LEMMA StepKeepsSizes == SizeInv /\ [Next]_vars => SizeInv'
<1> SUFFICES ASSUME SizeInv, [Next]_vars
             PROVE  SizeInv'
    OBVIOUS
<1>1. TypeInv'
    BY StepKeepsTypes DEF SizeInv
<1>2. CASE NoUsingClause
    BY <1>1, <1>2 DEF NoUsingClause, Give, SizeInv, ResultIsShort
<1>3. CASE PanicInIndex
    BY <1>1, <1>3 DEF PanicInIndex, SizeInv, ResultIsShort
<1>4. CASE StartSplitting
    <2>1. /\ phase = "parse" /\ values = << >> /\ buf = << >> /\ n = 0 /\ result = << >> /\ i = 1
        BY <1>4 DEF StartSplitting, SizeInv, TypeInv
    <2>2. /\ phase' = "split" /\ text' = AfterUsing(statement)
          /\ UNCHANGED <<statement, template, i, mode, buf, values, n, result>>
        BY <1>4 DEF StartSplitting
    <2>3. Sized(values') /\ Size(values') + Len(values') + Len(buf') <= i' - 1
        <3>1. Len(<< >>) = 0
            BY EmptySeq
        <3> QED
            BY <2>1, <2>2, <3>1, SizeOfNone
    <2> QED
        BY <1>1, <2>1, <2>2, <2>3 DEF SizeInv, ResultIsShort
<1>5. CASE SplitComma
    BY <1>1, <1>5, SplitCommaKeepsSizes
<1>6. CASE StartSubstituting
    BY <1>1, <1>6, StartKeepsSizes
<1>7. CASE GiveUp
    BY <1>1, <1>7 DEF GiveUp, Give, SizeInv, ResultIsShort
<1>8. CASE Placeholder
    BY <1>1, <1>8, PlaceholderKeepsSizes
<1>9. CASE Finish
    BY <1>1, <1>9, FinishKeepsSizes
<1>10. CASE UNCHANGED vars
    <2>1. UNCHANGED <<statement, template, phase, text, i, buf, values, n, result>>
        BY <1>10 DEF vars
    <2> QED
        BY <1>1, <2>1 DEF SizeInv, ResultIsShort, Inserted
<1> QED
    BY <1>1, <1>2, <1>3, <1>4, <1>5, <1>6, <1>7, <1>8, <1>9, <1>10, CopiersKeepSizes

\* Whatever the statement and the template, a SQL that is returned is shorter than
\* the two together: every literal came out of the list and took the place of a
\* question mark (prepared_sql.go:111-178 and 188-219).  It is what get_query_sql
\* sends without a cut (get_query_sql.go:112-118).
THEOREM ResultsAreShort == Spec => []ResultIsShort
<1>1. Init /\ TypeInv => SizeInv
    BY DEF Init, SizeInv, ResultIsShort
<1>2. SizeInv => ResultIsShort
    BY DEF SizeInv
<1> QED
    BY <1>1, <1>2, TypeInvariance, StepKeepsSizes, PTL DEF Spec
================================================================================
