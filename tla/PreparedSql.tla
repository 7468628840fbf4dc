------------------------------ MODULE PreparedSql ------------------------------
(***************************************************************************)
(* SubstitutePreparedLiterals (pkg/trino.go/prepared_sql.go): the literals *)
(* of EXECUTE ... USING are split off and put in place of the question     *)
(* marks of the prepared template.  Both loops walk a text byte by byte    *)
(* and are modelled an iteration a step.                                   *)
(*                                                                         *)
(* Texts are sequences of the few bytes the scanners tell apart; "x"       *)
(* stands for every other one, and the word EXECUTE, in any case, for its  *)
(* seven.  "wide" and "narrow" are the first bytes of two-byte letters     *)
(* whose upper-case form takes three bytes, or one.                        *)
(***************************************************************************)
EXTENDS Integers, Sequences, SequencesExt

CONSTANT
    Inputs  \* pairs of an EXECUTE statement and a prepared query

ASSUME InputsAssumption == Inputs \subseteq Seq(STRING) \X Seq(STRING)

VARIABLES
    statement,  \* executeSQL
    template,   \* preparedQuery
    phase,      \* which function is running
    text,       \* the text being scanned: sql[idx:], then the template
    i,          \* index of the next byte of it
    mode,       \* which copier the scan is in
    buf,        \* the builder: pieces, each one byte or one literal
    values,     \* literals split off so far
    n,          \* placeholders encountered
    result      \* pieces of the returned SQL, << >> for ""

vars == <<statement, template, phase, text, i, mode, buf, values, n, result>>

Quote == "'"
Comma == ","
Semicolon == ";"
Delimiters == {"\"", "backtick"}

(***************************************************************************)
(* Locating the USING clause, by byte offsets found in strings.ToUpper(sql)*)
(* and used in sql.                                                        *)
(***************************************************************************)
KeywordUsing == <<"U", "S", "I", "N", "G">>

isSQLWhitespace(byte) == byte \in {" ", "\n"}

IsExecute(sql) ==
    LET ink == {k \in DOMAIN sql : ~isSQLWhitespace(sql[k])}
    IN  /\ ink # {}
        /\ sql[Min(ink)] = "EXECUTE"
        /\ Min(ink) = Max(ink) \/ isSQLWhitespace(sql[Min(ink) + 1])

\* What stands at offset p of sql stands Growth bytes later in ToUpper(sql).
Growth(sql, p) ==
    LET before(letter) == Cardinality({k \in 1 .. p - 1 : sql[k] = letter})
    IN  before("wide") - before("narrow")

\* Offsets at which strings.Index finds the keyword in ToUpper(sql).
Occurrences(sql) ==
    {p + Growth(sql, p) : p \in {k \in 1 .. Len(sql) - 4 : SubSeq(sql, k, k + 4) = KeywordUsing}}

\* The checks around an occurrence index out of the range of sql.
OutOfRange(sql, p) == p - 1 > Len(sql)

WholeWord(sql, p) ==
    /\ p = 1 \/ isSQLWhitespace(sql[p - 1])
    /\ p + 5 <= Len(sql) => isSQLWhitespace(sql[p + 5]) \/ sql[p + 5] = "("

\* Where the loop of indexUsingKeyword stops: 0 is -1 in the code.
UsingAt(sql) ==
    LET stops == {p \in Occurrences(sql) : OutOfRange(sql, p) \/ WholeWord(sql, p)}
    IN  IF stops = {} THEN 0 ELSE Min(stops)

\* Both the check before the keyword and the slice after it may be out of range.
Panics(sql) == OutOfRange(sql, UsingAt(sql)) \/ UsingAt(sql) + 4 > Len(sql)

\* sql[idx:]
AfterUsing(sql) ==
    LET literals == {k \in UsingAt(sql) + 5 .. Len(sql) : ~isSQLWhitespace(sql[k])}
    IN  IF literals = {} THEN << >> ELSE SubSeq(sql, Min(literals), Len(sql))

Init ==
    /\ \E input \in Inputs : statement = input[1] /\ template = input[2]
    /\ phase = "parse"
    /\ text = << >>
    /\ i = 1
    /\ mode = "code"
    /\ buf = << >>
    /\ values = << >>
    /\ n = 0
    /\ result = << >>

Give(pieces) ==
    /\ phase' = "done"
    /\ result' = pieces
    /\ UNCHANGED <<statement, template, text, i, mode, buf, values, n>>

\* An EXECUTE statement with a USING clause, and something to put it into.
HasUsingClause == template # << >> /\ IsExecute(statement) /\ UsingAt(statement) # 0

NoUsingClause ==
    /\ phase = "parse"
    /\ ~HasUsingClause
    /\ Give(<< >>)

PanicInIndex ==
    /\ phase = "parse"
    /\ HasUsingClause
    /\ Panics(statement)
    /\ phase' = "panicked"
    /\ UNCHANGED <<statement, template, text, i, mode, buf, values, n, result>>

StartSplitting ==
    /\ phase = "parse"
    /\ HasUsingClause
    /\ ~Panics(statement)
    /\ phase' = "split"
    /\ text' = AfterUsing(statement)
    /\ UNCHANGED <<statement, template, i, mode, buf, values, n, result>>

(***************************************************************************)
(* Copying.  Copy takes the next count bytes as they are.                  *)
(***************************************************************************)
Scanning == phase \in {"split", "scan"}

In(m, byte) == Scanning /\ mode = m /\ i <= Len(text) /\ text[i] = byte

Next2Are(first, second) == i < Len(text) /\ text[i] = first /\ text[i + 1] = second

Copy(count, next) ==
    /\ buf' = buf \o [k \in 1 .. count |-> <<text[i + k - 1]>>]
    /\ i' = i + count
    /\ mode' = next
    /\ UNCHANGED <<statement, template, phase, text, values, n, result>>

\* absorbQuotedLiteral and copyStringLiteral.
OpenString == In("code", Quote) /\ Copy(1, "string")

StringByte == Scanning /\ mode = "string" /\ i <= Len(text) /\ text[i] # Quote /\ Copy(1, "string")

\* Faulty variant: two quotes in a row close the string.
EscapedQuoteCloses == In("string", Quote) /\ Next2Are(Quote, Quote) /\ Copy(2, "code")

EscapedQuote == In("string", Quote) /\ Next2Are(Quote, Quote) /\ Copy(2, "string")

CloseString == In("string", Quote) /\ ~Next2Are(Quote, Quote) /\ Copy(1, "code")

(***************************************************************************)
(* splitLiterals.                                                          *)
(***************************************************************************)
Trim(bytes) ==
    LET ink == {k \in DOMAIN bytes : ~isSQLWhitespace(bytes[k])}
    IN  IF ink = {} THEN << >> ELSE SubSeq(bytes, Min(ink), Max(ink))

\* The bytes in the builder: while splitting, each piece is one byte.
TokenBytes == [k \in DOMAIN buf |-> buf[k][1]]

\* Faulty variant: empty tokens are literals too.
FlushedVerbatim == Append(values, Trim(TokenBytes))

\* flushToken
Flushed ==
    LET token == Trim(TokenBytes)
    IN  IF token = << >> THEN values ELSE Append(values, token)

SplitComma ==
    /\ phase = "split"
    /\ In("code", Comma)
    /\ values' = Flushed
    /\ buf' = << >>
    /\ i' = i + 1
    /\ UNCHANGED <<statement, template, phase, text, mode, n, result>>

SplitByte ==
    /\ phase = "split"
    /\ mode = "code"
    /\ i <= Len(text)
    /\ text[i] \notin {Quote, Comma, Semicolon}
    /\ Copy(1, "code")

AtEndOfList == mode = "code" /\ (i <= Len(text) => text[i] = Semicolon)

StartSubstituting ==
    /\ phase = "split"
    /\ AtEndOfList
    /\ values' = Flushed
    /\ IF Flushed = << >>
       THEN phase' = "done" /\ UNCHANGED <<text, i, buf>>
       ELSE phase' = "scan" /\ text' = template /\ i' = 1 /\ buf' = << >>
    /\ UNCHANGED <<statement, template, mode, n, result>>

\* The input ends inside an unterminated string.
GiveUp ==
    /\ phase = "split"
    /\ mode = "string"
    /\ i > Len(text)
    /\ Give(<< >>)

(***************************************************************************)
(* substituteQuestionMarks: what sqlTokenKind dispatches to.               *)
(***************************************************************************)
InTemplate(m) == phase = "scan" /\ mode = m /\ i <= Len(text)

StartsComment == Next2Are("-", "-") \/ Next2Are("/", "*")

OpenDelimited ==
    /\ InTemplate("code")
    /\ text[i] \in Delimiters
    /\ Copy(1, text[i])

Delimited ==
    \E delim \in Delimiters :
        /\ InTemplate(delim)
        /\ Copy(1, IF text[i] = delim THEN "code" ELSE delim)

OpenLineComment == InTemplate("code") /\ Next2Are("-", "-") /\ Copy(1, "line")

LineCommentByte == InTemplate("line") /\ text[i] # "\n" /\ Copy(1, "line")

CloseLineComment == InTemplate("line") /\ text[i] = "\n" /\ Copy(0, "code")

\* Faulty variant: the star of the opening is skipped.
OpenBlockCommentDropsStar ==
    /\ InTemplate("code")
    /\ Next2Are("/", "*")
    /\ buf' = Append(buf, <<"/">>)
    /\ i' = i + 2
    /\ mode' = "block"
    /\ UNCHANGED <<statement, template, phase, text, values, n, result>>

OpenBlockComment == InTemplate("code") /\ Next2Are("/", "*") /\ Copy(2, "block")

BlockCommentByte == InTemplate("block") /\ ~Next2Are("*", "/") /\ Copy(1, "block")

\* Faulty variant: the scan does not move past the end of a comment.
CloseBlockCommentInPlace == InTemplate("block") /\ Next2Are("*", "/") /\ Copy(0, "block")

CloseBlockComment == InTemplate("block") /\ Next2Are("*", "/") /\ Copy(2, "code")

\* A surplus placeholder stays, and still counts.
Placeholder ==
    /\ InTemplate("code")
    /\ text[i] = "?"
    /\ buf' = Append(buf, IF n < Len(values) THEN values[n + 1] ELSE <<"?">>)
    /\ n' = n + 1
    /\ i' = i + 1
    /\ UNCHANGED <<statement, template, phase, text, mode, values, result>>

OtherByte ==
    /\ InTemplate("code")
    /\ text[i] \notin {Quote, "?"} \union Delimiters
    /\ ~StartsComment
    /\ Copy(1, "code")

Finish ==
    /\ phase = "scan"
    /\ i > Len(text)
    /\ Give(IF n # Len(values) THEN << >> ELSE buf)

Strings == OpenString \/ StringByte \/ EscapedQuote \/ CloseString
Splitting == SplitComma \/ SplitByte \/ StartSubstituting \/ GiveUp
Substituting ==
    \/ OpenDelimited \/ Delimited
    \/ OpenLineComment \/ LineCommentByte \/ CloseLineComment
    \/ OpenBlockComment \/ BlockCommentByte \/ CloseBlockComment
    \/ Placeholder \/ OtherByte \/ Finish

Next ==
    NoUsingClause \/ PanicInIndex \/ StartSplitting \/ Strings \/ Splitting \/ Substituting

Spec == Init /\ [][Next]_vars

\* A goroutine that can run does.
FairSpec == Spec /\ WF_vars(Next)

(***************************************************************************)
(* What a SQL lexer makes of a text, stated without a scan: where the      *)
(* token that starts at position p ends, and which positions start one.    *)
(***************************************************************************)
QuotesIn(s, from, to) == Cardinality({k \in from .. to : s[k] = Quote})

\* A string ends at an odd quote that is not doubled.
ClosesString(s, p, e) ==
    /\ s[e] = Quote
    /\ QuotesIn(s, p + 1, e) % 2 = 1
    /\ e < Len(s) => s[e + 1] # Quote

Closes(s, p, e) ==
    CASE s[p] = Quote -> ClosesString(s, p, e)
      [] s[p] \in Delimiters -> s[e] = s[p]
      [] s[p] = "-" -> e < Len(s) /\ s[e + 1] = "\n"
      [] OTHER -> e > p + 2 /\ s[e - 1] = "*" /\ s[e] = "/"

Opens(s, p) ==
    \/ s[p] \in {Quote} \union Delimiters
    \/ p < Len(s) /\ <<s[p], s[p + 1]>> \in {<<"-", "-">>, <<"/", "*">>}

TokenEnd(s, p) ==
    IF Opens(s, p) THEN Min({e \in p + 1 .. Len(s) : Closes(s, p, e)} \union {Len(s)}) ELSE p

TokenStarts(s) ==
    LET starts[p \in 1 .. Len(s) + 1] ==
            p = 1 \/ \E b \in 1 .. p - 1 : starts[b] /\ TokenEnd(s, b) = p - 1
    IN  {p \in DOMAIN starts : starts[p]}

PlaceholdersOf(s) == {p \in TokenStarts(s) \ {Len(s) + 1} : s[p] = "?"}

\* The literals of a list: what is between its top-level commas, up to the first
\* top-level semicolon.  A position is inside a string iff an odd number of quotes
\* precede it.
TopLevel(s, byte) == {p \in DOMAIN s : s[p] = byte /\ QuotesIn(s, 1, p - 1) % 2 = 0}

ListEnd(s) == Min(TopLevel(s, Semicolon) \union {Len(s) + 1})

WellQuoted(s) == QuotesIn(s, 1, ListEnd(s) - 1) % 2 = 0

Separators(s) == {p \in TopLevel(s, Comma) : p < ListEnd(s)}

\* What stands between the separator before p and p.
ElementStart(s, p) == Max({0} \union {c \in Separators(s) : c < p}) + 1
LiteralBefore(s, p) == Trim(SubSeq(s, ElementStart(s, p), p - 1))

LiteralEnds(s) ==
    {p \in Separators(s) \union {ListEnd(s)} : LiteralBefore(s, p) # << >>}

\* How many members of S there are up to p: 1 for the first one.
Rank(S, p) == Cardinality({q \in S : q <= p})

AreLiteralsOf(list, s) ==
    LET ends == LiteralEnds(s)
    IN  /\ Len(list) = Cardinality(ends)
        /\ \A p \in ends : list[Rank(ends, p)] = LiteralBefore(s, p)

(***************************************************************************)
(* Properties.                                                             *)
(***************************************************************************)
Phases == {"parse", "split", "scan", "done", "panicked"}
Modes == {"code", "string", "line", "block"} \union Delimiters

\* Types; no literal is empty (flushToken, prepared_sql.go:171-178), and no index
\* leaves the text (lines 193-217).
TypeOK ==
    /\ statement \in Seq(STRING) /\ template \in Seq(STRING)
    /\ phase \in Phases /\ mode \in Modes
    /\ text \in Seq(STRING) /\ buf \in Seq(Seq(STRING)) /\ result \in Seq(Seq(STRING))
    /\ i \in 1 .. Len(text) + 1
    /\ values \in Seq(Seq(STRING) \ {<< >>})
    /\ n \in Nat

\* The list is split at its top-level commas: whatever is quoted and however
\* quotes are doubled, a literal is never cut in two nor two run together, and a
\* list with an open string yields nothing (lines 111-144).
SplitsAtTopLevelCommas ==
    phase \in {"scan", "done"} /\ HasUsingClause =>
        IF WellQuoted(AfterUsing(statement)) THEN AreLiteralsOf(values, AfterUsing(statement))
                                             ELSE result = << >>

\* Either "" is returned, or every placeholder a SQL lexer finds in the template
\* has been replaced by the literal of its position and nothing else has changed:
\* question marks in strings, quoted identifiers and comments stay (lines 29-30).
\* "" is returned only when the counts differ or the list ends in an open string
\* (lines 20-23).
SubstitutesAllOrNothing ==
    phase = "done" /\ values # << >> /\ WellQuoted(AfterUsing(statement)) =>
        LET marks == PlaceholdersOf(template)
        IN  result = IF Cardinality(marks) # Len(values) THEN << >>
                     ELSE [p \in DOMAIN template |->
                              IF p \in marks THEN values[Rank(marks, p)] ELSE <<template[p]>>]

\* The pieces are the bytes of the template, except that the question marks at the
\* increasing positions at have become the literals, in order.
Substituted(pieces, at) ==
    /\ \A k, l \in DOMAIN at : k < l => at[k] < at[l]
    /\ \A k \in DOMAIN at : template[at[k]] = "?" /\ pieces[at[k]] = values[k]
    /\ \A j \in DOMAIN pieces : pieces[j] = <<template[j]>> \/ \E k \in DOMAIN at : at[k] = j

\* A returned SQL has every literal of the USING clause in it exactly once and in
\* order, in place of question marks, and is otherwise the template byte by byte:
\* no copier drops, doubles or reorders anything (lines 188-320).
LiteralsInOrder ==
    (phase = "done" /\ result # << >>) =>
        /\ Len(result) = Len(template)
        /\ \E at \in [1 .. Len(values) -> 1 .. Len(template)] : Substituted(result, at)

BytesOf(pieces) == UNION {{k} \X DOMAIN pieces[k] : k \in DOMAIN pieces}
Size(pieces) == Cardinality(BytesOf(pieces))

\* A returned SQL has fewer bytes than the template and the list together: each
\* literal takes the place of a question mark, and all but one of them had a
\* separator (lines 98-144 and 171-178).  get_query_sql, which sends the SQL
\* neither cut nor counted, sends no more than the two texts it was made from.
ResultIsShort ==
    (phase = "done" /\ result # << >>) =>
        Size(result) + 2 * Len(values) <= Len(template) + Len(AfterUsing(statement)) + 1

\* Every scan ends: each iteration of each copier moves on (lines 193-217).
AlwaysEnds == <>(phase \in {"done", "panicked"})

\* "Intentionally non-fatal" (lines 25-27).  But offsets found in ToUpper(sql) are
\* used to index sql, which is shorter when a letter before USING grows in upper
\* case (lines 77-88).
NeverPanics == phase # "panicked"
================================================================================
