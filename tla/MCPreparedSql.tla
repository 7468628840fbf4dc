---------------------------- MODULE MCPreparedSql ----------------------------
(***************************************************************************)
(* Instances of PreparedSql for TLC.                                       *)
(*   MCInputs  every USING list of up to five characters, with templates   *)
(*             of none, one and two placeholders; every template of up to  *)
(*             five characters, with one literal and with two; and the     *)
(*             statements that have no list or cannot be indexed;          *)
(*   MCNames   statement names with letters that change their length in    *)
(*             upper case.                                                 *)
(***************************************************************************)
EXTENDS PreparedSql

ExecuteUsing == <<"EXECUTE", " ", "x", " ">> \o KeywordUsing \o <<" ">>

Lists == {ExecuteUsing \o list : list \in BoundedSeq({Quote, ",", ";", " ", "x"}, 5)}
NoLists ==
    {<< >>, <<"EXECUTE", " ", "x">>, <<"x", " ">> \o KeywordUsing \o <<" ", "x">>,
     <<"EXECUTE", " ", "x">> \o KeywordUsing \o <<" ", "x", " ">> \o KeywordUsing \o <<"(", "x">>,
     <<"EXECUTE", " ">> \o FlattenSeq([k \in 1 .. 8 |-> <<"wide", "tail">>])
         \o <<" ">> \o KeywordUsing \o <<" ", "x">>}
ShortTemplates == {<< >>, <<"?">>, <<"?", "x", "?">>}

OneLiteral == ExecuteUsing \o <<"x">>
TwoLiterals == ExecuteUsing \o <<Quote, "?", Quote, ",", "x">>
LongTemplates == BoundedSeq({Quote, "\"", "?", "-", "/", "*", "\n", "x"}, 5)

MCInputs ==
    ((Lists \union NoLists) \X ShortTemplates) \union ({OneLiteral, TwoLiterals} \X LongTemplates)

Names == BoundedSeq({<<"x">>, <<"wide", "tail">>, <<"narrow", "tail">>}, 6)
MCNames ==
    {<<"EXECUTE", " ", "\"">> \o FlattenSeq(name) \o <<"\"", " ">> \o KeywordUsing \o <<" ", "x">> :
        name \in Names} \X ShortTemplates
==============================================================================
