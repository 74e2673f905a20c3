------------------------------- MODULE Grammar -------------------------------
(***************************************************************************)
(* The language as parser.h documents it: what an expression, a statement   *)
(* and an item are, as the text that is written and the tree that is meant. *)
(* An expression has the precedence of the table above ExprPrecedence, and  *)
(* stands in brackets wherever it binds less tightly than its place asks.   *)
(***************************************************************************)
EXTENDS Integers, Sequences

LOCAL INSTANCE SequencesExt

Phrase(text, tree) == [text |-> text, tree |-> tree]
Expression(text, tree, prec) == [text |-> text, tree |-> tree, prec |-> prec]

Text(phrases) == FlattenSeq([i \in DOMAIN phrases |-> phrases[i].text])
Trees(phrases) == FlattenSeq([i \in DOMAIN phrases |-> phrases[i].tree])
NodeOf(label, phrases) == <<<<label, Len(phrases)>>>> \o Trees(phrases)

-----------------------------------------------------------------------------
(* Expressions                                                              *)

(* The documented precedence of one operator of each level, and of "%".     *)
Level(op) ==
    CASE op = "="         -> 20
      [] op = ".."        -> 30
      [] op = "||"        -> 40
      [] op = "&&"        -> 50
      [] op = "=="        -> 60
      [] op = "|"         -> 70
      [] op = "^"         -> 80
      [] op = "&"         -> 90
      [] op = "<<"        -> 100
      [] op = "-"         -> 110
      [] op \in {"*", "%"} -> 120
PrefixLevel  == 130
PostfixLevel == 140
PathLevel    == 250

Within(e, prec) == IF e.prec >= prec THEN e.text ELSE <<"(">> \o e.text \o <<")">>

Word(t) == Expression(<<t>>, <<<<t, 0>>>>, 251)
Both(op, l, r) ==
    Expression(Within(l, Level(op)) \o <<op>> \o Within(r, Level(op) + 1),
               NodeOf(op, <<l, r>>), Level(op))
Sign(op, e) ==
    Expression(<<op>> \o Within(e, PrefixLevel), NodeOf(op, <<e>>), PrefixLevel)

Separated(args) ==
    FlattenSeq([i \in DOMAIN args |->
        IF i < Len(args) THEN args[i].text \o <<",">> ELSE args[i].text])
Of(e, open, inside, close, label, parts) ==
    Expression(Within(e, PostfixLevel) \o open \o inside \o <<close>>,
               NodeOf(label, <<e>> \o parts), PostfixLevel)
Called(e, args) == Of(e, <<"(">>, Separated(args), ")", "call", args)
Made(e, args)   == Of(e, <<"{">>, Separated(args), "}", "init", args)
Method(e, name, args) ==
    Of(e, <<".", name, "(">>, Separated(args), ")", "method", <<Word(name)>> \o args)
Part(e, name) ==
    Expression(Within(e, PostfixLevel) \o <<".", name>>,
               NodeOf("field", <<e, Word(name)>>), PostfixLevel)
At(e, index) == Of(e, <<"[">>, index.text, "]", "index", <<index>>)
In(stem, e) ==
    Expression(<<stem, "::">> \o Within(e, PathLevel),
               NodeOf("path", <<Word(stem), e>>), PathLevel)

-----------------------------------------------------------------------------
(* Statements                                                               *)

Block(stmts) == Phrase(<<"{">> \o Text(stmts) \o <<"}">>, NodeOf("body", stmts))

Does(e)   == Phrase(e.text \o <<";">>, NodeOf("expression", <<e>>))
Gives(e)  == Phrase(<<"return">> \o e.text \o <<";">>, NodeOf("return", <<e>>))
GivesNothing == Phrase(<<"return", ";">>, <<<<"return", 1>>, <<"empty", 0>>>>)
Sets(kw, x, e) ==
    Phrase(<<kw, x, "=">> \o e.text \o <<";">>, NodeOf(kw, <<Word(x), e>>))
Leaves(kw) == Phrase(<<kw>>, NodeOf(kw, <<>>))
While(e, body) == Phrase(<<"while">> \o e.text \o body.text, NodeOf("while", <<e, body>>))
For(x, e, body) ==
    Phrase(<<"for", x, "in">> \o e.text \o body.text, NodeOf("for", <<Word(x), e, body>>))
Elif(e, body) ==
    Phrase(<<"else", "if">> \o e.text \o body.text, NodeOf("elif", <<e, body>>))
Otherwise(body) == Phrase(<<"else">> \o body.text, NodeOf("else", <<body>>))
If(e, body, clauses) ==
    Phrase(<<"if">> \o e.text \o body.text \o Text(clauses),
           NodeOf("if", <<e, body>> \o clauses))

-----------------------------------------------------------------------------
(* Items                                                                    *)

Typed(x, type, end, label) ==
    Phrase(<<x, ":", type>> \o end, NodeOf(label, <<Word(x), Word(type)>>))
Holds(x, type) == Typed(x, type, <<";">>, "member")
Parameter(x, type) == Typed(x, type, <<>>, "param")

Function(name, params, type, body) ==
    Phrase(<<"fn", name, "(">> \o Separated(params) \o <<")", "->", type>> \o body.text,
           NodeOf("fn", <<Word(name)>> \o params \o <<Word(type), body>>))
Struct(name, members) ==
    Phrase(<<"struct", name, "{">> \o Text(members) \o <<"}">>,
           NodeOf("struct", <<Word(name)>> \o members))
Inside(items) == Phrase(Text(items), NodeOf("items", items))
Module(name, items) ==
    Phrase(<<"module", name, "{">> \o Text(items) \o <<"}">>,
           NodeOf("module", <<Word(name), Inside(items)>>))
Global(kw, x, type, e) ==
    Phrase(<<kw, x, ":", type, "=">> \o e.text \o <<";">>,
           NodeOf("global", <<Word(x), Word(type), e>>))
=============================================================================
