------------------------------- MODULE MCLexer -------------------------------
(* Texts for the model checker to run the lexer on.                         *)
EXTENDS Lexer, SequencesExt

MCKeyword == {<<"i", "f">>, <<"i", "n">>}

MCKey == {<<"OPERATOR", <<"/">>>>, <<"EOF", <<>>>>}

(* Every text over an alphabet up to a length, and a tail after it.         *)
Texts(alphabet, len, tail) == {s \o tail : s \in SeqOf(alphabet, len)}

(* Texts of every kind of character, empty or cut off anywhere.             *)
Everything ==
    Texts({"a", "1", "DQ", "/", "SP", "NL", "HIGH", "-1", "CTRL"}, 3, <<>>)

(* Numbers: bases, underscores, fractions, ranges and suffixes; and decimal *)
(* numbers with exponents.                                                  *)
Blank == <<"SP", "NL">>
Numbers ==
    Texts({"0", "1", "2", "_", "b", "x", ".", "u"}, 4, Blank)
    \cup Texts({"1", "2", "e", "E", "-", "+", "u"}, 4, Blank)
    \cup Texts({"1", ".", "e", "2"}, 5, Blank)
    \cup Texts({"1", ".", "e", "-"}, 5, Blank)

(* Operators, ranges, comments, words and keywords.                         *)
Operators == Texts({"<", ">", "=", "/", ".", "i", "f", "NL"}, 4, <<"NL">>)

Fragments == Everything \cup Numbers \cup Operators

(* Lookahead: words, strings, comments and lines.                           *)
Lines == Texts({"i", "n", "DQ", "/", "SP", "NL"}, 4, <<"NL">>)

AllTexts == Fragments \cup Lines

(* Clients look ahead in lines only.                                        *)
MCNext ==
    \/ LexerNext
    \/ src \in Lines /\ (LexerPeek \/ LexerScan)
    \/ Internal

MCSpec == Init /\ [][MCNext]_vars /\ WF_vars(Internal)

(* Short programs, whole or cut off; and numbers as they are written.       *)
Programs == Texts({"a", "1", ";", "DQ", "SP", "NL"}, 3, <<>>)
Literals == Texts({"1", ".", "e", "-", "SP"}, 6, Blank)
=============================================================================
