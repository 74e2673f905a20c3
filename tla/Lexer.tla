-------------------------------- MODULE Lexer --------------------------------
(***************************************************************************)
(* The lexer of lexer/lexer.c: lexer_next, lexer_peek and lexer_scan over  *)
(* lexer_advance, which cuts one token out of the source text.             *)
(*                                                                         *)
(* A character is a value of Char, named by what the lexer tells apart:    *)
(* itself, or "SP", "NL", "TAB", "CR", "DQ" for the blanks and the double  *)
(* quote, "HIGH" for a byte from 0x7f to 0xfe and "-1" for the byte 0xff,  *)
(* which read as a signed char is the value lexer_consume returns at the   *)
(* end of the file.                                                        *)
(*                                                                         *)
(* One step is one turn of a loop of the code, because the loops are where *)
(* the lexer can fail: lexer_consume stays where it is on the last         *)
(* character of the file, and a loop that does not look at its answer goes *)
(* round forever.                                                          *)
(***************************************************************************)
EXTENDS Integers, Sequences, FiniteSets

CONSTANTS
    Source,    \* the texts the program is run on, sequences of Char
    Keyword,   \* the words of keyword_kind_table
    Request,   \* the entry points the client uses: "next", "peek", "scan"
    Key,       \* the token kinds the client scans for
    Word       \* usize arithmetic is modulo Word

Whitespace == {"SP", "TAB", "NL", "CR"}
Decimal    == {"0", "1", "2", "3", "4", "5", "6", "7", "8", "9"}
Letter     == {"a", "b", "c", "d", "e", "f", "g", "h", "i", "j", "k", "l", "m",
               "n", "o", "p", "q", "r", "s", "t", "u", "v", "w", "x", "y", "z",
               "A", "B", "C", "D", "E", "F", "G", "H", "I", "J", "K", "L", "M",
               "N", "O", "P", "Q", "R", "S", "T", "U", "V", "W", "X", "Y", "Z"}
IdentStart == Letter \cup {"_"}
IdentChar  == IdentStart \cup Decimal

(* The characters to which single_char_token gives a kind.                  *)
Operator == {".", ",", "?", "DQ", "'", "!", ":", "^", "%", "~", "-", "+", "$",
             "TICK", "*", "/", "\\", "{", "}", "@", "=", "(", ")", "#", "&", "[",
             "]", "|", ">", "<", ";"}

Unknown  == {"CTRL"}            \* inside single_char_token, without a kind
OffTable == {"HIGH", "-1"}      \* bytes beyond the end of single_char_token
Char     == Whitespace \cup IdentChar \cup Operator \cup Unknown \cup OffTable

(* The nodes of op_table below the first level, each as the path to it.     *)
Compound ==
    {<<c, "=">> : c \in {"!", "^", "%", "~", "-", "+", "*", "/", "|", "&",
                         "=", ">", "<"}}
    \cup {<<c, c>> : c \in {".", ":", "/", "|", "&", ">", "<"}}
    \cup {<<"-", ">">>, <<".", ".", "=">>, <<">", ">", "=">>, <<"<", "<", "=">>}

Digits(b) ==
    CASE b = "b" -> {"0", "1"}
      [] b = "o" -> {"0", "1", "2", "3", "4", "5", "6", "7"}
      [] b = "x" -> Decimal \cup {"A", "B", "C", "D", "E", "F"}
      [] OTHER   -> Decimal

SuffixChar == {"u", "i", "f", "2", "3", "4", "6"}

(* A TokenKind of the code is a kind and, for an operator or a keyword, the *)
(* text that tells one from another.                                        *)
Kind == {"INVALID", "EOF", "STRING", "OPERATOR", "IDENT", "KEYWORD", "INTEGER",
         "FLOAT"}
TokenKind == Kind \X Seq(Char)

ASSUME LexerAssumption ==
    /\ Source \subseteq Seq(Char)
    /\ Keyword \subseteq Seq(IdentChar)
    /\ Request \subseteq {"next", "peek", "scan"}
    /\ Key \subseteq TokenKind
    /\ Word \in Nat
    /\ \A s \in Source : Len(s) + 1 < Word

VARIABLES
    src,      \* data: the text, without its terminating NUL
    ctx,      \* context: location, line and column
    pc,       \* where in lexer_advance the lexer is
    tok,      \* the token being built
    base,     \* base_digits: "b", "o", "x" or "d"
    second,   \* c_second
    call,     \* the entry point in progress, with the context it saved
    out,      \* history: the tokens lexer_next has returned
    foretold, \* history: what the last lexer_peek or lexer_scan answered
    status    \* "run", "panic" or "fault" (an access out of bounds)

local == <<tok, base, second>>
vars  == <<src, ctx, pc, local, call, out, foretold, status>>

Context == [loc : Nat, line : Nat, col : Nat]
Token   == [kind : Kind, lo : Nat, hi : 0 .. Word - 1, node : Seq(Char)]

KindOf(t) == <<t.kind, t.node>>

NoKind  == <<"INVALID", <<>>>>
NoToken == [kind |-> "INVALID", lo |-> 0, hi |-> 0, node |-> <<>>]
Origin  == [loc |-> 0, line |-> 0, col |-> 0]
Idle    == [op |-> "idle", key |-> NoKind, start |-> Origin, cursor |-> 0]
Nothing == [op |-> "idle", token |-> NoToken, key |-> NoKind, pos |-> 0]

Loop == {"idle", "whitespace", "start", "string", "operator", "ident",
         "integer", "fraction", "exponent", "point", "power", "suffix",
         "comment", "exit"}

Init ==
    /\ src \in Source
    /\ ctx = Origin
    /\ pc = "idle"
    /\ tok = NoToken
    /\ base = "d"
    /\ second = "SP"
    /\ call = Idle
    /\ out = <<>>
    /\ foretold = Nothing
    /\ status = "run"

-----------------------------------------------------------------------------
(* Reading and consuming                                                    *)

(* data[i]: the text, then the NUL that ends it.                            *)
CharAt(text, i) == IF i < Len(text) THEN text[i + 1] ELSE "NUL"
Data(i) == CharAt(src, i)

(* lexer_peek_first *)
First == Data(ctx.loc)

(* strchr finds the terminating NUL in every string.                        *)
Among(c, s) == c \in s \cup {"NUL"}

AtEndOffByOne(x) == x.loc = Len(src)  \* mutant: the NUL is consumed too

AtEnd(x) == x.loc = Len(src) - 1

(* Mutants: the column is not reset, or reset before it is counted.         *)
ConsumedWithoutColumnReset(x) ==
    IF AtEnd(x) THEN x
    ELSE [loc  |-> x.loc + 1,
          line |-> IF Data(x.loc) = "NL" THEN x.line + 1 ELSE x.line,
          col  |-> x.col + 1]

ConsumedToColumnMinusOne(x) ==
    IF AtEnd(x) THEN x
    ELSE [loc  |-> x.loc + 1,
          line |-> IF Data(x.loc) = "NL" THEN x.line + 1 ELSE x.line,
          col  |-> IF Data(x.loc) = "NL" THEN -1 ELSE x.col + 1]

(* lexer_consume: the context after it, and the character it returns.       *)
Consumed(x) ==
    IF AtEnd(x) THEN x
    ELSE [loc  |-> x.loc + 1,
          line |-> IF Data(x.loc) = "NL" THEN x.line + 1 ELSE x.line,
          col  |-> IF Data(x.loc) = "NL" THEN 0 ELSE x.col + 1]

Got(x) == IF AtEnd(x) THEN "-1" ELSE Data(x.loc)

(* lexer_consume and span.hi++, as every loop that builds a token does.     *)
Taken(t) == [t EXCEPT !.hi = (@ + 1) % Word]

Take ==
    /\ ctx' = Consumed(ctx)
    /\ tok' = Taken(tok)

At(loop) ==
    /\ status = "run"
    /\ pc = loop
    /\ ctx.loc <= Len(src)

Goto(loop) == pc' = loop

Panic ==
    /\ status' = "panic"
    /\ UNCHANGED <<src, ctx, pc, local, call, out, foretold>>

Fault ==
    /\ status' = "fault"
    /\ UNCHANGED <<src, ctx, pc, local, call, out, foretold>>

Quiet == UNCHANGED <<src, call, out, foretold, status>>

-----------------------------------------------------------------------------
(* The entry points                                                         *)

(* The client asks for no token after TOK_EOF.                              *)
Finished == out # <<>> /\ out[Len(out)].kind = "EOF"

Enter(op, key) ==
    /\ status = "run" /\ pc = "idle" /\ ~Finished
    /\ op \in Request
    /\ call' = [op |-> op, key |-> key, start |-> ctx, cursor |-> ctx.loc]
    /\ Goto("whitespace")
    /\ UNCHANGED <<src, ctx, local, out, foretold, status>>

LexerNext == Enter("next", NoKind)
LexerPeek == Enter("peek", NoKind)
LexerScan == \E key \in Key : Enter("scan", key)

(* What the call returns, and to whom; lexer_peek and lexer_scan put back   *)
(* the context they saved.                                                  *)
Answer(context, fore) ==
    /\ ctx' = context
    /\ foretold' = fore
    /\ call' = Idle
    /\ Goto("idle")
    /\ UNCHANGED <<src, local, status>>

Returning(op) == status = "run" /\ pc = "exit" /\ call.op = op

Done == foretold.op = "peek" \/ KindOf(tok) = foretold.key

NextReturns ==
    /\ Returning("next")
    /\ Answer(ctx, IF Done THEN Nothing ELSE foretold)
    /\ out' = Append(out, tok)

(* Mutant: the context is not put back.                                     *)
PeekConsumes ==
    /\ Returning("peek")
    /\ Answer(ctx, [op |-> "peek", token |-> tok, key |-> NoKind, pos |-> 0])
    /\ UNCHANGED out

PeekReturns ==
    /\ Returning("peek")
    /\ Answer(call.start, [op |-> "peek", token |-> tok, key |-> NoKind,
                           pos |-> 0])
    /\ UNCHANGED out

ScanReturns(pos) ==
    /\ Answer(call.start, [op |-> "scan", token |-> NoToken, key |-> call.key,
                           pos |-> pos])
    /\ UNCHANGED out

ScanFinds ==
    /\ Returning("scan") /\ KindOf(tok) = call.key
    /\ ScanReturns(call.cursor)

ScanFails ==
    /\ Returning("scan") /\ KindOf(tok) # call.key /\ tok.kind = "EOF"
    /\ ScanReturns(-1)

(* Mutant: the scan goes on at the end of the file.                         *)
ScanGoesOnForever ==
    /\ Returning("scan") /\ KindOf(tok) # call.key
    /\ call' = [call EXCEPT !.cursor = ctx.loc]
    /\ Goto("whitespace")
    /\ UNCHANGED <<src, ctx, local, out, foretold, status>>

ScanGoesOn ==
    /\ Returning("scan") /\ KindOf(tok) # call.key /\ tok.kind # "EOF"
    /\ call' = [call EXCEPT !.cursor = ctx.loc]
    /\ Goto("whitespace")
    /\ UNCHANGED <<src, ctx, local, out, foretold, status>>

-----------------------------------------------------------------------------
(* lexer_advance                                                            *)

(* Mutant: the answer of lexer_consume is not looked at.                    *)
SkipWhitespaceForever ==
    /\ At("whitespace")
    /\ IF Among(First, Whitespace)
       THEN ctx' = Consumed(ctx) /\ Goto("whitespace")
       ELSE Goto("start") /\ UNCHANGED ctx
    /\ UNCHANGED local /\ Quiet

(* lexer_skip_whitespace; lexer_advance then notes where the token begins.  *)
SkipWhitespace ==
    /\ At("whitespace")
    /\ IF Among(First, Whitespace)
       THEN /\ ctx' = Consumed(ctx)
            /\ Goto(IF Got(ctx) = "-1" THEN "start" ELSE "whitespace")
       ELSE /\ Goto("start")
            /\ UNCHANGED ctx
    /\ UNCHANGED local /\ Quiet

Began(kind, hi, node) ==
    tok' = [kind |-> kind, lo |-> ctx.loc, hi |-> hi, node |-> node]

StartEof ==
    /\ At("start") /\ Got(ctx) = "-1"
    /\ ctx' = Consumed(ctx)
    /\ Began("EOF", ctx.loc, <<>>)
    /\ Goto("exit")
    /\ UNCHANGED <<base, second>> /\ Quiet

(* A byte that is no index of single_char_token, or one that begins nothing *)
StartInvalid ==
    /\ At("start")
    /\ \/ Got(ctx) \in OffTable \ {"-1"} /\ Fault
       \/ Got(ctx) \in Unknown \cup {"NUL"} /\ Panic

StartString ==
    /\ At("start") /\ Got(ctx) = "DQ"
    /\ ctx' = Consumed(ctx)
    /\ Began("STRING", ctx.loc + 1, <<>>)
    /\ Goto("string")
    /\ UNCHANGED <<base, second>> /\ Quiet

StartOperator ==
    /\ At("start") /\ Got(ctx) \in Operator \ {"DQ"}
    /\ ctx' = Consumed(ctx)
    /\ Began("OPERATOR", ctx.loc + 1, <<Got(ctx)>>)
    /\ Goto("operator")
    /\ UNCHANGED <<base, second>> /\ Quiet

StartIdent ==
    /\ At("start") /\ Got(ctx) \in IdentStart
    /\ ctx' = Consumed(ctx)
    /\ Began("IDENT", ctx.loc + 1, <<>>)
    /\ Goto("ident")
    /\ UNCHANGED <<base, second>> /\ Quiet

(* A number, and the letter of its base if it has one: 0b, 0o or 0x.        *)
StartNumber ==
    /\ At("start") /\ Got(ctx) \in Decimal
    /\ LET prefix == Data(ctx.loc + 1) IN
       IF Got(ctx) = "0" /\ prefix \in {"b", "o", "x"}
       THEN /\ ctx' = Consumed(Consumed(ctx))
            /\ Began("INTEGER", ctx.loc + 2, <<>>)
            /\ base' = prefix
       ELSE /\ ctx' = Consumed(ctx)
            /\ Began("INTEGER", ctx.loc + 1, <<>>)
            /\ base' = "d"
    /\ Goto("integer")
    /\ UNCHANGED second /\ Quiet

(* Mutant: the closing quote is consumed and the span not extended.         *)
StringLoopShort ==
    /\ At("string")
    /\ CASE First = "DQ" -> ctx' = Consumed(ctx) /\ Goto("exit") /\ UNCHANGED tok
         [] First = "-1" -> /\ tok' = [tok EXCEPT !.kind = "EOF"]
                            /\ Goto("exit")
                            /\ UNCHANGED ctx
         [] OTHER        -> Take /\ Goto("string")
    /\ UNCHANGED <<base, second>> /\ Quiet

(* The string loop looks for a closing quote or a 0xff byte, not for the    *)
(* end of the file.                                                         *)
StringLoop ==
    /\ At("string")
    /\ CASE First = "DQ" -> Take /\ Goto("exit")
         [] First = "-1" -> /\ tok' = [tok EXCEPT !.kind = "EOF"]
                            /\ Goto("exit")
                            /\ UNCHANGED ctx
         [] OTHER        -> Take /\ Goto("string")
    /\ UNCHANGED <<base, second>> /\ Quiet

(* Mutant: the walk stops at the second level of op_table.                  *)
OperatorLoopOnce ==
    /\ At("operator")
    /\ LET node == Append(tok.node, First) IN
       IF First \in OffTable THEN Fault
       ELSE /\ IF node \in Compound /\ Len(node) = 2
               THEN /\ ctx' = Consumed(ctx)
                    /\ tok' = [Taken(tok) EXCEPT !.node = node]
                    /\ Goto("operator")
               ELSE /\ Goto(IF tok.node = <<"/", "/">> THEN "comment" ELSE "exit")
                    /\ UNCHANGED <<ctx, tok>>
            /\ UNCHANGED <<base, second>> /\ Quiet

(* The walk down op_table; single_char_token is read at every character.    *)
OperatorLoop ==
    /\ At("operator")
    /\ LET node == Append(tok.node, First) IN
       IF First \in OffTable THEN Fault
       ELSE /\ IF node \in Compound
               THEN /\ ctx' = Consumed(ctx)
                    /\ tok' = [Taken(tok) EXCEPT !.node = node]
                    /\ Goto("operator")
               ELSE /\ Goto(IF tok.node = <<"/", "/">> THEN "comment" ELSE "exit")
                    /\ UNCHANGED <<ctx, tok>>
            /\ UNCHANGED <<base, second>> /\ Quiet

(* lexer_skip_comment, then lexer_next again for a token.                   *)
SkipComment ==
    /\ At("comment")
    /\ IF First # "NL"
       THEN /\ ctx' = Consumed(ctx)
            /\ Goto(IF Got(ctx) = "-1" THEN "whitespace" ELSE "comment")
       ELSE /\ Goto("whitespace")
            /\ UNCHANGED ctx
    /\ UNCHANGED local /\ Quiet

Text(t) == SubSeq(src, t.lo + 1, t.hi)

IdentLoop ==
    /\ At("ident")
    /\ IF First \in IdentChar
       THEN Take /\ Goto("ident")
       ELSE /\ Goto("exit")
            /\ tok' = IF Text(tok) \in Keyword
                      THEN [tok EXCEPT !.kind = "KEYWORD", !.node = Text(tok)]
                      ELSE tok
            /\ UNCHANGED ctx
    /\ UNCHANGED <<base, second>> /\ Quiet

(* lexer_consume_digits: an underscore stands between two decimal digits,   *)
(* whatever the base; lexer_peek_second panics on the last character.       *)
BetweenDigits == ~AtEnd(ctx) /\ {Data(ctx.loc - 1), Data(ctx.loc + 1)} \subseteq Decimal

DigitLoop(loop, after) ==
    /\ At(loop)
    /\ CASE First = "_" /\ ~BetweenDigits -> Panic
         [] (First = "_" /\ BetweenDigits) \/ Among(First, Digits(base)) ->
                Take /\ Goto(loop) /\ UNCHANGED <<base, second>> /\ Quiet
         [] OTHER ->
                /\ tok' = [tok EXCEPT !.kind = IF loop = "integer" THEN @ ELSE "FLOAT"]
                /\ Goto(after)
                /\ UNCHANGED <<ctx, base, second>> /\ Quiet

Integer  == DigitLoop("integer", "point")
Fraction == DigitLoop("fraction", "power")
Exponent == DigitLoop("exponent", "suffix")

(* The decimal point, unless it begins a range; c_second is read here.      *)
Point ==
    /\ At("point")
    /\ IF AtEnd(ctx) THEN Panic
       ELSE LET ahead == Data(ctx.loc + 1) IN
            CASE First = "." /\ ahead # "." /\ base # "d" -> Panic
              [] First = "." /\ ahead # "." /\ base = "d" ->
                     Take /\ Goto("fraction") /\ second' = ahead
                     /\ UNCHANGED base /\ Quiet
              [] OTHER ->
                     /\ Goto(IF First = "." THEN "exit" ELSE "power")
                     /\ second' = ahead
                     /\ UNCHANGED <<ctx, tok, base>> /\ Quiet

(* The exponent: its sign is looked for in c_second.                        *)
Power ==
    /\ At("power")
    /\ IF First \notin {"e", "E"}
       THEN Goto("suffix") /\ UNCHANGED <<ctx, local>> /\ Quiet
       ELSE IF base # "d" THEN Panic
       ELSE /\ IF second \in {"-", "+"}
               THEN /\ ctx' = Consumed(Consumed(ctx))
                    /\ tok' = Taken(Taken(tok))
               ELSE Take
            /\ Goto("exponent")
            /\ UNCHANGED <<base, second>> /\ Quiet

Suffix ==
    /\ At("suffix")
    /\ IF Among(First, SuffixChar)
       THEN Take /\ Goto("suffix")
       ELSE Goto("exit") /\ UNCHANGED <<ctx, tok>>
    /\ UNCHANGED <<base, second>> /\ Quiet

(* Reading the text beyond its terminating NUL.                             *)
Overread ==
    /\ status = "run" /\ pc \notin {"idle", "exit"} /\ ctx.loc > Len(src)
    /\ Fault

-----------------------------------------------------------------------------
(* The specification                                                        *)

Client  == LexerNext \/ LexerPeek \/ LexerScan
Returns == NextReturns \/ PeekReturns \/ ScanFinds \/ ScanFails \/ ScanGoesOn
Begins  == \/ SkipWhitespace \/ StartEof \/ StartInvalid \/ StartString
           \/ StartOperator \/ StartIdent \/ StartNumber
Loops   == \/ StringLoop \/ OperatorLoop \/ SkipComment \/ IdentLoop \/ Integer
           \/ Fraction \/ Exponent \/ Point \/ Power \/ Suffix
Internal == Returns \/ Begins \/ Loops \/ Overread

Next == Client \/ Internal

Spec == Init /\ [][Next]_vars

(* The lexer is one thread of straight code: it goes on until it returns.   *)
FairSpec == Spec /\ WF_vars(Internal)

-----------------------------------------------------------------------------
(* Properties                                                               *)

(* The type of every variable.                                              *)
TypeOK ==
    /\ src \in Seq(Char)
    /\ ctx \in Context
    /\ pc \in Loop
    /\ tok \in Token
    /\ base \in {"b", "o", "x", "d"}
    /\ second \in Char \cup {"NUL"}
    /\ call \in [op : {"idle", "next", "peek", "scan"}, key : TokenKind,
                 start : Context, cursor : Nat]
    /\ out \in Seq(Token)
    /\ foretold \in [op : {"idle", "peek", "scan"}, token : Token,
                     key : TokenKind, pos : Int]
    /\ status \in {"run", "panic", "fault"}

(* On a text that is not empty the lexer never moves past the last          *)
(* character, so that lexer_peek_first and lexer_peek_second read inside    *)
(* the buffer main.c allocated, and every byte below 0x7f finds its kind    *)
(* inside single_char_token: the guard of lexer_consume is the only bounds  *)
(* check there is (lexer.c:374).                                            *)
PlainText == src # <<>> /\ \A i \in 1 .. Len(src) : src[i] \notin OffTable
InBounds ==
    PlainText => ctx.loc < Len(src) /\ status # "fault"

(* The line and column lexer_error reports, kept by lexer_consume and put   *)
(* back by lexer_peek and lexer_scan, are those of the location: the number *)
(* of newlines before it and the distance from the last one.                *)
Newlines(text, n) == {i \in 1 .. n : CharAt(text, i - 1) = "NL"}
Located(text, x) ==
    /\ x.line = Cardinality(Newlines(text, x.loc))
    /\ x.col <= x.loc
    /\ \A i \in x.loc - x.col .. x.loc - 1 : CharAt(text, i) # "NL"
    /\ x.col = x.loc \/ CharAt(text, x.loc - x.col - 1) = "NL"
PositionAgrees == Located(src, ctx) /\ Located(src, call.start)

(* The characters from i to j - 1 are blanks and comments.                  *)
Commented(p, i) ==
    \E k \in i .. p : /\ Data(k) = "/" /\ Data(k + 1) = "/"
                      /\ \A q \in k .. p : Data(q) # "NL"
Gap(i, j) ==
    \A p \in i .. j - 1 : Data(p) \in Whitespace \/ Commented(p, i)

(* The tokens of a text that ends in a newline tile it: each begins where   *)
(* the one before it ended, but for blanks and comments, and the lexer      *)
(* answers TOK_EOF only when nothing but those is left.  The spans' hi is   *)
(* counted apart from the context's loc, which is what could come apart.    *)
Closed(s) == s # <<>> /\ s[Len(s)] = "NL" /\ \A i \in 1 .. Len(s) : s[i] # "-1"
Ended(n)  == IF n = 0 THEN 0 ELSE out[n].hi
TokensTile ==
    Closed(src) =>
        \A n \in 1 .. Len(out) :
            /\ Ended(n - 1) <= out[n].lo
            /\ Gap(Ended(n - 1), out[n].lo)
            /\ out[n].kind = "EOF" => out[n].lo = Len(src) - 1

(* lexer_peek and lexer_scan foretell lexer_next: the token peeked at is    *)
(* the one lexer_next returns, and the call that returns the first token of *)
(* the kind scanned for is the one that begins at the place lexer_scan      *)
(* answered, if it answered one.  The parser chooses its productions by     *)
(* peeking and then reads the same text again.                              *)
Foresight ==
    [][out' # out =>
         /\ foretold.op = "peek" => tok = foretold.token
         /\ foretold.op = "scan" =>
               (KindOf(tok) = foretold.key <=> call.start.loc = foretold.pos)]_vars

(* The grammar the tokens are meant to follow, stated without the loops:    *)
(* the text from i to j - 1 consists of digits, between two of which an     *)
(* underscore may stand; an operator or a word is as long as it can be.     *)
DigitRun(i, j, digits) ==
    \A p \in i .. j - 1 :
        \/ Data(p) \in digits
        \/ Data(p) = "_" /\ {Data(p - 1), Data(p + 1)} \subseteq Decimal

IsOperator(t) ==
    /\ t.node = Text(t)
    /\ Len(t.node) = 1 \/ t.node \in Compound
    /\ Append(t.node, Data(t.hi)) \notin Compound

IsString(t) ==
    /\ t.hi >= t.lo + 2
    /\ {p \in t.lo .. t.hi - 1 : Data(p) = "DQ"} = {t.lo, t.hi - 1}

IsWord(t) ==
    /\ Data(t.lo) \in IdentStart
    /\ \A p \in t.lo .. t.hi - 1 : Data(p) \in IdentChar
    /\ Data(t.hi) \notin IdentChar
    /\ t.kind = "KEYWORD" <=> Text(t) \in Keyword

(* An integer is digits of its base; a float decimal digits with a fraction *)
(* (from dot), an exponent (from exp) or both; either may have a suffix.    *)
(* The exponent has a sign only where there is no fraction: see             *)
(* ExponentConsumed.                                                        *)
SuffixRun(i, j) ==
    /\ \A p \in i .. j - 1 : Data(p) \in SuffixChar
    /\ Data(j) \notin SuffixChar
IsInteger(t) ==
    \E b \in {"b", "o", "x", "d"}, end \in t.lo + 1 .. t.hi :
        LET from == IF b = "d" THEN t.lo ELSE t.lo + 2 IN
        /\ b # "d" => Data(t.lo) = "0" /\ Data(t.lo + 1) = b
        /\ DigitRun(from, end, Digits(b)) /\ SuffixRun(end, t.hi)
        /\ ~(Data(end) = "." /\ Data(end + 1) # ".") /\ Data(end) \notin {"e", "E"}
IsFloat(t) ==
    \E dot, exp, end \in t.lo + 1 .. t.hi :
        /\ DigitRun(t.lo, dot, Decimal)
        /\ exp # dot => /\ Data(dot) = "." /\ Data(dot + 1) # "."
                        /\ DigitRun(dot + 1, exp, Decimal)
        /\ IF Data(exp) \in {"e", "E"}
           THEN LET signed == exp = dot /\ Data(exp + 1) \in {"-", "+"}
                    n      == IF signed THEN exp + 2 ELSE exp + 1
                IN n <= end /\ DigitRun(n, end, Decimal)
           ELSE exp = end
        /\ dot # end
        /\ SuffixRun(end, t.hi)

IsLexeme(t) ==
    CASE t.kind = "STRING"               -> IsString(t)
      [] t.kind = "OPERATOR"             -> IsOperator(t)
      [] t.kind \in {"IDENT", "KEYWORD"} -> IsWord(t)
      [] t.kind = "INTEGER"              -> IsInteger(t)
      [] t.kind = "FLOAT"                -> IsFloat(t)
      [] OTHER                           -> t.kind = "EOF"

(* Every token lexer_next returns is a lexeme of its kind, and as long as   *)
(* it can be: "1..2" is a number and a range, ">>=" one operator, "1u8" one *)
(* number, "iff" no keyword (lexer.c:144-307).                              *)
TokensAreLexemes == \A n \in 1 .. Len(out) : IsLexeme(out[n])

(* Whether a string is open at the end of a text; what is quoted in a       *)
(* comment opens none, and no comment begins in a string.                   *)
StringOpen(text) ==
    LET mode[i \in 0 .. Len(text)] ==
          IF i = 0 THEN "plain"
          ELSE LET before == mode[i - 1] IN
               CASE before = "string"  -> IF text[i] = "DQ" THEN "plain" ELSE "string"
                 [] before = "comment" -> IF text[i] = "NL" THEN "plain" ELSE "comment"
                 [] OTHER -> CASE text[i] = "DQ" -> "string"
                               [] text[i] = "/" /\ CharAt(text, i) = "/" -> "comment"
                               [] OTHER -> "plain"
    IN mode[Len(text)] = "string"

(* Every turn of a call that changes anything gets on in the text, or on to *)
(* a later loop of the token in it: in a text that ends in a newline only a *)
(* string that is open keeps the lexer on the last character.               *)
Rank ==
    CASE pc = "start"                   -> 1
      [] pc = "whitespace"              -> 2
      [] pc = "comment"                 -> 3
      [] pc = "exit"                    -> IF tok.kind = "EOF" THEN 0 ELSE 3
      [] pc = "suffix"                  -> 4
      [] pc \in {"power", "exponent"}   -> 5
      [] pc = "point"                   -> 6
      [] OTHER                          -> 7
TurnsDescend ==
    [][Closed(src) /\ call.op # "idle" /\ call'.op # "idle" /\ status' = "run" =>
          \/ pc = "string" /\ AtEnd(ctx)
          \/ ctx'.loc > ctx.loc
          \/ ctx'.loc = ctx.loc /\ Rank' < Rank]_vars

(* lexer_next, lexer_peek and lexer_scan return, or the program panics, on  *)
(* a text that ends in a newline and whose strings are closed: no loop of   *)
(* the lexer asks lexer_consume for a character that does not come.         *)
Busy        == call.op # "idle"
Settled     == call.op = "idle" \/ status # "run"
CallsReturn == Busy /\ Closed(src) /\ ~StringOpen(src) ~> Settled

-----------------------------------------------------------------------------
(* What the documents and the messages of the code say, and it does not do  *)

(* README.md:24, "Source code is lexed into individual tokens": whatever    *)
(* the text, a call of the lexer comes to an end.                           *)
EveryCallReturns == Busy ~> Settled

(* lexer.c:294, "consume the exponent": the exponent of a number is lexed   *)
(* with it, and no float ends at its "e".                                   *)
ExponentConsumed ==
    \A n \in 1 .. Len(out) :
        out[n].kind = "FLOAT" /\ Data(out[n].hi - 1) \in {"e", "E"} =>
            Data(out[n].hi) \notin {"-", "+"}
=============================================================================
