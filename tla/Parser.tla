------------------------------- MODULE Parser -------------------------------
(***************************************************************************)
(* The recursive descent parser of parser/parser.c: modules, structs,       *)
(* functions and statements, and operator precedence for expressions.       *)
(*                                                                         *)
(* The C call stack is the variable stack.  A frame is a call of a          *)
(* parser_visit_ function or of parse_expr_prec: what it still has to do,   *)
(* as a sequence of steps, and the subtrees it has built.  A production is  *)
(* the sequence of parser_expect and parser_visit_ calls of its function;   *)
(* where the function decides on a token it peeks at, there is a step with  *)
(* an action of its own.  A tree is the sequence of its nodes in prefix     *)
(* order, each with its number of children.                                 *)
(*                                                                         *)
(* The text is a sequence of tokens and comments.  The lexer skips the      *)
(* comments; count_csv, which looks ahead in the characters for the commas  *)
(* of a list, does not.                                                     *)
(***************************************************************************)
EXTENDS Integers, Sequences, FiniteSets

CONSTANTS
    Source,  \* the texts the program is run on
    Table    \* the length of count_csv's translate table

Name    == {"a", "b", "c", "d"}
Number  == {"0", "1"}
Literal == Number \cup {"TRUE", "STRING"}
Comment == {"//", "//,", "//(", "//)"}  \* a comment, and what is in it
Assign  == {"=", "+=", "-=", "*=", "/=", "%=", "^=", "&=", "|=", "<<=", ">>="}
Infix   == Assign \cup {"..", "..=", "||", "&&", "==", "!=", "<", "<=", ">", ">=",
                        "|", "^", "&", "<<", ">>", "+", "-", "*", "/"}
Postfix == {"{", "(", ".", "["}
Unary   == {"*", "&", "~", "-", "+"}
ValidOp == Infix \cup Postfix \cup {"::", "%", "~", "~=", "->", "?", "}", ")", "]"}
Reserved == {"struct", "module", "fn", "let", "var", "enum", "use", "if", "else",
             "while", "for", "in", "return", "break", "continue", "match"}
Token == Name \cup Literal \cup ValidOp \cup Reserved
         \cup {"self", ",", ";", ":", "!", "EOF"}

Kind(t) == IF t \in Name THEN "IDENT" ELSE t

PREFIX == 130
POSTFIX == 140

(* infix_precedence of the operators it knows.                              *)
Precedence(t) ==
    CASE t \in Assign                              -> 20
      [] t \in {"..", "..="}                       -> 30
      [] t \in {"||", "|"}                         -> 40
      [] t = "&&"                                  -> 50
      [] t \in {"==", "!=", "<", "<=", ">", ">="}  -> 60
      [] t = "^"                                   -> 80
      [] t = "&"                                   -> 90
      [] t \in {"<<", ">>"}                        -> 100
      [] t \in {"+", "-"}                          -> 110
      [] t \in {"*", "/"}                          -> 120
      [] t = "::"                                  -> 250

ASSUME ParserAssumption ==
    /\ Source \subseteq Seq((Token \ {"EOF"}) \cup Comment)
    /\ Table \in Nat

VARIABLES
    src,     \* data, the text
    pos,     \* context, the place of the lexer in it
    stack,   \* the calls in progress, the innermost last
    ast,     \* what parser_parse returned
    status   \* "run", "done", "panic" or "fault" (undefined behaviour)

vars == <<src, pos, stack, ast, status>>

-----------------------------------------------------------------------------
(* The lexer, as the parser sees it, and count_csv                          *)

(* The next token from p, and the place behind it.                          *)
Skip(p)    == CHOOSE q \in p .. Len(src) + 1 :
                  /\ q <= Len(src) => src[q] \notin Comment
                  /\ \A r \in p .. q - 1 : src[r] \in Comment
TokenAt(p) == IF Skip(p) <= Len(src) THEN src[Skip(p)] ELSE "EOF"
PastUnchecked(p) == Skip(p) + 1
Past(p)    == IF Skip(p) <= Len(src) THEN Skip(p) + 1 ELSE Skip(p)

Peek == TokenAt(pos)

Opens  == {"(", "[", "{", "//("}
Closes == {")", "]", "}", "//)"}
Commas == {",", "//,"}

(* How many brackets are open behind place q, in a list that begins at p.   *)
Depth(p, q) == 1 + Cardinality({r \in p .. q : src[r] \in Opens})
                 - Cardinality({r \in p .. q : src[r] \in Closes})

(* The places count_csv looks at: up to the one that closes the list.       *)
Counted(p) == {q \in p .. Len(src) : \A r \in p .. q - 1 : Depth(p, r) # 0}
Count(p)   == Cardinality({q \in Counted(p) : Depth(p, q) = 1 /\ src[q] \in Commas})

(* translate is indexed by the place of a closing bracket, not by the       *)
(* bracket: beyond its end that is a read of the stack.                     *)
Overruns(p) == \E q \in Counted(p) : src[q] \in Closes /\ q - p >= Table

-----------------------------------------------------------------------------
(* Frames and the steps of a production                                     *)

Do(what)        == [do |-> what, tok |-> "EOF", min |-> 0]
Expect(kind)    == [do |-> "expect", tok |-> kind, min |-> 0]
Leaf(kind)      == [do |-> "leaf", tok |-> kind, min |-> 0]
Expr(stop, min) == [do |-> "expr", tok |-> stop, min |-> min]
Node(label)     == [do |-> "node", tok |-> label, min |-> 0]
Final(close)    == [do |-> "last", tok |-> close, min |-> 0]

Frame(todo, stop, min) ==
    [todo |-> todo, stop |-> stop, min |-> min, tree |-> <<>>, n |-> 0]

Top == stack[Len(stack)]
Ready == status = "run" /\ stack # <<>>
Doing(what) == Ready /\ Top.todo # <<>> /\ Top.todo[1].do = what
Arg == Top.todo[1].tok

(* The frame after its first step, or with a script in its place, or with a *)
(* script to do before it.                                                  *)
Done(f)           == [f EXCEPT !.todo = Tail(@)]
Instead(f, steps) == [f EXCEPT !.todo = steps \o Tail(@)]
First(f, steps)   == [f EXCEPT !.todo = steps \o @]

Add(f, tree)   == [f EXCEPT !.tree = @ \o tree, !.n = @ + 1]
Join(f, label) == [f EXCEPT !.tree = <<<<label, f.n>>>> \o @, !.n = 1]

Become(f)  == stack' = [stack EXCEPT ![Len(stack)] = f]
Call(f, g) == stack' = Append([stack EXCEPT ![Len(stack)] = f], g)

Keep == UNCHANGED <<src, ast, status>>

Panic == status' = "panic" /\ UNCHANGED <<src, pos, stack, ast>>
Fault == status' = "fault" /\ UNCHANGED <<src, pos, stack, ast>>

(* parser_expect(kind, lexer_next(lexer))                                   *)
ExpectToken ==
    /\ Doing("expect")
    /\ IF Kind(Peek) = Arg
       THEN pos' = Past(pos) /\ Become(Done(Top)) /\ Keep
       ELSE Panic

(* The same, of a token the tree keeps.                                     *)
KeepToken ==
    /\ Doing("leaf")
    /\ IF Arg \in {Kind(Peek), "any"}
       THEN /\ pos' = Past(pos)
            /\ Become(Add(Done(Top), <<<<Peek, 0>>>>))
            /\ Keep
       ELSE Panic

MakeNode ==
    /\ Doing("node")
    /\ Become(Join(Done(Top), Arg))
    /\ UNCHANGED pos /\ Keep

(* A function returns its tree to the one that called it.                   *)
Return ==
    /\ Ready /\ Top.todo = <<>>
    /\ IF Len(stack) = 1
       THEN /\ ast' = Top.tree
            /\ status' = "done"
            /\ stack' = <<>>
       ELSE LET n == Len(stack) - 1 IN
            /\ stack' = [SubSeq(stack, 1, n) EXCEPT ![n] = Add(@, Top.tree)]
            /\ UNCHANGED <<ast, status>>
    /\ UNCHANGED <<src, pos>>

-----------------------------------------------------------------------------
(* parse_expr_prec                                                          *)

VisitExpr ==
    /\ Doing("expr")
    /\ Call(Done(Top), Frame(<<Do("primary"), Do("rest")>>, Arg, Top.todo[1].min))
    /\ UNCHANGED pos /\ Keep

(* An expression that ends where it begins.                                 *)
Empty ==
    /\ Doing("primary") /\ Peek = Top.stop
    /\ Become(Add([Top EXCEPT !.todo = <<>>], <<<<"empty", 0>>>>))
    /\ UNCHANGED pos /\ Keep

Starting(tokens) == Doing("primary") /\ Peek # Top.stop /\ Peek \in tokens

(* What a token that was consumed is followed by.                           *)
Take(f) == pos' = Past(pos) /\ Become(f) /\ Keep

Operand == Name \cup Literal \cup {"self"}

Atom  == Starting(Operand) /\ Take(Add(Done(Top), <<<<Peek, 0>>>>))
Group == Starting({"("}) /\ Take(Instead(Top, <<Expr(")", 0), Expect(")")>>))

(* Mutant: the operator is peeked at and not consumed.                      *)
PrefixPeeks ==
    /\ Starting(Unary)
    /\ Become(Instead(Top, <<Expr(Top.stop, PREFIX - 1), Node(Peek)>>))
    /\ UNCHANGED pos /\ Keep

Prefix ==
    /\ Starting(Unary)
    /\ Take(Instead(Top, <<Expr(Top.stop, PREFIX - 1), Node(Peek)>>))

NoExpr ==
    /\ Doing("primary") /\ Peek # Top.stop
    /\ Peek \notin Operand \cup Unary \cup {"(", "["}
    /\ Panic

(* [type; size], or a list.                                                 *)
Array ==
    /\ Starting({"["})
    /\ \/ Overruns(Past(pos)) /\ Fault
       \/ /\ Count(Past(pos)) = 0
          /\ Take(Instead(Top, <<Expr(";", 0), Expect(";"), Expr("]", 0),
                                 Expect("]"), Node("repeat")>>))
       \/ /\ Count(Past(pos)) # 0
          /\ Take(Instead(Top, <<Expr(",", 0), Expect(","), Do("push")>>))

(* The first argument of a list is pushed to a vector that was never        *)
(* initialised: in memory of zeros its items are at NULL, which             *)
(* allocator_realloc does not take.                                         *)
NoVector == Doing("push") /\ Panic

(* The loop: what follows the expression lhs that the frame has built.      *)
Following == Doing("rest") /\ Peek # Top.stop

NoOperator == Following /\ Peek \notin ValidOp /\ Panic

Binds(t) ==
    \/ t \in Postfix /\ Top.min <= POSTFIX
    \/ t \in Infix \cup {"::"} /\ Top.min <= Precedence(t)

EndExpr ==
    /\ Doing("rest")
    /\ Peek = Top.stop \/ (Peek \in ValidOp /\ ~Binds(Peek))
    /\ Become(Done(Top))
    /\ UNCHANGED pos /\ Keep

Lhs == Top.tree[1]

BinaryToTheRight ==
    /\ Following /\ Peek \in Infix /\ Binds(Peek)
    /\ Take(First(Top, <<Expr(Top.stop, Precedence(Peek)), Node(Peek)>>))

Binary ==
    /\ Following /\ Peek \in Infix /\ Binds(Peek)
    /\ Take(First(Top, <<Expr(Top.stop, Precedence(Peek) + 1), Node(Peek)>>))

(* The stem of a path is an identifier, by an assertion.                    *)
Path ==
    /\ Following /\ Peek = "::" /\ Binds(Peek)
    /\ IF Lhs[1] \in Name
       THEN Take(First(Top, <<Expr(Top.stop, Precedence("::") - 1), Node("path")>>))
       ELSE Panic

(* The arguments of a list, count_csv of which end in a comma, and one more *)
(* unless the list is closed.                                               *)
Args(count) == [i \in 1 .. 2 * count |-> IF i % 2 = 1 THEN Expr(",", 0) ELSE Expect(",")]
List(p, close) == Args(Count(p)) \o <<Final(close), Expect(close)>>

LastArg ==
    /\ Doing("last")
    /\ Become(IF Peek # Arg THEN Instead(Top, <<Expr(Arg, 0)>>) ELSE Done(Top))
    /\ UNCHANGED pos /\ Keep

Listing(p, f) ==
    \/ Overruns(p) /\ Fault
    \/ pos' = p /\ Become(f) /\ Keep

StructInit ==
    /\ Following /\ Peek = "{" /\ Binds(Peek)
    /\ LET p == Past(pos) IN
       Listing(p, First(Top, List(p, "}") \o <<Node("init")>>))

CallExpr ==
    /\ Following /\ Peek = "(" /\ Binds(Peek)
    /\ LET p == Past(pos) IN
       IF Lhs[1] \in Infix /\ Lhs[2] = 2 THEN Panic
       ELSE Listing(p, First(Top, List(p, ")") \o <<Node("call")>>))

Index ==
    /\ Following /\ Peek = "[" /\ Binds(Peek)
    /\ Take(First(Top, <<Expr("]", POSTFIX - 1), Expect("]"), Node("index")>>))

(* A field, or a method and its arguments: the closing bracket is consumed  *)
(* with the last argument, and only if there is one.                        *)
Dot   == Following /\ Peek = "." /\ Binds(Peek)
Field == Add(Top, <<<<TokenAt(Past(pos)), 0>>>>)

NoField == Dot /\ Kind(TokenAt(Past(pos))) # "IDENT" /\ Panic

FieldWithoutObject ==
    /\ Dot /\ Kind(TokenAt(Past(pos))) = "IDENT"
    /\ LET p == Past(Past(pos)) IN
       /\ TokenAt(p) # "("
       /\ pos' = p
       /\ Become(Join([Top EXCEPT !.tree = <<<<TokenAt(Past(pos)), 0>>>>], "field"))
       /\ Keep

FieldExpr ==
    /\ Dot /\ Kind(TokenAt(Past(pos))) = "IDENT"
    /\ LET p == Past(Past(pos)) IN
       /\ TokenAt(p) # "("
       /\ pos' = p
       /\ Become(Join(Field, "field"))
       /\ Keep

MethodCall ==
    /\ Dot /\ Kind(TokenAt(Past(pos))) = "IDENT"
    /\ LET p == Past(Past(Past(pos))) IN
       /\ TokenAt(Past(Past(pos))) = "("
       /\ Listing(p, First(Field, Args(Count(p))
                                  \o <<Do("last_of_method"), Node("method")>>))

LastOfMethod ==
    /\ Doing("last_of_method")
    /\ Become(IF Peek # ")" THEN Instead(Top, <<Expr(")", 0), Expect(")")>>)
                            ELSE Done(Top))
    /\ UNCHANGED pos /\ Keep

-----------------------------------------------------------------------------
(* Statements                                                               *)

BodyOf(steps) == steps \o <<Expect("{"), Do("body"), Expect("}")>>

Statement(t) ==
    CASE t \in {"TRUE", "IDENT"} \cup Number ->
             <<Expr(";", 0), Expect(";"), Node("expression")>>
      [] t = "for" ->
             BodyOf(<<Expect("for"), Leaf("IDENT"), Expect("in"), Expr("{", 0)>>)
             \o <<Node("for")>>
      [] t = "if" ->
             BodyOf(<<Expect("if"), Expr("{", 0)>>) \o <<Do("else"), Node("if")>>
      [] t = "while" ->
             BodyOf(<<Expect("while"), Expr("{", 0)>>) \o <<Node("while")>>
      [] t = "return" ->
             <<Expect("return"), Expr(";", 0), Expect(";"), Node("return")>>
      [] t \in {"continue", "break"} ->
             <<Expect(t), Node(t)>>
      [] t \in {"var", "let"} ->
             <<Expect(t), Leaf("IDENT"), Expect("="), Expr(";", 0), Expect(";"),
               Node(t)>>

StartsStatement == {"TRUE", "IDENT", "for", "if", "while", "return", "continue",
                    "break", "var", "let"} \cup Number

VisitBody ==
    /\ Doing("body")
    /\ Call(Done(Top), Frame(<<Do("statements")>>, "EOF", 0))
    /\ UNCHANGED pos /\ Keep

(* The loop of parser_visit_body, which peeks at the next statement.        *)
VisitStatement ==
    /\ Doing("statements") /\ Kind(Peek) \in StartsStatement
    /\ Call(Top, Frame(Statement(Kind(Peek)), "EOF", 0))
    /\ UNCHANGED pos /\ Keep

EndBody ==
    /\ Doing("statements") /\ Peek = "}"
    /\ Become(Join(Done(Top), "body"))
    /\ UNCHANGED pos /\ Keep

NoStatementGoesOn ==
    /\ Doing("statements") /\ Kind(Peek) \notin StartsStatement \cup {"}"}
    /\ UNCHANGED vars

NoStatement ==
    /\ Doing("statements") /\ Kind(Peek) \notin StartsStatement \cup {"}"}
    /\ Panic

(* The clauses of an if: any number of else if, then perhaps an else.       *)
ElseIf ==
    /\ Doing("else") /\ Peek = "else" /\ TokenAt(Past(pos)) = "if"
    /\ Call(Top, Frame(BodyOf(<<Expect("if"), Expr("{", 0)>>) \o <<Node("elif")>>,
                       "EOF", 0))
    /\ pos' = Past(pos) /\ Keep

Else ==
    /\ Doing("else") /\ Peek = "else" /\ TokenAt(Past(pos)) # "if"
    /\ Call(Done(Top), Frame(BodyOf(<<>>) \o <<Node("else")>>, "EOF", 0))
    /\ pos' = Past(pos) /\ Keep

NoElse ==
    /\ Doing("else") /\ Peek # "else"
    /\ Become(Done(Top))
    /\ UNCHANGED pos /\ Keep

-----------------------------------------------------------------------------
(* Modules, structs and functions                                           *)

(* parser_visit_global and parser_visit_enum read the keyword their caller  *)
(* peeked at as the identifier.                                             *)
Item(t) ==
    CASE t = "struct" ->
             <<Expect("struct"), Leaf("IDENT"), Expect("{"), Do("members"),
               Expect("}"), Node("struct")>>
      [] t = "module" ->
             <<Expect("module"), Leaf("IDENT"), Expect("{"), Do("inner"),
               Expect("}"), Node("module")>>
      [] t = "fn" ->
             BodyOf(<<Expect("fn"), Leaf("IDENT"), Expect("("), Do("params"),
                      Expect("->"), Leaf("IDENT")>>) \o <<Node("fn")>>
      [] t \in {"var", "let"} ->
             <<Leaf("IDENT"), Expect(":"), Leaf("IDENT"), Expect("="), Expr(";", 0),
               Node("global")>>
      [] t = "enum" ->
             <<Leaf("IDENT"), Expect("{")>>

StartsItem == {"struct", "module", "fn", "var", "let", "enum"}

Listed == Doing("source_items") \/ Doing("module_items")
EndsItems == IF Doing("source_items") THEN {"EOF"} ELSE {"EOF", "}"}

VisitInner ==
    /\ Doing("inner")
    /\ Call(Done(Top), Frame(<<Do("module_items")>>, "EOF", 0))
    /\ UNCHANGED pos /\ Keep

(* The loop of parser_visit_module_inner.                                   *)
VisitItem ==
    /\ Listed /\ Peek \in StartsItem
    /\ Call(Top, Frame(Item(Peek), "EOF", 0))
    /\ UNCHANGED pos /\ Keep

EndItems ==
    /\ Listed /\ Peek \in EndsItems
    /\ Become(Join(Done(Top), "items"))
    /\ UNCHANGED pos /\ Keep

(* "use" is not implemented, and a brace does not close the source.         *)
NoItem == Listed /\ Peek \notin StartsItem \cup EndsItems /\ Panic

(* The fields and the methods of a struct, in two vectors in the code.      *)
Member ==
    /\ Doing("members") /\ Kind(Peek) \in {"IDENT", "fn"}
    /\ Call(Top, Frame(IF Peek = "fn" THEN Item("fn")
                       ELSE <<Leaf("IDENT"), Expect(":"), Leaf("IDENT"), Expect(";"),
                              Node("member")>>, "EOF", 0))
    /\ UNCHANGED pos /\ Keep

EndMembers == Doing("members") /\ Peek = "}" /\ Become(Done(Top)) /\ UNCHANGED pos /\ Keep

NoMember == Doing("members") /\ Kind(Peek) \notin {"IDENT", "fn", "}"} /\ Panic

(* A parameter: any token is its name, and a comma may follow it.           *)
Param ==
    /\ Doing("params") /\ Peek # ")"
    /\ Call(Top, Frame(<<Leaf("any"), Expect(":"), Leaf("IDENT"), Do("comma"),
                         Node("param")>>, "EOF", 0))
    /\ UNCHANGED pos /\ Keep

EndParams == Doing("params") /\ Peek = ")" /\ Take(Done(Top))

OptionalComma ==
    /\ Doing("comma")
    /\ pos' = IF Peek = "," THEN Past(pos) ELSE pos
    /\ Become(Done(Top)) /\ Keep

-----------------------------------------------------------------------------
(* The specification                                                        *)

(* parser_parse, which reads the source as the inside of a module.          *)
Init ==
    /\ src \in Source
    /\ pos = 1
    /\ stack = <<Frame(<<Do("source_items")>>, "EOF", 0)>>
    /\ ast = <<>>
    /\ status = "run"

Steps == ExpectToken \/ KeepToken \/ MakeNode \/ Return
Primary == Empty \/ Atom \/ Group \/ Prefix \/ NoExpr \/ Array \/ NoVector
Rest == \/ NoOperator \/ EndExpr \/ Binary \/ Path \/ LastArg \/ StructInit
        \/ CallExpr \/ Index \/ NoField \/ FieldExpr \/ MethodCall \/ LastOfMethod
Statements == \/ VisitBody \/ VisitStatement \/ EndBody \/ NoStatement
              \/ ElseIf \/ Else \/ NoElse
Items == \/ VisitInner \/ VisitItem \/ EndItems \/ NoItem \/ Member \/ EndMembers
         \/ NoMember \/ Param \/ EndParams \/ OptionalComma

Next == Steps \/ VisitExpr \/ Primary \/ Rest \/ Statements \/ Items

Spec == Init /\ [][Next]_vars

(* The parser runs until it returns or stops the process.                   *)
FairSpec == Spec /\ WF_vars(Next)

-----------------------------------------------------------------------------
(* Properties                                                               *)

Label == Token \cup {"empty", "repeat", "path", "init", "call", "index", "field",
                     "method", "expression", "body", "elif", "param", "member",
                     "global", "items"}
Tree  == Seq(Label \X Nat)
Marks == {"primary", "rest", "last_of_method", "push", "body", "statements", "else",
          "inner", "source_items", "module_items", "members", "params", "comma"}
Step  == [do : Marks \cup {"expect", "leaf", "expr", "node", "last"},
          tok : Label \cup {"IDENT", "any"}, min : 0 .. 251]

(* The type of every variable.                                              *)
TypeOK ==
    /\ src \in Seq(Token \cup Comment)
    /\ pos \in 1 .. Len(src) + 1
    /\ stack \in Seq([todo : Seq(Step), stop : Token, min : 0 .. 251,
                      tree : Tree, n : Nat])
    /\ ast \in Tree
    /\ status \in {"run", "done", "panic", "fault"}

(* The names and literals of a text the parser accepts are in the tree it   *)
(* returns, each once and in their order, the first leaf being the first    *)
(* name written: no argument of a list, no branch of an if and no operand   *)
(* is dropped, read twice or moved on the way from a local variable through *)
(* vector_push and the return values of the parser_visit_ functions into    *)
(* the tree.                                                                *)
NamesKept ==
    LET Leaves  == {i \in DOMAIN ast : ast[i][2] = 0 /\ ast[i][1] \in Operand}
        Written == {j \in DOMAIN src : src[j] \in Operand}
    IN status = "done" =>
           /\ Cardinality(Leaves) = Cardinality(Written)
           /\ \A i \in Leaves, j \in Written :
                  Cardinality({k \in Leaves : k < i}) = Cardinality({k \in Written : k < j})
                      => ast[i][1] = src[j]

(* Every step either reads on, or is the first of a production that has to  *)
(* read on or to stop, or leaves less to do: the loops of the statements,   *)
(* items, members and parameters cannot go round without consuming a token, *)
(* nor can expressions call one another for ever on one.  A parameter may   *)
(* have the end of the file for its name, but not for the colon behind it.  *)
Demands(s) == s.do = "expect" /\ s.tok # "EOF"
Committed ==
    /\ stack # <<>> /\ Top.todo # <<>>
    /\ \/ Demands(Top.todo[1])
       \/ Doing("leaf") /\ \/ Arg = "IDENT" \/ Peek # "EOF"
                           \/ Len(Top.todo) > 1 /\ Demands(Top.todo[2])
       \/ Doing("primary") /\ Peek # Top.stop
       \/ Doing("expr") /\ Peek # Arg

(* What there is to do: for every call one unit and for each of its steps   *)
(* one more than those that it leads to.  A step is numbered from the end.  *)
Cost(s) ==
    CASE s.do = "last_of_method"    -> 6
      [] s.do = "last"              -> 5
      [] s.do = "expr"              -> 4
      [] s.do \in {"body", "inner"} -> 3
      [] OTHER                      -> 1
Units(i, todo) ==
    {<<i, 0, 1>>} \cup UNION {{<<i, k, c>> : c \in 1 .. Cost(todo[Len(todo) + 1 - k])} :
                                  k \in 1 .. Len(todo)}
Work(calls) == UNION {Units(i, calls[i].todo) : i \in 1 .. Len(calls)}

StepsDescend ==
    [][status' = "run" =>
          \/ pos' > pos
          \/ /\ pos' = pos
             /\ Committed => Committed'
             /\ \/ ~Committed /\ Committed'
                \/ Cardinality(Work(stack')) < Cardinality(Work(stack))]_vars

(* Whatever the text, the parser returns or stops: every turn of its loops  *)
(* consumes a token, and at the end of the file something stops it.         *)
Terminates == <>(status # "run")
=============================================================================
