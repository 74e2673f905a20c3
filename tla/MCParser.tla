------------------------------- MODULE MCParser -------------------------------
(* Texts for the model checker to run the parser on: what the documented    *)
(* grammar writes, with the tree it means, and texts nobody should write.   *)
EXTENDS Parser, Grammar

LOCAL INSTANCE SequencesExt

CONSTANT BinOp  \* the infix operators, one of each level

w == Word("a")
x == Word("b")
y == Word("0")
z == Word("self")

(* Every form of an expression around another.                              *)
Around(e) ==
    {Both(op, e, x) : op \in BinOp} \cup {Both(op, x, e) : op \in BinOp}
    \cup {Sign("-", e), Sign("*", e), Called(x, <<e>>), Called(x, <<y, e, z>>), Made(x, <<e, y>>),
          Method(x, "c", <<e>>), Method(e, "c", <<y, z>>), Part(e, "c"), Made(x, <<>>)}
    \cup {Called(f, <<>>) : f \in {g \in {e} : g.prec >= PrefixLevel /\ g.tree[1][1] # "field"}}
    \cup {At(x, i) : i \in {g \in {e} : g.prec >= PrefixLevel}} \cup {At(e, y)}
    \cup {In("c", p) : p \in {g \in {e} : g.prec >= PathLevel}}

Depth1 == Around(w)
Depth2 == UNION {Around(e) : e \in Depth1}

(* Three operators, and both operands of one compound.                      *)
Balanced ==
    {Both(op, Both(l, w, x), Both(r, y, z)) : op, l, r \in BinOp}
    \cup {Both(op, Sign("-", Both(l, w, x)), Called(w, <<Both(r, x, y), z>>)) :
             op, l, r \in BinOp}

(* Statements, in the ways of the sample programs of els/.                  *)
do == Block(<<Does(Both("=", w, y))>>)
is == Both("==", w, x)
Statement1 ==
    {Does(e) : e \in {f \in Depth1 : f.text[1] \in {"a", "b"}}}
    \cup {Does(y), GivesNothing, Leaves("break"), Leaves("continue"),
          Sets("let", "c", Made(x, <<y, w>>)), Sets("var", "c", Called(x, <<>>)),
          While(is, do), While(w, Block(<<Leaves("break")>>)),
          For("c", Both("..", y, x), do), If(is, do, <<>>),
          If(is, Block(<<>>), <<Otherwise(do)>>),
          If(w, do, <<Elif(x, do), Elif(Called(x, <<Made(w, <<>>)>>), Block(<<>>)),
                      Otherwise(Block(<<GivesNothing>>))>>)}

InFunction(stmts) ==
    Inside(<<Function("a", <<>>, "b", Block(stmts))>>)

Nested ==
    {InFunction(<<s>>) : s \in Statement1}
    \cup {InFunction(<<While(is, Block(<<s, t>>)), GivesNothing>>) :
             s, t \in {If(is, do, <<Otherwise(do)>>), Leaves("break"), Does(w)}}

f0 == Function("c", <<>>, "d", Block(<<>>))
f2 == Function("c", <<Parameter("a", "b"), Parameter("self", "d")>>, "d",
               Block(<<Gives(Part(z, "a"))>>))
Wholes ==
    {Inside(<<>>), Inside(<<f0, f2>>),
     Inside(<<Struct("a", <<>>), f0>>),
     Inside(<<Struct("a", <<Holds("b", "c"), f2, Holds("d", "c")>>)>>),
     Inside(<<Module("a", <<f0, Module("b", <<>>), Struct("c", <<f0>>)>>), f0>>)}

(* The texts above, and some with a comment at every place.                 *)
With(s, i, t) == SubSeq(s, 1, i) \o t \o SubSeq(s, i + 1, Len(s))
Commented ==
    {Phrase(With(p.text, i, <<"//">>), p.tree) :
        <<p, i>> \in {q \in Wholes \X (0 .. 60) : q[2] <= Len(q[1].text)}}

Documented ==
    {InFunction(<<Gives(e)>>) : e \in Depth1 \cup Depth2 \cup Balanced}
    \cup Nested \cup Wholes \cup Commented

(* The forms the code does not manage: a method without arguments, an index *)
(* that binds less tightly than a prefix, a literal of an array, alone and  *)
(* in every place an expression can have; and lists with a comment that     *)
(* looks like a part of them.                                               *)
Elements(args) ==
    Expression(<<"[">> \o Separated(args) \o <<"]">>, NodeOf("array", args), 251)
Lacking ==
    {Method(w, "c", <<>>), Sign("-", Method(x, "c", <<>>)), Elements(<<>>),
     Elements(<<w>>), Elements(<<w, y>>), Elements(<<Called(w, <<x, y>>)>>)}
    \cup {At(x, Both(op, w, y)) : op \in BinOp}
WithLacking ==
    {InFunction(<<Gives(e)>>) : e \in Lacking \cup UNION {Around(f) : f \in Lacking}}
Lists ==
    {InFunction(<<Gives(e)>>) :
        e \in {Called(x, <<w, y>>), Called(x, <<w>>), Made(x, <<w, y>>),
               Method(x, "c", <<w, y>>), Called(x, <<Called(w, <<y, z>>), z>>)}}
Misleading ==
    UNION {{Phrase(With(p.text, i, <<c>>), p.tree) : i \in 8 .. Len(p.text) - 1} :
              p \in Lists, c \in {"//,", "//(", "//)"}}

(* Broken texts: whole ones with a token missing or another in its place,   *)
(* and any tokens at all where an expression or a statement belongs.        *)
Without(s, i, j) == SubSeq(s, 1, i - 1) \o SubSeq(s, j, Len(s))
Damaged ==
    UNION {LET s == p.text
           IN {Without(s, i, i + 1) : i \in DOMAIN s}
              \cup {Without(s, i, Len(s) + 1) : i \in DOMAIN s}
              \cup {[s EXCEPT ![i] = t] : i \in DOMAIN s, t \in {"{", ")", "a", "else", "//,"}} :
           p \in Wholes \cup {InFunction(<<s>>) : s \in Statement1 \ {Does(e) : e \in Depth1}}}

Stray ==
    {<<"fn", "a", "(", ")", "->", "b", "{", "return">> \o s \o <<";", "}">> :
        s \in SeqOf({"a", "-", "(", ")", ",", "[", "]"}, 4)
              \cup SeqOf({"a", ".", "(", ")", ",", "//)"}, 4)
              \cup SeqOf({"a", "::", "{", "}", ",", "?", ";"}, 3)}
    \cup SeqOf({"struct", "enum", "let", "use", "a", "{", "}", ":"}, 3)

Written == Documented \cup WithLacking \cup Misleading
MCSource == {p.text : p \in Written} \cup Damaged \cup Stray

(* What the comment on parser_visit_global describes.                       *)
Globals == {Inside(<<Global(kw, "a", "b", e)>>).text : kw \in {"let", "var"}, e \in Depth1}

-----------------------------------------------------------------------------

Meant == [t \in {p.text : p \in Written} |-> (CHOOSE p \in Written : p.text = t).tree]

(* The token at which the parser stops in a form it does not manage: the    *)
(* bracket that nothing consumed, or, if the call it stands in takes that   *)
(* for its own, the next one; the operator in an index; the bracket where a *)
(* semicolon should be; the place behind the first argument of an array.    *)
Unmanaged ==
    {<<Method(e, "c", <<>>).text, 5>> : e \in {w, x}}
    \cup {<<Method(e, "c", <<>>).text \o <<")">>, 6>> : e \in {w, x}}
    \cup {<<Elements(<<>>).text, 2>>, <<Elements(<<w>>).text, 3>>,
          <<Elements(<<w, y>>).text, 4>>, <<Elements(<<Called(w, <<x, y>>)>>).text, 8>>}
    \cup {<<At(x, Both(op, w, y)).text, 4>> : op \in BinOp}
LeftOver ==
    \E u \in Unmanaged, o \in DOMAIN src :
        /\ o + Len(u[1]) <= Len(src)
        /\ SubSeq(src, o, o + Len(u[1]) - 1) = u[1]
        /\ Skip(pos) = o - 1 + u[2]

(* The list and its count differ by a comment: the parser stops where the   *)
(* list has a comma or its end.                                             *)
Misled ==
    /\ \E q \in DOMAIN src : src[q] \in {"//,", "//(", "//)"}
    /\ TokenAt(pos) \in {",", ")", "}"}

(* Every text of the documented grammar is accepted, and its tree is the    *)
(* one that is meant: operators associate to the left and bind as the table *)
(* above ExprPrecedence says, brackets overrule them, and a list, a nested  *)
(* call or a condition before a brace ends where it should, although        *)
(* parse_expr_prec stops at one token, count_csv looks ahead in characters  *)
(* and "{" may open a body or a struct.  The exceptions are at their token: *)
(* a form the code does not manage stops the parser there and not before,   *)
(* and what is left over of it is never taken for a part of a tree; a       *)
(* comment that count_csv reads stops it at the next end of an argument;    *)
(* and a read beyond translate happens only at a list that is longer.       *)
RoundTrip ==
    status # "run" /\ src \in DOMAIN Meant =>
        CASE status = "done"  -> ast = Meant[src]
          [] status = "panic" -> LeftOver \/ Misled
          [] status = "fault" -> \E p \in {Past(pos), Past(Past(Past(pos)))} : Overruns(p)

(* The table above ExprPrecedence: an expression the parser accepts has the *)
(* tree the table gives it.                                                 *)
BindsAsTheTable ==
    status = "done" /\ src \in DOMAIN Meant => ast = Meant[src]

(* The comment on parser_visit_global: "let x: u32 = 0;" is a global.       *)
GlobalsAccepted == status # "panic"
=============================================================================
