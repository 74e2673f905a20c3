---------------------------- MODULE ParserProofs ----------------------------
(* Proofs about the parser, for every text.                                 *)
EXTENDS Parser, FiniteSetTheorems, SequenceTheorems, WellFoundedInduction, TLAPS

(***************************************************************************)
(* Tokens, labels and the steps of a production                            *)
(***************************************************************************)

LEMMA Labels ==
    /\ Token \subseteq Label
    /\ {"empty", "repeat", "path", "init", "call", "index", "field", "method",
        "expression", "body", "elif", "param", "member", "global", "items"}
           \subseteq Label
BY DEF Label

LEMMA Tokens ==
    /\ Operand \subseteq Token
    /\ Infix \subseteq Token /\ Unary \subseteq Token
    /\ Reserved \subseteq Token
    /\ {"(", ")", "[", "]", "{", "}", ".", "::", "->"} \subseteq Token
    /\ {",", ";", ":", "=", "EOF"} \subseteq Token
<1>1. Operand \subseteq Token
  BY DEF Operand, Token
<1>2. Infix \subseteq ValidOp /\ Unary \subseteq ValidOp
  BY DEF ValidOp, Infix, Assign, Unary
<1>3. ValidOp \subseteq Token /\ Reserved \subseteq Token
  BY DEF Token
<1>4. {"(", ")", "[", "]", "{", "}", ".", "::", "->", "="} \subseteq ValidOp
  BY DEF ValidOp, Infix, Assign, Postfix
<1>5. {",", ";", ":", "EOF"} \subseteq Token
  BY DEF Token
<1> QED BY <1>1, <1>2, <1>3, <1>4, <1>5

LEMMA NoOperands ==
    /\ Infix \cap Operand = {} /\ Unary \cap Operand = {}
    /\ Reserved \cap Operand = {} /\ Comment \cap Operand = {}
    /\ {"(", ")", "[", "]", "{", "}", ".", "::", "->"} \cap Operand = {}
    /\ {",", ";", ":", "=", "EOF", "IDENT"} \cap Operand = {}
    /\ {"empty", "repeat", "path", "init", "call", "index", "field", "method",
        "expression", "body", "elif", "param", "member", "global", "items"}
           \cap Operand = {}
<1> USE DEF Operand, Name, Literal, Number
<1>1. Infix \cap Operand = {} /\ Unary \cap Operand = {}
  BY DEF Infix, Assign, Unary
<1>2. Reserved \cap Operand = {} /\ Comment \cap Operand = {}
  BY DEF Reserved, Comment
<1> QED BY <1>1, <1>2

LEMMA Kinds ==
    ASSUME NEW t \in Token
    PROVE  /\ Kind(t) = "IDENT" => t \in Name /\ t \in Operand
           /\ Kind(t) # "IDENT" => Kind(t) = t /\ t \notin Name
<1>1. "IDENT" \notin Token
  BY DEF Token, Name, Literal, Number, ValidOp, Infix, Assign, Postfix, Reserved
<1> QED BY <1>1 DEF Kind, Operand

(* A step consumes a name or a literal only to keep it.                     *)
Script == {s \in Step : /\ s.do \in {"expect", "node"} =>
                               s.tok \in Label \ Operand /\ s.tok # "IDENT"
                        /\ s.do \in {"expr", "last"} => s.tok \in Token}

LEMMA Scripts ==
    /\ \A what \in Marks : Do(what) \in Script
    /\ \A k \in Label \ Operand : k # "IDENT" => Expect(k) \in Script /\ Node(k) \in Script
    /\ Leaf("IDENT") \in Script /\ Leaf("any") \in Script
    /\ \A t \in Token, m \in 0 .. 251 : Expr(t, m) \in Script
    /\ \A t \in Token : Final(t) \in Script
<1>1. "EOF" \in Label
  BY Labels, Tokens
<1>2. \A what \in Marks : Do(what) \in Script
  <2> SUFFICES ASSUME NEW what \in Marks PROVE Do(what) \in Script
    OBVIOUS
  <2>1. Do(what) \in Step
    <3>1. Do(what).do \in Marks /\ Do(what).tok = "EOF" /\ Do(what).min = 0
      BY DEF Do
    <3> QED BY <1>1, <3>1 DEF Do, Step
  <2>2. what \notin {"expect", "node", "expr", "last"}
    BY DEF Marks
  <2> QED BY <2>1, <2>2 DEF Do, Script
<1>3. \A k \in Label \ Operand : k # "IDENT" => Expect(k) \in Script /\ Node(k) \in Script
  BY DEF Expect, Node, Script, Step
<1>4. Leaf("IDENT") \in Script /\ Leaf("any") \in Script
  BY DEF Leaf, Script, Step
<1>5. \A t \in Token, m \in 0 .. 251 : Expr(t, m) \in Script
  BY Labels DEF Expr, Script, Step
<1>6. \A t \in Token : Final(t) \in Script
  BY Labels DEF Final, Script, Step
<1> QED BY <1>2, <1>3, <1>4, <1>5, <1>6

LEMMA Lowest == 0 \in 0 .. 251
OBVIOUS

LEMMA Points ==
    \A t \in {"(", ")", "[", "]", "{", "}", "->", ",", ";", ":", "="} :
        t \in Label \ Operand /\ Expr(t, 0) \in Script /\ Expect(t) \in Script
<1> SUFFICES ASSUME NEW t \in {"(", ")", "[", "]", "{", "}", "->", ",", ";", ":", "="}
             PROVE  t \in Label \ Operand /\ Expr(t, 0) \in Script /\ Expect(t) \in Script
  OBVIOUS
<1>1. t \in Token
  BY Tokens
<1>2. t \notin Operand /\ t # "IDENT"
  BY NoOperands
<1>3. t \in Label
  BY <1>1, Labels
<1> QED BY <1>1, <1>2, <1>3, Lowest, Scripts

LEMMA Levels ==
    ASSUME NEW t \in Infix
    PROVE  Precedence(t) \in 0 .. 250 /\ Precedence("::") = 250
BY DEF Precedence, Infix, Assign

(***************************************************************************)
(* The lexer, as the parser sees it                                        *)
(***************************************************************************)

LEMMA SourceType ==
    ASSUME src \in Source
    PROVE  /\ src \in Seq(Token \cup Comment) /\ Len(src) \in Nat
           /\ \A q \in 1 .. Len(src) : src[q] \in (Token \ {"EOF"}) \cup Comment
<1>1. src \in Seq((Token \ {"EOF"}) \cup Comment)
  BY ParserAssumption
<1> QED BY <1>1

LEMMA SkipIs ==
    ASSUME src \in Source, NEW p \in 1 .. Len(src) + 1
    PROVE  /\ Skip(p) \in p .. Len(src) + 1
           /\ Skip(p) <= Len(src) => src[Skip(p)] \notin Comment
           /\ \A r \in p .. Skip(p) - 1 : src[r] \in Comment
<1> DEFINE Stops == {q \in p .. Len(src) + 1 : q <= Len(src) => src[q] \notin Comment}
           R == OpToRel(<, Nat)
<1>1. Len(src) \in Nat
  BY SourceType
<1>2. R = {ss \in Nat \X Nat : ss[1] < ss[2]}
  BY DEF OpToRel
<1>3. IsWellFoundedOn(R, Nat)
  BY NatLessThanWellFounded
<1> HIDE DEF R
<1>4. PICK q \in Stops : \A r \in Stops : ~ (<<r, q>> \in R)
  <2>1. Stops \subseteq Nat /\ Len(src) + 1 \in Stops
    BY <1>1
  <2> HIDE DEF Stops
  <2> QED BY <1>3, <2>1, WFMin
<1>5. \A r \in Stops : r >= q
  <2> SUFFICES ASSUME NEW r \in Stops, r < q PROVE FALSE
    BY <1>1
  <2>1. r \in Nat /\ q \in Nat
    BY <1>1
  <2> HIDE DEF Stops
  <2> QED BY <1>2, <1>4, <2>1
<1>6. \A r \in p .. q - 1 : src[r] \in Comment
  BY <1>1, <1>4, <1>5
<1> QED BY <1>4, <1>6 DEF Skip

LEMMA TokenIs ==
    ASSUME src \in Source, NEW p \in 1 .. Len(src) + 1
    PROVE  /\ TokenAt(p) \in Token
           /\ TokenAt(p) # "EOF" => src[Skip(p)] = TokenAt(p) /\ Skip(p) <= Len(src)
           /\ TokenAt(p) = "EOF" => Skip(p) = Len(src) + 1
           /\ Past(p) \in p .. Len(src) + 1
           /\ Past(p) = IF TokenAt(p) = "EOF" THEN Skip(p) ELSE Skip(p) + 1
<1>1. Len(src) \in Nat /\ Skip(p) \in p .. Len(src) + 1
  BY SkipIs, SourceType
<1>2. CASE Skip(p) <= Len(src)
  <2>1. src[Skip(p)] \in Token \ {"EOF"}
    BY <1>1, <1>2, SkipIs, SourceType
  <2> QED BY <1>1, <1>2, <2>1 DEF TokenAt, Past
<1>3. CASE ~(Skip(p) <= Len(src))
  <2>1. "EOF" \in Token
    BY Tokens
  <2>2. TokenAt(p) = "EOF" /\ Past(p) = Skip(p) /\ Skip(p) = Len(src) + 1
    BY <1>1, <1>3 DEF TokenAt, Past
  <2> QED BY <1>1, <2>1, <2>2
<1> QED BY <1>2, <1>3

(***************************************************************************)
(* Which names a tree accounts for                                         *)
(***************************************************************************)

LeavesOf(t) == {i \in DOMAIN t : t[i][2] = 0 /\ t[i][1] \in Operand}
WordsIn(s, lo, hi) == {j \in lo + 1 .. hi : s[j] \in Operand}

(* The leaves of the tree are the words of the text behind place lo and up  *)
(* to place hi, in their order.                                             *)
Accounts(s, t, lo, hi) ==
    \E at :
        /\ \A i \in LeavesOf(t) : at[i] \in WordsIn(s, lo, hi) /\ s[at[i]] = t[i][1]
        /\ \A i, j \in LeavesOf(t) : i < j => at[i] < at[j]
        /\ \A w \in WordsIn(s, lo, hi) : \E i \in LeavesOf(t) : at[i] = w

LEMMA AccountsConcat ==
    ASSUME NEW s, NEW t \in Tree, NEW u \in Tree,
           NEW lo \in Nat, NEW mid \in Nat, NEW hi \in Nat, lo <= mid, mid <= hi,
           Accounts(s, t, lo, mid), Accounts(s, u, mid, hi)
    PROVE  Accounts(s, t \o u, lo, hi)
<1> DEFINE n == Len(t)
           v == t \o u
<1>1. PICK a :
        /\ \A i \in LeavesOf(t) : a[i] \in WordsIn(s, lo, mid) /\ s[a[i]] = t[i][1]
        /\ \A i, j \in LeavesOf(t) : i < j => a[i] < a[j]
        /\ \A w \in WordsIn(s, lo, mid) : \E i \in LeavesOf(t) : a[i] = w
  BY DEF Accounts
<1>2. PICK b :
        /\ \A i \in LeavesOf(u) : b[i] \in WordsIn(s, mid, hi) /\ s[b[i]] = u[i][1]
        /\ \A i, j \in LeavesOf(u) : i < j => b[i] < b[j]
        /\ \A w \in WordsIn(s, mid, hi) : \E i \in LeavesOf(u) : b[i] = w
  BY DEF Accounts
<1>3. /\ n \in Nat /\ Len(u) \in Nat /\ DOMAIN t = 1 .. n /\ DOMAIN u = 1 .. Len(u)
      /\ DOMAIN v = 1 .. n + Len(u)
      /\ \A i \in 1 .. n + Len(u) : v[i] = IF i <= n THEN t[i] ELSE u[i - n]
  BY ConcatProperties DEF Tree
<1> HIDE DEF n, v
<1>4. \A i \in LeavesOf(v) : /\ i \in Nat
                             /\ i <= n => i \in LeavesOf(t) /\ v[i] = t[i]
                             /\ i > n => i - n \in LeavesOf(u) /\ v[i] = u[i - n]
  BY <1>3 DEF LeavesOf
<1>5. /\ \A i \in LeavesOf(t) : i \in LeavesOf(v) /\ i <= n
      /\ \A i \in LeavesOf(u) : i \in Nat /\ i + n \in LeavesOf(v) /\ i + n > n
  BY <1>3 DEF LeavesOf
<1>6. /\ WordsIn(s, lo, hi) = WordsIn(s, lo, mid) \cup WordsIn(s, mid, hi)
      /\ \A w \in WordsIn(s, lo, mid), x \in WordsIn(s, mid, hi) : w < x
  BY DEF WordsIn
<1> DEFINE c == [i \in LeavesOf(v) |-> IF i <= n THEN a[i] ELSE b[i - n]]
<1>7. ASSUME NEW i \in LeavesOf(v)
      PROVE  c[i] \in WordsIn(s, lo, hi) /\ s[c[i]] = v[i][1]
  BY <1>1, <1>2, <1>3, <1>4, <1>6
<1>8. ASSUME NEW i \in LeavesOf(v), NEW j \in LeavesOf(v), i < j
      PROVE  c[i] < c[j]
  <2>1. CASE j <= n
    BY <1>1, <1>3, <1>4, <1>8, <2>1
  <2>2. CASE i > n
    <3>1. i - n < j - n
      BY <1>3, <1>4, <1>8
    <3> QED BY <1>2, <1>3, <1>4, <1>8, <2>2, <3>1
  <2>3. CASE i <= n /\ j > n
    <3>1. c[i] \in WordsIn(s, lo, mid) /\ c[j] \in WordsIn(s, mid, hi)
      BY <1>1, <1>2, <1>3, <1>4, <2>3
    <3> QED BY <1>6, <3>1
  <2> QED BY <1>3, <1>4, <2>1, <2>2, <2>3
<1>9. ASSUME NEW w \in WordsIn(s, lo, hi)
      PROVE  \E i \in LeavesOf(v) : c[i] = w
  <2>1. CASE w \in WordsIn(s, lo, mid)
    BY <1>1, <1>5, <2>1
  <2>2. CASE w \in WordsIn(s, mid, hi)
    <3>1. PICK i \in LeavesOf(u) : b[i] = w
      BY <1>2, <2>2
    <3>2. i + n \in LeavesOf(v) /\ ~(i + n <= n) /\ (i + n) - n = i
      BY <1>3, <1>5
    <3>3. c[i + n] = b[i]
      BY <3>2
    <3> QED BY <3>1, <3>2, <3>3
  <2> QED BY <1>6, <2>1, <2>2
<1> HIDE DEF c
<1>10. Accounts(s, v, lo, hi)
  BY <1>7, <1>8, <1>9 DEF Accounts
<1> QED BY <1>10 DEF v

LEMMA AccountsNothing ==
    ASSUME NEW s, NEW t, NEW lo, NEW hi, LeavesOf(t) = {}, WordsIn(s, lo, hi) = {}
    PROVE  Accounts(s, t, lo, hi)
BY DEF Accounts

LEMMA AccountsWord ==
    ASSUME NEW s, NEW w, NEW lo, NEW hi, WordsIn(s, lo, hi) = {w}, s[w] \in Operand
    PROVE  Accounts(s, <<<<s[w], 0>>>>, lo, hi)
<1> DEFINE t == <<<<s[w], 0>>>>
<1>1. LeavesOf(t) = {1} /\ t[1][1] = s[w]
  BY DEF LeavesOf
<1>2. [i \in {1} |-> w][1] = w
  OBVIOUS
<1> HIDE DEF t
<1>3. \A i, j \in {1} : ~(i < j)
  OBVIOUS
<1>4. Accounts(s, t, lo, hi)
  BY <1>1, <1>2, <1>3 DEF Accounts
<1> QED BY <1>4 DEF t

(* A node that is no leaf accounts for nothing.                             *)
LEMMA NoLeaf ==
    ASSUME NEW label, NEW n, n # 0 \/ label \notin Operand
    PROVE  LeavesOf(<<<<label, n>>>>) = {} /\ LeavesOf(<<>>) = {}
BY DEF LeavesOf

(* What the parser moves over when it takes a token.                        *)
LEMMA PastToken ==
    ASSUME src \in Source, NEW p \in 1 .. Len(src) + 1
    PROVE  /\ TokenAt(p) \notin Operand => WordsIn(src, p - 1, Past(p) - 1) = {}
           /\ TokenAt(p) \in Operand => /\ WordsIn(src, p - 1, Past(p) - 1) = {Skip(p)}
                                        /\ src[Skip(p)] = TokenAt(p)
<1>1. Len(src) \in Nat /\ Skip(p) \in p .. Len(src) + 1
  BY SkipIs, SourceType
<1>2. \A r \in p .. Skip(p) - 1 : src[r] \notin Operand
  BY SkipIs, NoOperands
<1>3. CASE TokenAt(p) = "EOF"
  <2>1. Past(p) = Skip(p) /\ TokenAt(p) \notin Operand
    BY <1>3, TokenIs, NoOperands
  <2> QED BY <1>1, <1>2, <2>1 DEF WordsIn
<1>4. CASE TokenAt(p) # "EOF"
  <2>1. Past(p) = Skip(p) + 1 /\ src[Skip(p)] = TokenAt(p)
    BY <1>4, TokenIs
  <2> QED BY <1>1, <1>2, <2>1 DEF WordsIn
<1> QED BY <1>3, <1>4

LEMMA TokenAccounts ==
    ASSUME src \in Source, NEW p \in 1 .. Len(src) + 1
    PROVE  /\ Accounts(src, <<<<TokenAt(p), 0>>>>, p - 1, Past(p) - 1)
           /\ TokenAt(p) \notin Operand => Accounts(src, <<>>, p - 1, Past(p) - 1)
<1>1. CASE TokenAt(p) \in Operand
  BY <1>1, PastToken, AccountsWord
<1>2. CASE TokenAt(p) \notin Operand
  BY <1>2, PastToken, NoLeaf, AccountsNothing
<1> QED BY <1>1, <1>2

(***************************************************************************)
(* The inductive invariant                                                 *)
(***************************************************************************)

Frames == [todo : Seq(Script), stop : Token, min : 0 .. 251, tree : Tree, n : Nat]

Typed ==
    /\ src \in Source
    /\ pos \in 1 .. Len(src) + 1
    /\ stack \in Seq(Frames)
    /\ ast \in Tree
    /\ status \in {"run", "done", "panic", "fault"}

(* The outermost call is the one that reads the source, to its end.         *)
Outermost ==
    status = "run" =>
        /\ stack # <<>>
        /\ \/ stack[1].todo = <<Do("source_items")>>
           \/ stack[1].todo = <<>> /\ Len(stack) = 1 /\ TokenAt(pos) = "EOF"

(* Each call accounts for a part of the text, the calls it has made for the *)
(* part behind it.                                                          *)
Cuts(cut) ==
    /\ cut[0] = 0 /\ cut[Len(stack)] = pos - 1
    /\ \A k \in 0 .. Len(stack) : cut[k] \in 0 .. pos - 1
    /\ \A k \in 1 .. Len(stack) :
           cut[k - 1] <= cut[k] /\ Accounts(src, stack[k].tree, cut[k - 1], cut[k])

Accounted == status = "run" => \E cut : Cuts(cut)

Finished == status = "done" => Accounts(src, ast, 0, Len(src))

ParserInv == Typed /\ Outermost /\ Accounted /\ Finished

(***************************************************************************)
(* What the operations on a frame do to it                                 *)
(***************************************************************************)

LEMMA FrameIs ==
    ASSUME NEW f \in Frames
    PROVE  /\ f.todo \in Seq(Script) /\ f.tree \in Tree /\ f.n \in Nat
           /\ f.stop \in Token /\ f.min \in 0 .. 251
           /\ f.todo # <<>> => f.todo[1] \in Script /\ Tail(f.todo) \in Seq(Script)
<1>1. f.todo \in Seq(Script) /\ f.tree \in Tree /\ f.n \in Nat
      /\ f.stop \in Token /\ f.min \in 0 .. 251
  BY DEF Frames
<1>2. ASSUME f.todo # <<>>
      PROVE  f.todo[1] \in Script /\ Tail(f.todo) \in Seq(Script)
  <2>1. Len(f.todo) \in Nat \ {0}
    BY <1>1, <1>2, EmptySeq
  <2> QED BY <1>1, <1>2, <2>1, ElementOfSeq, HeadTailProperties
<1> QED BY <1>1, <1>2

LEMMA Retodo ==
    ASSUME NEW f \in Frames, NEW todo \in Seq(Script)
    PROVE  /\ [f EXCEPT !.todo = todo] \in Frames
           /\ [f EXCEPT !.todo = todo].tree = f.tree
           /\ [f EXCEPT !.todo = todo].todo = todo
BY DEF Frames

LEMMA FirstIs ==
    ASSUME NEW f \in Frames, NEW steps \in Seq(Script)
    PROVE  First(f, steps) \in Frames /\ First(f, steps).tree = f.tree
<1>1. steps \o f.todo \in Seq(Script)
  BY FrameIs, ConcatProperties
<1> QED BY <1>1 DEF First, Frames

LEMMA DoneIs ==
    ASSUME NEW f \in Frames, f.todo # <<>>
    PROVE  /\ Done(f) \in Frames /\ Done(f).tree = f.tree
           /\ Done(f).todo = Tail(f.todo)
<1>1. Tail(f.todo) \in Seq(Script)
  BY FrameIs
<1> QED BY <1>1 DEF Done, Frames

LEMMA InsteadIs ==
    ASSUME NEW f \in Frames, f.todo # <<>>, NEW steps \in Seq(Script)
    PROVE  Instead(f, steps) \in Frames /\ Instead(f, steps).tree = f.tree
<1>1. steps \o Tail(f.todo) \in Seq(Script)
  BY FrameIs, ConcatProperties
<1> QED BY <1>1 DEF Instead, Frames

LEMMA AddIs ==
    ASSUME NEW f \in Frames, NEW x \in Tree
    PROVE  Add(f, x) \in Frames /\ Add(f, x).tree = f.tree \o x /\ Add(f, x).todo = f.todo
<1>1. f.tree \o x \in Tree /\ f.n + 1 \in Nat
  BY FrameIs, ConcatProperties DEF Tree
<1> QED BY <1>1 DEF Add, Frames

LEMMA JoinIs ==
    ASSUME NEW f \in Frames, NEW label \in Label
    PROVE  /\ Join(f, label) \in Frames /\ Join(f, label).tree = <<<<label, f.n>>>> \o f.tree
           /\ Join(f, label).todo = f.todo
<1>1. <<<<label, f.n>>>> \in Tree /\ f.tree \in Tree
  BY FrameIs DEF Tree
<1>2. <<<<label, f.n>>>> \o f.tree \in Tree
  BY <1>1, ConcatProperties DEF Tree
<1> QED BY <1>2 DEF Join, Frames

LEMMA NewFrame ==
    ASSUME NEW todo \in Seq(Script), NEW stop \in Token, NEW min \in 0 .. 251
    PROVE  Frame(todo, stop, min) \in Frames /\ Frame(todo, stop, min).tree = <<>>
BY EmptySeq DEF Frame, Frames, Tree

LEMMA TopIs ==
    ASSUME Typed, Ready
    PROVE  /\ Len(stack) \in Nat \ {0} /\ Top = stack[Len(stack)] /\ Top \in Frames
           /\ Top.todo \in Seq(Script) /\ Top.tree \in Tree /\ Top.stop \in Token
           /\ Top.todo # <<>> => Top.todo[1] \in Script
<1>1. Len(stack) \in Nat \ {0} /\ stack \in Seq(Frames)
  BY EmptySeq DEF Typed, Ready
<1>2. Top = stack[Len(stack)] /\ Top \in Frames
  BY <1>1, ElementOfSeq DEF Top
<1> QED BY <1>1, <1>2, FrameIs

(* The innermost call may become g when the lexer is at p.                  *)
Grows(g, p) ==
    /\ g \in Frames
    /\ p \in pos .. Len(src) + 1
    /\ \A lo \in 0 .. pos - 1 :
           Accounts(src, Top.tree, lo, pos - 1) => Accounts(src, g.tree, lo, p - 1)

LEMMA GrowsBy ==
    ASSUME Typed, Ready, NEW g \in Frames, NEW x \in Tree, NEW p \in pos .. Len(src) + 1,
           g.tree = Top.tree \o x, Accounts(src, x, pos - 1, p - 1)
    PROVE  Grows(g, p)
<1>1. pos \in 1 .. Len(src) + 1 /\ Len(src) \in Nat
  BY SourceType DEF Typed
<1>2. ASSUME NEW lo \in 0 .. pos - 1, Accounts(src, Top.tree, lo, pos - 1)
      PROVE  Accounts(src, g.tree, lo, p - 1)
  <2>1. Top.tree \in Tree
    BY TopIs
  <2>2. lo \in Nat /\ pos - 1 \in Nat /\ p - 1 \in Nat /\ lo <= pos - 1 /\ pos - 1 <= p - 1
    BY <1>1
  <2> QED BY <1>2, <2>1, <2>2, AccountsConcat
<1> QED BY <1>2 DEF Grows

(* Nothing is read and no leaf built.                                       *)
LEMMA GrowsStill ==
    ASSUME Typed, Ready, NEW g \in Frames, g.tree = Top.tree
    PROVE  Grows(g, pos)
<1>1. pos \in pos .. Len(src) + 1
  BY SourceType DEF Typed
<1> QED BY <1>1 DEF Grows

(* A token is read that is no name.                                         *)
LEMMA GrowsOver ==
    ASSUME Typed, Ready, NEW g \in Frames, g.tree = Top.tree, Peek \notin Operand
    PROVE  Grows(g, Past(pos))
<1>1. src \in Source /\ pos \in 1 .. Len(src) + 1
  BY DEF Typed
<1>2. Past(pos) \in pos .. Len(src) + 1 /\ Accounts(src, <<>>, pos - 1, Past(pos) - 1)
  BY <1>1, TokenIs, TokenAccounts DEF Peek
<1>3. <<>> \in Tree /\ g.tree = Top.tree \o <<>>
  BY TopIs, EmptySeq, ConcatEmptySeq DEF Tree
<1> QED BY <1>2, <1>3, GrowsBy

(* A token is read and kept.                                                *)
LEMMA GrowsWord ==
    ASSUME Typed, Ready, NEW f \in Frames, f.tree = Top.tree
    PROVE  Grows(Add(f, <<<<Peek, 0>>>>), Past(pos))
<1>1. src \in Source /\ pos \in 1 .. Len(src) + 1
  BY DEF Typed
<1>2. /\ Past(pos) \in pos .. Len(src) + 1
      /\ Accounts(src, <<<<Peek, 0>>>>, pos - 1, Past(pos) - 1) /\ Peek \in Token
  BY <1>1, TokenIs, TokenAccounts DEF Peek
<1>3. <<<<Peek, 0>>>> \in Tree
  BY <1>2, Labels DEF Tree
<1>4. /\ Add(f, <<<<Peek, 0>>>>) \in Frames
      /\ Add(f, <<<<Peek, 0>>>>).tree = Top.tree \o <<<<Peek, 0>>>>
  BY <1>3, AddIs
<1> QED BY <1>2, <1>3, <1>4, GrowsBy

(* A node is put above what is built.                                       *)
LEMMA GrowsUp ==
    ASSUME Typed, Ready, NEW f \in Frames, NEW label \in Label \ Operand,
           NEW p, Grows(f, p)
    PROVE  Grows(Join(f, label), p)
<1>1. pos \in 1 .. Len(src) + 1 /\ Len(src) \in Nat
  BY SourceType DEF Typed
<1>2. /\ Join(f, label) \in Frames /\ Join(f, label).tree = <<<<label, f.n>>>> \o f.tree
      /\ f.tree \in Tree /\ f.n \in Nat
  BY JoinIs, FrameIs DEF Grows
<1>3. ASSUME NEW lo \in 0 .. pos - 1, Accounts(src, f.tree, lo, p - 1)
      PROVE  Accounts(src, Join(f, label).tree, lo, p - 1)
  <2>1. LeavesOf(<<<<label, f.n>>>>) = {}
    BY NoLeaf
  <2>2. WordsIn(src, lo, lo) = {}
    BY DEF WordsIn
  <2>3. Accounts(src, <<<<label, f.n>>>>, lo, lo)
    BY <2>1, <2>2, AccountsNothing
  <2>4. <<<<label, f.n>>>> \in Tree
    BY <1>2 DEF Tree
  <2>5. lo \in Nat /\ p - 1 \in Nat /\ lo <= p - 1
    BY <1>1 DEF Grows
  <2> QED BY <1>2, <1>3, <2>3, <2>4, <2>5, AccountsConcat
<1> QED BY <1>2, <1>3 DEF Grows

(***************************************************************************)
(* The ways a step changes the calls in progress                           *)
(***************************************************************************)

LEMMA StopKeeps ==
    ASSUME ParserInv, Panic \/ Fault
    PROVE  ParserInv'
<1>1. UNCHANGED <<src, pos, stack, ast>> /\ status' \in {"panic", "fault"}
  BY DEF Panic, Fault
<1> QED BY <1>1 DEF ParserInv, Typed, Outermost, Accounted, Finished

(* Only the outermost call of all is still at the items of the source.      *)
LEMMA Inner ==
    ASSUME ParserInv, Ready, Top.todo # <<>>, Top.todo[1].do # "source_items"
    PROVE  Len(stack) > 1 /\ stack[1].todo = <<Do("source_items")>>
<1>1. status = "run" /\ Len(stack) \in Nat \ {0} /\ Top = stack[Len(stack)]
  BY TopIs DEF Ready, ParserInv
<1>2. <<Do("source_items")>>[1].do = "source_items"
  BY DEF Do
<1>3. \/ stack[1].todo = <<Do("source_items")>>
      \/ stack[1].todo = <<>> /\ Len(stack) = 1
  BY <1>1 DEF ParserInv, Outermost
<1>4. Len(stack) # 1
  <2> SUFFICES ASSUME Len(stack) = 1 PROVE FALSE
    OBVIOUS
  <2>1. stack[1].todo = Top.todo
    BY <1>1
  <2>2. Top.todo[1].do = "source_items"
    BY <1>2, <1>3, <2>1
  <2> QED BY <2>2
<1>5. Len(stack) > 1
  <2>1. Len(stack) \in Nat /\ Len(stack) # 0
    BY <1>1
  <2> QED BY ONLY <1>4, <2>1
<1> QED BY <1>3, <1>4, <1>5

Outside(g) == \/ Top.todo # <<>> /\ Top.todo[1].do # "source_items"
              \/ g.todo = Top.todo /\ Top.todo # <<>>

LEMMA BecomeCounts ==
    ASSUME ParserInv, Ready, NEW g, NEW p, Grows(g, p), pos' = p, Become(g), Keep,
           Outermost'
    PROVE  ParserInv'
<1> DEFINE n == Len(stack)
<1>1. /\ n \in Nat \ {0} /\ Top = stack[n] /\ stack \in Seq(Frames) /\ g \in Frames
      /\ pos \in 1 .. Len(src) + 1 /\ p \in pos .. Len(src) + 1 /\ Len(src) \in Nat
      /\ status = "run"
  BY TopIs, SourceType DEF ParserInv, Typed, Grows, Ready
<1>2. /\ stack' \in Seq(Frames) /\ Len(stack') = n
      /\ \A k \in 1 .. n : stack'[k] = IF k = n THEN g ELSE stack[k]
  BY <1>1, ExceptSeq DEF Become
<1>3. src' = src /\ ast' = ast /\ status' = status
  BY DEF Keep
<1>4. Typed'
  BY <1>1, <1>2, <1>3 DEF ParserInv, Typed
<1>5. Accounted'
  <2>1. PICK cut : Cuts(cut)
    BY <1>1 DEF ParserInv, Accounted
  <2>2. PICK c : c = [k \in 0 .. n |-> IF k = n THEN p - 1 ELSE cut[k]]
    OBVIOUS
  <2>3. cut[n - 1] \in 0 .. pos - 1 /\ Accounts(src, g.tree, cut[n - 1], p - 1)
    BY <1>1, <2>1 DEF Cuts, Grows
  <2>4. ASSUME NEW k \in 1 .. n
        PROVE  c[k - 1] <= c[k] /\ Accounts(src, stack'[k].tree, c[k - 1], c[k])
    <3>1. CASE k = n
      <4>1. c[k - 1] = cut[n - 1] /\ c[k] = p - 1 /\ stack'[k] = g
        BY <1>1, <1>2, <2>2, <3>1
      <4> QED BY <1>1, <2>3, <4>1
    <3>2. CASE k # n
      <4>1. c[k - 1] = cut[k - 1] /\ c[k] = cut[k] /\ stack'[k] = stack[k]
        BY <1>1, <1>2, <2>2, <2>4, <3>2
      <4> QED BY <2>1, <2>4, <4>1 DEF Cuts
    <3> QED BY <3>1, <3>2
  <2>5. c[0] = 0 /\ c[n] = p - 1 /\ \A k \in 0 .. n : c[k] \in 0 .. p - 1
    BY <1>1, <2>1, <2>2 DEF Cuts
  <2>6. Cuts(c)'
    BY <1>2, <1>3, <2>4, <2>5 DEF Cuts
  <2> QED BY <2>6 DEF Accounted
<1>6. Finished'
  BY <1>1, <1>3 DEF Finished
<1> QED BY <1>4, <1>5, <1>6 DEF ParserInv

LEMMA BecomeKeeps ==
    ASSUME ParserInv, Ready, NEW g, NEW p, Grows(g, p), Outside(g),
           pos' = p, Become(g), Keep
    PROVE  ParserInv'
<1> DEFINE n == Len(stack)
<1>1. n \in Nat \ {0} /\ Top = stack[n] /\ stack \in Seq(Frames) /\ status = "run"
  BY TopIs DEF ParserInv, Typed, Ready
<1>2. Len(stack') = n /\ \A k \in 1 .. n : stack'[k] = IF k = n THEN g ELSE stack[k]
  BY <1>1, ExceptSeq DEF Become, Grows
<1>3. stack' # <<>>
  BY <1>1, <1>2
<1>4. Outermost'
  <2>1. CASE n > 1 /\ stack[1].todo = <<Do("source_items")>>
    <3>1. stack'[1] = stack[1]
      <4>1. 1 \in 1 .. n /\ 1 # n
        BY <1>1, <2>1
      <4> QED BY <1>2, <4>1
    <3> QED BY <1>3, <2>1, <3>1 DEF Outermost
  <2>2. CASE ~(Top.todo[1].do # "source_items")
    <3>1. g.todo = Top.todo /\ Top.todo # <<>>
      BY <2>2 DEF Outside
    <3>2. stack'[1].todo = stack[1].todo
      BY <1>1, <1>2, <3>1
    <3>3. stack[1].todo = <<Do("source_items")>>
      BY <1>1, <3>1 DEF ParserInv, Outermost
    <3> QED BY <1>3, <3>2, <3>3 DEF Outermost
  <2> QED BY <2>1, <2>2, Inner DEF Outside
<1> QED BY <1>4, BecomeCounts

(* The items of the source end where it ends.                               *)
LEMMA EndKeeps ==
    ASSUME ParserInv, Ready, Top.todo # <<>>, NEW g, Grows(g, pos), TokenAt(pos) = "EOF",
           g.todo = Tail(Top.todo), pos' = pos, Become(g), Keep
    PROVE  ParserInv'
<1> DEFINE n == Len(stack)
<1>1. n \in Nat \ {0} /\ Top = stack[n] /\ stack \in Seq(Frames) /\ status = "run"
  BY TopIs DEF ParserInv, Typed, Ready
<1>2. Len(stack') = n /\ \A k \in 1 .. n : stack'[k] = IF k = n THEN g ELSE stack[k]
  BY <1>1, ExceptSeq DEF Become, Grows
<1>3. stack' # <<>>
  BY <1>1, <1>2
<1>4. \/ stack[1].todo = <<Do("source_items")>>
      \/ stack[1].todo = <<>> /\ n = 1
  BY <1>1 DEF ParserInv, Outermost
<1>5. Outermost'
  <2>1. CASE n = 1
    <3>1. Top.todo = <<Do("source_items")>>
      BY <1>1, <1>4, <2>1
    <3>2. stack'[1].todo = <<>>
      BY <1>2, <2>1, <3>1
    <3>3. TokenAt(pos)' = "EOF"
      BY DEF TokenAt, Skip, Keep
    <3> QED BY <1>2, <1>3, <2>1, <3>2, <3>3 DEF Outermost
  <2>2. CASE n # 1
    <3>1. stack'[1] = stack[1]
      <4>1. 1 \in 1 .. n /\ 1 # n
        BY <1>1, <2>2
      <4> QED BY <1>2, <4>1
    <3> QED BY <1>3, <1>4, <2>2, <3>1 DEF Outermost
  <2> QED BY <2>1, <2>2
<1> QED BY <1>5, BecomeCounts

LEMMA CallKeeps ==
    ASSUME ParserInv, Ready, NEW g, NEW h \in Frames, NEW p, Grows(g, p), Outside(g),
           h.tree = <<>>, pos' = p, Call(g, h), Keep
    PROVE  ParserInv'
<1> DEFINE n == Len(stack)
<1>1. /\ n \in Nat \ {0} /\ Top = stack[n] /\ stack \in Seq(Frames) /\ g \in Frames
      /\ pos \in 1 .. Len(src) + 1 /\ p \in pos .. Len(src) + 1 /\ Len(src) \in Nat
      /\ status = "run"
  BY TopIs, SourceType DEF ParserInv, Typed, Grows, Ready
<1>2. /\ stack' \in Seq(Frames) /\ Len(stack') = n + 1
      /\ \A k \in 1 .. n : stack'[k] = IF k = n THEN g ELSE stack[k]
      /\ stack'[n + 1] = h
  <2> DEFINE t == [stack EXCEPT ![n] = g]
  <2>1. t \in Seq(Frames) /\ Len(t) = n /\ \A k \in 1 .. n : t[k] = IF k = n THEN g ELSE stack[k]
    BY <1>1, ExceptSeq
  <2>2. stack' = Append(t, h)
    BY DEF Call
  <2> HIDE DEF t, n
  <2> QED BY <1>1, <2>1, <2>2, AppendProperties
<1>3. src' = src /\ ast' = ast /\ status' = status
  BY DEF Keep
<1>4. Typed'
  BY <1>1, <1>2, <1>3 DEF ParserInv, Typed
<1>5. Outermost'
  <2>1. stack' # <<>>
    BY <1>1, <1>2
  <2>2. CASE n > 1 /\ stack[1].todo = <<Do("source_items")>>
    <3>1. stack'[1] = stack[1]
      <4>1. 1 \in 1 .. n /\ 1 # n
        BY <1>1, <2>2
      <4> QED BY <1>2, <4>1
    <3> QED BY <2>1, <2>2, <3>1 DEF Outermost
  <2>3. CASE ~(Top.todo[1].do # "source_items")
    <3>1. g.todo = Top.todo /\ Top.todo # <<>>
      BY <2>3 DEF Outside
    <3>2. stack'[1].todo = stack[1].todo
      BY <1>1, <1>2, <3>1
    <3>3. stack[1].todo = <<Do("source_items")>>
      BY <1>1, <3>1 DEF ParserInv, Outermost
    <3> QED BY <2>1, <3>2, <3>3 DEF Outermost
  <2> QED BY <2>2, <2>3, Inner DEF Outside
<1>6. Accounted'
  <2>1. PICK cut : Cuts(cut)
    BY <1>1 DEF ParserInv, Accounted
  <2>2. PICK c : c = [k \in 0 .. n + 1 |-> IF k >= n THEN p - 1 ELSE cut[k]]
    OBVIOUS
  <2>3. cut[n - 1] \in 0 .. pos - 1 /\ Accounts(src, g.tree, cut[n - 1], p - 1)
    BY <1>1, <2>1 DEF Cuts, Grows
  <2>4. ASSUME NEW k \in 1 .. n + 1
        PROVE  c[k - 1] <= c[k] /\ Accounts(src, stack'[k].tree, c[k - 1], c[k])
    <3>1. CASE k = n
      <4>1. c[k - 1] = cut[n - 1] /\ c[k] = p - 1 /\ stack'[k] = g
        BY <1>1, <1>2, <2>2, <3>1
      <4> QED BY <1>1, <2>3, <4>1
    <3>2. CASE k < n
      <4>1. c[k - 1] = cut[k - 1] /\ c[k] = cut[k] /\ stack'[k] = stack[k]
        <5>1. /\ k \in 1 .. n /\ k \in 0 .. n + 1 /\ k - 1 \in 0 .. n + 1
              /\ ~(k >= n) /\ ~(k - 1 >= n) /\ k # n
          BY <1>1, <2>4, <3>2
        <5> QED BY <1>2, <2>2, <5>1
      <4> QED BY <1>1, <2>1, <2>4, <3>2, <4>1 DEF Cuts
    <3>3. CASE k = n + 1
      <4>1. c[k - 1] = p - 1 /\ c[k] = p - 1 /\ stack'[k] = h
        BY <1>1, <1>2, <2>2, <3>3
      <4>2. WordsIn(src, p - 1, p - 1) = {} /\ LeavesOf(<<>>) = {} /\ p - 1 <= p - 1
        BY <1>1 DEF WordsIn, LeavesOf
      <4>3. Accounts(src, <<>>, p - 1, p - 1)
        BY <4>2, AccountsNothing
      <4> QED BY <4>1, <4>2, <4>3
    <3> QED BY <1>1, <3>1, <3>2, <3>3
  <2>5. c[0] = 0 /\ c[n + 1] = p - 1 /\ \A k \in 0 .. n + 1 : c[k] \in 0 .. p - 1
    BY <1>1, <2>1, <2>2 DEF Cuts
  <2>6. Cuts(c)'
    BY <1>2, <1>3, <2>4, <2>5 DEF Cuts
  <2> QED BY <2>6 DEF Accounted
<1>7. Finished'
  BY <1>1, <1>3 DEF Finished
<1> QED BY <1>4, <1>5, <1>6, <1>7 DEF ParserInv

(* A call returns, and its tree stands for its part of the text.            *)
LEMMA ReturnKeeps ==
    ASSUME ParserInv, Return
    PROVE  ParserInv'
<1> DEFINE m == Len(stack)
<1>1. /\ Ready /\ m \in Nat \ {0} /\ Top = stack[m] /\ stack \in Seq(Frames)
      /\ pos \in 1 .. Len(src) + 1 /\ Len(src) \in Nat /\ src \in Source
      /\ status = "run" /\ Top.todo = <<>> /\ Top.tree \in Tree
      /\ src' = src /\ pos' = pos
  BY TopIs, SourceType DEF ParserInv, Typed, Ready, Return
<1>2. PICK cut : Cuts(cut)
  BY <1>1 DEF ParserInv, Accounted
<1>3. CASE m = 1
  <2>1. ast' = Top.tree /\ status' = "done" /\ stack' = <<>>
    BY <1>3 DEF Return
  <2>2. TokenAt(pos) = "EOF"
    <3>1. <<Do("source_items")>> # <<>>
      OBVIOUS
    <3> QED BY <1>1, <1>3, <3>1 DEF ParserInv, Outermost
  <2>3. WordsIn(src, pos - 1, Len(src)) = {}
    <3>1. \A q \in pos .. Len(src) : src[q] \notin Operand
      <4>1. Skip(pos) = Len(src) + 1
        BY <1>1, <2>2, TokenIs
      <4>2. \A q \in pos .. Len(src) : src[q] \in Comment
        BY <1>1, <4>1, SkipIs
      <4> QED BY <4>2, NoOperands
    <3> QED BY <1>1, <3>1 DEF WordsIn
  <2>4. Accounts(src, <<>>, pos - 1, Len(src)) /\ <<>> \in Tree
    BY <2>3, AccountsNothing, EmptySeq DEF LeavesOf, Tree
  <2>5. Accounts(src, Top.tree, 0, pos - 1)
    <3>1. cut[1 - 1] = 0 /\ cut[1] = pos - 1
      BY <1>2, <1>3 DEF Cuts
    <3>2. Accounts(src, stack[1].tree, cut[1 - 1], cut[1])
      BY <1>2, <1>3 DEF Cuts
    <3> QED BY <1>1, <1>3, <3>1, <3>2
  <2>6. Accounts(src, Top.tree \o <<>>, 0, Len(src))
    <3>1. 0 \in Nat /\ pos - 1 \in Nat /\ 0 <= pos - 1 /\ pos - 1 <= Len(src)
      BY <1>1
    <3> QED BY <1>1, <2>4, <2>5, <3>1, AccountsConcat
  <2>7. Top.tree \o <<>> = Top.tree
    BY <1>1, ConcatEmptySeq DEF Tree
  <2>8. Typed' /\ Finished'
    BY <1>1, <2>1, <2>6, <2>7, EmptySeq DEF ParserInv, Typed, Finished
  <2> QED BY <2>1, <2>8 DEF ParserInv, Outermost, Accounted
<1>4. CASE m # 1
  <2> DEFINE n == m - 1
             f == Add(stack[n], Top.tree)
  <2>1. /\ n \in Nat \ {0} /\ n <= m /\ n + 1 = m
        /\ stack' = [SubSeq(stack, 1, n) EXCEPT ![n] = Add(@, Top.tree)]
        /\ ast' = ast /\ status' = status
    BY <1>1, <1>4 DEF Return
  <2>2. /\ stack[n] \in Frames /\ f \in Frames
        /\ f.tree = stack[n].tree \o Top.tree /\ f.todo = stack[n].todo
        /\ stack[n].tree \in Tree
    <3>1. stack[n] \in Frames
      BY <1>1, <2>1, ElementOfSeq
    <3> QED BY <1>1, <3>1, AddIs, FrameIs
  <2>3. /\ stack' \in Seq(Frames) /\ Len(stack') = n
        /\ \A k \in 1 .. n : stack'[k] = IF k = n THEN f ELSE stack[k]
    <3> DEFINE t == SubSeq(stack, 1, n)
    <3>1. t \in Seq(Frames) /\ Len(t) = n /\ \A k \in 1 .. n : t[k] = stack[k]
      BY <1>1, <2>1, SubSeqProperties
    <3>2. stack' = [t EXCEPT ![n] = f]
      BY SMTT(30), <2>1, <3>1
    <3>3. n \in 1 .. Len(t)
      BY <2>1, <3>1
    <3> HIDE DEF t, f, n
    <3> QED BY <2>2, <3>1, <3>2, <3>3, ExceptSeq
  <2> HIDE DEF n, f
  <2>4. Typed'
    BY <1>1, <2>1, <2>3 DEF ParserInv, Typed
  <2>5. Outermost'
    <3>1. stack[1].todo = <<Do("source_items")>>
      BY <1>1, <1>4 DEF ParserInv, Outermost
    <3>2. stack'[1].todo = stack[1].todo /\ stack' # <<>>
      BY <2>1, <2>2, <2>3
    <3> QED BY <3>1, <3>2 DEF Outermost
  <2>6. Accounted'
    <3>1. PICK c : c = [k \in 0 .. n |-> IF k = n THEN pos - 1 ELSE cut[k]]
      OBVIOUS
    <3>2. /\ cut[n - 1] \in Nat /\ cut[n] \in Nat /\ cut[m] = pos - 1
          /\ cut[n - 1] <= cut[n] /\ cut[n] <= cut[m]
          /\ Accounts(src, stack[n].tree, cut[n - 1], cut[n])
          /\ Accounts(src, Top.tree, cut[n], cut[m])
      <4>1. n \in 1 .. m /\ m \in 1 .. m /\ m - 1 = n /\ n - 1 \in 0 .. m /\ n \in 0 .. m
        BY <1>1, <2>1
      <4> QED BY SMTT(30), <1>1, <1>2, <4>1 DEF Cuts
    <3>3. Accounts(src, f.tree, cut[n - 1], pos - 1)
      <4>1. pos - 1 \in Nat
        BY <1>1
      <4> QED BY <1>1, <2>2, <3>2, <4>1, AccountsConcat
    <3>4. ASSUME NEW k \in 1 .. n
          PROVE  c[k - 1] <= c[k] /\ Accounts(src, stack'[k].tree, c[k - 1], c[k])
      <4>1. CASE k = n
        <5>1. c[k - 1] = cut[n - 1] /\ c[k] = pos - 1 /\ stack'[k] = f
          BY <2>1, <2>3, <3>1, <4>1
        <5> QED BY <1>1, <3>2, <3>3, <5>1
      <4>2. CASE k # n
        <5>1. c[k - 1] = cut[k - 1] /\ c[k] = cut[k] /\ stack'[k] = stack[k]
          BY <2>1, <2>3, <3>1, <3>4, <4>2
        <5>2. k \in 1 .. m
          BY <1>1, <2>1, <3>4
        <5> QED BY <1>2, <5>1, <5>2 DEF Cuts
      <4> QED BY <4>1, <4>2
    <3>5. c[0] = 0 /\ c[n] = pos - 1 /\ \A k \in 0 .. n : c[k] \in 0 .. pos - 1
      BY <1>1, <1>2, <2>1, <3>1 DEF Cuts
    <3>6. Cuts(c)'
      BY <1>1, <2>3, <3>4, <3>5 DEF Cuts
    <3> QED BY <3>6 DEF Accounted
  <2>7. Finished'
    BY <1>1, <2>1 DEF Finished
  <2> QED BY <2>4, <2>5, <2>6, <2>7 DEF ParserInv
<1> QED BY <1>3, <1>4

(***************************************************************************)
(* The steps of every production                                           *)
(***************************************************************************)

LEMMA DoingIs ==
    ASSUME ParserInv, NEW what, Doing(what)
    PROVE  /\ Typed /\ Ready /\ Top \in Frames /\ Top.todo # <<>>
           /\ Top.todo[1] \in Script /\ Top.todo[1].do = what
           /\ Top.stop \in Token /\ Top.tree \in Tree /\ Peek \in Token
           /\ Done(Top) \in Frames /\ Done(Top).tree = Top.tree
<1>1. Typed /\ Ready /\ Top.todo # <<>> /\ Top.todo[1].do = what
  BY DEF Doing, ParserInv
<1>2. Peek \in Token
  BY <1>1, TokenIs DEF Typed, Peek
<1> QED BY <1>1, <1>2, TopIs, DoneIs

LEMMA Still ==
    ASSUME ParserInv, NEW what, what # "source_items", Doing(what),
           NEW g \in Frames, g.tree = Top.tree, Become(g), UNCHANGED pos, Keep
    PROVE  ParserInv'
<1>1. Grows(g, pos) /\ Ready /\ Outside(g)
  BY DoingIs, GrowsStill DEF Outside
<1> QED BY <1>1, BecomeKeeps

LEMMA Over ==
    ASSUME ParserInv, NEW what, what # "source_items", Doing(what), Peek \notin Operand,
           NEW g \in Frames, g.tree = Top.tree, Take(g)
    PROVE  ParserInv'
<1>1. Grows(g, Past(pos)) /\ Ready /\ Outside(g)
  BY DoingIs, GrowsOver DEF Outside
<1> QED BY <1>1, BecomeKeeps DEF Take

LEMMA Calls ==
    ASSUME ParserInv, NEW what, what # "source_items", Doing(what),
           NEW todo \in Seq(Script), NEW stop \in Token, NEW min \in 0 .. 251,
           NEW g \in {Top, Done(Top)}, Call(g, Frame(todo, stop, min)), Keep,
           pos' = pos \/ (pos' = Past(pos) /\ Peek \notin Operand)
    PROVE  ParserInv'
<1>1. Frame(todo, stop, min) \in Frames /\ Frame(todo, stop, min).tree = <<>>
  BY NewFrame
<1>2. g \in Frames /\ g.tree = Top.tree /\ Ready /\ Typed
  BY DoingIs
<1>3. Grows(g, pos')
  BY <1>2, GrowsStill, GrowsOver
<1>4. Outside(g)
  BY DoingIs DEF Outside
<1> QED BY <1>1, <1>2, <1>3, <1>4, CallKeeps

LEMMA ExpectTokenKeeps == ASSUME ParserInv, ExpectToken PROVE ParserInv'
<1>1. CASE Panic
  BY <1>1, StopKeeps
<1>2. CASE ~Panic
  <2>1. Doing("expect") /\ Kind(Peek) = Arg /\ Take(Done(Top))
    BY <1>2 DEF ExpectToken, Take
  <2>2. Arg \notin Operand /\ Arg # "IDENT" /\ Peek \in Token /\ Done(Top) \in Frames
        /\ Done(Top).tree = Top.tree
    BY <2>1, DoingIs DEF Script, Arg
  <2>3. Peek \notin Operand
    BY <2>1, <2>2, Kinds
  <2> QED BY <2>1, <2>2, <2>3, Over
<1> QED BY <1>1, <1>2

LEMMA KeepTokenKeeps == ASSUME ParserInv, KeepToken PROVE ParserInv'
<1>1. CASE Panic
  BY <1>1, StopKeeps
<1>2. CASE ~Panic
  <2> DEFINE g == Add(Done(Top), <<<<Peek, 0>>>>)
  <2>1. Doing("leaf") /\ pos' = Past(pos) /\ Become(g) /\ Keep
    BY <1>2 DEF KeepToken
  <2>2. Grows(g, Past(pos)) /\ Ready /\ Outside(g)
    BY <2>1, DoingIs, GrowsWord DEF Outside
  <2> QED BY <2>1, <2>2, BecomeKeeps
<1> QED BY <1>1, <1>2

LEMMA MakeNodeKeeps == ASSUME ParserInv, MakeNode PROVE ParserInv'
<1>1. Doing("node") /\ Become(Join(Done(Top), Arg)) /\ pos' = pos /\ Keep
  BY DEF MakeNode
<1>2. Arg \in Label \ Operand /\ Typed /\ Ready /\ Done(Top) \in Frames
      /\ Done(Top).tree = Top.tree
  BY <1>1, DoingIs DEF Script, Arg
<1>3. Grows(Join(Done(Top), Arg), pos)
  BY <1>2, GrowsStill, GrowsUp
<1>4. Outside(Join(Done(Top), Arg))
  BY <1>1, DoingIs DEF Outside
<1> QED BY <1>1, <1>2, <1>3, <1>4, BecomeKeeps

(***************************************************************************)
(* Expressions                                                             *)
(***************************************************************************)

LEMMA Numbers ==
    /\ 0 \in 0 .. 251 /\ PREFIX - 1 \in 0 .. 251 /\ POSTFIX - 1 \in 0 .. 251
    /\ \A t \in Infix : Precedence(t) + 1 \in 0 .. 251
    /\ Precedence("::") - 1 \in 0 .. 251
<1>1. \A t \in Infix : Precedence(t) \in 0 .. 250
  BY Levels
<1>2. Precedence("::") = 250
  <2>1. "=" \in Infix
    BY DEF Infix, Assign
  <2> QED BY <2>1, Levels
<1> QED BY <1>1, <1>2 DEF PREFIX, POSTFIX

LEMMA Short ==
    /\ \A a \in Script : <<a>> \in Seq(Script)
    /\ \A a, b \in Script : <<a, b>> \in Seq(Script)
    /\ \A a, b, c \in Script : <<a, b, c>> \in Seq(Script)
    /\ \A a, b, c, d \in Script : <<a, b, c, d>> \in Seq(Script)
    /\ \A a, b, c, d, e \in Script : <<a, b, c, d, e>> \in Seq(Script)
    /\ \A a, b, c, d, e, f \in Script : <<a, b, c, d, e, f>> \in Seq(Script)
OBVIOUS

LEMMA VisitExprKeeps == ASSUME ParserInv, VisitExpr PROVE ParserInv'
<1>1. /\ Doing("expr") /\ Keep /\ pos' = pos
      /\ Call(Done(Top), Frame(<<Do("primary"), Do("rest")>>, Arg, Top.todo[1].min))
  BY DEF VisitExpr
<1>2. Arg \in Token /\ Top.todo[1].min \in 0 .. 251
  BY <1>1, DoingIs DEF Script, Step, Arg
<1>3. <<Do("primary"), Do("rest")>> \in Seq(Script)
  <2>1. Do("primary") \in Script /\ Do("rest") \in Script
    BY Scripts DEF Marks
  <2> QED BY <2>1
<1> QED BY <1>1, <1>2, <1>3, Calls

LEMMA EmptyKeeps == ASSUME ParserInv, Empty PROVE ParserInv'
<1> DEFINE f == [Top EXCEPT !.todo = <<>>]
           x == <<<<"empty", 0>>>>
<1>1. Doing("primary") /\ Become(Add(f, x)) /\ pos' = pos /\ Keep
  BY DEF Empty
<1>2. Typed /\ Ready /\ Top \in Frames
  BY <1>1, DoingIs
<1>3. f \in Frames /\ f.tree = Top.tree
  BY <1>2, EmptySeq, Retodo
<1>4. x \in Tree
  BY Labels DEF Tree
<1>5. Add(f, x) \in Frames /\ Add(f, x).tree = Top.tree \o x
  BY <1>3, <1>4, AddIs
<1>6. Accounts(src, x, pos - 1, pos - 1)
  <2>1. WordsIn(src, pos - 1, pos - 1) = {} /\ LeavesOf(x) = {}
    <3>1. pos \in Int
      BY <1>2, SourceType DEF Typed
    <3>2. "empty" \notin Operand
      BY NoOperands
    <3>3. LeavesOf(x) = {}
      BY <3>2, NoLeaf
    <3> QED BY <3>1, <3>3 DEF WordsIn
  <2> QED BY <2>1, AccountsNothing
<1>7. Grows(Add(f, x), pos)
  <2>1. pos \in pos .. Len(src) + 1
    BY <1>2, SourceType DEF Typed
  <2> QED BY <1>2, <1>4, <1>5, <1>6, <2>1, GrowsBy
<1>8. Outside(Add(f, x))
  BY <1>1, DoingIs DEF Outside
<1> QED BY <1>1, <1>2, <1>7, <1>8, BecomeKeeps

LEMMA AtomKeeps == ASSUME ParserInv, Atom PROVE ParserInv'
<1> DEFINE g == Add(Done(Top), <<<<Peek, 0>>>>)
<1>1. Doing("primary") /\ pos' = Past(pos) /\ Become(g) /\ Keep
  BY DEF Atom, Starting, Take
<1>2. Grows(g, Past(pos)) /\ Ready /\ Outside(g)
  BY <1>1, DoingIs, GrowsWord DEF Outside
<1> QED BY <1>1, <1>2, BecomeKeeps

LEMMA GroupKeeps == ASSUME ParserInv, Group PROVE ParserInv'
<1>1. /\ Doing("primary") /\ Peek = "("
      /\ Take(Instead(Top, <<Expr(")", 0), Expect(")")>>))
  BY DEF Group, Starting
<1>2. Expr(")", 0) \in Script /\ Expect(")") \in Script /\ Peek \notin Operand
  BY <1>1, Points
<1>3. <<Expr(")", 0), Expect(")")>> \in Seq(Script)
  BY <1>2
<1> QED BY <1>1, <1>2, <1>3, DoingIs, InsteadIs, Over

LEMMA PrefixKeeps == ASSUME ParserInv, Prefix PROVE ParserInv'
<1>1. /\ Doing("primary") /\ Peek \in Unary
      /\ Take(Instead(Top, <<Expr(Top.stop, PREFIX - 1), Node(Peek)>>))
  BY DEF Prefix, Starting
<1>2. Peek \notin Operand /\ Peek \in Label /\ Peek # "IDENT"
  <2>1. "IDENT" \notin Unary
    BY DEF Unary
  <2> QED BY <1>1, <2>1, NoOperands, Tokens, Labels
<1>3. Expr(Top.stop, PREFIX - 1) \in Script /\ Node(Peek) \in Script
  BY <1>1, <1>2, DoingIs, Scripts, Numbers
<1>4. <<Expr(Top.stop, PREFIX - 1), Node(Peek)>> \in Seq(Script)
  BY <1>3
<1> QED BY <1>1, <1>2, <1>4, DoingIs, InsteadIs, Over

LEMMA ArrayKeeps == ASSUME ParserInv, Array PROVE ParserInv'
<1>1. Doing("primary") /\ Peek \notin Operand
  BY NoOperands DEF Array, Starting
<1>2. CASE Fault
  BY <1>2, StopKeeps
<1>3. ASSUME NEW steps \in Seq(Script), Take(Instead(Top, steps))
      PROVE  ParserInv'
  BY <1>1, <1>3, DoingIs, InsteadIs, Over
<1>4. /\ Expr(";", 0) \in Script /\ Expect(";") \in Script /\ Expr("]", 0) \in Script
      /\ Expect("]") \in Script /\ Node("repeat") \in Script
      /\ Expr(",", 0) \in Script /\ Expect(",") \in Script /\ Do("push") \in Script
  <2>1. Do("push") \in Script
    BY Scripts DEF Marks
  <2>2. \A t \in {";", "]", ","} : Expr(t, 0) \in Script /\ Expect(t) \in Script
    BY Points
  <2>3. Node("repeat") \in Script
    BY Scripts, Labels, NoOperands
  <2> QED BY <2>1, <2>2, <2>3
<1>5. <<Expr(";", 0), Expect(";"), Expr("]", 0), Expect("]"), Node("repeat")>>
          \in Seq(Script)
  BY <1>4, Short
<1>6. <<Expr(",", 0), Expect(","), Do("push")>> \in Seq(Script)
  BY <1>4, Short
<1> QED BY <1>2, <1>3, <1>5, <1>6 DEF Array

LEMMA EndExprKeeps == ASSUME ParserInv, EndExpr PROVE ParserInv'
<1>1. Doing("rest") /\ Become(Done(Top)) /\ pos' = pos /\ Keep
  BY DEF EndExpr
<1> QED BY <1>1, DoingIs, Still

LEMMA BinaryKeeps == ASSUME ParserInv, Binary PROVE ParserInv'
<1>1. /\ Doing("rest") /\ Peek \in Infix
      /\ Take(First(Top, <<Expr(Top.stop, Precedence(Peek) + 1), Node(Peek)>>))
  BY DEF Binary, Following
<1>2. Peek \notin Operand /\ Peek \in Label /\ Peek # "IDENT"
  <2>1. "IDENT" \notin Infix
    BY DEF Infix, Assign
  <2> QED BY <1>1, <2>1, NoOperands, Tokens, Labels
<1>3. Expr(Top.stop, Precedence(Peek) + 1) \in Script /\ Node(Peek) \in Script
  BY <1>1, <1>2, DoingIs, Scripts, Numbers
<1>4. <<Expr(Top.stop, Precedence(Peek) + 1), Node(Peek)>> \in Seq(Script)
  BY <1>3
<1> QED BY <1>1, <1>2, <1>4, DoingIs, FirstIs, Over

LEMMA PathKeeps == ASSUME ParserInv, Path PROVE ParserInv'
<1>1. CASE Panic
  BY <1>1, StopKeeps
<1>2. CASE ~Panic
  <2>1. /\ Doing("rest") /\ Peek = "::"
        /\ Take(First(Top, <<Expr(Top.stop, Precedence("::") - 1), Node("path")>>))
    BY <1>2 DEF Path, Following
  <2>2. Peek \notin Operand
    BY <2>1, NoOperands
  <2>3. Expr(Top.stop, Precedence("::") - 1) \in Script /\ Node("path") \in Script
    BY <2>1, DoingIs, Scripts, Numbers, Labels, NoOperands
  <2>4. <<Expr(Top.stop, Precedence("::") - 1), Node("path")>> \in Seq(Script)
    BY <2>3
  <2> QED BY <2>1, <2>2, <2>4, DoingIs, FirstIs, Over
<1> QED BY <1>1, <1>2

LEMMA ArgsAre ==
    ASSUME src \in Source, NEW p \in Int
    PROVE  Args(Count(p)) \in Seq(Script)
<1>1. Count(p) \in Nat
  <2> DEFINE S == {q \in Counted(p) : Depth(p, q) = 1 /\ src[q] \in Commas}
  <2>1. S \subseteq p .. Len(src) /\ Len(src) \in Int
    BY SourceType DEF Counted
  <2>2. IsFiniteSet(S)
    BY <2>1, FS_Interval, FS_Subset
  <2> QED BY <2>2, FS_CardinalityType DEF Count
<1>2. PICK c \in Nat : c = Count(p)
  BY <1>1
<1>3. Expr(",", 0) \in Script /\ Expect(",") \in Script
  BY Points
<1>4. Args(c) \in [1 .. 2 * c -> Script]
  BY <1>3 DEF Args
<1>5. Args(c) \in Seq(Script)
  <2>1. PICK n \in Nat : n = 2 * c
    OBVIOUS
  <2> QED BY <1>4, <2>1
<1> QED BY <1>2, <1>5

LEMMA ListIs ==
    ASSUME src \in Source, NEW p \in Int, NEW close \in {")", "}"}
    PROVE  List(p, close) \in Seq(Script)
<1>1. Final(close) \in Script /\ Expect(close) \in Script
  BY Scripts, Tokens, Labels, NoOperands
<1>2. <<Final(close), Expect(close)>> \in Seq(Script)
  BY <1>1, Short
<1> QED BY <1>2, ArgsAre, ConcatProperties DEF List

LEMMA LastArgKeeps == ASSUME ParserInv, LastArg PROVE ParserInv'
<1> DEFINE g == IF Peek # Arg THEN Instead(Top, <<Expr(Arg, 0)>>) ELSE Done(Top)
<1>1. Doing("last") /\ Become(g) /\ pos' = pos /\ Keep
  BY DEF LastArg
<1>2. Top \in Frames /\ Top.todo # <<>> /\ Arg \in Token
  BY <1>1, DoingIs DEF Script, Arg
<1>3. <<Expr(Arg, 0)>> \in Seq(Script)
  <2>1. Expr(Arg, 0) \in Script
    BY <1>2, Scripts, Numbers
  <2> QED BY <2>1
<1>4. g \in Frames /\ g.tree = Top.tree
  BY <1>2, <1>3, InsteadIs, DoneIs
<1> HIDE DEF g
<1> QED BY <1>1, <1>4, Still

LEMMA IndexKeeps == ASSUME ParserInv, Index PROVE ParserInv'
<1>1. /\ Doing("rest") /\ Peek = "["
      /\ Take(First(Top, <<Expr("]", POSTFIX - 1), Expect("]"), Node("index")>>))
  BY DEF Index, Following
<1>2. Peek \notin Operand
  BY <1>1, NoOperands
<1>3. /\ Expr("]", POSTFIX - 1) \in Script /\ Expect("]") \in Script
      /\ Node("index") \in Script
  BY Scripts, Numbers, Tokens, Labels, NoOperands
<1>4. <<Expr("]", POSTFIX - 1), Expect("]"), Node("index")>> \in Seq(Script)
  BY <1>3
<1> QED BY <1>1, <1>2, <1>4, DoingIs, FirstIs, Over

LEMMA PastType ==
    ASSUME Typed
    PROVE  /\ src \in Source /\ pos \in 1 .. Len(src) + 1 /\ Len(src) \in Nat
           /\ Past(pos) \in pos .. Len(src) + 1 /\ Past(pos) \in 1 .. Len(src) + 1
           /\ Past(Past(pos)) \in Past(pos) .. Len(src) + 1
           /\ Past(Past(pos)) \in 1 .. Len(src) + 1
           /\ Past(Past(Past(pos))) \in Past(Past(pos)) .. Len(src) + 1
           /\ Past(pos) \in Int /\ Past(Past(Past(pos))) \in Int
<1>1. src \in Source /\ pos \in 1 .. Len(src) + 1 /\ Len(src) \in Nat
  BY SourceType DEF Typed
<1>2. Past(pos) \in pos .. Len(src) + 1
  BY <1>1, TokenIs
<1>3. Past(pos) \in 1 .. Len(src) + 1
  BY <1>1, <1>2
<1>4. Past(Past(pos)) \in Past(pos) .. Len(src) + 1
  BY <1>1, <1>3, TokenIs
<1>5. Past(Past(pos)) \in 1 .. Len(src) + 1
  BY <1>1, <1>3, <1>4
<1>6. Past(Past(Past(pos))) \in Past(Past(pos)) .. Len(src) + 1
  BY <1>1, <1>5, TokenIs
<1> QED BY <1>1, <1>2, <1>3, <1>4, <1>5, <1>6

LEMMA StructInitKeeps == ASSUME ParserInv, StructInit PROVE ParserInv'
<1> DEFINE p == Past(pos)
           f == First(Top, List(p, "}") \o <<Node("init")>>)
<1>1. Doing("rest") /\ Peek = "{" /\ Listing(p, f)
  BY DEF StructInit, Following
<1>2. CASE Fault
  BY <1>2, StopKeeps
<1>3. CASE ~Fault
  <2>1. Take(f) /\ Peek \notin Operand
    BY <1>1, <1>3, NoOperands DEF Listing, Take
  <2>2. Node("init") \in Script /\ Typed /\ Top \in Frames
    BY <1>1, DoingIs, Scripts, Labels, NoOperands
  <2>3. List(p, "}") \in Seq(Script) /\ <<Node("init")>> \in Seq(Script)
    <3>1. src \in Source /\ p \in Int
      BY <2>2, PastType
    <3>2. <<Node("init")>> \in Seq(Script)
      BY <2>2, Short
    <3> QED BY <3>1, <3>2, ListIs
  <2>4. f \in Frames /\ f.tree = Top.tree
    BY <2>2, <2>3, ConcatProperties, FirstIs
  <2> HIDE DEF f
  <2> QED BY <1>1, <2>1, <2>4, Over
<1> QED BY <1>2, <1>3

LEMMA CallExprKeeps == ASSUME ParserInv, CallExpr PROVE ParserInv'
<1> DEFINE p == Past(pos)
           f == First(Top, List(p, ")") \o <<Node("call")>>)
<1>1. Doing("rest") /\ Peek = "(" /\ (Panic \/ Listing(p, f))
  BY DEF CallExpr, Following
<1>2. CASE Fault \/ Panic
  BY <1>2, StopKeeps
<1>3. CASE ~(Fault \/ Panic)
  <2>1. Take(f) /\ Peek \notin Operand
    BY <1>1, <1>3, NoOperands DEF Listing, Take
  <2>2. Node("call") \in Script /\ Typed /\ Top \in Frames
    BY <1>1, DoingIs, Scripts, Labels, NoOperands
  <2>3. List(p, ")") \in Seq(Script) /\ <<Node("call")>> \in Seq(Script)
    <3>1. src \in Source /\ p \in Int
      BY <2>2, PastType
    <3>2. <<Node("call")>> \in Seq(Script)
      BY <2>2, Short
    <3> QED BY <3>1, <3>2, ListIs
  <2>4. f \in Frames /\ f.tree = Top.tree
    BY <2>2, <2>3, ConcatProperties, FirstIs
  <2> HIDE DEF f
  <2> QED BY <1>1, <2>1, <2>4, Over
<1> QED BY <1>2, <1>3

(* A dot and the name behind it, and the bracket behind that.               *)
LEMMA FieldAccounts ==
    ASSUME Typed, Peek = "."
    PROVE  LET x == <<<<TokenAt(Past(pos)), 0>>>>
           IN  /\ x \in Tree
               /\ Accounts(src, x, pos - 1, Past(Past(pos)) - 1)
               /\ TokenAt(Past(Past(pos))) = "(" =>
                      Accounts(src, x, pos - 1, Past(Past(Past(pos))) - 1)
<1> DEFINE x == <<<<TokenAt(Past(pos)), 0>>>>
           a == pos - 1
           b == Past(pos) - 1
           c == Past(Past(pos)) - 1
           d == Past(Past(Past(pos))) - 1
<1>1. /\ src \in Source /\ a \in Nat /\ b \in Nat /\ c \in Nat /\ d \in Nat
      /\ a <= b /\ b <= c /\ c <= d /\ a <= c
  BY PastType
<1>2. Accounts(src, <<>>, a, b)
  <2>1. TokenAt(pos) \notin Operand
    BY NoOperands DEF Peek
  <2> QED BY <2>1, PastType, TokenAccounts
<1>3. Accounts(src, x, b, c)
  BY PastType, TokenAccounts
<1>4. x \in Tree /\ <<>> \in Tree
  <2>1. TokenAt(Past(pos)) \in Label
    BY PastType, TokenIs, Labels
  <2> QED BY <2>1, EmptySeq DEF Tree
<1>5. <<>> \o x = x /\ x \o <<>> = x
  BY <1>4, ConcatEmptySeq DEF Tree
<1> HIDE DEF x, a, b, c, d
<1>6. Accounts(src, x, a, c)
  <2>1. Accounts(src, <<>> \o x, a, c)
    BY <1>1, <1>2, <1>3, <1>4, AccountsConcat
  <2> QED BY <1>5, <2>1
<1>7. ASSUME TokenAt(Past(Past(pos))) = "("
      PROVE  Accounts(src, x, a, d)
  <2>1. TokenAt(Past(Past(pos))) \notin Operand
    BY <1>7, NoOperands
  <2>2. Accounts(src, <<>>, c, d)
    BY <2>1, PastType, TokenAccounts DEF c, d
  <2>3. Accounts(src, x \o <<>>, a, d)
    BY <1>1, <1>4, <1>6, <2>2, AccountsConcat
  <2> QED BY <1>5, <2>3
<1> QED BY <1>4, <1>6, <1>7 DEF x, a, c, d

LEMMA FieldExprKeeps == ASSUME ParserInv, FieldExpr PROVE ParserInv'
<1> DEFINE p == Past(Past(pos))
           x == <<<<TokenAt(Past(pos)), 0>>>>
<1>1. Doing("rest") /\ Peek = "." /\ pos' = p /\ Become(Join(Field, "field")) /\ Keep
  BY DEF FieldExpr, Dot, Following
<1>2. Typed /\ Ready /\ Top \in Frames
  BY <1>1, DoingIs
<1>3. x \in Tree /\ Accounts(src, x, pos - 1, p - 1)
  BY <1>1, <1>2, FieldAccounts
<1>4. Field \in Frames /\ Field.tree = Top.tree \o x /\ Field.todo = Top.todo
  BY <1>2, <1>3, AddIs DEF Field
<1>5. p \in pos .. Len(src) + 1
  BY <1>2, PastType
<1> HIDE DEF x, p
<1>6. Grows(Field, p)
  BY <1>2, <1>3, <1>4, <1>5, GrowsBy
<1>7. Grows(Join(Field, "field"), p)
  BY <1>2, <1>4, <1>6, GrowsUp, Labels, NoOperands
<1>8. Outside(Join(Field, "field"))
  BY <1>1, DoingIs DEF Outside
<1> QED BY <1>1, <1>2, <1>7, <1>8, BecomeKeeps

LEMMA MethodCallKeeps == ASSUME ParserInv, MethodCall PROVE ParserInv'
<1> DEFINE p == Past(Past(Past(pos)))
           x == <<<<TokenAt(Past(pos)), 0>>>>
           steps == Args(Count(p)) \o <<Do("last_of_method"), Node("method")>>
           f == First(Field, steps)
<1>1. /\ Doing("rest") /\ Peek = "." /\ TokenAt(Past(Past(pos))) = "("
      /\ Listing(p, f)
  BY DEF MethodCall, Dot, Following
<1>2. CASE Fault
  BY <1>2, StopKeeps
<1>3. CASE ~Fault
  <2>1. pos' = p /\ Become(f) /\ Keep
    BY <1>1, <1>3 DEF Listing
  <2>2. Typed /\ Ready /\ Top \in Frames
    BY <1>1, DoingIs
  <2>3. x \in Tree /\ Accounts(src, x, pos - 1, p - 1)
    BY <1>1, <2>2, FieldAccounts
  <2>4. Field \in Frames /\ Field.tree = Top.tree \o x
    BY <2>2, <2>3, AddIs DEF Field
  <2>5. steps \in Seq(Script)
    <3>1. Do("last_of_method") \in Script /\ Node("method") \in Script
      BY Scripts, Labels, NoOperands DEF Marks
    <3>2. <<Do("last_of_method"), Node("method")>> \in Seq(Script)
      BY <3>1, Short
    <3>3. Args(Count(p)) \in Seq(Script)
      BY <2>2, PastType, ArgsAre
    <3> QED BY <3>2, <3>3, ConcatProperties
  <2>6. p \in pos .. Len(src) + 1
    BY <2>2, PastType
  <2> HIDE DEF x, p, steps
  <2>7. f \in Frames /\ f.tree = Top.tree \o x
    BY <2>4, <2>5, FirstIs
  <2> HIDE DEF f
  <2>8. Grows(f, p)
    BY <2>2, <2>3, <2>6, <2>7, GrowsBy
  <2>9. Outside(f)
    BY <1>1, DoingIs DEF Outside
  <2> QED BY <2>1, <2>2, <2>8, <2>9, BecomeKeeps
<1> QED BY <1>2, <1>3

LEMMA LastOfMethodKeeps == ASSUME ParserInv, LastOfMethod PROVE ParserInv'
<1> DEFINE g == IF Peek # ")" THEN Instead(Top, <<Expr(")", 0), Expect(")")>>)
                              ELSE Done(Top)
<1>1. Doing("last_of_method") /\ Become(g) /\ pos' = pos /\ Keep
  BY DEF LastOfMethod
<1>2. Top \in Frames /\ Top.todo # <<>>
  BY <1>1, DoingIs
<1>3. <<Expr(")", 0), Expect(")")>> \in Seq(Script)
  <2>1. Expr(")", 0) \in Script /\ Expect(")") \in Script
    BY Points
  <2> QED BY <2>1
<1>4. g \in Frames /\ g.tree = Top.tree
  BY <1>2, <1>3, InsteadIs, DoneIs
<1> HIDE DEF g
<1> QED BY <1>1, <1>4, Still

(***************************************************************************)
(* Statements                                                              *)
(***************************************************************************)

LEMMA Words ==
    /\ \A k \in Reserved : k \in Label \ Operand /\ k # "IDENT" /\ Expect(k) \in Script
                           /\ Node(k) \in Script
    /\ \A k \in {"(", ")", "{", "}", "->", ",", ";", ":", "="} : Expect(k) \in Script
    /\ \A k \in {"expression", "body", "elif", "param", "member", "global", "items"} :
           k \in Label \ Operand /\ Node(k) \in Script
<1>1. ASSUME NEW k \in Reserved
      PROVE  k \in Label \ Operand /\ k # "IDENT"
  <2>1. k # "IDENT"
    BY DEF Reserved
  <2>2. k \in Label
    BY Tokens, Labels
  <2>3. k \notin Operand
    BY NoOperands
  <2> QED BY <2>1, <2>2, <2>3
<1>2. ASSUME NEW k \in {"(", ")", "{", "}", "->", ",", ";", ":", "="}
      PROVE  k \in Label \ Operand /\ k # "IDENT"
  BY Tokens, Labels, NoOperands
<1>3. ASSUME NEW k \in {"expression", "body", "elif", "param", "member", "global", "items"}
      PROVE  k \in Label \ Operand /\ k # "IDENT"
  BY Labels, NoOperands
<1>4. \A k \in Reserved : Expect(k) \in Script /\ Node(k) \in Script
  BY <1>1, Scripts
<1>5. \A k \in {"(", ")", "{", "}", "->", ",", ";", ":", "="} : Expect(k) \in Script
  BY <1>2, Scripts
<1>6. \A k \in {"expression", "body", "elif", "param", "member", "global", "items"} :
          Node(k) \in Script
  BY <1>3, Scripts
<1> QED BY <1>1, <1>3, <1>4, <1>5, <1>6

LEMMA BodyOfIs ==
    ASSUME NEW steps \in Seq(Script)
    PROVE  BodyOf(steps) \in Seq(Script)
<1>1. Expect("{") \in Script /\ Do("body") \in Script /\ Expect("}") \in Script
  BY Words, Scripts DEF Marks
<1>2. <<Expect("{"), Do("body"), Expect("}")>> \in Seq(Script)
  BY <1>1, Short
<1> QED BY <1>2, ConcatProperties DEF BodyOf

LEMMA StatementIs ==
    ASSUME NEW t \in StartsStatement
    PROVE  Statement(t) \in Seq(Script)
<1>1. /\ Expr(";", 0) \in Script /\ Expect(";") \in Script /\ Expr("{", 0) \in Script
      /\ Expect("=") \in Script /\ Leaf("IDENT") \in Script /\ Do("else") \in Script
      /\ Node("expression") \in Script
  BY Words, Scripts, Tokens, Numbers DEF Marks
<1>2. \A k \in {"for", "in", "if", "while", "return", "continue", "break", "var", "let"} :
          Expect(k) \in Script /\ Node(k) \in Script
  <2>1. {"for", "in", "if", "while", "return", "continue", "break", "var", "let"}
            \subseteq Reserved
    BY DEF Reserved
  <2> QED BY <2>1, Words
<1>3. CASE t \in {"TRUE", "IDENT"} \cup Number
  <2>1. <<Expr(";", 0), Expect(";"), Node("expression")>> \in Seq(Script)
    BY <1>1, Short
  <2> QED BY <1>3, <2>1 DEF Statement, Number
<1>4. CASE t = "for"
  <2>1. <<Expect("for"), Leaf("IDENT"), Expect("in"), Expr("{", 0)>> \in Seq(Script)
    BY <1>1, <1>2, Short
  <2>2. <<Node("for")>> \in Seq(Script)
    BY <1>2, Short
  <2> QED BY <1>4, <2>1, <2>2, BodyOfIs, ConcatProperties DEF Statement, Number
<1>5. CASE t = "if"
  <2>1. <<Expect("if"), Expr("{", 0)>> \in Seq(Script)
    <3>1. Expect("if") \in Script
      BY <1>2
    <3> QED BY <1>1, <3>1, Short
  <2>2. <<Do("else"), Node("if")>> \in Seq(Script)
    <3>1. Node("if") \in Script
      BY <1>2
    <3> QED BY <1>1, <3>1, Short
  <2> QED BY <1>5, <2>1, <2>2, BodyOfIs, ConcatProperties DEF Statement, Number
<1>6. CASE t = "while"
  <2>1. <<Expect("while"), Expr("{", 0)>> \in Seq(Script)
    <3>1. Expect("while") \in Script
      BY <1>2
    <3> QED BY <1>1, <3>1, Short
  <2>2. <<Node("while")>> \in Seq(Script)
    BY <1>2, Short
  <2> QED BY <1>6, <2>1, <2>2, BodyOfIs, ConcatProperties DEF Statement, Number
<1>7. CASE t = "return"
  <2>1. <<Expect("return"), Expr(";", 0), Expect(";"), Node("return")>> \in Seq(Script)
    BY <1>1, <1>2, Short
  <2> QED BY <1>7, <2>1 DEF Statement, Number
<1>8. CASE t \in {"continue", "break"}
  <2>1. <<Expect(t), Node(t)>> \in Seq(Script)
    BY <1>2, <1>8, Short
  <2> QED BY <1>8, <2>1 DEF Statement, Number
<1>9. CASE t \in {"var", "let"}
  <2>1. <<Expect(t), Leaf("IDENT"), Expect("="), Expr(";", 0), Expect(";"), Node(t)>>
            \in Seq(Script)
    BY <1>1, <1>2, <1>9, Short
  <2> QED BY <1>9, <2>1 DEF Statement, Number
<1> QED BY <1>3, <1>4, <1>5, <1>6, <1>7, <1>8, <1>9 DEF StartsStatement

LEMMA VisitBodyKeeps == ASSUME ParserInv, VisitBody PROVE ParserInv'
<1>1. /\ Doing("body") /\ pos' = pos /\ Keep
      /\ Call(Done(Top), Frame(<<Do("statements")>>, "EOF", 0))
  BY DEF VisitBody
<1>2. <<Do("statements")>> \in Seq(Script) /\ "EOF" \in Token /\ 0 \in 0 .. 251
  <2>1. Do("statements") \in Script
    BY Scripts DEF Marks
  <2>2. <<Do("statements")>> \in Seq(Script)
    BY <2>1, Short
  <2> QED BY <2>2, Tokens, Numbers
<1> QED BY <1>1, <1>2, Calls

LEMMA VisitStatementKeeps == ASSUME ParserInv, VisitStatement PROVE ParserInv'
<1>1. /\ Doing("statements") /\ pos' = pos /\ Keep /\ Kind(Peek) \in StartsStatement
      /\ Call(Top, Frame(Statement(Kind(Peek)), "EOF", 0))
  BY DEF VisitStatement
<1>2. Statement(Kind(Peek)) \in Seq(Script) /\ "EOF" \in Token /\ 0 \in 0 .. 251
  BY <1>1, StatementIs, Tokens, Numbers
<1> QED BY <1>1, <1>2, Calls

LEMMA JoinKeeps ==
    ASSUME ParserInv, NEW what, what # "source_items", Doing(what),
           NEW label \in Label \ Operand, Become(Join(Done(Top), label)),
           pos' = pos, Keep
    PROVE  ParserInv'
<1>1. Typed /\ Ready /\ Done(Top) \in Frames /\ Done(Top).tree = Top.tree
  BY DoingIs
<1>2. Grows(Join(Done(Top), label), pos)
  BY <1>1, GrowsStill, GrowsUp
<1>3. Outside(Join(Done(Top), label))
  BY DoingIs DEF Outside
<1> QED BY <1>1, <1>2, <1>3, BecomeKeeps

LEMMA EndBodyKeeps == ASSUME ParserInv, EndBody PROVE ParserInv'
<1>1. /\ Doing("statements") /\ pos' = pos /\ Keep
      /\ Become(Join(Done(Top), "body"))
  BY DEF EndBody
<1>2. "body" \in Label \ Operand
  BY Words
<1> QED BY <1>1, <1>2, JoinKeeps

LEMMA ElseIsNoName ==
    ASSUME Peek = "else"
    PROVE  Peek \notin Operand
<1>1. "else" \in Reserved
  BY DEF Reserved
<1> QED BY <1>1, NoOperands

LEMMA ElseIfKeeps == ASSUME ParserInv, ElseIf PROVE ParserInv'
<1> DEFINE steps == BodyOf(<<Expect("if"), Expr("{", 0)>>) \o <<Node("elif")>>
<1>1. /\ Doing("else") /\ Peek \notin Operand /\ pos' = Past(pos) /\ Keep
      /\ Call(Top, Frame(steps, "EOF", 0))
  BY ElseIsNoName DEF ElseIf
<1>2. steps \in Seq(Script)
  <2>1. Expect("if") \in Script
    <3>1. "if" \in Reserved
      BY DEF Reserved
    <3> QED BY <3>1, Words
  <2>2. Expr("{", 0) \in Script /\ Node("elif") \in Script
    BY Scripts, Tokens, Numbers, Words
  <2>3. <<Expect("if"), Expr("{", 0)>> \in Seq(Script) /\ <<Node("elif")>> \in Seq(Script)
    BY <2>1, <2>2, Short
  <2> QED BY <2>3, BodyOfIs, ConcatProperties
<1> HIDE DEF steps
<1> QED BY <1>1, <1>2, Calls, Tokens, Numbers

LEMMA ElseKeeps == ASSUME ParserInv, Else PROVE ParserInv'
<1> DEFINE steps == BodyOf(<<>>) \o <<Node("else")>>
<1>1. /\ Doing("else") /\ Peek \notin Operand /\ pos' = Past(pos) /\ Keep
      /\ Call(Done(Top), Frame(steps, "EOF", 0))
  BY ElseIsNoName DEF Else
<1>2. steps \in Seq(Script)
  <2>1. Node("else") \in Script
    <3>1. "else" \in Reserved
      BY DEF Reserved
    <3> QED BY <3>1, Words
  <2>2. <<Node("else")>> \in Seq(Script) /\ <<>> \in Seq(Script)
    BY <2>1, EmptySeq
  <2> QED BY <2>2, BodyOfIs, ConcatProperties
<1> HIDE DEF steps
<1> QED BY <1>1, <1>2, Calls, Tokens, Numbers

LEMMA NoElseKeeps == ASSUME ParserInv, NoElse PROVE ParserInv'
<1>1. Doing("else") /\ Become(Done(Top)) /\ pos' = pos /\ Keep
  BY DEF NoElse
<1> QED BY <1>1, DoingIs, Still

(***************************************************************************)
(* Modules, structs and functions                                          *)
(***************************************************************************)

LEMMA ItemIs ==
    ASSUME NEW t \in StartsItem
    PROVE  Item(t) \in Seq(Script)
<1>1. /\ Expr(";", 0) \in Script /\ Leaf("IDENT") \in Script
      /\ \A k \in {"(", "{", "}", "->", ":", "="} : Expect(k) \in Script
      /\ Node("global") \in Script
  BY Words, Scripts, Tokens, Numbers
<1>2. Do("members") \in Script /\ Do("inner") \in Script /\ Do("params") \in Script
  BY Scripts DEF Marks
<1>3. \A k \in {"struct", "module", "fn"} : Expect(k) \in Script /\ Node(k) \in Script
  <2>1. {"struct", "module", "fn"} \subseteq Reserved
    BY DEF Reserved
  <2> QED BY <2>1, Words
<1>4. CASE t = "struct"
  <2>1. Expect("struct") \in Script /\ Node("struct") \in Script /\ Expect("{") \in Script
        /\ Expect("}") \in Script
    BY <1>1, <1>3
  <2>2. <<Expect("struct"), Leaf("IDENT"), Expect("{"), Do("members"), Expect("}"),
          Node("struct")>> \in Seq(Script)
    BY <1>1, <1>2, <2>1, Short
  <2> QED BY <1>4, <2>2 DEF Item
<1>5. CASE t = "module"
  <2>1. Expect("module") \in Script /\ Node("module") \in Script /\ Expect("{") \in Script
        /\ Expect("}") \in Script
    BY <1>1, <1>3
  <2>2. <<Expect("module"), Leaf("IDENT"), Expect("{"), Do("inner"), Expect("}"),
          Node("module")>> \in Seq(Script)
    BY <1>1, <1>2, <2>1, Short
  <2> QED BY <1>5, <2>2 DEF Item
<1>6. CASE t = "fn"
  <2>1. Expect("fn") \in Script /\ Node("fn") \in Script /\ Expect("(") \in Script
        /\ Expect("->") \in Script
    BY <1>1, <1>3
  <2>2. <<Expect("fn"), Leaf("IDENT"), Expect("("), Do("params"), Expect("->"),
          Leaf("IDENT")>> \in Seq(Script)
    BY <1>1, <1>2, <2>1, Short
  <2>3. <<Node("fn")>> \in Seq(Script)
    BY <2>1, Short
  <2> QED BY <1>6, <2>2, <2>3, BodyOfIs, ConcatProperties DEF Item
<1>7. CASE t \in {"var", "let"}
  <2>1. Expect(":") \in Script /\ Expect("=") \in Script
    BY <1>1
  <2>2. <<Leaf("IDENT"), Expect(":"), Leaf("IDENT"), Expect("="), Expr(";", 0),
          Node("global")>> \in Seq(Script)
    BY <1>1, <2>1, Short
  <2> QED BY <1>7, <2>2 DEF Item
<1>8. CASE t = "enum"
  <2>1. Expect("{") \in Script
    BY <1>1
  <2>2. <<Leaf("IDENT"), Expect("{")>> \in Seq(Script)
    BY <1>1, <2>1, Short
  <2> QED BY <1>8, <2>2 DEF Item
<1> QED BY <1>4, <1>5, <1>6, <1>7, <1>8 DEF StartsItem

LEMMA Nought == "EOF" \in Token /\ 0 \in 0 .. 251
<1>1. "EOF" \in Token
  BY Tokens
<1> QED BY <1>1

LEMMA VisitInnerKeeps == ASSUME ParserInv, VisitInner PROVE ParserInv'
<1>1. /\ Doing("inner") /\ pos' = pos /\ Keep
      /\ Call(Done(Top), Frame(<<Do("module_items")>>, "EOF", 0))
  BY DEF VisitInner
<1>2. <<Do("module_items")>> \in Seq(Script)
  <2>1. Do("module_items") \in Script
    BY Scripts DEF Marks
  <2> QED BY <2>1, Short
<1> QED BY <1>1, <1>2, Calls, Nought

LEMMA VisitItemKeeps == ASSUME ParserInv, VisitItem PROVE ParserInv'
<1> DEFINE h == Frame(Item(Peek), "EOF", 0)
<1>1. Peek \in StartsItem /\ Call(Top, h) /\ pos' = pos /\ Keep
  BY DEF VisitItem
<1>2. PICK what \in {"source_items", "module_items"} : Doing(what)
  BY DEF VisitItem, Listed
<1>3. Typed /\ Ready /\ Top \in Frames /\ Top.todo # <<>>
  BY <1>2, DoingIs
<1>4. h \in Frames /\ h.tree = <<>>
  <2>1. Item(Peek) \in Seq(Script)
    BY <1>1, ItemIs
  <2> QED BY <2>1, Nought, NewFrame
<1>5. Grows(Top, pos) /\ Outside(Top)
  BY <1>3, GrowsStill DEF Outside
<1> HIDE DEF h
<1> QED BY <1>1, <1>3, <1>4, <1>5, CallKeeps

LEMMA EndItemsKeeps == ASSUME ParserInv, EndItems PROVE ParserInv'
<1> DEFINE g == Join(Done(Top), "items")
<1>1. Peek \in EndsItems /\ Become(g) /\ pos' = pos /\ Keep
  BY DEF EndItems
<1>2. "items" \in Label \ Operand
  BY Words
<1>3. CASE Doing("source_items")
  <2>1. Peek = "EOF"
    BY <1>1, <1>3 DEF EndsItems
  <2>2. Typed /\ Ready /\ Top \in Frames /\ Top.todo # <<>> /\ Done(Top) \in Frames
        /\ Done(Top).tree = Top.tree
    BY <1>3, DoingIs
  <2>3. Grows(g, pos)
    BY <1>2, <2>2, GrowsStill, GrowsUp
  <2>4. g.todo = Tail(Top.todo)
    BY <1>2, <2>2, DoneIs, JoinIs
  <2> HIDE DEF g
  <2> QED BY <1>1, <2>1, <2>2, <2>3, <2>4, EndKeeps DEF Peek
<1>4. CASE Doing("module_items")
  BY <1>1, <1>2, <1>4, JoinKeeps
<1> QED BY <1>3, <1>4 DEF EndItems, Listed

LEMMA MemberKeeps == ASSUME ParserInv, Member PROVE ParserInv'
<1> DEFINE steps == IF Peek = "fn" THEN Item("fn")
                    ELSE <<Leaf("IDENT"), Expect(":"), Leaf("IDENT"), Expect(";"),
                           Node("member")>>
<1>1. Doing("members") /\ Call(Top, Frame(steps, "EOF", 0)) /\ pos' = pos /\ Keep
  BY DEF Member
<1>2. steps \in Seq(Script)
  <2>1. "fn" \in StartsItem
    BY DEF StartsItem
  <2>2. Leaf("IDENT") \in Script /\ Expect(":") \in Script /\ Expect(";") \in Script
        /\ Node("member") \in Script
    BY Scripts, Words
  <2>3. <<Leaf("IDENT"), Expect(":"), Leaf("IDENT"), Expect(";"), Node("member")>>
            \in Seq(Script)
    BY <2>2, Short
  <2> QED BY <2>1, <2>3, ItemIs
<1> HIDE DEF steps
<1> QED BY <1>1, <1>2, Calls, Nought

LEMMA EndMembersKeeps == ASSUME ParserInv, EndMembers PROVE ParserInv'
<1>1. Doing("members") /\ Become(Done(Top)) /\ pos' = pos /\ Keep
  BY DEF EndMembers
<1> QED BY <1>1, DoingIs, Still

LEMMA ParamKeeps == ASSUME ParserInv, Param PROVE ParserInv'
<1> DEFINE steps == <<Leaf("any"), Expect(":"), Leaf("IDENT"), Do("comma"), Node("param")>>
<1>1. Doing("params") /\ Call(Top, Frame(steps, "EOF", 0)) /\ pos' = pos /\ Keep
  BY DEF Param
<1>2. steps \in Seq(Script)
  <2>1. Do("comma") \in Script
    BY Scripts DEF Marks
  <2>2. Leaf("any") \in Script /\ Leaf("IDENT") \in Script /\ Expect(":") \in Script
        /\ Node("param") \in Script
    BY Scripts, Words
  <2> QED BY <2>1, <2>2, Short
<1> HIDE DEF steps
<1> QED BY <1>1, <1>2, Calls, Nought

LEMMA EndParamsKeeps == ASSUME ParserInv, EndParams PROVE ParserInv'
<1>1. Doing("params") /\ Peek = ")" /\ Take(Done(Top))
  BY DEF EndParams
<1>2. Peek \notin Operand
  BY <1>1, NoOperands
<1> QED BY <1>1, <1>2, DoingIs, Over

LEMMA OptionalCommaKeeps == ASSUME ParserInv, OptionalComma PROVE ParserInv'
<1>1. /\ Doing("comma") /\ Become(Done(Top)) /\ Keep
      /\ pos' = IF Peek = "," THEN Past(pos) ELSE pos
  BY DEF OptionalComma
<1>2. CASE Peek = ","
  <2>1. Peek \notin Operand
    BY <1>2, NoOperands
  <2>2. Take(Done(Top))
    BY <1>1, <1>2 DEF Take
  <2> QED BY <1>1, <2>1, <2>2, DoingIs, Over
<1>3. CASE Peek # ","
  BY <1>1, <1>3, DoingIs, Still
<1> QED BY <1>2, <1>3

(***************************************************************************)
(* The theorems                                                            *)
(***************************************************************************)

LEMMA ParserStarts == Init => ParserInv
<1> SUFFICES ASSUME Init PROVE ParserInv
  OBVIOUS
<1> DEFINE h == Frame(<<Do("source_items")>>, "EOF", 0)
<1>1. src \in Source /\ pos = 1 /\ stack = <<h>> /\ ast = <<>> /\ status = "run"
  BY DEF Init
<1>2. Len(src) \in Nat
  BY <1>1, SourceType
<1>3. h \in Frames /\ h.tree = <<>> /\ h.todo = <<Do("source_items")>>
  <2>1. Do("source_items") \in Script
    BY Scripts DEF Marks
  <2>2. <<Do("source_items")>> \in Seq(Script)
    BY <2>1, Short
  <2> QED BY <2>2, Nought, NewFrame DEF Frame
<1> HIDE DEF h
<1>4. stack \in Seq(Frames) /\ Len(stack) = 1 /\ stack[1] = h /\ stack # <<>>
  BY <1>1, <1>3
<1>5. Typed
  BY <1>1, <1>2, <1>4, EmptySeq DEF Typed, Tree
<1>6. Outermost
  BY <1>3, <1>4 DEF Outermost
<1>7. Accounted
  <2>1. PICK c : c = [k \in 0 .. 1 |-> 0]
    OBVIOUS
  <2>2. Accounts(src, <<>>, 0, 0)
    <3>1. WordsIn(src, 0, 0) = {} /\ LeavesOf(<<>>) = {}
      BY DEF WordsIn, LeavesOf
    <3> QED BY <3>1, AccountsNothing
  <2>3. Cuts(c)
    BY <1>1, <1>3, <1>4, <2>1, <2>2 DEF Cuts
  <2> QED BY <2>3 DEF Accounted
<1> QED BY <1>1, <1>5, <1>6, <1>7 DEF ParserInv, Finished

LEMMA ParserGoesOn == ParserInv /\ [Next]_vars => ParserInv'
<1> SUFFICES ASSUME ParserInv, [Next]_vars PROVE ParserInv'
  OBVIOUS
<1>1. CASE Steps
  BY <1>1, ExpectTokenKeeps, KeepTokenKeeps, MakeNodeKeeps, ReturnKeeps DEF Steps
<1>2. CASE VisitExpr
  BY <1>2, VisitExprKeeps
<1>3. CASE Primary
  <2>1. CASE NoExpr \/ NoVector
    BY <2>1, StopKeeps DEF NoExpr, NoVector
  <2> QED BY <1>3, <2>1, EmptyKeeps, AtomKeeps, GroupKeeps, PrefixKeeps, ArrayKeeps
          DEF Primary
<1>4. CASE Rest
  <2>1. CASE NoOperator \/ NoField
    BY <2>1, StopKeeps DEF NoOperator, NoField
  <2> QED BY <1>4, <2>1, EndExprKeeps, BinaryKeeps, PathKeeps, LastArgKeeps,
             StructInitKeeps, CallExprKeeps, IndexKeeps, FieldExprKeeps, MethodCallKeeps,
             LastOfMethodKeeps DEF Rest
<1>5. CASE Statements
  <2>1. CASE NoStatement
    BY <2>1, StopKeeps DEF NoStatement
  <2> QED BY <1>5, <2>1, VisitBodyKeeps, VisitStatementKeeps, EndBodyKeeps, ElseIfKeeps,
             ElseKeeps, NoElseKeeps DEF Statements
<1>6. CASE Items
  <2>1. CASE NoItem \/ NoMember
    BY <2>1, StopKeeps DEF NoItem, NoMember
  <2> QED BY <1>6, <2>1, VisitInnerKeeps, VisitItemKeeps, EndItemsKeeps, MemberKeeps,
             EndMembersKeeps, ParamKeeps, EndParamsKeeps, OptionalCommaKeeps DEF Items
<1>7. CASE UNCHANGED vars
  <2>1. UNCHANGED <<src, pos, stack, ast, status>>
    BY <1>7 DEF vars
  <2>2. Typed' /\ Finished'
    BY <2>1 DEF ParserInv, Typed, Finished
  <2>3. Outermost'
    BY <2>1 DEF ParserInv, Outermost, TokenAt, Skip
  <2>4. Accounted'
    <3>1. CASE status = "run"
      <4>1. PICK cut : Cuts(cut)
        BY <3>1 DEF ParserInv, Accounted
      <4>2. Cuts(cut)'
        BY <2>1, <4>1 DEF Cuts
      <4> QED BY <4>2 DEF Accounted
    <3> QED BY <2>1, <3>1 DEF Accounted
  <2> QED BY <2>2, <2>3, <2>4 DEF ParserInv
<1> QED BY <1>1, <1>2, <1>3, <1>4, <1>5, <1>6, <1>7 DEF Next

(* The calls in progress account for the text that has been read, each for  *)
(* its own part.                                                            *)
THEOREM ParserInvariant == Spec => []ParserInv
BY ParserStarts, ParserGoesOn, PTL DEF Spec

(* Every variable of the parser keeps its type, on any text.                *)
THEOREM ParserTyped == Spec => []TypeOK
<1>1. ParserInv => TypeOK
  <2> SUFFICES ASSUME ParserInv PROVE TypeOK
    OBVIOUS
  <2> DEFINE Calling == [todo : Seq(Step), stop : Token, min : 0 .. 251, tree : Tree, n : Nat]
  <2>1. Frames \subseteq Calling
    <3>1. Script \subseteq Step
      BY DEF Script
    <3>2. Seq(Script) \subseteq Seq(Step)
      BY <3>1, SeqMonotonic
    <3> QED BY <3>2 DEF Frames
  <2>2. stack \in Seq(Calling)
    <3>1. stack \in Seq(Frames)
      BY DEF ParserInv, Typed
    <3> HIDE DEF Calling
    <3> QED BY <2>1, <3>1, SeqMonotonic
  <2> QED BY <2>2, SourceType DEF ParserInv, Typed, TypeOK
<1> QED BY <1>1, ParserInvariant, PTL

Rank(S, i) == Cardinality({k \in S : k < i})

(* A map that keeps the order takes the first element to the first, the     *)
(* second to the second, and so on.                                         *)
LEMMA SameRank ==
    ASSUME NEW L, NEW W, IsFiniteSet(L), IsFiniteSet(W),
           \A i \in L : i \in Int, \A w \in W : w \in Int, NEW at \in [L -> W],
           \A i, j \in L : i < j => at[i] < at[j],
           \A w \in W : \E i \in L : at[i] = w
    PROVE  /\ Cardinality(L) = Cardinality(W)
           /\ \A i \in L, j \in W : Rank(L, i) = Rank(W, j) => at[i] = j
<1>1. /\ \A i \in L : i \in Int /\ at[i] \in W
      /\ \A w \in W : w \in Int
  OBVIOUS
<1>2. ASSUME NEW S \in SUBSET L, NEW T \in SUBSET W, \A i \in S : at[i] \in T,
             \A w \in T : \E i \in S : at[i] = w
      PROVE  Cardinality(S) = Cardinality(T)
  <2> DEFINE f == [i \in S |-> at[i]]
  <2>1. f \in [S -> T]
    BY <1>2
  <2>2. \A i, j \in S : f[i] = f[j] => i = j
    <3> SUFFICES ASSUME NEW i \in S, NEW j \in S, at[i] = at[j], i # j PROVE FALSE
      OBVIOUS
    <3>1. i \in Int /\ j \in Int /\ i \in L /\ j \in L /\ at[i] \in Int
      BY <1>1
    <3>2. i < j \/ j < i
      BY <3>1
    <3> QED BY <3>1, <3>2
  <2>3. \A w \in T : \E i \in S : f[i] = w
    BY <1>2
  <2>4. f \in Bijection(S, T)
    BY <2>1, <2>2, <2>3 DEF Bijection, Injection, Surjection, IsInjective
  <2>5. ExistsBijection(S, T)
    BY <2>4 DEF ExistsBijection
  <2>6. IsFiniteSet(S)
    BY FS_Subset
  <2> QED BY <2>5, <2>6, FS_Bijection
<1>3. Cardinality(L) = Cardinality(W)
  BY <1>2
<1>4. ASSUME NEW i \in L, NEW j \in W,
             Rank(L, i) = Rank(W, j)
      PROVE  at[i] = j
  <2> DEFINE B(w) == {k \in W : k < w}
  <2>1. Cardinality({k \in L : k < i}) = Cardinality(B(at[i]))
    <3> DEFINE S == {k \in L : k < i}
    <3>1. S \in SUBSET L /\ B(at[i]) \in SUBSET W
      OBVIOUS
    <3>2. \A k \in S : at[k] \in B(at[i])
      OBVIOUS
    <3>3. ASSUME NEW w \in B(at[i])
          PROVE  \E k \in S : at[k] = w
      <4>1. PICK k \in L : at[k] = w
        OBVIOUS
      <4>2. k \in Int /\ i \in Int /\ at[k] \in Int /\ at[i] \in Int
        BY <1>1
      <4>3. at[k] < at[i]
        BY <4>1
      <4>4. k # i /\ ~(i < k)
        BY <4>2, <4>3
      <4>5. k < i
        BY <4>2, <4>4
      <4> QED BY <4>1, <4>5
    <3> HIDE DEF S, B
    <3>4. \A w \in B(at[i]) : \E k \in S : at[k] = w
      BY <3>3
    <3>5. Cardinality(S) = Cardinality(B(at[i]))
      BY <1>2, <3>1, <3>2, <3>4
    <3> QED BY <3>5 DEF S
  <2>2. Cardinality(B(j)) = Cardinality(B(at[i]))
    BY <1>4, <2>1 DEF Rank
  <2>3. ASSUME NEW v \in W, NEW w \in W, v < w, Cardinality(B(v)) = Cardinality(B(w))
        PROVE  FALSE
    <3>1. v \in Int /\ w \in Int /\ \A k \in W : k \in Int
      BY <1>1
    <3>2. B(v) \in SUBSET B(w)
      <4>1. \A k \in W : k < v => k < w
        BY ONLY <2>3, <3>1
      <4> QED BY <4>1
    <3>4. v \in B(w) /\ v \notin B(v)
      BY <2>3, <3>1
    <3>3. IsFiniteSet(B(w))
      BY FS_Subset
    <3> HIDE DEF B
    <3> QED BY <2>3, <3>2, <3>3, <3>4, FS_Subset
  <2>4. at[i] \in W /\ at[i] \in Int /\ j \in Int
    BY <1>1
  <2>5. ~(at[i] < j) /\ ~(j < at[i])
    <3> HIDE DEF B
    <3> QED BY <2>2, <2>3, <2>4
  <2> QED BY <2>4, <2>5
<1> QED BY <1>3, <1>4

(* Whatever the text, if the parser accepts it the leaves of the tree it    *)
(* returns are the names and literals of the text, in their order: nothing  *)
(* is lost between a vector_push and the return of a parser_visit_ function *)
(* (parser.c:170-988).                                                      *)
THEOREM ParserKeepsNames == Spec => []NamesKept
<1>1. ParserInv => NamesKept
  <2> SUFFICES ASSUME ParserInv, status = "done" PROVE NamesKept
    BY DEF NamesKept
  <2> DEFINE L == {i \in DOMAIN ast : ast[i][2] = 0 /\ ast[i][1] \in Operand}
             W == {j \in DOMAIN src : src[j] \in Operand}
  <2>1. src \in Seq(Token \cup Comment) /\ ast \in Tree
    BY SourceType DEF ParserInv, Typed
  <2>2. /\ Len(src) \in Nat /\ DOMAIN src = 1 .. Len(src)
        /\ Len(ast) \in Nat /\ DOMAIN ast = 1 .. Len(ast)
    BY <2>1, LenProperties DEF Tree
  <2>3. L = LeavesOf(ast) /\ W = WordsIn(src, 0, Len(src))
    BY <2>2 DEF LeavesOf, WordsIn
  <2>4. Accounts(src, ast, 0, Len(src))
    BY DEF ParserInv, Finished
  <2>5. PICK at : /\ \A i \in L : at[i] \in W /\ src[at[i]] = ast[i][1]
                  /\ \A i, j \in L : i < j => at[i] < at[j]
                  /\ \A w \in W : \E i \in L : at[i] = w
    <3> HIDE DEF L, W
    <3> QED BY <2>3, <2>4 DEF Accounts
  <2>6. L \in SUBSET (1 .. Len(ast)) /\ W \in SUBSET (1 .. Len(src))
    BY <2>2
  <2>7. /\ Cardinality(L) = Cardinality(W)
        /\ \A i \in L, j \in W : Rank(L, i) = Rank(W, j) => at[i] = j
    <3>1. /\ \A i \in L : at[i] \in W
          /\ \A i, j \in L : i < j => at[i] < at[j]
          /\ \A w \in W : \E i \in L : at[i] = w
      BY <2>5
    <3>2. /\ IsFiniteSet(L) /\ IsFiniteSet(W)
          /\ \A i \in L : i \in Int
          /\ \A w \in W : w \in Int
      <4>1. IsFiniteSet(1 .. Len(ast)) /\ IsFiniteSet(1 .. Len(src))
        BY <2>2, FS_Interval
      <4> HIDE DEF L, W
      <4>2. IsFiniteSet(L) /\ IsFiniteSet(W)
        BY <2>6, <4>1, FS_Subset
      <4> QED BY <2>6, <4>2
    <3> HIDE DEF L, W
    <3>3. PICK f \in [L -> W] : \A i \in L : f[i] = at[i]
      <4>1. [i \in L |-> at[i]] \in [L -> W]
        BY <3>1
      <4> QED BY <4>1
    <3>4. /\ \A i, j \in L : i < j => f[i] < f[j]
          /\ \A w \in W : \E i \in L : f[i] = w
      BY <3>1, <3>3
    <3>5. /\ Cardinality(L) = Cardinality(W)
          /\ \A i \in L, j \in W : Rank(L, i) = Rank(W, j) => f[i] = j
      BY <3>2, <3>3, <3>4, SameRank
    <3> QED BY <3>3, <3>5
  <2>8. \A i \in L, j \in W : Rank(L, i) = Rank(W, j) => ast[i][1] = src[j]
    <3> HIDE DEF L, W
    <3> QED BY <2>5, <2>7
  <2> QED BY <2>7, <2>8 DEF NamesKept, Rank
<1> QED BY <1>1, ParserInvariant, PTL

(***************************************************************************)
(* What there is to do                                                     *)
(***************************************************************************)

(* Of a finite set some elements go and fewer come.                         *)
LEMMA Trade ==
    ASSUME NEW S, IsFiniteSet(S), NEW R \in SUBSET S, NEW A, IsFiniteSet(A),
           Cardinality(A) < Cardinality(R), NEW T, T \subseteq (S \ R) \cup A
    PROVE  Cardinality(T) < Cardinality(S)
<1>1. IsFiniteSet(R) /\ Cardinality(R) \in Nat
  BY FS_Subset, FS_CardinalityType
<1>2. S \cap R = R
  OBVIOUS
<1>3. /\ IsFiniteSet(S \ R)
      /\ Cardinality(S \ R) = Cardinality(S) - Cardinality(R)
  BY <1>2, FS_Difference
<1>4. /\ IsFiniteSet((S \ R) \cup A)
      /\ Cardinality((S \ R) \cup A) =
             Cardinality(S \ R) + Cardinality(A) - Cardinality((S \ R) \cap A)
  BY <1>3, FS_Union
<1>5. Cardinality((S \ R) \cap A) \in Nat
  <2>1. IsFiniteSet((S \ R) \cap A)
    BY <1>3, FS_Intersection
  <2> QED BY <2>1, FS_CardinalityType
<1>6. IsFiniteSet(T) /\ Cardinality(T) <= Cardinality((S \ R) \cup A)
  BY <1>4, FS_Subset
<1>7. Cardinality(S) \in Nat /\ Cardinality(A) \in Nat /\ Cardinality(T) \in Nat
      /\ Cardinality(S \ R) \in Nat /\ Cardinality((S \ R) \cup A) \in Nat
  BY <1>3, <1>4, <1>6, FS_CardinalityType
<1> QED BY <1>1, <1>3, <1>4, <1>5, <1>6, <1>7

LEMMA Fewer ==
    ASSUME NEW S, IsFiniteSet(S), NEW x \in S, NEW T, T \subseteq S \ {x}
    PROVE  Cardinality(T) < Cardinality(S)
<1>1. /\ IsFiniteSet(S \ {x}) /\ Cardinality(S \ {x}) = Cardinality(S) - 1
      /\ Cardinality(S) \in Nat
  BY FS_RemoveElement, FS_CardinalityType
<1>2. Cardinality(T) <= Cardinality(S \ {x}) /\ IsFiniteSet(T)
  BY <1>1, FS_Subset
<1>3. Cardinality(T) \in Nat
  BY <1>2, FS_CardinalityType
<1> QED BY <1>1, <1>2, <1>3

(* The units of one step.                                                   *)
Column(i, k, m) == {<<i, k, c>> : c \in 1 .. m}

LEMMA ColumnIs ==
    ASSUME NEW i, NEW k, NEW m \in Nat
    PROVE  IsFiniteSet(Column(i, k, m)) /\ Cardinality(Column(i, k, m)) = m
<1>1. PICK f : f = [c \in 1 .. m |-> <<i, k, c>>]
  OBVIOUS
<1>2. f \in Bijection(1 .. m, Column(i, k, m))
  <2>1. f \in [1 .. m -> Column(i, k, m)]
    BY <1>1 DEF Column
  <2>2. \A c, d \in 1 .. m : f[c] = f[d] => c = d
    BY <1>1
  <2>3. \A u \in Column(i, k, m) : \E c \in 1 .. m : f[c] = u
    BY <1>1 DEF Column
  <2> QED BY <2>1, <2>2, <2>3 DEF Bijection, Injection, Surjection, IsInjective
<1>3. IsFiniteSet(1 .. m) /\ Cardinality(1 .. m) = m
  BY FS_Interval
<1> QED BY <1>2, <1>3, FS_Bijection DEF ExistsBijection

LEMMA CostIs ==
    /\ \A s : Cost(s) \in 1 .. 6
    /\ \A s : s.do = "last_of_method" => Cost(s) = 6
    /\ \A s : s.do = "last" => Cost(s) = 5
    /\ \A s : s.do = "expr" => Cost(s) = 4
    /\ \A s : s.do \in {"body", "inner"} => Cost(s) = 3
    /\ \A s : s.do \notin {"last_of_method", "last", "expr", "body", "inner"} => Cost(s) = 1
BY DEF Cost

LEMMA UnitIs ==
    ASSUME NEW i, NEW todo, NEW u
    PROVE  u \in Units(i, todo) <=>
               \/ u = <<i, 0, 1>>
               \/ \E k \in 1 .. Len(todo) :
                      \E c \in 1 .. Cost(todo[Len(todo) + 1 - k]) : u = <<i, k, c>>
BY DEF Units

LEMMA WorkIs ==
    ASSUME NEW calls, NEW u
    PROVE  u \in Work(calls) <=> \E i \in 1 .. Len(calls) : u \in Units(i, calls[i].todo)
BY DEF Work

LEMMA FiniteWork ==
    ASSUME NEW calls \in Seq(Frames)
    PROVE  IsFiniteSet(Work(calls))
<1>1. ASSUME NEW n \in Nat, NEW Op, Op \in [1 .. n -> {Op[x] : x \in 1 .. n}],
             \A x \in 1 .. n : IsFiniteSet(Op[x])
      PROVE  IsFiniteSet(UNION {Op[x] : x \in 1 .. n})
  <2>1. Op \in Surjection(1 .. n, {Op[x] : x \in 1 .. n})
    BY <1>1 DEF Surjection
  <2>2. IsFiniteSet({Op[x] : x \in 1 .. n})
    BY <2>1, FS_Interval, FS_Surjection
  <2> QED BY <1>1, <2>2, FS_UNION
<1>2. ASSUME NEW i \in 1 .. Len(calls)
      PROVE  IsFiniteSet(Units(i, calls[i].todo))
  <2>1. PICK todo \in Seq(Script) : todo = calls[i].todo
    BY FrameIs
  <2>2. PICK f : f = [k \in 1 .. Len(todo) |-> Column(i, k, Cost(todo[Len(todo) + 1 - k]))]
    OBVIOUS
  <2>3. \A k \in 1 .. Len(todo) : IsFiniteSet(f[k])
    <3>1. \A s : Cost(s) \in Nat
      BY CostIs
    <3> QED BY <2>2, <3>1, ColumnIs
  <2>4. Len(todo) \in Nat /\ f \in [1 .. Len(todo) -> {f[k] : k \in 1 .. Len(todo)}]
    BY <2>2
  <2>5. IsFiniteSet(UNION {f[k] : k \in 1 .. Len(todo)})
    BY <1>1, <2>3, <2>4
  <2>6. Units(i, todo) = {<<i, 0, 1>>} \cup UNION {f[k] : k \in 1 .. Len(todo)}
    BY <2>2 DEF Units, Column
  <2>7. PICK x, S : x = <<i, 0, 1>> /\ S = UNION {f[k] : k \in 1 .. Len(todo)}
    OBVIOUS
  <2>8. IsFiniteSet(S \cup {x}) /\ Units(i, todo) = S \cup {x}
    BY <2>5, <2>6, <2>7, FS_AddElement
  <2> QED BY <2>1, <2>8
<1>3. PICK g : g = [i \in 1 .. Len(calls) |-> Units(i, calls[i].todo)]
  OBVIOUS
<1>4. Len(calls) \in Nat /\ g \in [1 .. Len(calls) -> {g[i] : i \in 1 .. Len(calls)}]
      /\ \A i \in 1 .. Len(calls) : IsFiniteSet(g[i])
  BY <1>2, <1>3
<1>5. IsFiniteSet(UNION {g[i] : i \in 1 .. Len(calls)})
  BY <1>1, <1>4
<1>6. Work(calls) = UNION {g[i] : i \in 1 .. Len(calls)}
  BY <1>3 DEF Work
<1> QED BY <1>5, <1>6

(* The units of the steps put above m - 1 steps, and of the calls above n.  *)
Steep(n, m, steps) ==
    UNION {Column(n, m + Len(steps) - j, Cost(steps[j])) : j \in 1 .. Len(steps)}
Above(n, calls) == UNION {Units(i, calls[i].todo) : i \in n + 1 .. Len(calls)}

(* A call whose first step is replaced by others: what is below is kept.    *)
LEMMA Reworked ==
    ASSUME NEW s \in Seq(Frames), NEW t \in Seq(Frames), s # <<>>, Len(s) <= Len(t),
           NEW n, n = Len(s), \A i \in 1 .. n - 1 : t[i].todo = s[i].todo,
           NEW todo \in Seq(Script), todo = s[n].todo, todo # <<>>,
           NEW steps \in Seq(Script), t[n].todo = steps \o Tail(todo)
    PROVE  Work(t) \subseteq (Work(s) \ Column(n, Len(todo), Cost(todo[1])))
                             \cup Steep(n, Len(todo), steps) \cup Above(n, t)
<1> DEFINE m == Len(todo)
           l == Len(steps)
           Kept(u)   == u \in Work(s) /\ \A c : u # <<n, m, c>>
           Put(u)    == \E j \in 1 .. l :
                            \E c \in 1 .. Cost(steps[j]) : u = <<n, m + l - j, c>>
           Called(u) == \E i \in n + 1 .. Len(t) : u \in Units(i, t[i].todo)
<1> SUFFICES ASSUME NEW u \in Work(t)
             PROVE  \/ u \in Work(s) \ Column(n, m, Cost(todo[1]))
                    \/ u \in Steep(n, m, steps)
                    \/ u \in Above(n, t)
  OBVIOUS
<1>0. ASSUME Kept(u) \/ Put(u) \/ Called(u)
      PROVE  \/ u \in Work(s) \ Column(n, m, Cost(todo[1]))
             \/ u \in Steep(n, m, steps)
             \/ u \in Above(n, t)
  <2>1. CASE Kept(u)
    BY <2>1 DEF Column
  <2>2. CASE Put(u)
    BY <2>2 DEF Steep, Column
  <2>3. CASE Called(u)
    BY <2>3 DEF Above
  <2> QED BY <1>0, <2>1, <2>2, <2>3
<1>1. /\ n \in Nat \ {0} /\ Len(t) \in Nat /\ m \in Nat \ {0} /\ l \in Nat
      /\ n \in 1 .. Len(s)
  BY EmptySeq
<1>2. PICK i \in 1 .. Len(t) : u \in Units(i, t[i].todo)
  BY WorkIs
<1>3. ASSUME i < n PROVE Kept(u)
  <2>1. u \in Units(i, s[i].todo) /\ i \in 1 .. Len(s)
    BY <1>1, <1>2, <1>3
  <2>2. u \in Work(s)
    BY <2>1, WorkIs
  <2>3. \A c : u # <<n, m, c>>
    BY <1>3, <2>1, UnitIs
  <2> QED BY <2>2, <2>3
<1>4. ASSUME i = n PROVE Kept(u) \/ Put(u)
  <2> DEFINE now == t[n].todo
  <2>1. /\ Len(now) = l + m - 1
        /\ \A q \in 1 .. l : now[q] = steps[q]
        /\ \A q \in 1 .. m - 1 : now[l + q] = todo[q + 1]
    <3>1. /\ Tail(todo) \in Seq(Script) /\ Len(Tail(todo)) = m - 1
          /\ \A q \in 1 .. m - 1 : Tail(todo)[q] = todo[q + 1]
      BY HeadTailProperties
    <3>2. /\ Len(steps \o Tail(todo)) = l + Len(Tail(todo))
          /\ \A q \in 1 .. l + Len(Tail(todo)) : (steps \o Tail(todo))[q] =
                 IF q <= l THEN steps[q] ELSE Tail(todo)[q - l]
      BY <3>1, ConcatProperties
    <3>3. ASSUME NEW q \in 1 .. m - 1 PROVE now[l + q] = todo[q + 1]
      <4>1. l + q \in 1 .. l + Len(Tail(todo)) /\ ~(l + q <= l) /\ l + q - l = q
        BY <1>1, <3>1
      <4> QED BY <3>1, <3>2, <4>1
    <3> QED BY <1>1, <3>1, <3>2, <3>3
  <2> HIDE DEF now
  <2>2. u \in Units(n, now)
    BY <1>2, <1>4 DEF now
  <2>3. CASE u = <<n, 0, 1>>
    <3>1. u \in Units(n, todo)
      BY <2>3, UnitIs
    <3>2. u \in Work(s)
      BY <1>1, <3>1, WorkIs
    <3> QED BY <1>1, <2>3, <3>2
  <2>4. ASSUME NEW k \in 1 .. Len(now), NEW c \in 1 .. Cost(now[Len(now) + 1 - k]),
               u = <<n, k, c>>
        PROVE  Kept(u) \/ Put(u)
    <3>1. CASE k < m
      <4>1. m - k \in 1 .. m - 1 /\ Len(now) + 1 - k = l + (m - k) /\ (m - k) + 1 = m + 1 - k
            /\ k \in 1 .. m
        BY SMTT(30), <1>1, <2>1, <3>1
      <4>2. now[Len(now) + 1 - k] = todo[m + 1 - k]
        BY <2>1, <4>1
      <4>3. u \in Units(n, todo)
        BY <2>4, <4>1, <4>2, UnitIs
      <4>4. u \in Work(s)
        BY <1>1, <4>3, WorkIs
      <4> QED BY <1>1, <2>4, <3>1, <4>4
    <3>2. CASE k >= m
      <4>1. PICK j \in 1 .. l : j = m + l - k
        BY <1>1, <2>1, <3>2
      <4>2. Len(now) + 1 - k = j /\ k = m + l - j
        BY <1>1, <2>1, <4>1
      <4>3. now[Len(now) + 1 - k] = steps[j]
        BY <2>1, <4>2
      <4> QED BY <2>4, <4>2, <4>3
    <3> QED BY <1>1, <2>1, <3>1, <3>2
  <2> QED BY <2>2, <2>3, <2>4, UnitIs
<1>5. ASSUME i > n PROVE Called(u)
  BY <1>1, <1>2, <1>5
<1> QED BY <1>0, <1>1, <1>3, <1>4, <1>5

(* The units of the step a call is at.                                      *)
LEMMA FirstUnits ==
    ASSUME NEW s \in Seq(Frames), s # <<>>, s[Len(s)].todo # <<>>
    PROVE  Column(Len(s), Len(s[Len(s)].todo), Cost(s[Len(s)].todo[1])) \subseteq Work(s)
<1> DEFINE n == Len(s)
           todo == s[n].todo
<1>1. n \in Nat \ {0} /\ n \in 1 .. Len(s) /\ todo \in Seq(Script)
  BY EmptySeq, FrameIs
<1>2. Len(todo) \in Nat \ {0} /\ Len(todo) \in 1 .. Len(todo) /\ Len(todo) + 1 - Len(todo) = 1
  BY <1>1, EmptySeq
<1> SUFFICES ASSUME NEW c \in 1 .. Cost(todo[1]) PROVE <<n, Len(todo), c>> \in Work(s)
  BY DEF Column
<1>3. <<n, Len(todo), c>> \in Units(n, todo)
  BY <1>2, UnitIs
<1> QED BY <1>1, <1>3, WorkIs

(* With no step put in its place.                                           *)
LEMMA JustDone ==
    ASSUME NEW s \in Seq(Frames), NEW t \in Seq(Frames), s # <<>>, Len(s) <= Len(t),
           NEW n, n = Len(s), \A i \in 1 .. n - 1 : t[i].todo = s[i].todo,
           NEW todo \in Seq(Script), todo = s[n].todo, todo # <<>>,
           t[n].todo = Tail(todo)
    PROVE  /\ Work(t) \subseteq (Work(s) \ Column(n, Len(todo), Cost(todo[1]))) \cup Above(n, t)
           /\ Len(t) = n => Work(t) \subseteq Work(s) \ Column(n, Len(todo), Cost(todo[1]))
<1>1. PICK steps \in Seq(Script) : steps = <<>>
  BY EmptySeq
<1>2. Tail(todo) = steps \o Tail(todo)
  BY <1>1, HeadTailProperties, ConcatEmptySeq
<1>3. Work(t) \subseteq (Work(s) \ Column(n, Len(todo), Cost(todo[1])))
                        \cup Steep(n, Len(todo), steps) \cup Above(n, t)
  BY <1>2, Reworked
<1>4. Steep(n, Len(todo), steps) = {}
  <2>1. 1 .. Len(steps) = {}
    BY <1>1, EmptySeq
  <2> QED BY <2>1 DEF Steep
<1>5. Len(t) = n => Above(n, t) = {}
  <2>1. Len(t) = n => n + 1 .. Len(t) = {}
    OBVIOUS
  <2> QED BY <2>1 DEF Above
<1> QED BY <1>3, <1>4, <1>5

(* A call does a step and is left with the others.                          *)
LEMMA DoneLess ==
    ASSUME NEW s \in Seq(Frames), NEW t \in Seq(Frames), s # <<>>, Len(t) = Len(s),
           \A i \in 1 .. Len(s) - 1 : t[i].todo = s[i].todo,
           s[Len(s)].todo # <<>>, t[Len(s)].todo = Tail(s[Len(s)].todo)
    PROVE  Cardinality(Work(t)) < Cardinality(Work(s))
<1>1. PICK n : n = Len(s)
  OBVIOUS
<1>2. n \in Nat \ {0} /\ n \in 1 .. Len(s)
  BY <1>1, EmptySeq
<1>3. PICK todo \in Seq(Script) : todo = s[n].todo
  BY <1>2, FrameIs
<1>4. PICK x : x = <<n, Len(todo), 1>>
  OBVIOUS
<1>5. x \in Work(s)
  <2>1. 1 \in 1 .. Cost(todo[1])
    BY CostIs
  <2> QED BY <1>1, <1>3, <1>4, <2>1, FirstUnits DEF Column
<1>6. ASSUME NEW u \in Work(t) PROVE u \in Work(s) \ {x}
  <2>1. Work(t) \subseteq Work(s) \ Column(n, Len(todo), Cost(todo[1]))
    <3>1. /\ todo # <<>> /\ t[n].todo = Tail(todo)
          /\ Len(s) <= Len(t) /\ Len(t) = n
          /\ \A i \in 1 .. n - 1 : t[i].todo = s[i].todo
      BY <1>1, <1>2, <1>3
    <3> QED BY <1>1, <1>3, <3>1, JustDone
  <2>2. x \in Column(n, Len(todo), Cost(todo[1]))
    <3>1. 1 \in 1 .. Cost(todo[1])
      BY CostIs
    <3> QED BY <1>4, <3>1 DEF Column
  <2> QED BY <1>6, <2>1, <2>2
<1> QED BY <1>5, <1>6, FiniteWork, Fewer

(* A call does no more of its steps.                                        *)
LEMMA EmptyLess ==
    ASSUME NEW s \in Seq(Frames), NEW t \in Seq(Frames), s # <<>>, Len(t) = Len(s),
           \A i \in 1 .. Len(s) - 1 : t[i].todo = s[i].todo,
           s[Len(s)].todo # <<>>, t[Len(s)].todo = <<>>
    PROVE  Cardinality(Work(t)) < Cardinality(Work(s))
<1>1. PICK n : n = Len(s)
  OBVIOUS
<1>2. n \in Nat \ {0} /\ n \in 1 .. Len(s)
  BY <1>1, EmptySeq
<1>3. PICK todo \in Seq(Script) : todo = s[n].todo
  BY <1>2, FrameIs
<1>4. PICK x : x = <<n, Len(todo), 1>>
  OBVIOUS
<1>5. x \in Work(s) /\ Len(todo) # 0
  <2>1. 1 \in 1 .. Cost(todo[1])
    BY CostIs
  <2> QED BY <1>1, <1>3, <1>4, <2>1, FirstUnits, EmptySeq DEF Column
<1>6. ASSUME NEW u \in Work(t) PROVE u \in Work(s) \ {x}
  <2>1. PICK i \in 1 .. n : u \in Units(i, t[i].todo)
    BY <1>1, WorkIs
  <2>2. CASE i = n
    <3>1. u = <<n, 0, 1>>
      BY <1>1, <2>1, <2>2, UnitIs, EmptySeq
    <3>2. u \in Units(n, s[n].todo)
      BY <3>1, UnitIs
    <3> QED BY <1>2, <1>4, <1>5, <3>1, <3>2, WorkIs
  <2>3. CASE i # n
    <3>1. u \in Units(i, s[i].todo) /\ i \in 1 .. Len(s)
      BY <1>1, <1>2, <2>1, <2>3
    <3>2. u # x
      BY <1>4, <2>3, <3>1, UnitIs
    <3> QED BY <3>1, <3>2, WorkIs
  <2> QED BY <2>2, <2>3
<1> QED BY <1>5, <1>6, FiniteWork, Fewer

(* A call that has nothing more to do returns.                              *)
LEMMA ReturnLess ==
    ASSUME NEW s \in Seq(Frames), NEW t \in Seq(Frames), s # <<>>, Len(t) = Len(s) - 1,
           \A i \in 1 .. Len(s) - 1 : t[i].todo = s[i].todo
    PROVE  Cardinality(Work(t)) < Cardinality(Work(s))
<1>1. PICK n : n = Len(s)
  OBVIOUS
<1>2. n \in Nat \ {0} /\ n \in 1 .. Len(s)
  BY <1>1, EmptySeq
<1>3. PICK x : x = <<n, 0, 1>>
  OBVIOUS
<1>4. x \in Work(s)
  <2>1. x \in Units(n, s[n].todo)
    BY <1>3, UnitIs
  <2> QED BY <1>2, <2>1, WorkIs
<1>5. ASSUME NEW u \in Work(t) PROVE u \in Work(s) \ {x}
  <2>1. PICK i \in 1 .. n - 1 : u \in Units(i, t[i].todo)
    BY <1>1, WorkIs
  <2>2. u \in Units(i, s[i].todo) /\ i \in 1 .. Len(s) /\ i # n
    BY <1>1, <1>2, <2>1
  <2>3. u # x
    BY <1>3, <2>2, UnitIs
  <2> QED BY <2>2, <2>3, WorkIs
<1> QED BY <1>4, <1>5, FiniteWork, Fewer

(* An argument that has to be parsed first, in place of the step that asks. *)
LEMMA AskedLess ==
    ASSUME NEW s \in Seq(Frames), NEW t \in Seq(Frames), s # <<>>, Len(t) = Len(s),
           \A i \in 1 .. Len(s) - 1 : t[i].todo = s[i].todo,
           s[Len(s)].todo # <<>>, NEW steps \in Seq(Script),
           t[Len(s)].todo = steps \o Tail(s[Len(s)].todo),
           \/ /\ s[Len(s)].todo[1].do = "last" /\ Len(steps) = 1 /\ Cost(steps[1]) = 4
           \/ /\ s[Len(s)].todo[1].do = "last_of_method" /\ Len(steps) = 2
              /\ Cost(steps[1]) = 4 /\ Cost(steps[2]) = 1
    PROVE  Cardinality(Work(t)) < Cardinality(Work(s))
<1>1. PICK n : n = Len(s)
  OBVIOUS
<1>2. n \in Nat \ {0} /\ n \in 1 .. Len(s)
  BY <1>1, EmptySeq
<1>3. PICK todo \in Seq(Script) : todo = s[n].todo
  BY <1>2, FrameIs
<1>4. PICK m \in Nat : m = Len(todo)
  BY <1>3
<1>5. PICK R : R = Column(n, m, Cost(todo[1]))
  OBVIOUS
<1>6. R \in SUBSET Work(s) /\ IsFiniteSet(Work(s))
  BY <1>1, <1>3, <1>4, <1>5, FirstUnits, FiniteWork
<1>7. Above(n, t) = {} /\ Len(s) <= Len(t)
  <2>1. n + 1 .. Len(t) = {} /\ Len(s) <= Len(t)
    BY <1>1, <1>2
  <2> QED BY <2>1 DEF Above
<1>8. Work(t) \subseteq (Work(s) \ R) \cup Steep(n, m, steps)
  <2>1. Work(t) \subseteq (Work(s) \ Column(n, Len(todo), Cost(todo[1])))
                          \cup Steep(n, Len(todo), steps) \cup Above(n, t)
    BY <1>1, <1>3, <1>7, Reworked
  <2> QED BY <1>4, <1>5, <1>7, <2>1
<1>9. CASE todo[1].do = "last" /\ Len(steps) = 1 /\ Cost(steps[1]) = 4
  <2>1. Steep(n, m, steps) = Column(n, m, 4)
    <3>1. m + 1 - 1 = m /\ 1 .. 1 = {1}
      BY <1>4
    <3> QED BY <1>9, <3>1 DEF Steep
  <2>2. PICK A : A = Column(n, m, 4)
    OBVIOUS
  <2>3. Cost(todo[1]) = 5
    BY <1>9, CostIs
  <2>4. IsFiniteSet(A) /\ Cardinality(A) = 4
    BY <2>2, ColumnIs
  <2>5. Cardinality(R) = 5
    BY <1>5, <2>3, ColumnIs
  <2>6. Cardinality(A) < Cardinality(R) /\ Work(t) \subseteq (Work(s) \ R) \cup A
    BY <1>8, <2>1, <2>2, <2>4, <2>5
  <2> QED BY <1>6, <2>4, <2>6, Trade
<1>10. CASE /\ todo[1].do = "last_of_method" /\ Len(steps) = 2
            /\ Cost(steps[1]) = 4 /\ Cost(steps[2]) = 1
  <2>1. Steep(n, m, steps) = Column(n, m + 1, 4) \cup Column(n, m, 1)
    <3>1. m + 2 - 1 = m + 1 /\ m + 2 - 2 = m /\ 1 .. 2 = {1, 2}
      BY <1>4
    <3> QED BY <1>10, <3>1 DEF Steep
  <2>2. PICK B, C, A : B = Column(n, m + 1, 4) /\ C = Column(n, m, 1) /\ A = B \cup C
    OBVIOUS
  <2>3. Cost(todo[1]) = 6
    BY <1>10, CostIs
  <2>4. IsFiniteSet(B) /\ Cardinality(B) = 4 /\ IsFiniteSet(C) /\ Cardinality(C) = 1
    BY <2>2, ColumnIs
  <2>5. IsFiniteSet(A) /\ Cardinality(A) = 4 + 1 - Cardinality(B \cap C)
        /\ Cardinality(B \cap C) \in Nat
    <3>1. IsFiniteSet(B \cup C)
          /\ Cardinality(B \cup C) = Cardinality(B) + Cardinality(C) - Cardinality(B \cap C)
      BY <2>4, FS_Union
    <3>2. IsFiniteSet(B \cap C)
      BY <2>4, FS_Intersection
    <3>3. Cardinality(B \cap C) \in Nat
      BY <3>2, FS_CardinalityType
    <3> QED BY <2>2, <2>4, <3>1, <3>3
  <2>6. Cardinality(R) = 6
    BY <1>5, <2>3, ColumnIs
  <2>7. Cardinality(A) < Cardinality(R) /\ Work(t) \subseteq (Work(s) \ R) \cup A
    BY <1>8, <2>1, <2>2, <2>5, <2>6
  <2> QED BY <1>6, <2>5, <2>7, Trade
<1> QED BY <1>1, <1>3, <1>9, <1>10

(* The steps of a script of one or two.                                     *)
LEMMA OneOrTwo ==
    ASSUME NEW l \in {1, 2}, NEW k \in 1 .. l
    PROVE  k = 1 \/ (l = 2 /\ k = 2)
OBVIOUS

(* A call that does a step by another call, whose steps are cheap.          *)
LEMMA CalledLess ==
    ASSUME NEW s \in Seq(Frames), NEW t \in Seq(Frames), s # <<>>, Len(t) = Len(s) + 1,
           \A i \in 1 .. Len(s) - 1 : t[i].todo = s[i].todo,
           s[Len(s)].todo # <<>>, t[Len(s)].todo = Tail(s[Len(s)].todo),
           \A q \in 1 .. Len(t[Len(t)].todo) : Cost(t[Len(t)].todo[q]) = 1,
           Len(t[Len(t)].todo) \in 1 .. 2,
           Len(t[Len(t)].todo) + 1 < Cost(s[Len(s)].todo[1])
    PROVE  Cardinality(Work(t)) < Cardinality(Work(s))
<1>1. PICK n : n = Len(s)
  OBVIOUS
<1>2. n \in Nat \ {0} /\ n \in 1 .. Len(s)
  BY <1>1, EmptySeq
<1>3. PICK todo \in Seq(Script) : todo = s[n].todo
  BY <1>2, FrameIs
<1>4. PICK m \in Nat : m = Len(todo)
  BY <1>3
<1>5. PICK R : R = Column(n, m, Cost(todo[1]))
  OBVIOUS
<1>6. /\ R \in SUBSET Work(s) /\ IsFiniteSet(Work(s))
      /\ Cardinality(R) = Cost(todo[1]) /\ Cost(todo[1]) \in Nat
  <2>1. PICK x : x = todo[1]
    OBVIOUS
  <2>2. Cost(x) \in 1 .. 6
    BY CostIs
  <2>3. PICK k \in Nat : k = Cost(x)
    BY <2>2
  <2>4. Cardinality(Column(n, m, k)) = k
    BY ColumnIs
  <2> QED BY <1>1, <1>3, <1>4, <1>5, <2>1, <2>3, <2>4, FirstUnits, FiniteWork
<1>7. PICK new \in Seq(Script) : new = t[n + 1].todo
  <2>1. n + 1 \in 1 .. Len(t)
    BY <1>1, <1>2
  <2> QED BY <2>1, FrameIs
<1>8. Len(s) <= Len(t) /\ Above(n, t) = Units(n + 1, new)
  <2>1. n + 1 .. Len(t) = {n + 1} /\ Len(s) <= Len(t)
    BY <1>1, <1>2
  <2> QED BY <1>7, <2>1 DEF Above
<1>9. PICK A : A = Units(n + 1, new)
  OBVIOUS
<1>10. Work(t) \subseteq (Work(s) \ R) \cup A
  <2>1. Work(t) \subseteq (Work(s) \ Column(n, Len(todo), Cost(todo[1]))) \cup Above(n, t)
    BY <1>1, <1>3, <1>8, JustDone
  <2> QED BY <1>4, <1>5, <1>8, <1>9, <2>1
<1>11. Len(new) \in {1, 2} /\ Len(new) + 1 < Cost(todo[1])
       /\ \A q \in 1 .. Len(new) : Cost(new[q]) = 1
  BY <1>1, <1>3, <1>7
<1>12. IsFiniteSet(A) /\ Cardinality(A) <= Len(new) + 1
  <2>1. PICK x, y, z : x = <<n + 1, 0, 1>> /\ y = <<n + 1, 1, 1>> /\ z = <<n + 1, 2, 1>>
    OBVIOUS
  <2>2. \A u \in A : u = x \/ u = y \/ (Len(new) = 2 /\ u = z)
    <3>1. ASSUME NEW u \in A, NEW k \in 1 .. Len(new),
                 NEW c \in 1 .. Cost(new[Len(new) + 1 - k]), u = <<n + 1, k, c>>
          PROVE  u = y \/ (Len(new) = 2 /\ u = z)
      <4>1. Len(new) + 1 - k \in 1 .. Len(new)
        BY <1>11, <3>1
      <4>2. c = 1
        BY SMTT(30), <1>11, <3>1, <4>1
      <4>3. k = 1 \/ (Len(new) = 2 /\ k = 2)
        BY <1>11, <3>1, OneOrTwo
      <4> QED BY <2>1, <3>1, <4>2, <4>3
    <3> QED BY <1>9, <2>1, <3>1, UnitIs
  <2>3. IsFiniteSet({x}) /\ Cardinality({x}) = 1
    BY FS_Singleton
  <2>4. PICK B : B = {x} \cup {y}
    OBVIOUS
  <2>5. IsFiniteSet(B) /\ Cardinality(B) \in {1, 2}
    <3>1. PICK X : X = {x}
      OBVIOUS
    <3>2. IsFiniteSet(X) /\ Cardinality(X) = 1
      BY <2>3, <3>1
    <3>3. IsFiniteSet(X \cup {y})
          /\ Cardinality(X \cup {y}) = IF y \in X THEN Cardinality(X) ELSE Cardinality(X) + 1
      BY <3>2, FS_AddElement
    <3>4. CASE y \in X
      BY <2>4, <3>1, <3>2, <3>3, <3>4
    <3>5. CASE y \notin X
      <4>1. Cardinality(X \cup {y}) = 2
        BY <3>2, <3>3, <3>5
      <4> QED BY <2>4, <3>1, <3>3, <4>1
    <3> QED BY <3>4, <3>5
  <2>6. PICK C : C = B \cup {z}
    OBVIOUS
  <2>7. IsFiniteSet(C) /\ Cardinality(C) \in {1, 2, 3}
    <3>1. IsFiniteSet(B \cup {z})
          /\ Cardinality(B \cup {z}) = IF z \in B THEN Cardinality(B) ELSE Cardinality(B) + 1
      BY <2>5, FS_AddElement
    <3> QED BY <2>5, <2>6, <3>1
  <2>8. CASE Len(new) = 1
    <3>1. A \in SUBSET B
      BY <2>2, <2>4, <2>8
    <3>2. IsFiniteSet(A) /\ Cardinality(A) <= Cardinality(B)
      BY <2>5, <3>1, FS_Subset
    <3>3. Cardinality(A) \in Nat
      BY <3>2, FS_CardinalityType
    <3> QED BY <2>5, <2>8, <3>2, <3>3
  <2>9. CASE Len(new) = 2
    <3>1. A \in SUBSET C
      BY <2>2, <2>4, <2>6
    <3>2. IsFiniteSet(A) /\ Cardinality(A) <= Cardinality(C)
      BY <2>7, <3>1, FS_Subset
    <3>3. Cardinality(A) \in Nat
      BY <3>2, FS_CardinalityType
    <3> QED BY <2>7, <2>9, <3>2, <3>3
  <2> QED BY <1>11, <2>8, <2>9
<1>13. Cardinality(A) < Cardinality(R)
  <2>1. Cardinality(A) \in Nat
    BY <1>12, FS_CardinalityType
  <2> QED BY <1>6, <1>11, <1>12, <2>1
<1> QED BY <1>6, <1>10, <1>12, <1>13, Trade


(***************************************************************************)
(* Every step brings the parser nearer to its end                          *)
(***************************************************************************)

Descends ==
    \/ status' # "run"
    \/ pos' > pos
    \/ /\ pos' = pos
       /\ Committed => Committed'
       /\ \/ ~Committed /\ Committed'
          \/ Cardinality(Work(stack')) < Cardinality(Work(stack))

(* A step is committed by the call that does it.                            *)
Commits(f) ==
    /\ f.todo # <<>>
    /\ \/ Demands(f.todo[1])
       \/ f.todo[1].do = "leaf" /\ \/ f.todo[1].tok = "IDENT" \/ Peek # "EOF"
                                   \/ Len(f.todo) > 1 /\ Demands(f.todo[2])
       \/ f.todo[1].do = "primary" /\ Peek # f.stop
       \/ f.todo[1].do = "expr" /\ Peek # f.todo[1].tok

LEMMA CommittedIs ==
    ASSUME Ready
    PROVE  Committed <=> Commits(Top)
BY DEF Committed, Commits, Ready, Doing, Arg

LEMMA CommittedAfter ==
    ASSUME Ready, stack' # <<>>, NEW g, Top' = g, UNCHANGED pos, Keep
    PROVE  Committed' <=> Commits(g)
<1>1. Peek' = Peek /\ status' = "run"
  BY DEF Peek, TokenAt, Skip, Keep, Ready
<1>2. Committed' <=>
          /\ Top'.todo # <<>>
          /\ \/ Demands(Top'.todo[1])
             \/ /\ Top'.todo[1].do = "leaf"
                /\ \/ Top'.todo[1].tok = "IDENT" \/ Peek' # "EOF"
                   \/ Len(Top'.todo) > 1 /\ Demands(Top'.todo[2])
             \/ Top'.todo[1].do = "primary" /\ Peek' # Top'.stop
             \/ Top'.todo[1].do = "expr" /\ Peek' # Top'.todo[1].tok
  BY <1>1 DEF Committed, Doing, Arg, Ready, Demands
<1> QED BY <1>1, <1>2 DEF Commits

LEMMA Free ==
    ASSUME ParserInv, NEW what, what \notin {"expect", "leaf", "primary", "expr"}, Doing(what)
    PROVE  ~Commits(Top)
BY DoingIs DEF Commits, Demands

(* What the two assignments make of the stack.                              *)
LEMMA BecomeLeaves ==
    ASSUME Typed, Ready, NEW g \in Frames, Become(g)
    PROVE  /\ stack' \in Seq(Frames) /\ stack' # <<>> /\ Len(stack') = Len(stack)
           /\ Top' = g /\ stack'[Len(stack)] = g
           /\ \A k \in 1 .. Len(stack) - 1 : stack'[k].todo = stack[k].todo
<1>1. PICK n \in Nat \ {0} : n = Len(stack)
  BY TopIs
<1>2. stack \in Seq(Frames)
  BY DEF Typed
<1>3. /\ stack' \in Seq(Frames) /\ Len(stack') = n
      /\ \A k \in 1 .. n : stack'[k] = IF k = n THEN g ELSE stack[k]
  BY <1>1, <1>2, ExceptSeq DEF Become
<1>4. stack'[n] = g /\ stack' # <<>>
  BY <1>3
<1>5. Top' = g
  BY <1>3, <1>4 DEF Top
<1> QED BY <1>1, <1>3, <1>4, <1>5

LEMMA CallLeaves ==
    ASSUME Typed, Ready, NEW g \in Frames, NEW h \in Frames, Call(g, h)
    PROVE  /\ stack' \in Seq(Frames) /\ stack' # <<>> /\ Len(stack') = Len(stack) + 1
           /\ Top' = h /\ stack'[Len(stack)] = g /\ stack'[Len(stack')] = h
           /\ \A k \in 1 .. Len(stack) - 1 : stack'[k].todo = stack[k].todo
<1>1. PICK n \in Nat \ {0} : n = Len(stack)
  BY TopIs
<1>2. stack \in Seq(Frames)
  BY DEF Typed
<1>3. PICK s : s = [stack EXCEPT ![n] = g]
  OBVIOUS
<1>4. /\ s \in Seq(Frames) /\ Len(s) = n
      /\ \A k \in 1 .. n : s[k] = IF k = n THEN g ELSE stack[k]
  BY <1>1, <1>2, <1>3, ExceptSeq
<1>5. stack' = Append(s, h)
  BY <1>1, <1>3 DEF Call
<1>6. /\ stack' \in Seq(Frames) /\ Len(stack') = n + 1 /\ stack'[n + 1] = h
      /\ \A k \in 1 .. n : stack'[k] = s[k]
  BY <1>4, <1>5, AppendProperties
<1>7. stack' # <<>> /\ stack'[n] = g
  BY <1>4, <1>6
<1>8. Top' = h
  BY <1>6 DEF Top
<1>9. \A k \in 1 .. n - 1 : stack'[k].todo = stack[k].todo
  BY <1>4, <1>6
<1> QED BY <1>1, <1>6, <1>7, <1>8, <1>9

(* A step that consumes a token.                                            *)
LEMMA PastIsFurther ==
    ASSUME Typed, Peek # "EOF"
    PROVE  Past(pos) > pos
<1>1. src \in Source /\ pos \in 1 .. Len(src) + 1 /\ Len(src) \in Nat
  BY PastType
<1>2. Skip(pos) \in pos .. Len(src) + 1 /\ Past(pos) = Skip(pos) + 1
  BY <1>1, SkipIs, TokenIs DEF Peek
<1> QED BY <1>1, <1>2

LEMMA ReadsOn ==
    ASSUME Typed, Peek # "EOF",
           pos' \in {Past(pos), Past(Past(pos)), Past(Past(Past(pos)))}
    PROVE  Descends
<1>1. /\ Past(pos) > pos /\ pos \in Int /\ Past(pos) \in Int
      /\ Past(Past(pos)) \in Int /\ Past(Past(pos)) >= Past(pos)
      /\ Past(Past(Past(pos))) \in Int /\ Past(Past(Past(pos))) >= Past(Past(pos))
  BY PastIsFurther, PastType
<1> QED BY <1>1 DEF Descends

LEMMA StopDescends ==
    ASSUME Panic \/ Fault
    PROVE  Descends
BY DEF Panic, Fault, Descends

(* A step that is done and leaves the others.                               *)
LEMMA DoneDescends ==
    ASSUME ParserInv, NEW what, Doing(what), NEW g \in Frames, g.todo = Tail(Top.todo),
           Become(g), UNCHANGED pos, Keep, Commits(Top) => Commits(g)
    PROVE  Descends
<1>1. /\ Typed /\ Ready /\ Top.todo # <<>> /\ Top = stack[Len(stack)]
      /\ stack \in Seq(Frames) /\ stack # <<>>
  BY DoingIs, TopIs DEF Typed, Ready
<1>2. /\ stack' \in Seq(Frames) /\ stack' # <<>> /\ Len(stack') = Len(stack)
      /\ Top' = g /\ stack'[Len(stack)] = g
      /\ \A k \in 1 .. Len(stack) - 1 : stack'[k].todo = stack[k].todo
  BY <1>1, BecomeLeaves
<1>3. Cardinality(Work(stack')) < Cardinality(Work(stack))
  BY <1>1, <1>2, DoneLess
<1>4. Committed => Committed'
  BY <1>1, <1>2, CommittedIs, CommittedAfter
<1> QED BY <1>3, <1>4 DEF Descends

(* A call whose first step is committed.                                    *)
LEMMA CallCommits ==
    ASSUME ParserInv, NEW what, Doing(what), NEW g \in Frames, NEW h \in Frames, Call(g, h),
           UNCHANGED pos, Keep, ~Commits(Top), Commits(h)
    PROVE  Descends
<1>1. Typed /\ Ready
  BY DoingIs
<1>2. stack' # <<>> /\ Top' = h
  BY <1>1, CallLeaves
<1>3. ~Committed /\ Committed'
  BY <1>1, <1>2, CommittedIs, CommittedAfter
<1> QED BY <1>3 DEF Descends

(* A call in the place of the step.                                         *)
LEMMA CallDescends ==
    ASSUME ParserInv, NEW what, Doing(what), NEW h \in Frames, Call(Done(Top), h),
           UNCHANGED pos, Keep, Commits(Top) => Commits(h),
           \A q \in 1 .. Len(h.todo) : Cost(h.todo[q]) = 1,
           Len(h.todo) \in 1 .. 2, Len(h.todo) + 1 < Cost(Top.todo[1])
    PROVE  Descends
<1>1. /\ Typed /\ Ready /\ Top.todo # <<>> /\ Top = stack[Len(stack)]
      /\ stack \in Seq(Frames) /\ stack # <<>>
      /\ Done(Top) \in Frames /\ Done(Top).todo = Tail(Top.todo)
  BY DoingIs, TopIs, DoneIs DEF Typed, Ready
<1>2. /\ stack' \in Seq(Frames) /\ stack' # <<>> /\ Len(stack') = Len(stack) + 1
      /\ Top' = h /\ stack'[Len(stack)] = Done(Top) /\ stack'[Len(stack')] = h
      /\ \A k \in 1 .. Len(stack) - 1 : stack'[k].todo = stack[k].todo
  BY <1>1, CallLeaves
<1>3. Cardinality(Work(stack')) < Cardinality(Work(stack))
  BY <1>1, <1>2, CalledLess
<1>4. Committed => Committed'
  BY <1>1, <1>2, CommittedIs, CommittedAfter
<1> QED BY <1>3, <1>4 DEF Descends

(***************************************************************************)
(* Step by step                                                            *)
(***************************************************************************)

LEMMA NoEnd == "EOF" \notin Operand \cup Unary \cup Infix \cup Name
BY DEF Operand, Name, Literal, Number, Unary, Infix, Assign

LEMMA ExpectTokenDescends == ASSUME ParserInv, ExpectToken PROVE Descends
<1>1. CASE Panic
  BY <1>1, StopDescends
<1>2. CASE ~Panic
  <2>1. Doing("expect") /\ Kind(Peek) = Arg /\ pos' = Past(pos) /\ Become(Done(Top)) /\ Keep
    BY <1>2 DEF ExpectToken
  <2>2. Typed /\ Top \in Frames /\ Top.todo # <<>> /\ Top.todo[1].do = "expect"
        /\ Peek \in Token /\ Done(Top) \in Frames
    BY <2>1, DoingIs
  <2>3. CASE Peek # "EOF"
    BY <2>1, <2>2, <2>3, ReadsOn
  <2>4. CASE Peek = "EOF" /\ pos' = pos
    <3>1. Arg = "EOF"
      BY <2>1, <2>2, <2>4, Kinds, NoEnd
    <3>2. ~Commits(Top)
      BY <2>2, <3>1 DEF Commits, Demands, Arg
    <3>3. Done(Top).todo = Tail(Top.todo)
      BY <2>2, DoneIs
    <3> QED BY <2>1, <2>2, <2>4, <3>2, <3>3, DoneDescends
  <2>5. CASE pos' # pos
    BY <2>1, <2>2, <2>5, PastType DEF Descends
  <2> QED BY <2>3, <2>4, <2>5
<1> QED BY <1>1, <1>2

LEMMA KeepTokenDescends == ASSUME ParserInv, KeepToken PROVE Descends
<1>1. CASE Panic
  BY <1>1, StopDescends
<1>2. CASE ~Panic
  <2> DEFINE g == Add(Done(Top), <<<<Peek, 0>>>>)
  <2>1. Doing("leaf") /\ Arg \in {Kind(Peek), "any"} /\ pos' = Past(pos) /\ Become(g) /\ Keep
    BY <1>2 DEF KeepToken
  <2>2. Typed /\ Top \in Frames /\ Top.todo # <<>> /\ Top.todo[1].do = "leaf"
        /\ Peek \in Token /\ Done(Top) \in Frames /\ Top.todo \in Seq(Script)
    BY <2>1, DoingIs, FrameIs
  <2>3. CASE Peek # "EOF"
    BY <2>1, <2>2, <2>3, ReadsOn
  <2>4. CASE Peek = "EOF" /\ pos' = pos
    <3>1. Arg # "IDENT"
      BY <2>1, <2>2, <2>4, Kinds, NoEnd
    <3>2. Done(Top).todo = Tail(Top.todo)
      BY <2>2, DoneIs
    <3>3. <<<<Peek, 0>>>> \in Tree
      <4>1. Peek \in Label
        BY <2>2, Labels
      <4> QED BY <4>1 DEF Tree
    <3>4. g \in Frames /\ g.todo = Tail(Top.todo)
      BY <2>2, <3>2, <3>3, AddIs
    <3> HIDE DEF g
    <3>5. ASSUME Commits(Top) PROVE Commits(g)
      <4>1. Len(Top.todo) > 1 /\ Demands(Top.todo[2])
        BY <2>2, <2>4, <3>1, <3>5 DEF Commits, Demands, Arg
      <4>2. Len(g.todo) = Len(Top.todo) - 1 /\ g.todo[1] = Top.todo[2]
            /\ Len(Top.todo) \in Nat
        BY <2>2, <3>4, <4>1, HeadTailProperties
      <4>3. g.todo # <<>>
        BY <4>1, <4>2
      <4> QED BY <4>1, <4>2, <4>3 DEF Commits
    <3> QED BY <2>1, <2>4, <3>4, <3>5, DoneDescends
  <2>5. CASE pos' # pos
    BY <2>1, <2>2, <2>5, PastType DEF Descends
  <2> QED BY <2>3, <2>4, <2>5
<1> QED BY <1>1, <1>2

(* A step that only makes a node of what was built, or nothing.             *)
LEMMA JustDescends ==
    ASSUME ParserInv, NEW what, what \notin {"expect", "leaf", "primary", "expr"},
           Doing(what), UNCHANGED pos, Keep,
           Become(Done(Top)) \/ \E label \in Label : Become(Join(Done(Top), label))
    PROVE  Descends
<1>1. Top \in Frames /\ Top.todo # <<>> /\ ~Commits(Top)
  BY DoingIs, Free
<1>2. Done(Top) \in Frames /\ Done(Top).todo = Tail(Top.todo)
  BY <1>1, DoneIs
<1>3. CASE Become(Done(Top))
  BY <1>1, <1>2, <1>3, DoneDescends
<1>4. ASSUME NEW label \in Label, Become(Join(Done(Top), label))
      PROVE  Descends
  <2>1. PICK g : g = Join(Done(Top), label)
    OBVIOUS
  <2>2. g \in Frames /\ g.todo = Tail(Top.todo) /\ Become(g)
    BY <1>2, <1>4, <2>1, JoinIs
  <2> QED BY <1>1, <2>2, DoneDescends
<1> QED BY <1>3, <1>4

LEMMA MakeNodeDescends == ASSUME ParserInv, MakeNode PROVE Descends
<1>1. Doing("node") /\ Become(Join(Done(Top), Arg)) /\ UNCHANGED pos /\ Keep
  BY DEF MakeNode
<1>2. Arg \in Label
  BY <1>1, DoingIs DEF Script, Arg
<1> QED BY <1>1, <1>2, JustDescends

LEMMA ReturnDescends == ASSUME ParserInv, Return PROVE Descends
<1>1. CASE Len(stack) = 1
  BY <1>1 DEF Return, Descends
<1>2. CASE Len(stack) # 1
  <2>1. /\ Typed /\ Ready /\ Top.todo = <<>> /\ Top \in Frames /\ Top.tree \in Tree
        /\ stack \in Seq(Frames) /\ stack # <<>>
    BY TopIs DEF Return, ParserInv, Typed, Ready
  <2>2. PICK n \in Nat \ {0} : Len(stack) = n + 1
    <3>1. Len(stack) \in Nat \ {0}
      BY <2>1, TopIs
    <3>2. PICK m : m = Len(stack) - 1
      OBVIOUS
    <3>3. m \in Nat \ {0} /\ Len(stack) = m + 1
      BY <1>2, <3>1, <3>2
    <3> QED BY <3>3
  <2>3. PICK s : s = SubSeq(stack, 1, n)
    OBVIOUS
  <2>4. s \in Seq(Frames) /\ Len(s) = n /\ \A k \in 1 .. n : s[k] = stack[k]
    BY <2>1, <2>2, <2>3, SubSeqProperties
  <2>5. stack' = [s EXCEPT ![n] = Add(s[n], Top.tree)] /\ pos' = pos
    BY <1>2, <2>2, <2>3 DEF Return
  <2>6. PICK g \in Frames : g = Add(s[n], Top.tree) /\ g.todo = s[n].todo
    <3>1. s[n] \in Frames
      BY <2>4, ElementOfSeq
    <3> QED BY <2>1, <3>1, AddIs
  <2>7. stack' = [s EXCEPT ![n] = g]
    BY <2>5, <2>6
  <2>8. /\ stack' \in Seq(Frames) /\ Len(stack') = n
        /\ \A k \in 1 .. n : stack'[k] = IF k = n THEN g ELSE s[k]
    BY <2>4, <2>7, ExceptSeq
  <2>9. /\ Len(stack') = Len(stack) - 1
        /\ \A k \in 1 .. Len(stack) - 1 : stack'[k].todo = stack[k].todo
    BY <2>2, <2>4, <2>6, <2>8
  <2>10. Cardinality(Work(stack')) < Cardinality(Work(stack))
    BY <2>1, <2>8, <2>9, ReturnLess
  <2>11. ~Committed
    BY <2>1 DEF Committed
  <2> QED BY <2>5, <2>10, <2>11 DEF Descends
<1> QED BY <1>1, <1>2

(* The operand of an expression.                                            *)
LEMMA VisitExprDescends == ASSUME ParserInv, VisitExpr PROVE Descends
<1> DEFINE todo == <<Do("primary"), Do("rest")>>
<1>1. /\ Doing("expr") /\ Keep /\ UNCHANGED pos
      /\ Call(Done(Top), Frame(todo, Arg, Top.todo[1].min))
  BY DEF VisitExpr
<1>2. Arg \in Token /\ Top.todo[1].min \in 0 .. 251 /\ Top.todo[1].do = "expr"
  BY <1>1, DoingIs DEF Script, Step, Arg
<1>3. todo \in Seq(Script) /\ Len(todo) = 2
      /\ todo[1] = Do("primary") /\ todo[2] = Do("rest") /\ todo # <<>>
  <2>1. Do("primary") \in Script /\ Do("rest") \in Script
    BY Scripts DEF Marks
  <2> QED BY <2>1
<1>4. \A q \in 1 .. Len(todo) : Cost(todo[q]) = 1
  <2>1. Do("primary").do = "primary" /\ Do("rest").do = "rest"
    BY DEF Do
  <2>2. Cost(Do("primary")) = 1 /\ Cost(Do("rest")) = 1
    BY <2>1, CostIs
  <2> QED BY <1>3, <2>2
<1> HIDE DEF todo
<1>5. PICK h : h = Frame(todo, Arg, Top.todo[1].min)
  OBVIOUS
<1>6. h \in Frames /\ h.todo = todo /\ h.stop = Arg
  <2>1. h \in Frames
    BY <1>2, <1>3, <1>5, NewFrame
  <2> QED BY <1>5, <2>1 DEF Frame
<1>7. Commits(Top) => Commits(h)
  <2>1. Do("primary").do = "primary"
    BY DEF Do
  <2> QED BY <1>2, <1>3, <1>6, <2>1 DEF Commits, Demands, Arg
<1>8. Cost(Top.todo[1]) = 4
  BY <1>2, CostIs
<1>9. /\ \A q \in 1 .. Len(h.todo) : Cost(h.todo[q]) = 1
      /\ Len(h.todo) \in 1 .. 2 /\ Len(h.todo) + 1 < Cost(Top.todo[1])
  <2>1. PICK c : c = Cost(Top.todo[1])
    OBVIOUS
  <2>2. c = 4
    BY <1>8, <2>1
  <2>3. Len(h.todo) = 2 /\ \A q \in 1 .. Len(h.todo) : Cost(h.todo[q]) = 1
    BY <1>3, <1>4, <1>6
  <2> QED BY <2>1, <2>2, <2>3
<1>10. Call(Done(Top), h)
  BY <1>1, <1>5
<1> QED BY <1>1, <1>6, <1>7, <1>9, <1>10, CallDescends

LEMMA EmptyDescends == ASSUME ParserInv, Empty PROVE Descends
<1>1. /\ Doing("primary") /\ Peek = Top.stop /\ UNCHANGED pos /\ Keep
      /\ Become(Add([Top EXCEPT !.todo = <<>>], <<<<"empty", 0>>>>))
  BY DEF Empty
<1>2. /\ Typed /\ Ready /\ Top \in Frames /\ Top.todo # <<>> /\ Top.todo[1].do = "primary"
      /\ Top = stack[Len(stack)] /\ stack \in Seq(Frames) /\ stack # <<>>
  BY <1>1, DoingIs, TopIs DEF Typed, Ready
<1>3. PICK g \in Frames : g.todo = <<>> /\ Become(g)
  <2>1. <<<<"empty", 0>>>> \in Tree
    BY Labels DEF Tree
  <2>2. PICK f \in Frames : f = [Top EXCEPT !.todo = <<>>] /\ f.todo = <<>>
    BY <1>2, EmptySeq, Retodo
  <2>3. Add(f, <<<<"empty", 0>>>>) \in Frames /\ Add(f, <<<<"empty", 0>>>>).todo = <<>>
    BY <2>1, <2>2, AddIs
  <2> QED BY <1>1, <2>2, <2>3
<1>4. /\ stack' \in Seq(Frames) /\ stack' # <<>> /\ Len(stack') = Len(stack)
      /\ stack'[Len(stack)] = g
      /\ \A k \in 1 .. Len(stack) - 1 : stack'[k].todo = stack[k].todo
  BY <1>2, <1>3, BecomeLeaves
<1>5. Cardinality(Work(stack')) < Cardinality(Work(stack))
  BY <1>2, <1>3, <1>4, EmptyLess
<1>6. ~Commits(Top)
  BY <1>1, <1>2 DEF Commits, Demands
<1>7. ~Committed
  BY <1>2, <1>6, CommittedIs
<1> QED BY <1>1, <1>5, <1>7 DEF Descends

(* The steps of an expression that consume the token they begin with.       *)
LEMMA OperandDescends ==
    ASSUME ParserInv, Atom \/ Group \/ Prefix \/ Array
    PROVE  Descends
<1>1. Doing("primary") /\ Peek # "EOF"
  <2>1. CASE Atom
    BY <2>1, NoEnd DEF Atom, Starting
  <2>2. CASE Group
    BY <2>2 DEF Group, Starting
  <2>3. CASE Prefix
    BY <2>3, NoEnd DEF Prefix, Starting
  <2>4. CASE Array
    BY <2>4 DEF Array, Starting
  <2> QED BY <2>1, <2>2, <2>3, <2>4
<1>2. Typed
  BY <1>1, DoingIs
<1>3. Fault \/ pos' = Past(pos)
  BY DEF Atom, Group, Prefix, Array, Take
<1> QED BY <1>1, <1>2, <1>3, ReadsOn, StopDescends

LEMMA OperatorDescends ==
    ASSUME ParserInv, Binary \/ Path \/ StructInit \/ CallExpr \/ Index \/ FieldExpr \/ MethodCall
    PROVE  Descends
<1>1. Doing("rest") /\ Peek # "EOF"
  <2>1. CASE Binary
    BY <2>1, NoEnd DEF Binary, Following
  <2>2. CASE Path
    BY <2>2 DEF Path, Following
  <2>3. CASE StructInit
    BY <2>3 DEF StructInit, Following
  <2>4. CASE CallExpr
    BY <2>4 DEF CallExpr, Following
  <2>5. CASE Index
    BY <2>5 DEF Index, Following
  <2>6. CASE FieldExpr \/ MethodCall
    BY <2>6 DEF FieldExpr, MethodCall, Dot, Following
  <2> QED BY <2>1, <2>2, <2>3, <2>4, <2>5, <2>6
<1>2. Typed
  BY <1>1, DoingIs
<1>3. Fault \/ Panic \/ pos' \in {Past(pos), Past(Past(pos)), Past(Past(Past(pos)))}
  <2>1. CASE Binary \/ Path \/ Index
    BY <2>1 DEF Binary, Path, Index, Take
  <2>2. CASE StructInit \/ CallExpr
    BY <2>2 DEF StructInit, CallExpr, Listing
  <2>3. CASE FieldExpr \/ MethodCall
    BY <2>3 DEF FieldExpr, MethodCall, Listing
  <2> QED BY <2>1, <2>2, <2>3
<1> QED BY <1>1, <1>2, <1>3, ReadsOn, StopDescends

LEMMA EndExprDescends == ASSUME ParserInv, EndExpr PROVE Descends
<1>1. Doing("rest") /\ Become(Done(Top)) /\ UNCHANGED pos /\ Keep
  BY DEF EndExpr
<1> QED BY <1>1, JustDescends

(* The last argument is asked for.                                          *)
LEMMA AskDescends ==
    ASSUME ParserInv, NEW what, what \in {"last", "last_of_method"}, Doing(what),
           NEW steps \in Seq(Script), Become(Instead(Top, steps)), UNCHANGED pos, Keep,
           \/ what = "last" /\ Len(steps) = 1 /\ Cost(steps[1]) = 4
           \/ what = "last_of_method" /\ Len(steps) = 2
              /\ Cost(steps[1]) = 4 /\ Cost(steps[2]) = 1
    PROVE  Descends
<1>1. /\ Typed /\ Ready /\ Top \in Frames /\ Top.todo # <<>> /\ Top.todo[1].do = what
      /\ Top = stack[Len(stack)] /\ stack \in Seq(Frames) /\ stack # <<>>
  BY DoingIs, TopIs DEF Typed, Ready
<1>2. PICK g \in Frames : g = Instead(Top, steps) /\ g.todo = steps \o Tail(Top.todo)
  <2>1. Instead(Top, steps) \in Frames
    BY <1>1, InsteadIs
  <2>2. Instead(Top, steps).todo = steps \o Tail(Top.todo)
    BY <1>1 DEF Instead, Frames
  <2> QED BY <2>1, <2>2
<1>3. /\ stack' \in Seq(Frames) /\ stack' # <<>> /\ Len(stack') = Len(stack)
      /\ stack'[Len(stack)] = g
      /\ \A k \in 1 .. Len(stack) - 1 : stack'[k].todo = stack[k].todo
  BY <1>1, <1>2, BecomeLeaves
<1>4. Cardinality(Work(stack')) < Cardinality(Work(stack))
  BY <1>1, <1>2, <1>3, AskedLess
<1>5. ~Committed
  BY <1>1, Free, CommittedIs
<1> QED BY <1>4, <1>5 DEF Descends

LEMMA LastArgDescends == ASSUME ParserInv, LastArg PROVE Descends
<1>1. Doing("last") /\ UNCHANGED pos /\ Keep
  BY DEF LastArg
<1>2. CASE Peek = Arg
  <2>1. Become(Done(Top))
    BY <1>2 DEF LastArg
  <2> QED BY <1>1, <2>1, JustDescends
<1>3. CASE Peek # Arg
  <2>1. Become(Instead(Top, <<Expr(Arg, 0)>>))
    BY <1>3 DEF LastArg
  <2>2. Expr(Arg, 0) \in Script /\ Expr(Arg, 0).do = "expr"
    <3>1. Arg \in Token
      BY <1>1, DoingIs DEF Script, Arg
    <3>2. Expr(Arg, 0) \in Script
      BY <3>1, Scripts, Numbers
    <3> QED BY <3>2 DEF Expr
  <2>3. Cost(Expr(Arg, 0)) = 4
    BY <2>2, CostIs
  <2>4. PICK x \in Script : x = Expr(Arg, 0) /\ Cost(x) = 4
    BY <2>2, <2>3
  <2>5. PICK steps : steps = <<x>>
    OBVIOUS
  <2>6. steps \in Seq(Script) /\ Len(steps) = 1 /\ steps[1] = x
    BY <2>5
  <2> QED BY <1>1, <2>1, <2>4, <2>5, <2>6, AskDescends
<1> QED BY <1>2, <1>3

LEMMA LastOfMethodDescends == ASSUME ParserInv, LastOfMethod PROVE Descends
<1>1. Doing("last_of_method") /\ UNCHANGED pos /\ Keep
  BY DEF LastOfMethod
<1>2. CASE Peek = ")"
  <2>1. Become(Done(Top))
    BY <1>2 DEF LastOfMethod
  <2> QED BY <1>1, <2>1, JustDescends
<1>3. CASE Peek # ")"
  <2>1. Become(Instead(Top, <<Expr(")", 0), Expect(")")>>))
    BY <1>3 DEF LastOfMethod
  <2>2. Expr(")", 0) \in Script /\ Expect(")") \in Script
    BY Points
  <2>3. Cost(Expr(")", 0)) = 4 /\ Cost(Expect(")")) = 1
    <3>1. Expr(")", 0).do = "expr" /\ Expect(")").do = "expect"
      BY DEF Expr, Expect
    <3> QED BY <3>1, CostIs
  <2>4. PICK x \in Script, y \in Script : /\ x = Expr(")", 0) /\ Cost(x) = 4
                                         /\ y = Expect(")") /\ Cost(y) = 1
    BY <2>2, <2>3
  <2>5. PICK steps : steps = <<x, y>>
    OBVIOUS
  <2>6. steps \in Seq(Script) /\ Len(steps) = 2 /\ steps[1] = x /\ steps[2] = y
    BY <2>5
  <2> QED BY <1>1, <2>1, <2>4, <2>5, <2>6, AskDescends
<1> QED BY <1>2, <1>3

(* A call of two calls: a body, or the inside of a module.                  *)
LEMMA InsideDescends ==
    ASSUME ParserInv, NEW what, what \in {"body", "inner"}, Doing(what),
           NEW mark \in {"statements", "module_items"},
           Call(Done(Top), Frame(<<Do(mark)>>, "EOF", 0)), UNCHANGED pos, Keep
    PROVE  Descends
<1>1. Do(mark) \in Script /\ Do(mark).do = mark
  <2>1. Do(mark) \in Script
    BY Scripts DEF Marks
  <2> QED BY <2>1 DEF Do
<1>2. PICK x \in Script : x = Do(mark) /\ Cost(x) = 1
  BY <1>1, CostIs
<1>3. PICK todo : todo = <<x>>
  OBVIOUS
<1>4. /\ todo \in Seq(Script) /\ Len(todo) = 1
      /\ \A q \in 1 .. Len(todo) : Cost(todo[q]) = 1
  BY <1>2, <1>3
<1>5. PICK h : h = Frame(todo, "EOF", 0)
  OBVIOUS
<1>6. h \in Frames /\ h.todo = todo
  <2>1. h \in Frames
    BY <1>4, <1>5, Nought, NewFrame
  <2> QED BY <1>5, <2>1 DEF Frame
<1>7. Call(Done(Top), h)
  BY <1>2, <1>3, <1>5
<1>8. Cost(Top.todo[1]) = 3 /\ ~Commits(Top)
  BY DoingIs, Free, CostIs
<1>9. /\ \A q \in 1 .. Len(h.todo) : Cost(h.todo[q]) = 1
      /\ Len(h.todo) \in 1 .. 2 /\ Len(h.todo) + 1 < Cost(Top.todo[1])
  <2>1. PICK c : c = Cost(Top.todo[1])
    OBVIOUS
  <2>2. c = 3
    BY <1>8, <2>1
  <2>3. Len(h.todo) = 1 /\ \A q \in 1 .. Len(h.todo) : Cost(h.todo[q]) = 1
    BY <1>4, <1>6
  <2> QED BY <2>1, <2>2, <2>3
<1> QED BY <1>6, <1>7, <1>8, <1>9, CallDescends

LEMMA VisitBodyDescends == ASSUME ParserInv, VisitBody PROVE Descends
BY InsideDescends DEF VisitBody

LEMMA VisitInnerDescends == ASSUME ParserInv, VisitInner PROVE Descends
BY InsideDescends DEF VisitInner

(* What a production begins with: the token its caller has peeked at, which *)
(* it demands, or an expression that does not end where it begins.          *)
LEMMA Begins ==
    ASSUME NEW a \in Seq(Script), NEW b \in Seq(Script), a # <<>>
    PROVE  (a \o b)[1] = a[1] /\ a \o b # <<>> /\ a \o b \in Seq(Script)
<1>1. Len(a) \in Nat \ {0} /\ Len(b) \in Nat
  BY EmptySeq
<1>2. /\ a \o b \in Seq(Script) /\ Len(a \o b) = Len(a) + Len(b)
      /\ \A i \in 1 .. Len(a) + Len(b) : (a \o b)[i] = IF i <= Len(a) THEN a[i] ELSE b[i - Len(a)]
  BY ConcatProperties
<1>3. 1 \in 1 .. Len(a) + Len(b) /\ 1 <= Len(a) /\ Len(a \o b) # 0
  BY <1>1, <1>2
<1> QED BY <1>2, <1>3

LEMMA BodyBegins ==
    ASSUME NEW a \in Seq(Script), NEW x \in Script, a # <<>>
    PROVE  LET b == BodyOf(a) \o <<x>>
           IN  b[1] = a[1] /\ b # <<>> /\ b \in Seq(Script)
<1>1. Expect("{") \in Script /\ Do("body") \in Script /\ Expect("}") \in Script
  BY Words, Scripts DEF Marks
<1>2. <<Expect("{"), Do("body"), Expect("}")>> \in Seq(Script) /\ <<x>> \in Seq(Script)
  BY <1>1, Short
<1>3. BodyOf(a)[1] = a[1] /\ BodyOf(a) # <<>> /\ BodyOf(a) \in Seq(Script)
  BY <1>2, Begins DEF BodyOf
<1> QED BY <1>2, <1>3, Begins

LEMMA BodyBeginsTwo ==
    ASSUME NEW a \in Seq(Script), NEW x \in Script, NEW y \in Script, a # <<>>
    PROVE  LET b == BodyOf(a) \o <<x, y>>
           IN  b[1] = a[1] /\ b # <<>> /\ b \in Seq(Script)
<1>1. Expect("{") \in Script /\ Do("body") \in Script /\ Expect("}") \in Script
  BY Words, Scripts DEF Marks
<1>2. <<Expect("{"), Do("body"), Expect("}")>> \in Seq(Script) /\ <<x, y>> \in Seq(Script)
  BY <1>1, Short
<1>3. BodyOf(a)[1] = a[1] /\ BodyOf(a) # <<>> /\ BodyOf(a) \in Seq(Script)
  BY <1>2, Begins DEF BodyOf
<1> QED BY <1>2, <1>3, Begins

LEMMA StatementBegins ==
    ASSUME NEW t \in StartsStatement
    PROVE  /\ Statement(t) # <<>>
           /\ \/ t \in {"TRUE", "IDENT"} \cup Number /\ Statement(t)[1] = Expr(";", 0)
              \/ t \in Reserved /\ Statement(t)[1] = Expect(t)
<1>1. Expr("{", 0) \in Script /\ Leaf("IDENT") \in Script /\ Do("else") \in Script
  BY Words, Scripts, Tokens, Numbers DEF Marks
<1>2. \A k \in {"for", "in", "if", "while", "return", "continue", "break", "var", "let"} :
          k \in Reserved /\ Expect(k) \in Script /\ Node(k) \in Script
  <2>1. {"for", "in", "if", "while", "return", "continue", "break", "var", "let"}
            \subseteq Reserved
    BY DEF Reserved
  <2> QED BY <2>1, Words
<1>3. CASE t \in {"TRUE", "IDENT"} \cup Number
  <2>1. PICK a : a = <<Expr(";", 0), Expect(";"), Node("expression")>>
    OBVIOUS
  <2>2. a # <<>> /\ a[1] = Expr(";", 0)
    BY <2>1
  <2>3. Statement(t) = a
    BY <1>3, <2>1 DEF Statement, Number
  <2> QED BY <1>3, <2>2, <2>3
<1>4. CASE t = "for"
  <2>1. PICK a : a = <<Expect("for"), Leaf("IDENT"), Expect("in"), Expr("{", 0)>>
    OBVIOUS
  <2>2. a \in Seq(Script) /\ a # <<>> /\ a[1] = Expect("for")
    BY <1>1, <1>2, <2>1, Short
  <2>3. Statement(t) = BodyOf(a) \o <<Node("for")>>
    BY <1>4, <2>1 DEF Statement, Number
  <2> QED BY <1>2, <1>4, <2>2, <2>3, BodyBegins
<1>5. CASE t = "if"
  <2>1. PICK a : a = <<Expect("if"), Expr("{", 0)>>
    OBVIOUS
  <2>2. a \in Seq(Script) /\ a # <<>> /\ a[1] = Expect("if")
    BY <1>1, <1>2, <2>1, Short
  <2>3. Statement(t) = BodyOf(a) \o <<Do("else"), Node("if")>>
    BY <1>5, <2>1 DEF Statement, Number
  <2>4. Do("else") \in Script /\ Node("if") \in Script /\ t \in Reserved
    BY <1>1, <1>2, <1>5
  <2>5. Statement(t)[1] = a[1] /\ Statement(t) # <<>>
    BY <2>2, <2>3, <2>4, BodyBeginsTwo
  <2> QED BY <1>5, <2>2, <2>4, <2>5
<1>6. CASE t = "while"
  <2>1. PICK a : a = <<Expect("while"), Expr("{", 0)>>
    OBVIOUS
  <2>2. a \in Seq(Script) /\ a # <<>> /\ a[1] = Expect("while")
    BY <1>1, <1>2, <2>1, Short
  <2>3. Statement(t) = BodyOf(a) \o <<Node("while")>>
    BY <1>6, <2>1 DEF Statement, Number
  <2> QED BY <1>2, <1>6, <2>2, <2>3, BodyBegins
<1>7. CASE t = "return"
  <2>1. PICK a : a = <<Expect("return"), Expr(";", 0), Expect(";"), Node("return")>>
    OBVIOUS
  <2>2. a # <<>> /\ a[1] = Expect(t)
    BY <1>7, <2>1
  <2>3. Statement(t) = a
    BY <1>7, <2>1 DEF Statement, Number
  <2> QED BY <1>2, <1>7, <2>2, <2>3
<1>8. CASE t \in {"continue", "break"}
  <2>1. PICK a : a = <<Expect(t), Node(t)>>
    OBVIOUS
  <2>2. a # <<>> /\ a[1] = Expect(t)
    BY <2>1
  <2>3. Statement(t) = a
    BY <1>8, <2>1 DEF Statement, Number
  <2> QED BY <1>2, <1>8, <2>2, <2>3
<1>9. CASE t \in {"var", "let"}
  <2>1. PICK a : a = <<Expect(t), Leaf("IDENT"), Expect("="), Expr(";", 0), Expect(";"),
                       Node(t)>>
    OBVIOUS
  <2>2. a # <<>> /\ a[1] = Expect(t)
    BY <2>1
  <2>3. Statement(t) = a
    BY <1>9, <2>1 DEF Statement, Number
  <2> QED BY <1>2, <1>9, <2>2, <2>3
<1> QED BY <1>3, <1>4, <1>5, <1>6, <1>7, <1>8, <1>9 DEF StartsStatement

LEMMA ItemBegins ==
    ASSUME NEW t \in StartsItem
    PROVE  /\ Item(t) # <<>>
           /\ Item(t)[1] \in {Expect(t), Leaf("IDENT")} /\ t # "EOF"
<1>1. CASE t \in {"struct", "module"}
  BY <1>1 DEF Item
<1>2. CASE t = "fn"
  <2>1. PICK a : a = <<Expect("fn"), Leaf("IDENT"), Expect("("), Do("params"), Expect("->"),
                       Leaf("IDENT")>>
    OBVIOUS
  <2>2. a \in Seq(Script) /\ a # <<>> /\ a[1] = Expect("fn") /\ Node("fn") \in Script
    <3>1. Leaf("IDENT") \in Script /\ Expect("(") \in Script /\ Expect("->") \in Script
          /\ Do("params") \in Script
      BY Words, Scripts DEF Marks
    <3>2. Expect("fn") \in Script /\ Node("fn") \in Script
      <4>1. "fn" \in Reserved
        BY DEF Reserved
      <4> QED BY <4>1, Words
    <3> QED BY <2>1, <3>1, <3>2, Short
  <2>3. Item(t) = BodyOf(a) \o <<Node("fn")>>
    BY <1>2, <2>1 DEF Item
  <2> QED BY <1>2, <2>2, <2>3, BodyBegins
<1>3. CASE t \in {"var", "let"}
  BY <1>3 DEF Item
<1>4. CASE t = "enum"
  BY <1>4 DEF Item
<1> QED BY <1>1, <1>2, <1>3, <1>4 DEF StartsItem

(* A production that is begun is committed.                                 *)
LEMMA BegunDescends ==
    ASSUME ParserInv, NEW what, what \notin {"expect", "leaf", "primary", "expr"}, Doing(what),
           NEW todo \in Seq(Script), todo # <<>>, Call(Top, Frame(todo, "EOF", 0)),
           UNCHANGED pos, Keep,
           \/ \E t : t # "EOF" /\ todo[1] = Expect(t)
           \/ todo[1] = Leaf("IDENT")
           \/ todo[1] = Leaf("any") /\ Peek # "EOF"
           \/ todo[1] = Leaf("any") /\ Len(todo) > 1 /\ todo[2] = Expect(":")
           \/ todo[1] = Expr(";", 0) /\ Peek # ";"
    PROVE  Descends
<1>1. PICK h : h = Frame(todo, "EOF", 0)
  OBVIOUS
<1>2. h \in Frames /\ h.todo = todo
  <2>1. h \in Frames
    BY <1>1, Nought, NewFrame
  <2> QED BY <1>1, <2>1 DEF Frame
<1>3. Top \in Frames /\ ~Commits(Top)
  BY DoingIs, Free
<1>4. Commits(h)
  <2>1. ASSUME NEW t, t # "EOF" PROVE Demands(Expect(t))
    BY <2>1 DEF Demands, Expect
  <2>2. /\ Leaf("IDENT").do = "leaf" /\ Leaf("IDENT").tok = "IDENT"
        /\ Leaf("any").do = "leaf"
        /\ Expr(";", 0).do = "expr" /\ Expr(";", 0).tok = ";"
    BY DEF Leaf, Expr
  <2>3. Demands(Expect(":"))
    BY <2>1
  <2> QED BY <1>2, <2>1, <2>2, <2>3 DEF Commits
<1>5. Call(Top, h)
  BY <1>1
<1> QED BY <1>2, <1>3, <1>4, <1>5, CallCommits

LEMMA VisitStatementDescends == ASSUME ParserInv, VisitStatement PROVE Descends
<1>1. /\ Doing("statements") /\ Kind(Peek) \in StartsStatement /\ UNCHANGED pos /\ Keep
      /\ Call(Top, Frame(Statement(Kind(Peek)), "EOF", 0))
  BY DEF VisitStatement
<1>2. PICK t \in StartsStatement : t = Kind(Peek)
  BY <1>1
<1>3. PICK todo \in Seq(Script) : todo = Statement(t) /\ todo # <<>>
  BY StatementIs, StatementBegins
<1>4. CASE t \in {"TRUE", "IDENT"} \cup Number /\ todo[1] = Expr(";", 0)
  <2>1. Peek # ";"
    <3>1. Peek \in Token
      BY <1>1, DoingIs
    <3>2. ";" \notin {"TRUE", "IDENT"} \cup Number \cup Name
      BY DEF Number, Name
    <3> QED BY <1>2, <1>4, <3>1, <3>2, Kinds
  <2> QED BY <1>1, <1>2, <1>3, <1>4, <2>1, BegunDescends
<1>5. CASE t \in Reserved /\ todo[1] = Expect(t)
  <2>1. t # "EOF"
    BY <1>5 DEF Reserved
  <2> QED BY <1>1, <1>2, <1>3, <1>5, <2>1, BegunDescends
<1> QED BY <1>3, <1>4, <1>5, StatementBegins

LEMMA VisitItemDescends == ASSUME ParserInv, VisitItem PROVE Descends
<1>1. /\ Peek \in StartsItem /\ UNCHANGED pos /\ Keep
      /\ Call(Top, Frame(Item(Peek), "EOF", 0))
  BY DEF VisitItem
<1>2. PICK what \in {"source_items", "module_items"} : Doing(what)
  BY DEF VisitItem, Listed
<1>3. PICK todo \in Seq(Script) : todo = Item(Peek) /\ todo # <<>>
  BY <1>1, ItemIs, ItemBegins
<1>4. todo[1] \in {Expect(Peek), Leaf("IDENT")} /\ Peek # "EOF"
  BY <1>1, <1>3, ItemBegins
<1> QED BY <1>1, <1>2, <1>3, <1>4, BegunDescends

LEMMA MemberDescends == ASSUME ParserInv, Member PROVE Descends
<1> DEFINE steps == IF Peek = "fn" THEN Item("fn")
                    ELSE <<Leaf("IDENT"), Expect(":"), Leaf("IDENT"), Expect(";"),
                           Node("member")>>
<1>1. Doing("members") /\ Call(Top, Frame(steps, "EOF", 0)) /\ UNCHANGED pos /\ Keep
  BY DEF Member
<1>2. steps \in Seq(Script) /\ steps # <<>> /\ steps[1] \in {Expect("fn"), Leaf("IDENT")}
  <2>1. "fn" \in StartsItem
    BY DEF StartsItem
  <2>2. Leaf("IDENT") \in Script /\ Expect(":") \in Script /\ Expect(";") \in Script
        /\ Node("member") \in Script
    BY Scripts, Words
  <2>3. PICK a : a = <<Leaf("IDENT"), Expect(":"), Leaf("IDENT"), Expect(";"), Node("member")>>
    OBVIOUS
  <2>4. a \in Seq(Script) /\ a # <<>> /\ a[1] = Leaf("IDENT")
    BY <2>2, <2>3, Short
  <2>5. CASE Peek = "fn"
    BY <2>1, <2>5, ItemIs, ItemBegins
  <2>6. CASE Peek # "fn"
    BY <2>3, <2>4, <2>6
  <2> QED BY <2>5, <2>6
<1> HIDE DEF steps
<1> QED BY <1>1, <1>2, BegunDescends

LEMMA ParamDescends == ASSUME ParserInv, Param PROVE Descends
<1> DEFINE steps == <<Leaf("any"), Expect(":"), Leaf("IDENT"), Do("comma"), Node("param")>>
<1>1. Doing("params") /\ Call(Top, Frame(steps, "EOF", 0)) /\ UNCHANGED pos /\ Keep
  BY DEF Param
<1>2. /\ steps \in Seq(Script) /\ steps # <<>> /\ Len(steps) > 1
      /\ steps[1] = Leaf("any") /\ steps[2] = Expect(":")
  <2>1. Do("comma") \in Script
    BY Scripts DEF Marks
  <2>2. Leaf("any") \in Script /\ Leaf("IDENT") \in Script /\ Expect(":") \in Script
        /\ Node("param") \in Script
    BY Scripts, Words
  <2> QED BY <2>1, <2>2, Short
<1> HIDE DEF steps
<1> QED BY <1>1, <1>2, BegunDescends

LEMMA ElseDescends == ASSUME ParserInv, ElseIf \/ Else PROVE Descends
<1>1. Doing("else") /\ Peek # "EOF" /\ pos' = Past(pos)
  BY DEF ElseIf, Else
<1> QED BY <1>1, DoingIs, ReadsOn

(* The ends of the loops.                                                   *)
LEMMA EndDescends ==
    ASSUME ParserInv, EndBody \/ NoElse \/ EndItems \/ EndMembers
    PROVE  Descends
<1>1. CASE EndBody
  <2>1. "body" \in Label
    BY Words
  <2> QED BY <1>1, <2>1, JustDescends DEF EndBody
<1>2. CASE NoElse
  BY <1>2, JustDescends DEF NoElse
<1>3. CASE EndItems
  <2>1. "items" \in Label
    BY Words
  <2>2. PICK what \in {"source_items", "module_items"} : Doing(what)
    BY <1>3 DEF EndItems, Listed
  <2>3. Become(Join(Done(Top), "items")) /\ UNCHANGED pos /\ Keep
    BY <1>3 DEF EndItems
  <2> QED BY <2>1, <2>2, <2>3, JustDescends
<1>4. CASE EndMembers
  BY <1>4, JustDescends DEF EndMembers
<1> QED BY <1>1, <1>2, <1>3, <1>4

LEMMA EndParamsDescends == ASSUME ParserInv, EndParams PROVE Descends
<1>1. Doing("params") /\ Peek # "EOF" /\ pos' = Past(pos)
  BY DEF EndParams, Take
<1> QED BY <1>1, DoingIs, ReadsOn

LEMMA OptionalCommaDescends == ASSUME ParserInv, OptionalComma PROVE Descends
<1>1. /\ Doing("comma") /\ Become(Done(Top)) /\ Keep
      /\ pos' = IF Peek = "," THEN Past(pos) ELSE pos
  BY DEF OptionalComma
<1>2. CASE Peek = ","
  BY <1>1, <1>2, DoingIs, ReadsOn
<1>3. CASE Peek # ","
  BY <1>1, <1>3, JustDescends
<1> QED BY <1>2, <1>3

LEMMA StepDescends == ParserInv /\ Next => Descends
<1> SUFFICES ASSUME ParserInv, Next PROVE Descends
  OBVIOUS
<1>1. CASE Steps
  BY <1>1, ExpectTokenDescends, KeepTokenDescends, MakeNodeDescends, ReturnDescends DEF Steps
<1>2. CASE VisitExpr
  BY <1>2, VisitExprDescends
<1>3. CASE Primary
  <2>1. CASE NoExpr \/ NoVector
    BY <2>1, StopDescends DEF NoExpr, NoVector
  <2> QED BY <1>3, <2>1, EmptyDescends, OperandDescends DEF Primary
<1>4. CASE Rest
  <2>1. CASE NoOperator \/ NoField
    BY <2>1, StopDescends DEF NoOperator, NoField
  <2> QED BY <1>4, <2>1, EndExprDescends, OperatorDescends, LastArgDescends,
             LastOfMethodDescends DEF Rest
<1>5. CASE Statements
  <2>1. CASE NoStatement
    BY <2>1, StopDescends DEF NoStatement
  <2> QED BY <1>5, <2>1, VisitBodyDescends, VisitStatementDescends, ElseDescends,
             EndDescends DEF Statements
<1>6. CASE Items
  <2>1. CASE NoItem \/ NoMember
    BY <2>1, StopDescends DEF NoItem, NoMember
  <2> QED BY <1>6, <2>1, VisitInnerDescends, VisitItemDescends, MemberDescends,
             ParamDescends, EndDescends, EndParamsDescends, OptionalCommaDescends DEF Items
<1> QED BY <1>1, <1>2, <1>3, <1>4, <1>5, <1>6 DEF Next

(* Every step of the parser, on any text, reads on, or begins a production  *)
(* that has to read on or to stop, or leaves less to do: none of the loops  *)
(* of parser.c goes round without a token, and no call of parse_expr_prec   *)
(* calls itself for ever on one.                                            *)
THEOREM ParserDescends == Spec => StepsDescend
<1>1. ParserInv /\ [Next]_vars =>
          [status' = "run" =>
               \/ pos' > pos
               \/ /\ pos' = pos
                  /\ Committed => Committed'
                  /\ \/ ~Committed /\ Committed'
                     \/ Cardinality(Work(stack')) < Cardinality(Work(stack))]_vars
  BY StepDescends DEF Descends
<1> QED BY <1>1, ParserInvariant, PTL DEF Spec, StepsDescend
=============================================================================
