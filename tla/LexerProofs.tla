----------------------------- MODULE LexerProofs -----------------------------
(* Proofs about the lexer, for every text, keyword table and client.        *)
EXTENDS Lexer, FiniteSetTheorems, SequenceTheorems, TLAPS

(***************************************************************************)
(* Types of the helpers                                                    *)
(***************************************************************************)

LEMMA NulIsNoChar == "NUL" \notin Char
  BY DEF Char, Whitespace, IdentChar, IdentStart, Letter, Decimal, Operator,
         Unknown, OffTable

LEMMA SomeChars ==
  /\ Operator \subseteq Char
  /\ IdentChar \subseteq Char
  /\ {"-1", "SP", "b", "o", "x"} \subseteq Char
<1>1. Operator \subseteq Char /\ IdentChar \subseteq Char
  BY DEF Char
<1>2. {"-1", "SP"} \subseteq Char
  BY DEF Char, Whitespace, OffTable
<1>3. {"b", "o", "x"} \subseteq IdentChar
  BY DEF IdentChar, IdentStart, Letter
<1> QED
  BY <1>1, <1>2, <1>3

LEMMA CompoundIsText == Compound \subseteq Seq(Char)
<1>1. {"!", "^", "%", "~", "-", "+", "*", "/", "|", "&", "=", ">", "<", ".", ":"}
        \subseteq Char
  BY SomeChars DEF Operator
<1>2. \A c, d, e \in Char : /\ <<c, d>> \in Seq(Char)
                            /\ <<c, d, e>> \in Seq(Char)
  OBVIOUS
<1>3. /\ <<"-", ">">> \in Seq(Char) /\ <<".", ".", "=">> \in Seq(Char)
      /\ <<">", ">", "=">> \in Seq(Char) /\ <<"<", "<", "=">> \in Seq(Char)
  BY <1>1, <1>2
<1>4. ASSUME NEW c \in {"!", "^", "%", "~", "-", "+", "*", "/", "|", "&", "=", ">", "<"}
      PROVE  <<c, "=">> \in Seq(Char)
  BY <1>1, <1>2
<1>5. ASSUME NEW c \in {".", ":", "/", "|", "&", ">", "<"}
      PROVE  <<c, c>> \in Seq(Char)
  BY <1>1, <1>2
<1> QED
  BY <1>3, <1>4, <1>5 DEF Compound

LEMMA CharAtType ==
  ASSUME NEW text \in Seq(Char), NEW i \in Nat
  PROVE  /\ CharAt(text, i) \in Char \cup {"NUL"}
         /\ CharAt(text, i) # "NUL" => i < Len(text)
  BY DEF CharAt

LEMMA ConsumedType ==
  ASSUME src \in Seq(Char), NEW x \in Context
  PROVE  /\ Consumed(x) \in Context
         /\ Got(x) \in Char \cup {"NUL"}
  <1>1. x.loc \in Nat
    BY DEF Context
  <1>2. Data(x.loc) \in Char \cup {"NUL"}
    BY <1>1, CharAtType DEF Data
  <1> QED
    BY <1>1, <1>2, SomeChars DEF Consumed, Got, Context

LEMMA WordIsLarge ==
  ASSUME src \in Source
  PROVE  /\ src \in Seq(Char) /\ Len(src) \in Nat
         /\ Word \in Nat /\ Len(src) + 1 < Word
  BY LexerAssumption

LEMMA TakenType ==
  ASSUME src \in Source, NEW t \in Token
  PROVE  Taken(t) \in Token
  <1>1. t.hi \in Nat /\ (t.hi + 1) % Word \in 0 .. Word - 1
    BY WordIsLarge DEF Token
  <1> QED
    BY <1>1 DEF Taken, Token

LEMMA TakeType ==
  ASSUME src \in Source, ctx \in Context, tok \in Token, Take
  PROVE  ctx' \in Context /\ tok' \in Token
  BY ConsumedType, TakenType, WordIsLarge DEF Take

(***************************************************************************)
(* The type invariant                                                      *)
(***************************************************************************)

TypeInv == src \in Source /\ TypeOK

LEMMA ConstantTypes ==
  ASSUME src \in Source
  PROVE  /\ NoToken \in Token /\ Origin \in Context /\ NoKind \in TokenKind
         /\ Idle \in [op : {"idle", "next", "peek", "scan"}, key : TokenKind,
                      start : Context, cursor : Nat]
         /\ Nothing \in [op : {"idle", "peek", "scan"}, token : Token,
                         key : TokenKind, pos : Int]
  <1>1. <<>> \in Seq(Char) /\ 0 \in 0 .. Word - 1
    BY WordIsLarge
  <1>2. NoToken \in Token /\ Origin \in Context /\ NoKind \in TokenKind
    BY <1>1 DEF NoToken, Token, Origin, Context, NoKind, TokenKind, Kind
  <1> QED
    BY <1>2 DEF Idle, Nothing

LEMMA TypeInvInit == Init => TypeInv
  <1> SUFFICES ASSUME Init PROVE TypeInv
    OBVIOUS
  <1>1. src \in Source /\ src \in Seq(Char)
    BY WordIsLarge DEF Init
  <1> QED
    BY <1>1, ConstantTypes, SomeChars DEF Init, TypeInv, TypeOK, Loop

LEMMA TypeInvNext == TypeInv /\ [Next]_vars => TypeInv'
<1> SUFFICES ASSUME TypeInv, [Next]_vars PROVE TypeInv'
  OBVIOUS
<1> USE DEF TypeInv
<1>a. /\ src \in Source /\ src \in Seq(Char) /\ ctx \in Context /\ tok \in Token
      /\ ctx.loc \in Nat /\ First \in Char \cup {"NUL"}
      /\ Data(ctx.loc + 1) \in Char \cup {"NUL"}
      /\ Consumed(ctx) \in Context /\ Got(ctx) \in Char \cup {"NUL"}
  <2>1. src \in Source /\ src \in Seq(Char) /\ ctx \in Context /\ tok \in Token
    BY DEF TypeOK
  <2>2. ctx.loc \in Nat /\ ctx.loc + 1 \in Nat
    BY <2>1 DEF Context
  <2> QED
    BY <2>1, <2>2, ConsumedType, CharAtType DEF First, Data
<1>1. CASE UNCHANGED vars
  BY <1>1 DEF TypeOK, vars, local
<1>2. CASE Panic \/ Fault
  BY <1>2 DEF TypeOK, Panic, Fault, local
<1>3. CASE Client
  <2>1. ASSUME NEW op \in {"next", "peek", "scan"}, NEW key \in TokenKind,
               Enter(op, key)
        PROVE  TypeInv'
    BY <2>1, <1>a DEF Enter, TypeOK, Goto, Loop, local, Finished
  <2>2. NoKind \in TokenKind
    BY <1>a, ConstantTypes
  <2> QED
    BY <1>3, <2>1, <2>2, LexerAssumption DEF Client, LexerNext, LexerPeek, LexerScan
<1>4. CASE Returns
  <2>1. KindOf(tok) \in TokenKind
    BY <1>a DEF KindOf, TokenKind, Token
  <2>2. call.start \in Context /\ call.key \in TokenKind /\ call.cursor \in Nat
    BY DEF TypeOK
  <2>3. ASSUME NEW context \in Context,
               NEW fore \in [op : {"idle", "peek", "scan"}, token : Token,
                             key : TokenKind, pos : Int],
               Answer(context, fore), out' \in Seq(Token)
        PROVE  TypeInv'
    BY <2>3, <1>a, ConstantTypes DEF Answer, TypeOK, Goto, Loop, local
  <2>4. CASE NextReturns
    <3>1. Append(out, tok) \in Seq(Token)
      BY <1>a DEF TypeOK
    <3>2. foretold \in [op : {"idle", "peek", "scan"}, token : Token,
                        key : TokenKind, pos : Int]
      BY DEF TypeOK
    <3> QED
      BY <2>3, <2>4, <3>1, <3>2, <1>a, ConstantTypes DEF NextReturns
  <2>5. CASE PeekReturns
    BY <2>2, <2>3, <2>5, <1>a, ConstantTypes DEF PeekReturns, TypeOK
  <2>6. CASE ScanFinds \/ ScanFails
    BY <2>2, <2>3, <2>6, <1>a, ConstantTypes DEF ScanFinds, ScanFails, ScanReturns, TypeOK
  <2>7. CASE ScanGoesOn
    BY <2>7, <1>a DEF ScanGoesOn, TypeOK, Goto, Loop, local
  <2> QED
    BY <1>4, <2>4, <2>5, <2>6, <2>7 DEF Returns
<1>5. ASSUME /\ Quiet /\ ctx' \in Context /\ pc' \in Loop /\ tok' \in Token
             /\ base' \in {"b", "o", "x", "d"} /\ second' \in Char \cup {"NUL"}
      PROVE  TypeInv'
  BY <1>5 DEF TypeOK, Quiet
<1>b. /\ base \in {"b", "o", "x", "d"} /\ second \in Char \cup {"NUL"}
      /\ pc \in Loop
  BY DEF TypeOK
<1> HIDE DEF TypeInv
<1>6. CASE Begins
  <2>1. CASE SkipWhitespace
    BY <1>a, <1>b, <1>5, <2>1 DEF SkipWhitespace, Goto, Loop, local
  <2>2. CASE StartInvalid
    BY <2>2, <1>2 DEF StartInvalid
  <2>3. ASSUME NEW kind \in Kind, NEW hi \in 0 .. Word - 1, NEW node \in Seq(Char),
               Began(kind, hi, node)
        PROVE  tok' \in Token
    BY <2>3, <1>a DEF Began, Token
  <2>0. <<>> \in Seq(Char)
    OBVIOUS
  <2>4. At("start") => ctx.loc \in 0 .. Word - 1 /\ ctx.loc + 1 \in 0 .. Word - 1
    BY <1>a, WordIsLarge DEF At
  <2>5. CASE StartEof
    BY <1>a, <1>b, <1>5, <2>0, <2>3, <2>4, <2>5 DEF StartEof, Goto, Loop, Kind
  <2>6. CASE StartString
    BY <1>a, <1>b, <1>5, <2>0, <2>3, <2>4, <2>6 DEF StartString, Goto, Loop, Kind
  <2>7. CASE StartOperator
    <3>1. <<Got(ctx)>> \in Seq(Char)
      BY <2>7, SomeChars DEF StartOperator
    <3> QED
      BY <1>a, <1>b, <1>5, <2>3, <2>4, <2>7, <3>1 DEF StartOperator, Goto, Loop, Kind
  <2>8. CASE StartIdent
    BY <1>a, <1>b, <1>5, <2>0, <2>3, <2>4, <2>8 DEF StartIdent, Goto, Loop, Kind
  <2>9. CASE StartNumber
    <3> DEFINE prefix == Data(ctx.loc + 1)
    <3>1. CASE Got(ctx) = "0" /\ prefix \in {"b", "o", "x"}
      <4>1. ctx.loc + 1 < Len(src)
        BY <3>1, <1>a, CharAtType DEF Data
      <4>2. ctx.loc + 2 \in 0 .. Word - 1
        BY <4>1, <1>a, WordIsLarge
      <4>3. Consumed(Consumed(ctx)) \in Context
        BY <1>a, ConsumedType
      <4> QED
        BY <1>a, <1>b, <1>5, <2>0, <2>3, <2>9, <3>1, <4>2, <4>3
        DEF StartNumber, Goto, Loop, Kind
    <3>2. CASE ~(Got(ctx) = "0" /\ prefix \in {"b", "o", "x"})
      BY <1>a, <1>b, <1>5, <2>0, <2>3, <2>4, <2>9, <3>2 DEF StartNumber, Goto, Loop, Kind
    <3> QED
      BY <3>1, <3>2
  <2> QED
    BY <1>6, <2>1, <2>2, <2>5, <2>6, <2>7, <2>8, <2>9 DEF Begins
<1>7. CASE Loops
  <2>1. Take => ctx' \in Context /\ tok' \in Token
    BY <1>a, TakeType
  <2>2. Taken(tok) \in Token
    BY <1>a, TakenType
  <2>3. CASE StringLoop
    <3>1. [tok EXCEPT !.kind = "EOF"] \in Token
      BY <1>a DEF Token, Kind
    <3> QED
      BY <1>a, <1>b, <1>5, <2>1, <2>3, <3>1 DEF StringLoop, Goto, Loop
  <2>4. CASE OperatorLoop
    <3> DEFINE node == Append(tok.node, First)
    <3>1. CASE First \in OffTable
      BY <1>2, <2>4, <3>1 DEF OperatorLoop
    <3>2. CASE First \notin OffTable /\ node \in Compound
      <4>1. [Taken(tok) EXCEPT !.node = node] \in Token
        BY <2>2, <3>2, CompoundIsText DEF Token
      <4> QED
        BY <1>a, <1>b, <1>5, <2>4, <3>2, <4>1 DEF OperatorLoop, Goto, Loop
    <3>3. CASE First \notin OffTable /\ node \notin Compound
      BY <1>a, <1>b, <1>5, <2>4, <3>3 DEF OperatorLoop, Goto, Loop
    <3> QED
      BY <3>1, <3>2, <3>3
  <2>5. CASE SkipComment
    BY <1>a, <1>b, <1>5, <2>5 DEF SkipComment, Goto, Loop, local
  <2>6. CASE IdentLoop
    <3>1. Text(tok) \in Keyword =>
            [tok EXCEPT !.kind = "KEYWORD", !.node = Text(tok)] \in Token
      <4>1. Keyword \subseteq Seq(Char)
        BY LexerAssumption, SomeChars
      <4> QED
        BY <4>1, <1>a DEF Token, Kind
    <3> QED
      BY <1>a, <1>b, <1>5, <2>1, <2>6, <3>1 DEF IdentLoop, Goto, Loop
  <2>7. ASSUME NEW loop \in Loop, NEW after \in Loop, DigitLoop(loop, after)
        PROVE  TypeInv'
    <3>1. [tok EXCEPT !.kind = IF loop = "integer" THEN @ ELSE "FLOAT"] \in Token
      BY <1>a DEF Token, Kind
    <3>2. CASE Panic
      BY <1>2, <3>2
    <3>3. CASE Take /\ Goto(loop) /\ UNCHANGED <<base, second>> /\ Quiet
      BY <1>b, <1>5, <2>1, <2>7, <3>3 DEF Goto
    <3>4. CASE /\ tok' = [tok EXCEPT !.kind = IF loop = "integer" THEN @ ELSE "FLOAT"]
               /\ Goto(after)
               /\ UNCHANGED <<ctx, base, second>> /\ Quiet
      BY <1>a, <1>b, <1>5, <2>7, <3>1, <3>4 DEF Goto
    <3> QED
      BY <2>7, <3>2, <3>3, <3>4 DEF DigitLoop
  <2>8. CASE Integer \/ Fraction \/ Exponent
    BY <2>7, <2>8 DEF Integer, Fraction, Exponent, Loop
  <2>9. CASE Point
    BY <1>2, <1>a, <1>b, <1>5, <2>1, <2>9 DEF Point, Goto, Loop
  <2>10. CASE Power
    <3>1. /\ Consumed(Consumed(ctx)) \in Context
          /\ Taken(Taken(tok)) \in Token
      BY <1>a, <2>2, ConsumedType, TakenType
    <3> QED
      BY <1>2, <1>a, <1>b, <1>5, <2>1, <2>10, <3>1 DEF Power, Goto, Loop, local
  <2>11. CASE Suffix
    BY <1>a, <1>b, <1>5, <2>1, <2>11 DEF Suffix, Goto, Loop
  <2> QED
    BY <1>7, <2>3, <2>4, <2>5, <2>6, <2>8, <2>9, <2>10, <2>11 DEF Loops
<1>8. CASE Overread
  BY <1>2, <1>8 DEF Overread
<1> QED
  BY <1>1, <1>3, <1>4, <1>6, <1>7, <1>8 DEF Next, Internal

(* The types of the lexer's state, whatever text it runs on.                *)
THEOREM LexerTypes == Spec => []TypeOK
<1>1. TypeInv => TypeOK
  BY DEF TypeInv
<1> QED
  BY <1>1, TypeInvInit, TypeInvNext, PTL DEF Spec

(***************************************************************************)
(* Where a step may move the context, and when it may fault                *)
(***************************************************************************)

Moved == {ctx, Consumed(ctx), Consumed(Consumed(ctx)), call.start}

(* A step leaves the context, consumes one character or two, or goes back   *)
(* to the context the call saved; a call saves the context it starts from.  *)
LEMMA ContextMoves ==
  ASSUME [Next]_vars
  PROVE  /\ src' = src
         /\ ctx' \in Moved
         /\ call'.start \in {call.start, ctx, Origin}
<1> DEFINE Goal == /\ src' = src /\ ctx' \in Moved
                   /\ call'.start \in {call.start, ctx, Origin}
<1>1. CASE UNCHANGED vars
  BY <1>1 DEF vars, Moved
<1>2. CASE Panic \/ Fault
  BY <1>2 DEF Panic, Fault, Moved
<1>3. CASE Client
  BY <1>3 DEF Client, LexerNext, LexerPeek, LexerScan, Enter, Moved
<1>4. CASE Returns
  <2>1. ASSUME NEW context \in {ctx, call.start}, NEW fore, Answer(context, fore)
        PROVE  Goal
    BY <2>1 DEF Answer, Idle, Moved
  <2>2. CASE ScanGoesOn
    BY <2>2 DEF ScanGoesOn, Moved
  <2> QED
    BY <1>4, <2>1, <2>2
    DEF Returns, NextReturns, PeekReturns, ScanFinds, ScanFails, ScanReturns
<1>5. ASSUME Quiet, ctx' \in Moved
      PROVE  Goal
  BY <1>5 DEF Quiet
<1>6. CASE Begins
  BY <1>2, <1>5, <1>6
  DEF Begins, SkipWhitespace, StartEof, StartInvalid, StartString, StartOperator,
      StartIdent, StartNumber, Moved
<1>7. CASE Loops
  <2>1. Take => ctx' \in Moved
    BY DEF Take, Moved
  <2>2. UNCHANGED ctx => ctx' \in Moved
    BY DEF Moved
  <2>3. ASSUME NEW loop, NEW after, DigitLoop(loop, after)
        PROVE  Goal
    BY <1>2, <1>5, <2>1, <2>2, <2>3 DEF DigitLoop
  <2>4. CASE Integer \/ Fraction \/ Exponent
    BY <2>3, <2>4 DEF Integer, Fraction, Exponent
  <2>5. CASE Point
    BY <1>2, <1>5, <2>1, <2>2, <2>5 DEF Point
  <2>6. CASE Power
    BY <1>2, <1>5, <2>1, <2>2, <2>6 DEF Power, Moved
  <2>7. CASE StringLoop
    BY <1>5, <2>1, <2>2, <2>7 DEF StringLoop
  <2>8. CASE OperatorLoop
    BY <1>2, <1>5, <2>2, <2>8 DEF OperatorLoop, Moved
  <2>9. CASE SkipComment
    BY <1>5, <2>2, <2>9 DEF SkipComment, Moved
  <2>10. CASE IdentLoop
    BY <1>5, <2>1, <2>2, <2>10 DEF IdentLoop
  <2>11. CASE Suffix
    BY <1>5, <2>1, <2>2, <2>11 DEF Suffix
  <2> QED
    BY <1>7, <2>4, <2>5, <2>6, <2>7, <2>8, <2>9, <2>10, <2>11 DEF Loops
<1>8. CASE Overread
  BY <1>2, <1>8 DEF Overread
<1> QED
  BY <1>1, <1>3, <1>4, <1>6, <1>7, <1>8 DEF Next, Internal

(* A step faults on a byte that single_char_token has no room for, or on    *)
(* reading behind the end of the text.                                      *)
LEMMA FaultCauses ==
  ASSUME [Next]_vars, status' = "fault", status # "fault", src \in Seq(Char),
         ctx \in Context
  PROVE  \/ Data(ctx.loc) \in OffTable
         \/ ctx.loc > Len(src)
<1>1. Quiet => status' = status
  BY DEF Quiet
<1>2. ~Panic
  BY DEF Panic
<1>3. status' # status
  OBVIOUS
<1>4. ~Client /\ ~UNCHANGED vars
  BY <1>3 DEF Client, LexerNext, LexerPeek, LexerScan, Enter, vars
<1>5. ~Returns
  BY <1>3 DEF Returns, NextReturns, PeekReturns, ScanFinds, ScanFails, ScanReturns,
              ScanGoesOn, Answer
<1>6. CASE Begins
  <2>1. StartInvalid
    BY <1>1, <1>3, <1>6 DEF Begins, SkipWhitespace, StartEof, StartString,
                            StartOperator, StartIdent, StartNumber
  <2>2. Got(ctx) \in OffTable \ {"-1"}
    BY <1>2, <2>1 DEF StartInvalid
  <2> QED
    BY <2>2 DEF Got
<1>7. CASE Loops
  <2>1. ASSUME NEW loop, NEW after, DigitLoop(loop, after)
        PROVE  FALSE
    BY <1>1, <1>2, <1>3, <2>1 DEF DigitLoop
  <2>2. OperatorLoop
    BY <1>1, <1>2, <1>3, <1>7, <2>1
    DEF Loops, Integer, Fraction, Exponent, Point, Power, StringLoop, SkipComment,
        IdentLoop, Suffix
  <2> QED
    BY <1>1, <1>3, <2>2 DEF OperatorLoop, First
<1>8. CASE Overread
  BY <1>8 DEF Overread
<1> QED
  BY <1>4, <1>5, <1>6, <1>7, <1>8 DEF Next, Internal

(***************************************************************************)
(* Bounds                                                                  *)
(***************************************************************************)

Bounded ==
    PlainText => /\ ctx.loc < Len(src) /\ call.start.loc < Len(src)
                 /\ status # "fault"

LEMMA BoundedNext == TypeInv /\ Bounded /\ [Next]_vars => Bounded'
<1> SUFFICES ASSUME TypeInv, Bounded, [Next]_vars, PlainText' PROVE Bounded'
  BY DEF Bounded
<1>1. /\ src \in Seq(Char) /\ Len(src) \in Nat /\ ctx \in Context
      /\ call.start \in Context /\ src' = src
  BY ContextMoves DEF TypeInv, TypeOK
<1>2. PlainText
  BY <1>1 DEF PlainText
<1>3. /\ ctx.loc < Len(src) /\ call.start.loc < Len(src) /\ status # "fault"
      /\ 0 < Len(src)
  BY <1>1, <1>2 DEF Bounded, PlainText
<1>4. ASSUME NEW x \in Context, x.loc < Len(src)
      PROVE  Consumed(x) \in Context /\ Consumed(x).loc < Len(src)
  BY SMTT(30), <1>1, <1>4, ConsumedType DEF Consumed, AtEnd, Context
<1>5. ctx'.loc < Len(src) /\ call'.start.loc < Len(src)
  BY <1>1, <1>3, <1>4, ContextMoves DEF Moved, Origin
<1>6. status' # "fault"
  <2>1. Data(ctx.loc) \notin OffTable
    BY <1>1, <1>2, <1>3 DEF PlainText, Data, CharAt, Context
  <2> QED
    BY <1>1, <1>3, <2>1, FaultCauses DEF Context
<1> QED
  BY <1>1, <1>5, <1>6 DEF Bounded

(* On every text that is not empty and has no byte above 0x7e, the lexer    *)
(* reads inside the text and inside single_char_token: the one check of     *)
(* lexer_consume is enough.                                                 *)
THEOREM LexerInBounds == Spec => []InBounds
<1>1. Init => Bounded
  <2> SUFFICES ASSUME Init, PlainText PROVE Bounded
    BY DEF Bounded
  <2>1. src \in Seq(Char) /\ 0 < Len(src)
    BY WordIsLarge DEF Init, PlainText
  <2> QED
    BY <2>1 DEF Init, Bounded, Origin, Idle
<1>2. Bounded => InBounds
  BY DEF Bounded, InBounds
<1> QED
  BY <1>1, <1>2, TypeInvInit, TypeInvNext, BoundedNext, PTL DEF Spec

(***************************************************************************)
(* Lines and columns                                                       *)
(***************************************************************************)

LEMMA NewlinesGrow ==
  ASSUME NEW text, NEW n \in Nat
  PROVE  /\ IsFiniteSet(Newlines(text, n))
         /\ Cardinality(Newlines(text, n + 1)) =
              IF CharAt(text, n) = "NL" THEN Cardinality(Newlines(text, n)) + 1
                                        ELSE Cardinality(Newlines(text, n))
<1>1. IsFiniteSet(1 .. n)
  BY FS_Interval
<1>2. IsFiniteSet(Newlines(text, n))
  BY <1>1, FS_Subset DEF Newlines
<1>3. n + 1 \notin Newlines(text, n)
  BY DEF Newlines
<1>4. Newlines(text, n + 1) = IF CharAt(text, n) = "NL"
                              THEN Newlines(text, n) \cup {n + 1}
                              ELSE Newlines(text, n)
  BY DEF Newlines
<1> QED
  BY <1>2, <1>3, <1>4, FS_AddElement

LEMMA LocatedOrigin == ASSUME NEW text PROVE Located(text, Origin)
<1>1. Newlines(text, 0) = {}
  BY DEF Newlines
<1> QED
  BY <1>1, FS_EmptySet DEF Located, Origin

LEMMA ConsumedLocated ==
  ASSUME src \in Seq(Char), NEW x \in Context, Located(src, x)
  PROVE  Located(src, Consumed(x))
<1>1. CASE AtEnd(x)
  BY <1>1 DEF Consumed
<1>2. CASE ~AtEnd(x)
  <2> DEFINE y == Consumed(x)
  <2>1. x.loc \in Nat /\ x.line \in Nat /\ x.col \in Nat
    BY DEF Context
  <2>2. /\ y.loc = x.loc + 1
        /\ y.line = IF CharAt(src, x.loc) = "NL" THEN x.line + 1 ELSE x.line
        /\ y.col = IF CharAt(src, x.loc) = "NL" THEN 0 ELSE x.col + 1
    BY <1>2 DEF Consumed, Data
  <2> HIDE DEF y
  <2>3. y.line = Cardinality(Newlines(src, y.loc))
    BY <2>1, <2>2, NewlinesGrow DEF Located
  <2>4. y.col <= y.loc
    BY <2>1, <2>2 DEF Located
  <2>5. \A i \in y.loc - y.col .. y.loc - 1 : CharAt(src, i) # "NL"
    BY SMTT(30), <2>1, <2>2 DEF Located
  <2>6. y.col = y.loc \/ CharAt(src, y.loc - y.col - 1) = "NL"
    BY <2>1, <2>2 DEF Located
  <2> QED
    BY <2>3, <2>4, <2>5, <2>6 DEF Located, y
<1> QED
  BY <1>1, <1>2

LEMMA PositionNext == TypeInv /\ PositionAgrees /\ [Next]_vars => PositionAgrees'
<1> SUFFICES ASSUME TypeInv, PositionAgrees, [Next]_vars PROVE PositionAgrees'
  OBVIOUS
<1>1. /\ src \in Seq(Char) /\ ctx \in Context /\ src' = src
  BY ContextMoves DEF TypeInv, TypeOK
<1>2. Consumed(ctx) \in Context
  BY <1>1, ConsumedType
<1>3. ASSUME NEW x \in Moved \cup {Origin}
      PROVE  Located(src, x)
  BY <1>1, <1>2, LocatedOrigin, ConsumedLocated DEF PositionAgrees, Moved
<1>4. ctx' \in Moved \cup {Origin} /\ call'.start \in Moved \cup {Origin}
  BY ContextMoves DEF Moved
<1> QED
  BY <1>1, <1>3, <1>4 DEF PositionAgrees

(* The line and the column of every context the lexer works from are those  *)
(* of its location, on every text and whatever the client peeks or scans.   *)
THEOREM LexerPosition == Spec => []PositionAgrees
<1>1. Init => PositionAgrees
  BY LocatedOrigin DEF Init, PositionAgrees, Idle
<1> QED
  BY <1>1, TypeInvInit, TypeInvNext, PositionNext, PTL DEF Spec

(***************************************************************************)
(* What the token in progress is like at every loop                        *)
(***************************************************************************)

(* The span ends at the context; or behind the last character of the text,  *)
(* which lexer_consume hands out but does not pass.                         *)
Reached == tok.hi = ctx.loc \/ (AtEnd(ctx) /\ tok.hi = Len(src))

(* The loop has come to the last character, takes it and never ends.        *)
Stuck(taken) == AtEnd(ctx) /\ First \in taken

InString ==
    /\ tok.kind = "STRING" /\ tok.lo < ctx.loc /\ Data(tok.lo) = "DQ"
    /\ \A p \in tok.lo + 1 .. ctx.loc - 1 : Data(p) # "DQ"
    /\ tok.hi = ctx.loc \/ (AtEnd(ctx) /\ First \notin {"DQ", "-1"})

InOperator ==
    /\ tok.kind = "OPERATOR" /\ tok.lo < tok.hi /\ tok.hi <= Len(src)
    /\ tok.node = Text(tok)
    /\ Len(tok.node) = 1 \/ tok.node \in Compound
    /\ \/ tok.hi = ctx.loc
       \/ /\ AtEnd(ctx) /\ tok.hi = Len(src)
          /\ Len(tok.node) >= 2 /\ tok.node[Len(tok.node)] = First

InIdent ==
    /\ tok.kind = "IDENT" /\ tok.lo < ctx.loc /\ Data(tok.lo) \in IdentStart
    /\ \A p \in tok.lo .. ctx.loc - 1 : Data(p) \in IdentChar
    /\ tok.hi = ctx.loc \/ Stuck(IdentChar)

(* The digits of an integer up to n, and of a number with a decimal point.  *)
DigitsFrom == IF base = "d" THEN tok.lo ELSE tok.lo + 2
IntegerTo(n) ==
    /\ tok.kind = "INTEGER" /\ tok.lo < n
    /\ base # "d" => Data(tok.lo) = "0" /\ Data(tok.lo + 1) = base
    /\ DigitRun(DigitsFrom, n, Digits(base))

FractionTo(dot, n) ==
    /\ tok.lo < dot /\ dot < n
    /\ DigitRun(tok.lo, dot, Decimal)
    /\ Data(dot) = "." /\ Data(dot + 1) # "."
    /\ DigitRun(dot + 1, n, Decimal)

InInteger == IntegerTo(ctx.loc) /\ (tok.hi = ctx.loc \/ AtEnd(ctx))

InFraction ==
    /\ base = "d" /\ (tok.hi = ctx.loc \/ Stuck(Decimal))
    /\ \E dot \in Nat : FractionTo(dot, ctx.loc) /\ second = Data(dot + 1)

InPower ==
    /\ tok.hi = ctx.loc
    /\ \/ IntegerTo(ctx.loc) /\ First # "." /\ second = Data(ctx.loc + 1) /\ ~AtEnd(ctx)
       \/ /\ tok.kind = "FLOAT" /\ base = "d"
          /\ \E dot \in Nat : FractionTo(dot, ctx.loc) /\ second = Data(dot + 1)

(* What stands before the e of an exponent, and where its digits begin.     *)
Mantissa(dot, exp) ==
    /\ tok.lo < dot /\ dot <= exp
    /\ DigitRun(tok.lo, dot, Decimal)
    /\ exp # dot => FractionTo(dot, exp)
    /\ Data(exp) \in {"e", "E"}
Scale(dot, exp) ==
    IF exp = dot /\ Data(exp + 1) \in {"-", "+"} THEN exp + 2 ELSE exp + 1

ScaleTo(n) ==
    \E dot, exp \in Nat :
        /\ Mantissa(dot, exp) /\ Scale(dot, exp) <= n
        /\ DigitRun(Scale(dot, exp), n, Decimal)

InExponent == base = "d" /\ (Stuck(Decimal) \/ (Reached /\ ScaleTo(tok.hi)))

(* A number that ends before n, but for its suffix.                         *)
NumberTo(n) ==
    \/ /\ IntegerTo(n) /\ Data(n) \notin {"e", "E"}
       /\ ~(Data(n) = "." /\ Data(n + 1) # ".")
    \/ /\ tok.kind = "FLOAT"
       /\ ScaleTo(n) \/ (Data(n) \notin {"e", "E"} /\ \E dot \in Nat : FractionTo(dot, n))

InSuffix ==
    \/ Stuck(SuffixChar)
    \/ /\ Reached
       /\ \E end \in Nat :
             /\ end <= tok.hi /\ NumberTo(end)
             /\ \A p \in end .. tok.hi - 1 : Data(p) \in SuffixChar

Shape ==
    /\ pc = "string"             => InString
    /\ pc = "operator"           => InOperator
    /\ pc = "ident"              => InIdent
    /\ pc \in {"integer", "point"} => InInteger
    /\ pc = "fraction"           => InFraction
    /\ pc = "power"              => InPower
    /\ pc = "exponent"           => InExponent
    /\ pc = "suffix"             => InSuffix
    /\ pc = "exit"               => IsLexeme(tok)

(* Of an empty text not even the blanks are passed.                         *)
Within ==
    IF src = <<>> THEN pc \in {"idle", "whitespace"} /\ out = <<>>
    ELSE ctx.loc < Len(src) /\ call.start.loc < Len(src)

LexInd == Within /\ Shape /\ TokensAreLexemes
(* The text does not change, and what a token is does not depend on more.   *)
LEMMA SameText ==
  ASSUME src' = src, out' = out
  PROVE  TokensAreLexemes' = TokensAreLexemes
  BY DEF TokensAreLexemes, IsLexeme, IsString, IsOperator, IsWord, IsInteger, IsFloat,
         Text, SuffixRun, DigitRun, Data

LEMMA SameLexeme ==
  ASSUME src' = src, NEW r
  PROVE  IsLexeme(r)' = IsLexeme(r)
  BY DEF IsLexeme, IsString, IsOperator, IsWord, IsInteger, IsFloat,
         Text, SuffixRun, DigitRun, Data

(* A step that leaves the token and the context alone.                      *)
LEMMA SameShape ==
  ASSUME UNCHANGED <<src, ctx, pc, tok, base, second>>
  PROVE  Shape' = Shape
<1>1. IsLexeme(tok)' = IsLexeme(tok)
  BY DEF IsLexeme, IsString, IsOperator, IsWord, IsInteger, IsFloat,
         Text, SuffixRun, DigitRun, Data
<1>2. InString' = InString /\ InIdent' = InIdent
  BY DEF InString, InIdent, Stuck, AtEnd, First, Data
<1>3. InOperator' = InOperator
  BY DEF InOperator, AtEnd, First, Text, Data
<1>4. InInteger' = InInteger
  BY DEF InInteger, IntegerTo, DigitsFrom, DigitRun, AtEnd, Data
<1>5. InFraction' = InFraction
  BY DEF InFraction, FractionTo, DigitRun, Stuck, AtEnd, First, Data
<1>6. InPower' = InPower
  BY DEF InPower, IntegerTo, DigitsFrom, FractionTo, DigitRun, AtEnd, First, Data
<1>7. InExponent' = InExponent
  BY DEF InExponent, ScaleTo, Scale, Mantissa, FractionTo, DigitRun, Stuck, Reached,
         AtEnd, First, Data
<1>8. InSuffix' = InSuffix
  BY DEF InSuffix, NumberTo, IntegerTo, DigitsFrom, ScaleTo, Scale, Mantissa,
         FractionTo, DigitRun, Stuck, Reached, AtEnd, First, Data
<1> QED
  BY <1>1, <1>2, <1>3, <1>4, <1>5, <1>6, <1>7, <1>8 DEF Shape

(* Where a loop can be that has a token in progress.                        *)
Ready == TypeInv /\ Shape /\ src # <<>> /\ ctx.loc < Len(src)

LEMMA Reading ==
  ASSUME Ready
  PROVE  /\ src \in Seq(Char) /\ Len(src) \in Nat /\ ctx \in Context
         /\ ctx.loc \in Nat /\ ctx.loc < Len(src)
         /\ First = src[ctx.loc + 1] /\ First \in Char /\ First # "NUL"
         /\ First = Data(ctx.loc)
         /\ AtEnd(ctx) <=> ctx.loc + 1 = Len(src)
         /\ AtEnd(ctx) => Consumed(ctx) = ctx /\ Got(ctx) = "-1"
         /\ ~AtEnd(ctx) => /\ Consumed(ctx).loc = ctx.loc + 1
                           /\ Got(ctx) = First
                           /\ Consumed(Consumed(ctx)).loc =
                                IF ctx.loc + 2 = Len(src) THEN ctx.loc + 1 ELSE ctx.loc + 2
<1>1. /\ src \in Seq(Char) /\ Len(src) \in Nat /\ ctx \in Context
      /\ ctx.loc \in Nat /\ ctx.loc < Len(src)
  BY WordIsLarge DEF Ready, TypeInv, TypeOK, Context
<1>2. First = src[ctx.loc + 1] /\ First \in Char /\ First = Data(ctx.loc)
  BY <1>1 DEF First, Data, CharAt
<1>3. AtEnd(ctx) <=> ctx.loc + 1 = Len(src)
  BY <1>1 DEF AtEnd
<1>4. AtEnd(ctx) => Consumed(ctx) = ctx /\ Got(ctx) = "-1"
  BY DEF Consumed, Got
<1>5. ASSUME ~AtEnd(ctx)
      PROVE  /\ Consumed(ctx).loc = ctx.loc + 1 /\ Got(ctx) = First
             /\ Consumed(Consumed(ctx)).loc =
                  IF ctx.loc + 2 = Len(src) THEN ctx.loc + 1 ELSE ctx.loc + 2
  <2>1. Consumed(ctx).loc = ctx.loc + 1 /\ Got(ctx) = First
    BY <1>2, <1>5 DEF Consumed, Got
  <2>2. PICK y : y = Consumed(ctx)
    OBVIOUS
  <2>3. AtEnd(y) <=> ctx.loc + 2 = Len(src)
    BY <1>1, <2>1, <2>2 DEF AtEnd
  <2>4. Consumed(y).loc = IF AtEnd(y) THEN y.loc ELSE y.loc + 1
    BY DEF Consumed
  <2> QED
    BY <1>1, <2>1, <2>2, <2>3, <2>4
<1> QED
  BY <1>1, <1>2, <1>3, <1>4, <1>5, NulIsNoChar

LEMMA ModOfNat ==
  ASSUME NEW m \in Nat \ {0}, NEW x \in 0 .. m - 1
  PROVE  x % m = x
  OBVIOUS

(* The token, and what taking a character does to it.                       *)
LEMMA Spanning ==
  ASSUME TypeInv
  PROVE  /\ tok \in Token /\ tok.lo \in Nat /\ tok.hi \in Nat /\ tok.node \in Seq(Char)
         /\ Taken(tok).kind = tok.kind /\ Taken(tok).lo = tok.lo
         /\ Taken(tok).node = tok.node /\ Taken(tok) \in Token
         /\ tok.hi <= Len(src) => Taken(tok).hi = tok.hi + 1
<1>1. tok \in Token /\ src \in Source
  BY DEF TypeInv, TypeOK
<1>2. tok.lo \in Nat /\ tok.hi \in Nat /\ tok.node \in Seq(Char)
  BY <1>1, WordIsLarge DEF Token
<1>3. tok.hi <= Len(src) => (tok.hi + 1) % Word = tok.hi + 1
  <2> SUFFICES ASSUME tok.hi <= Len(src) PROVE (tok.hi + 1) % Word = tok.hi + 1
    OBVIOUS
  <2>1. Word \in Nat \ {0} /\ tok.hi + 1 \in 0 .. Word - 1
    BY <1>1, <1>2, WordIsLarge
  <2> QED
    BY <2>1, ModOfNat
<1> QED
  BY <1>1, <1>2, <1>3, TakenType DEF Taken, Token

(* Strings                                                                  *)
LEMMA StringShape ==
  ASSUME Ready, StringLoop
  PROVE  Shape'
<1>1. /\ InString /\ pc = "string" /\ Quiet /\ src' = src
  BY DEF StringLoop, At, Ready, Shape, Quiet
<1>2. CASE First = "DQ"
  <2>1. Take /\ pc' = "exit"
    BY <1>2 DEF StringLoop, Goto
  <2>2. /\ tok.hi = ctx.loc /\ tok.hi <= Len(src) /\ tok.kind = "STRING"
        /\ Data(tok.lo) = "DQ" /\ tok.lo < ctx.loc
        /\ \A p \in tok.lo + 1 .. ctx.loc - 1 : Data(p) # "DQ"
    BY <1>1, <1>2, Reading DEF InString
  <2>3. tok'.kind = "STRING" /\ tok'.lo = tok.lo /\ tok'.hi = ctx.loc + 1
    BY <2>1, <2>2, Spanning DEF Ready, Take
  <2>4. {p \in tok.lo .. ctx.loc : Data(p) = "DQ"} = {tok.lo, ctx.loc}
    <3>1. Data(ctx.loc) = "DQ" /\ tok.lo \in Nat /\ ctx.loc \in Nat
      BY <1>2, Reading, Spanning DEF Ready
    <3> QED BY <2>2, <3>1
  <2>5. tok'.hi - 1 = ctx.loc /\ tok'.hi >= tok'.lo + 2
    BY <2>2, <2>3, Reading, Spanning DEF Ready
  <2>6. IsString(tok)'
    BY <1>1, <2>3, <2>4, <2>5 DEF IsString, Data
  <2> QED BY <2>1, <2>3, <2>6 DEF Shape, IsLexeme
<1>3. CASE First # "DQ" /\ First = "-1"
  <2>1. tok' = [tok EXCEPT !.kind = "EOF"] /\ pc' = "exit"
    BY <1>3 DEF StringLoop, Goto
  <2>2. tok'.kind = "EOF"
    BY <2>1, Spanning DEF Ready, Token
  <2> QED BY <2>1, <2>2 DEF Shape, IsLexeme
<1>4. CASE First # "DQ" /\ First # "-1"
  <2>1. Take /\ pc' = "string"
    BY <1>4 DEF StringLoop, Goto
  <2>2. tok'.kind = "STRING" /\ tok'.lo = tok.lo /\ tok'.lo \in Nat
    BY <1>1, <2>1, Spanning DEF Ready, Take, InString
  <2>3. InString'
    <3>1. CASE AtEnd(ctx)
      <4>1. ctx' = ctx
        BY <2>1, <3>1, Reading DEF Take
      <4> QED BY <1>1, <1>4, <2>2, <3>1, <4>1 DEF InString, AtEnd, First, Data
    <3>2. CASE ~AtEnd(ctx)
      <4>1. ctx'.loc = ctx.loc + 1 /\ ctx.loc \in Nat /\ tok.hi = ctx.loc /\ ctx.loc < Len(src)
        BY <1>1, <2>1, <3>2, Reading DEF Take, InString
      <4>2. tok'.hi = ctx'.loc
        BY <2>1, <4>1, Spanning, Reading DEF Ready, Take
      <4>3. \A p \in tok.lo + 1 .. ctx.loc : Data(p) # "DQ"
        BY <1>1, <1>4, <2>2, <4>1, Reading DEF InString
      <4> QED BY <1>1, <2>2, <4>1, <4>2, <4>3 DEF InString, Data
    <3> QED BY <3>1, <3>2
  <2> QED BY <2>1, <2>3 DEF Shape
<1> QED BY <1>2, <1>3, <1>4

(* Operators                                                                *)

(* No path in op_table repeats its last character but a doubled one, and    *)
(* none leads over the end of the text.                                     *)
LEMMA CompoundEnds ==
  ASSUME NEW s \in Compound
  PROVE  /\ s \in Seq(Char) /\ Len(s) \in {2, 3} /\ s[Len(s)] # "NUL"
         /\ Len(s) = 3 => s[2] # s[3]
<1>1. s \in Seq(Char)
  BY CompoundIsText
<1>2. CASE s \in {<<c, "=">> : c \in {"!", "^", "%", "~", "-", "+", "*", "/", "|", "&",
                                       "=", ">", "<"}}
  BY <1>1, <1>2
<1>3. CASE s \in {<<c, c>> : c \in {".", ":", "/", "|", "&", ">", "<"}}
  BY SMTT(30), <1>1, <1>3
<1>4. CASE s \in {<<"-", ">">>, <<".", ".", "=">>, <<">", ">", "=">>, <<"<", "<", "=">>}
  BY SMTT(30), <1>1, <1>4
<1> QED BY <1>2, <1>3, <1>4 DEF Compound

LEMMA TextGrows ==
  ASSUME src \in Seq(Char), NEW lo \in Nat, NEW hi \in Nat, lo < hi, hi < Len(src)
  PROVE  SubSeq(src, lo + 1, hi + 1) = Append(SubSeq(src, lo + 1, hi), src[hi + 1])
<1>1. SubSeq(src, lo + 1, hi + 1) = SubSeq(src, lo + 1, hi) \o <<src[hi + 1]>>
  <2>1. lo + 1 \in 1 .. Len(src) /\ hi + 1 \in lo + 1 .. Len(src) /\ (hi + 1) - 1 = hi
    OBVIOUS
  <2> QED BY <2>1, SubSeqRecursiveSecond
<1>2. SubSeq(src, lo + 1, hi) \in Seq(Char) /\ src[hi + 1] \in Char
  <2>1. \A i \in lo + 1 .. hi : src[i] \in Char
    OBVIOUS
  <2> QED BY <2>1, SubSeqProperties
<1> QED BY <1>1, <1>2, AppendIsConcat

LEMMA OperatorShape ==
  ASSUME Ready, OperatorLoop
  PROVE  Shape'
<1>1. /\ InOperator /\ pc = "operator" /\ tok.node \in Seq(Char) /\ First \in Char
  BY Reading, Spanning DEF OperatorLoop, At, Ready, Shape
<1>2. PICK node : node = Append(tok.node, First)
  OBVIOUS
<1>3. /\ node \in Seq(Char) /\ Len(node) = Len(tok.node) + 1 /\ Len(tok.node) \in Nat
      /\ node[Len(node)] = First
      /\ \A i \in 1 .. Len(tok.node) : node[i] = tok.node[i]
  BY <1>1, <1>2, AppendProperties
<1>4. CASE First \in OffTable
  BY <1>4, SameShape DEF OperatorLoop, Fault, local, Ready
<1>5. CASE First \notin OffTable /\ node \in Compound
  <2>1. /\ ctx' = Consumed(ctx) /\ tok' = [Taken(tok) EXCEPT !.node = node]
        /\ pc' = "operator" /\ src' = src
    BY <1>2, <1>5 DEF OperatorLoop, Goto, Quiet
  <2>2. tok.hi = ctx.loc
    <3> SUFFICES ASSUME tok.hi # ctx.loc PROVE FALSE
      OBVIOUS
    <3>1. Len(tok.node) >= 2 /\ tok.node[Len(tok.node)] = First
      BY <1>1 DEF InOperator
    <3>2. Len(node) = 3 /\ node[2] = node[3]
      BY <1>3, <1>5, <3>1, CompoundEnds
    <3> QED BY <1>5, <3>2, CompoundEnds
  <2>3. /\ tok'.kind = "OPERATOR" /\ tok'.lo = tok.lo /\ tok'.hi = tok.hi + 1
        /\ tok'.node = node
    <3>1. Taken(tok).hi = tok.hi + 1
      BY <2>2, Reading, Spanning DEF Ready
    <3> QED BY <1>1, <2>1, <3>1, Spanning DEF Ready, Token, InOperator
  <2>4. /\ tok.lo < tok.hi /\ tok.hi < Len(src) /\ tok.lo \in Nat /\ tok.hi \in Nat
        /\ src \in Seq(Char) /\ First = src[tok.hi + 1] /\ Len(src) \in Nat
    BY <1>1, <2>2, Reading, Spanning DEF Ready, InOperator
  <2>5. node = SubSeq(src, tok.lo + 1, tok.hi + 1)
    BY <1>1, <1>2, <2>4, TextGrows DEF InOperator, Text
  <2>6. Len(node) >= 2
    BY <1>5, CompoundEnds
  <2>7. \/ tok'.hi = ctx'.loc
        \/ AtEnd(ctx)' /\ tok'.hi = Len(src) /\ First' = First
    <3>1. CASE AtEnd(ctx)
      <4>1. ctx' = ctx /\ tok.hi + 1 = Len(src)
        BY <2>1, <2>2, <3>1, Reading
      <4> QED BY <2>1, <2>3, <3>1, <4>1 DEF AtEnd, First, Data
    <3>2. CASE ~AtEnd(ctx)
      BY <2>1, <2>2, <2>3, <3>2, Reading
    <3> QED BY <3>1, <3>2
  <2>8. InOperator'
    <3>1. /\ tok'.kind = "OPERATOR" /\ tok'.lo < tok'.hi /\ tok'.hi <= Len(src')
          /\ tok'.node = Text(tok)'
      <4>1. tok'.node = SubSeq(src', tok'.lo + 1, tok'.hi)
        BY ONLY <2>1, <2>3, <2>5
      <4>2. tok'.lo < tok'.hi /\ tok'.hi <= Len(src')
        BY ONLY <2>1, <2>3, <2>4
      <4> QED BY ONLY <2>3, <4>1, <4>2 DEF Text
    <3>2. tok'.node \in Compound /\ Len(tok'.node) >= 2
      BY <1>5, <2>3, <2>6
    <3>3. \/ tok'.hi = ctx'.loc
          \/ /\ AtEnd(ctx)' /\ tok'.hi = Len(src')
             /\ tok'.node[Len(tok'.node)] = First'
      BY ONLY <1>3, <2>1, <2>3, <2>7
    <3> QED BY <3>1, <3>2, <3>3 DEF InOperator
  <2> QED BY <2>1, <2>8 DEF Shape
<1>6. CASE First \notin OffTable /\ node \notin Compound
  <2>1. /\ pc' \in {"comment", "exit"} /\ ctx' = ctx /\ tok' = tok /\ src' = src
    BY <1>2, <1>6 DEF OperatorLoop, Goto, Quiet
  <2>2. Append(tok.node, Data(tok.hi)) \notin Compound
    <3>1. CASE tok.hi = ctx.loc
      BY <1>2, <1>6, <3>1, Reading
    <3>2. CASE tok.hi # ctx.loc
      <4>1. Data(tok.hi) = "NUL"
        BY <1>1, <3>2, Reading DEF InOperator, Data, CharAt
      <4>2. PICK s : s = Append(tok.node, "NUL")
        OBVIOUS
      <4>3. s[Len(s)] = "NUL"
        <5>1. tok.node \in Seq(Char \cup {"NUL"})
          BY <1>1
        <5> QED BY <4>2, <5>1, AppendProperties
      <4> QED BY <4>1, <4>2, <4>3, CompoundEnds
    <3> QED BY <3>1, <3>2
  <2>3. IsOperator(tok) /\ tok'.kind = "OPERATOR"
    BY <1>1, <2>1, <2>2 DEF IsOperator, InOperator
  <2>4. IsOperator(tok)'
    BY <2>1, <2>3 DEF IsOperator, Text, Data
  <2> QED BY <2>1, <2>3, <2>4 DEF Shape, IsLexeme
<1> QED BY <1>4, <1>5, <1>6

(* Words                                                                    *)
LEMMA IdentShape ==
  ASSUME Ready, IdentLoop
  PROVE  Shape'
<1>1. InIdent /\ pc = "ident" /\ src' = src
  BY DEF IdentLoop, At, Ready, Shape, Quiet
<1>2. CASE First \in IdentChar
  <2>1. Take /\ pc' = "ident"
    BY <1>2 DEF IdentLoop, Goto
  <2>2. tok'.kind = "IDENT" /\ tok'.lo = tok.lo /\ tok'.lo \in Nat
    BY <1>1, <2>1, Spanning DEF Ready, Take, InIdent
  <2>3. InIdent'
    <3>1. CASE AtEnd(ctx)
      <4>1. ctx' = ctx
        BY <2>1, <3>1, Reading DEF Take
      <4> QED BY <1>1, <1>2, <2>2, <3>1, <4>1 DEF InIdent, Stuck, AtEnd, First, Data
    <3>2. CASE ~AtEnd(ctx)
      <4>1. ctx'.loc = ctx.loc + 1 /\ ctx.loc \in Nat /\ tok.hi = ctx.loc /\ ctx.loc < Len(src)
        BY <1>1, <2>1, <3>2, Reading DEF Take, InIdent, Stuck
      <4>2. tok'.hi = ctx'.loc
        BY <2>1, <4>1, Spanning, Reading DEF Ready, Take
      <4>3. \A p \in tok.lo .. ctx.loc : Data(p) \in IdentChar
        BY <1>1, <1>2, <2>2, <4>1, Reading DEF InIdent
      <4> QED BY <1>1, <2>2, <4>1, <4>2, <4>3 DEF InIdent, Data
    <3> QED BY <3>1, <3>2
  <2> QED BY <2>1, <2>3 DEF Shape
<1>3. CASE First \notin IdentChar
  <2>1. /\ pc' = "exit" /\ ctx' = ctx
        /\ tok' = IF Text(tok) \in Keyword
                  THEN [tok EXCEPT !.kind = "KEYWORD", !.node = Text(tok)]
                  ELSE tok
    BY <1>3 DEF IdentLoop, Goto
  <2>2. /\ tok'.lo = tok.lo /\ tok'.hi = tok.hi
        /\ tok'.kind = IF Text(tok) \in Keyword THEN "KEYWORD" ELSE "IDENT"
    BY <1>1, <2>1, Spanning DEF Ready, Token, InIdent
  <2>3. Text(tok)' = Text(tok)
    BY <1>1, <2>2 DEF Text
  <2>4. tok.hi = ctx.loc
    BY <1>1, <1>3 DEF InIdent, Stuck
  <2>5. IsWord(tok)'
    <3>1. Data(tok.hi) \notin IdentChar
      BY <1>3, <2>4, Reading
    <3> QED BY <1>1, <2>2, <2>3, <2>4, <3>1 DEF IsWord, InIdent, Data
  <2> QED BY <2>1, <2>2, <2>5 DEF Shape, IsLexeme
<1> QED BY <1>2, <1>3

(* Numbers                                                                  *)

(* What is said of places of the text holds of them after a step.           *)
LEMMA Carries ==
  ASSUME src' = src
  PROVE  /\ \A p : Data(p)' = Data(p)
         /\ \A i, j, d : DigitRun(i, j, d)' = DigitRun(i, j, d)
         /\ tok'.lo = tok.lo =>
              /\ \A m, n : FractionTo(m, n)' = FractionTo(m, n)
              /\ \A n : ScaleTo(n)' = ScaleTo(n)
              /\ tok'.kind = tok.kind /\ base' = base =>
                   /\ \A n : IntegerTo(n)' = IntegerTo(n)
                   /\ \A n : NumberTo(n)' = NumberTo(n)
<1>1. /\ \A p : Data(p)' = Data(p)
      /\ \A i, j, d : DigitRun(i, j, d)' = DigitRun(i, j, d)
  BY DEF Data, DigitRun
<1>2. ASSUME tok'.lo = tok.lo
      PROVE  /\ \A m, n : FractionTo(m, n)' = FractionTo(m, n)
             /\ \A n : ScaleTo(n)' = ScaleTo(n)
  BY <1>2 DEF ScaleTo, Scale, Mantissa, FractionTo, DigitRun, Data
<1>3. ASSUME tok'.lo = tok.lo, tok'.kind = tok.kind, base' = base
      PROVE  /\ \A n : IntegerTo(n)' = IntegerTo(n)
             /\ \A n : NumberTo(n)' = NumberTo(n)
  <2>1. \A n : IntegerTo(n)' = IntegerTo(n)
    BY <1>3 DEF IntegerTo, DigitsFrom, DigitRun, Data
  <2>2. ASSUME NEW n PROVE NumberTo(n)' = NumberTo(n)
    BY <1>1, <1>2, <1>3, <2>1 DEF NumberTo
  <2> QED BY <2>1, <2>2
<1> QED BY <1>1, <1>2, <1>3

LEMMA DigitKinds ==
  /\ Digits("d") = Decimal
  /\ {".", "-", "+", "e", "E", "_"} \cap Decimal = {}
  /\ {"NUL", ".", "e", "E", "-", "+"} \cap SuffixChar = {}
  /\ \A b : ~Among("_", Digits(b))
  BY DEF Digits, Decimal, SuffixChar, Among

LEMMA EmptyRun ==
  ASSUME NEW n \in Nat
  PROVE  /\ \A d : DigitRun(n, n, d)
         /\ Data(n) \notin SuffixChar => SuffixRun(n, n)
<1>1. n .. n - 1 = {}
  OBVIOUS
<1> QED BY <1>1 DEF DigitRun, SuffixRun

LEMMA DigitTaken ==
  ASSUME Ready, src' = src, Take, tok.hi = ctx.loc \/ AtEnd(ctx),
         First \in Digits(base) \/ (First = "_" /\ BetweenDigits)
  PROVE  /\ tok'.lo = tok.lo /\ tok'.kind = tok.kind
         /\ AtEnd(ctx) => ctx' = ctx /\ First \in Digits(base)
         /\ ~AtEnd(ctx) => /\ ctx'.loc = ctx.loc + 1 /\ tok'.hi = ctx.loc + 1
                           /\ \A i \in Nat : DigitRun(i, ctx.loc, Digits(base)) =>
                                  DigitRun(i, ctx.loc + 1, Digits(base))
<1>1. tok'.lo = tok.lo /\ tok'.kind = tok.kind
  BY Spanning DEF Ready, Take
<1>2. AtEnd(ctx) => ctx' = ctx /\ First \in Digits(base)
  BY Reading DEF Take, BetweenDigits
<1>3. ASSUME ~AtEnd(ctx)
      PROVE  ctx'.loc = ctx.loc + 1 /\ tok'.hi = ctx.loc + 1
  <2>1. tok.hi = ctx.loc
    BY <1>3
  <2>2. tok'.hi = tok.hi + 1
    <3>1. ctx.loc \in Nat /\ Len(src) \in Nat /\ ctx.loc < Len(src)
      BY Reading
    <3>2. tok.hi <= Len(src)
      BY ONLY <2>1, <3>1
    <3> QED BY <3>2, Spanning DEF Ready, Take
  <2> QED BY <1>3, <2>1, <2>2, Reading DEF Take
<1>4. ASSUME NEW i \in Nat, DigitRun(i, ctx.loc, Digits(base))
      PROVE  DigitRun(i, ctx.loc + 1, Digits(base))
  <2>1. First = Data(ctx.loc) /\ ctx.loc \in Nat
    BY Reading
  <2>2. \/ Data(ctx.loc) \in Digits(base)
        \/ Data(ctx.loc) = "_" /\ {Data(ctx.loc - 1), Data(ctx.loc + 1)} \subseteq Decimal
    BY <2>1 DEF BetweenDigits
  <2>3. \A p \in i .. (ctx.loc + 1) - 1 : p = ctx.loc \/ p \in i .. ctx.loc - 1
    <3>1. ctx.loc \in Nat /\ i \in Nat
      BY <1>4, <2>1
    <3> QED BY ONLY <3>1
  <2> QED BY <1>4, <2>2, <2>3 DEF DigitRun
<1> QED BY <1>1, <1>2, <1>3, <1>4

LEMMA IntegerShape ==
  ASSUME Ready, Integer
  PROVE  Shape'
<1>1. InInteger /\ pc = "integer" /\ tok \in Token
  BY Spanning DEF Integer, DigitLoop, At, Ready, Shape
<1>2. CASE First = "_" /\ ~BetweenDigits
  BY <1>2, SameShape, DigitKinds DEF Integer, DigitLoop, Panic, local, Ready
<1>3. CASE (First = "_" /\ BetweenDigits) \/ Among(First, Digits(base))
  <2>1. Take /\ pc' = "integer" /\ base' = base /\ src' = src
    BY <1>3, DigitKinds DEF Integer, DigitLoop, Goto, Quiet
  <2>2. First \in Digits(base) \/ (First = "_" /\ BetweenDigits)
    BY <1>3, Reading DEF Among
  <2>3. tok.hi = ctx.loc \/ AtEnd(ctx)
    BY <1>1 DEF InInteger
  <2>4. CASE AtEnd(ctx)
    <3>1. ctx' = ctx /\ tok'.lo = tok.lo /\ tok'.kind = tok.kind
      BY <2>1, <2>2, <2>3, <2>4, DigitTaken
    <3>2. IntegerTo(ctx.loc)'
      BY <1>1, <2>1, <3>1, Carries DEF InInteger
    <3> QED BY <2>1, <2>4, <3>1, <3>2 DEF Shape, InInteger, AtEnd
  <2>5. CASE ~AtEnd(ctx)
    <3>1. /\ ctx'.loc = ctx.loc + 1 /\ tok'.hi = ctx.loc + 1
          /\ tok'.lo = tok.lo /\ tok'.kind = tok.kind
          /\ \A i \in Nat : DigitRun(i, ctx.loc, Digits(base)) =>
                 DigitRun(i, ctx.loc + 1, Digits(base))
      BY <2>1, <2>2, <2>3, <2>5, DigitTaken
    <3>2. DigitsFrom \in Nat /\ ctx.loc \in Nat /\ tok.lo \in Nat
      BY Reading, Spanning DEF Ready, DigitsFrom
    <3>3. IntegerTo(ctx.loc + 1)
      BY <1>1, <3>1, <3>2 DEF InInteger, IntegerTo
    <3>4. IntegerTo(ctx.loc)'
      BY <2>1, <3>1, <3>3, Carries
    <3> QED BY <2>1, <3>1, <3>4 DEF Shape, InInteger
  <2> QED BY <2>4, <2>5
<1>4. CASE /\ ~(First = "_" /\ ~BetweenDigits)
           /\ ~((First = "_" /\ BetweenDigits) \/ Among(First, Digits(base)))
  <2>1. /\ tok' = [tok EXCEPT !.kind = tok.kind] /\ pc' = "point"
        /\ ctx' = ctx /\ base' = base /\ src' = src
    BY <1>4 DEF Integer, DigitLoop, Goto, Quiet
  <2>2. tok' = tok
    BY <1>1, <2>1 DEF Token
  <2>3. IntegerTo(ctx.loc)'
    BY <1>1, <2>1, <2>2, Carries DEF InInteger
  <2> QED BY <1>1, <2>1, <2>2, <2>3 DEF Shape, InInteger, AtEnd
<1> QED BY <1>2, <1>3, <1>4

LEMMA FractionShape ==
  ASSUME Ready, Fraction
  PROVE  Shape'
<1>1. InFraction /\ pc = "fraction" /\ tok \in Token /\ base = "d"
  BY Spanning DEF Fraction, DigitLoop, At, Ready, Shape, InFraction
<1>2. Digits(base) = Decimal
  BY <1>1, DigitKinds
<1>3. PICK dot \in Nat : FractionTo(dot, ctx.loc) /\ second = Data(dot + 1)
  BY <1>1 DEF InFraction
<1>4. CASE First = "_" /\ ~BetweenDigits
  BY <1>4, SameShape, DigitKinds DEF Fraction, DigitLoop, Panic, local, Ready
<1>5. CASE (First = "_" /\ BetweenDigits) \/ Among(First, Digits(base))
  <2>1. Take /\ pc' = "fraction" /\ base' = base /\ second' = second /\ src' = src
    BY <1>5, DigitKinds DEF Fraction, DigitLoop, Goto, Quiet
  <2>2. First \in Digits(base) \/ (First = "_" /\ BetweenDigits)
    BY <1>5, Reading DEF Among
  <2>3. tok.hi = ctx.loc \/ AtEnd(ctx)
    BY <1>1 DEF InFraction, Stuck
  <2>4. CASE AtEnd(ctx)
    <3>1. ctx' = ctx /\ tok'.lo = tok.lo /\ First \in Decimal
      BY <1>2, <2>1, <2>2, <2>3, <2>4, DigitTaken
    <3>2. FractionTo(dot, ctx.loc)' /\ second' = Data(dot + 1)'
      BY <1>3, <2>1, <3>1, Carries
    <3>3. Stuck(Decimal)'
      BY <2>1, <2>4, <3>1 DEF Stuck, AtEnd, First, Data
    <3>4. InFraction'
      BY <1>1, <2>1, <3>2, <3>3 DEF InFraction
    <3> QED BY <2>1, <3>4 DEF Shape
  <2>5. CASE ~AtEnd(ctx)
    <3>1. /\ ctx'.loc = ctx.loc + 1 /\ tok'.hi = ctx.loc + 1 /\ tok'.lo = tok.lo
          /\ \A i \in Nat : DigitRun(i, ctx.loc, Decimal) => DigitRun(i, ctx.loc + 1, Decimal)
      BY <1>2, <2>1, <2>2, <2>3, <2>5, DigitTaken
    <3>2. FractionTo(dot, ctx.loc + 1)
      BY <1>3, <3>1, Reading DEF FractionTo
    <3>3. FractionTo(dot, ctx.loc)' /\ second' = Data(dot + 1)'
      BY <1>3, <2>1, <3>1, <3>2, Carries
    <3>4. InFraction'
      BY <1>1, <2>1, <3>1, <3>3 DEF InFraction
    <3> QED BY <2>1, <3>4 DEF Shape
  <2> QED BY <2>4, <2>5
<1>6. CASE /\ ~(First = "_" /\ ~BetweenDigits)
           /\ ~((First = "_" /\ BetweenDigits) \/ Among(First, Digits(base)))
  <2>1. /\ tok' = [tok EXCEPT !.kind = "FLOAT"] /\ pc' = "power"
        /\ ctx' = ctx /\ base' = base /\ second' = second /\ src' = src
    BY <1>6 DEF Fraction, DigitLoop, Goto, Quiet
  <2>2. tok'.kind = "FLOAT" /\ tok'.lo = tok.lo /\ tok'.hi = tok.hi
    BY <1>1, <2>1 DEF Token
  <2>3. tok.hi = ctx.loc
    BY <1>1, <1>2, <1>6 DEF InFraction, Stuck, Among
  <2>4. FractionTo(dot, ctx.loc)' /\ second' = Data(dot + 1)'
    BY <1>3, <2>1, <2>2, Carries
  <2>5. InPower'
    BY <1>1, <2>1, <2>2, <2>3, <2>4 DEF InPower
  <2> QED BY <2>1, <2>5 DEF Shape
<1> QED BY <1>4, <1>5, <1>6

LEMMA ExponentShape ==
  ASSUME Ready, Exponent
  PROVE  Shape'
<1>1. InExponent /\ pc = "exponent" /\ tok \in Token /\ base = "d"
  BY Spanning DEF Exponent, DigitLoop, At, Ready, Shape, InExponent
<1>2. Digits(base) = Decimal
  BY <1>1, DigitKinds
<1>3. CASE First = "_" /\ ~BetweenDigits
  BY <1>3, SameShape, DigitKinds DEF Exponent, DigitLoop, Panic, local, Ready
<1>4. CASE (First = "_" /\ BetweenDigits) \/ Among(First, Digits(base))
  <2>1. Take /\ pc' = "exponent" /\ base' = base /\ src' = src
    BY <1>4, DigitKinds DEF Exponent, DigitLoop, Goto, Quiet
  <2>2. First \in Digits(base) \/ (First = "_" /\ BetweenDigits)
    BY <1>4, Reading DEF Among
  <2>3. tok.hi = ctx.loc \/ AtEnd(ctx)
    BY <1>1 DEF InExponent, Stuck, Reached
  <2>4. CASE AtEnd(ctx)
    <3>1. ctx' = ctx /\ First \in Decimal
      BY <1>2, <2>1, <2>2, <2>3, <2>4, DigitTaken
    <3>2. Stuck(Decimal)'
      BY <2>1, <2>4, <3>1 DEF Stuck, AtEnd, First, Data
    <3> QED BY <1>1, <2>1, <3>2 DEF Shape, InExponent
  <2>5. CASE ~AtEnd(ctx)
    <3>1. /\ ctx'.loc = ctx.loc + 1 /\ tok'.hi = ctx.loc + 1 /\ tok'.lo = tok.lo
          /\ \A i \in Nat : DigitRun(i, ctx.loc, Decimal) => DigitRun(i, ctx.loc + 1, Decimal)
      BY <1>2, <2>1, <2>2, <2>3, <2>5, DigitTaken
    <3>2. ScaleTo(ctx.loc) /\ ctx.loc \in Nat
      BY <1>1, <2>3, <2>5, Reading DEF InExponent, Stuck
    <3>3. ScaleTo(ctx.loc + 1)
      <4>1. PICK dot \in Nat, exp \in Nat :
                Mantissa(dot, exp) /\ Scale(dot, exp) <= ctx.loc
                /\ DigitRun(Scale(dot, exp), ctx.loc, Decimal)
        BY <3>2 DEF ScaleTo
      <4>2. Scale(dot, exp) \in Nat
        BY DEF Scale
      <4>3. Scale(dot, exp) <= ctx.loc + 1 /\ DigitRun(Scale(dot, exp), ctx.loc + 1, Decimal)
        BY <3>1, <3>2, <4>1, <4>2
      <4> QED BY <4>1, <4>3 DEF ScaleTo
    <3>4. ScaleTo(tok.hi)' /\ tok'.hi = ctx'.loc
      BY <2>1, <3>1, <3>3, Carries
    <3>5. InExponent'
      BY <1>1, <2>1, <3>4 DEF InExponent, Reached
    <3> QED BY <2>1, <3>5 DEF Shape
  <2> QED BY <2>4, <2>5
<1>5. CASE /\ ~(First = "_" /\ ~BetweenDigits)
           /\ ~((First = "_" /\ BetweenDigits) \/ Among(First, Digits(base)))
  <2>1. /\ tok' = [tok EXCEPT !.kind = "FLOAT"] /\ pc' = "suffix"
        /\ ctx' = ctx /\ base' = base /\ src' = src
    BY <1>5 DEF Exponent, DigitLoop, Goto, Quiet
  <2>2. tok'.kind = "FLOAT" /\ tok'.lo = tok.lo /\ tok'.hi = tok.hi /\ tok.hi \in Nat
    BY <1>1, <2>1, Spanning DEF Ready, Token
  <2>3. Reached /\ ScaleTo(tok.hi)
    BY <1>1, <1>2, <1>5 DEF InExponent, Stuck, Among
  <2>4. Reached'
    BY <2>1, <2>2, <2>3 DEF Reached, AtEnd
  <2>5. NumberTo(tok.hi)'
    BY <2>1, <2>2, <2>3, Carries DEF NumberTo
  <2>6. InSuffix'
    BY <2>2, <2>4, <2>5 DEF InSuffix
  <2> QED BY <2>1, <2>6 DEF Shape
<1> QED BY <1>3, <1>4, <1>5

(* A number that ends where its suffix does is a lexeme.                    *)
LEMMA NumberIsLexeme ==
  ASSUME tok.lo \in Nat, tok.hi \in Nat, base \in {"b", "o", "x", "d"},
         NEW end \in Nat, end <= tok.hi, NumberTo(end), SuffixRun(end, tok.hi)
  PROVE  IsLexeme(tok)
<1>1. CASE /\ IntegerTo(end) /\ Data(end) \notin {"e", "E"}
           /\ ~(Data(end) = "." /\ Data(end + 1) # ".")
  <2>1. end \in tok.lo + 1 .. tok.hi
    BY <1>1 DEF IntegerTo
  <2>2. IsInteger(tok)
    BY <1>1, <2>1 DEF IsInteger, IntegerTo, DigitsFrom
  <2> QED BY <1>1, <2>2 DEF IsLexeme, IntegerTo
<1>2. CASE tok.kind = "FLOAT" /\ ScaleTo(end)
  <2>1. PICK dot \in Nat, exp \in Nat :
            /\ Mantissa(dot, exp) /\ Scale(dot, exp) <= end
            /\ DigitRun(Scale(dot, exp), end, Decimal)
    BY <1>2 DEF ScaleTo
  <2>2. /\ dot \in tok.lo + 1 .. tok.hi /\ exp \in tok.lo + 1 .. tok.hi
        /\ end \in tok.lo + 1 .. tok.hi /\ dot # end
    <3>1. tok.lo < dot /\ dot <= exp /\ exp + 1 <= Scale(dot, exp) /\ Scale(dot, exp) \in Nat
      BY <2>1 DEF Mantissa, Scale
    <3> QED BY <2>1, <3>1
  <2>3. exp # dot => /\ Data(dot) = "." /\ Data(dot + 1) # "."
                     /\ DigitRun(dot + 1, exp, Decimal)
    BY <2>1 DEF Mantissa, FractionTo
  <2>4. DigitRun(tok.lo, dot, Decimal) /\ Data(exp) \in {"e", "E"}
    BY <2>1 DEF Mantissa
  <2>5. IsFloat(tok)
    BY <2>1, <2>2, <2>3, <2>4 DEF IsFloat, Scale
  <2> QED BY <1>2, <2>5 DEF IsLexeme
<1>3. CASE /\ tok.kind = "FLOAT" /\ Data(end) \notin {"e", "E"}
           /\ \E dot \in Nat : FractionTo(dot, end)
  <2>1. PICK dot \in Nat : FractionTo(dot, end)
    BY <1>3
  <2>2. /\ dot \in tok.lo + 1 .. tok.hi /\ end \in tok.lo + 1 .. tok.hi /\ dot # end
    BY <2>1 DEF FractionTo
  <2>3. IsFloat(tok)
    BY <1>3, <2>1, <2>2 DEF IsFloat, FractionTo
  <2> QED BY <1>3, <2>3 DEF IsLexeme
<1> QED BY <1>1, <1>2, <1>3 DEF NumberTo

LEMMA LexemeStays ==
  ASSUME src' = src, tok' = tok, IsLexeme(tok)
  PROVE  IsLexeme(tok)'
  BY SameLexeme

LEMMA PointShape ==
  ASSUME Ready, Point
  PROVE  Shape'
<1>1. /\ InInteger /\ pc = "point" /\ tok.lo \in Nat /\ tok.hi \in Nat
      /\ base \in {"b", "o", "x", "d"}
  BY Spanning DEF Point, At, Ready, Shape, TypeInv, TypeOK
<1>2. CASE AtEnd(ctx)
  BY <1>2, SameShape DEF Point, Panic, local, Ready
<1>3. CASE ~AtEnd(ctx)
  <2>1. /\ tok.hi = ctx.loc /\ IntegerTo(ctx.loc) /\ ctx.loc \in Nat /\ tok.lo < ctx.loc
        /\ First = Data(ctx.loc)
    BY <1>1, <1>3, Reading DEF InInteger, IntegerTo
  <2>2. CASE First = "." /\ Data(ctx.loc + 1) # "." /\ base # "d"
    BY <1>3, <2>2, SameShape DEF Point, Panic, local, Ready
  <2>3. CASE First = "." /\ Data(ctx.loc + 1) # "." /\ base = "d"
    <3>1. /\ Take /\ pc' = "fraction" /\ second' = Data(ctx.loc + 1) /\ base' = base
          /\ src' = src
      BY <1>3, <2>3 DEF Point, Goto, Quiet
    <3>2. ctx'.loc = ctx.loc + 1 /\ tok'.lo = tok.lo
      BY <1>3, <3>1, Reading, Spanning DEF Ready, Take
    <3>3. tok'.hi = ctx.loc + 1
      <4>1. ctx.loc <= Len(src)
        BY Reading
      <4> QED BY <2>1, <3>1, <4>1, Spanning DEF Ready, Take
    <3>4. FractionTo(ctx.loc, ctx.loc + 1)
      <4>1. DigitRun(tok.lo, ctx.loc, Decimal)
        BY <2>1, <2>3, DigitKinds DEF IntegerTo, DigitsFrom
      <4>2. DigitRun(ctx.loc + 1, ctx.loc + 1, Decimal)
        <5>1. ctx.loc + 1 \in Nat
          BY <2>1
        <5> QED BY <5>1, EmptyRun
      <4> QED BY <2>1, <2>3, <4>1, <4>2 DEF FractionTo
    <3>5. FractionTo(ctx.loc, ctx.loc + 1)' = FractionTo(ctx.loc, ctx.loc + 1)'
      OBVIOUS
    <3>6. PICK dot \in Nat : dot = ctx.loc
      BY <2>1
    <3>7. FractionTo(dot, ctx.loc)' /\ second' = Data(dot + 1)'
      BY <3>1, <3>2, <3>4, <3>6, Carries
    <3>8. InFraction'
      BY <2>3, <3>1, <3>2, <3>3, <3>7 DEF InFraction
    <3> QED BY <3>1, <3>8 DEF Shape
  <2>4. CASE ~(First = "." /\ Data(ctx.loc + 1) # ".")
    <3>1. /\ pc' = (IF First = "." THEN "exit" ELSE "power")
          /\ second' = Data(ctx.loc + 1) /\ ctx' = ctx /\ tok' = tok /\ base' = base
          /\ src' = src
      BY <1>3, <2>4 DEF Point, Goto, Quiet
    <3>2. CASE First = "."
      <4>1. NumberTo(ctx.loc)
        BY <2>1, <2>4, <3>2 DEF NumberTo
      <4>2. SuffixRun(ctx.loc, tok.hi)
        BY <2>1, <3>2, DigitKinds, EmptyRun
      <4>3. IsLexeme(tok)
        BY <1>1, <2>1, <4>1, <4>2, NumberIsLexeme
      <4>4. IsLexeme(tok)'
        BY <3>1, <4>3, LexemeStays
      <4> QED BY <3>1, <3>2, <4>4 DEF Shape
    <3>3. CASE First # "."
      <4>1. IntegerTo(ctx.loc)' /\ First' = First /\ second' = Data(ctx.loc + 1)'
        BY <2>1, <3>1, Carries DEF First
      <4>2. InPower'
        BY <1>3, <2>1, <3>1, <3>3, <4>1 DEF InPower, AtEnd
      <4> QED BY <3>1, <3>3, <4>2 DEF Shape
    <3> QED BY <3>2, <3>3
  <2> QED BY <2>2, <2>3, <2>4
<1> QED BY <1>2, <1>3

LEMMA PowerShape ==
  ASSUME Ready, Power
  PROVE  Shape'
<1>1. InPower /\ pc = "power" /\ tok.hi = ctx.loc /\ tok.lo \in Nat
  BY Spanning DEF Power, At, Ready, Shape, InPower
<1>2. ctx.loc \in Nat /\ Len(src) \in Nat /\ ctx.loc < Len(src) /\ First = Data(ctx.loc)
  BY Reading
<1>3. CASE First \notin {"e", "E"}
  <2>1. pc' = "suffix" /\ ctx' = ctx /\ tok' = tok /\ base' = base /\ src' = src
    BY <1>3 DEF Power, Goto, Quiet, local
  <2>2. NumberTo(ctx.loc)
    BY <1>1, <1>2, <1>3 DEF InPower, NumberTo
  <2>3. NumberTo(tok.hi)'
    BY <1>1, <2>1, <2>2, Carries
  <2>4. Reached'
    BY <1>1, <2>1 DEF Reached
  <2>5. InSuffix'
    BY <1>1, <1>2, <2>1, <2>3, <2>4 DEF InSuffix
  <2> QED BY <2>1, <2>5 DEF Shape
<1>4. CASE First \in {"e", "E"} /\ base # "d"
  BY <1>4, SameShape DEF Power, Panic, local, Ready
<1>5. CASE First \in {"e", "E"} /\ base = "d" /\ second \in {"-", "+"}
  <2>1. /\ pc' = "exponent" /\ base' = base /\ src' = src
        /\ ctx' = Consumed(Consumed(ctx)) /\ tok' = Taken(Taken(tok))
    BY <1>5 DEF Power, Goto, Quiet
  <2>2. ~(\E dot \in Nat : FractionTo(dot, ctx.loc) /\ second = Data(dot + 1))
    <3> SUFFICES ASSUME NEW dot \in Nat, FractionTo(dot, ctx.loc), second = Data(dot + 1)
                 PROVE  FALSE
      OBVIOUS
    <3>1. CASE dot + 1 = ctx.loc
      BY <1>2, <1>5, <3>1
    <3>2. CASE dot + 1 # ctx.loc
      <4>1. dot + 1 \in dot + 1 .. ctx.loc - 1
        BY <1>2, <3>2 DEF FractionTo
      <4>2. Data(dot + 1) \in Decimal \/ Data(dot + 1) = "_"
        BY <4>1 DEF FractionTo, DigitRun
      <4> QED BY <1>5, <4>2, DigitKinds
    <3> QED BY <3>1, <3>2
  <2>3. IntegerTo(ctx.loc) /\ second = Data(ctx.loc + 1) /\ ~AtEnd(ctx)
    BY <1>1, <2>2 DEF InPower
  <2>4. ctx.loc + 1 < Len(src)
    BY <1>2, <2>3, Reading
  <2>5. tok'.lo = tok.lo /\ tok'.hi = ctx.loc + 2
    <3>1. Taken(tok).hi = ctx.loc + 1 /\ Taken(tok).lo = tok.lo /\ Taken(tok) \in Token
      <4>1. tok.hi <= Len(src)
        BY <1>1, <1>2
      <4> QED BY <1>1, <4>1, Spanning DEF Ready
    <3>2. PICK t : t = Taken(tok)
      OBVIOUS
    <3>3. (ctx.loc + 1 + 1) % Word = ctx.loc + 2
      <4>1. Word \in Nat \ {0} /\ ctx.loc + 2 \in 0 .. Word - 1
        <5>1. src \in Source
          BY DEF Ready, TypeInv
        <5> QED BY <1>2, <2>4, <5>1, WordIsLarge
      <4>2. (ctx.loc + 2) % Word = ctx.loc + 2
        BY <4>1, ModOfNat
      <4> QED BY <1>2, <4>2
    <3>4. Taken(t).hi = (t.hi + 1) % Word /\ Taken(t).lo = t.lo
      BY <3>1, <3>2 DEF Taken, Token
    <3> QED BY <2>1, <3>1, <3>2, <3>3, <3>4
  <2>6. ScaleTo(ctx.loc + 2)
    <3>1. Mantissa(ctx.loc, ctx.loc)
      <4>1. DigitRun(tok.lo, ctx.loc, Decimal) /\ tok.lo < ctx.loc
        BY <1>5, <2>3, DigitKinds DEF IntegerTo, DigitsFrom
      <4> QED BY <1>2, <1>5, <4>1 DEF Mantissa
    <3>2. Scale(ctx.loc, ctx.loc) = ctx.loc + 2
      BY <1>5, <2>3 DEF Scale
    <3>3. DigitRun(ctx.loc + 2, ctx.loc + 2, Decimal)
      <4>1. ctx.loc + 2 \in Nat
        BY <1>2
      <4> QED BY <4>1, EmptyRun
    <3> QED BY <1>2, <3>1, <3>2, <3>3 DEF ScaleTo
  <2>7. ScaleTo(tok.hi)'
    BY <2>1, <2>5, <2>6, Carries
  <2>8. Reached'
    <3>1. ctx'.loc = IF ctx.loc + 2 = Len(src) THEN ctx.loc + 1 ELSE ctx.loc + 2
      BY <2>1, <2>3, Reading
    <3>2. AtEnd(ctx)' <=> ctx'.loc = Len(src) - 1
      BY <2>1 DEF AtEnd
    <3> QED BY <1>2, <2>1, <2>5, <3>1, <3>2 DEF Reached
  <2>9. InExponent'
    BY <1>5, <2>1, <2>7, <2>8 DEF InExponent
  <2> QED BY <2>1, <2>9 DEF Shape
<1>6. CASE First \in {"e", "E"} /\ base = "d" /\ second \notin {"-", "+"}
  <2>1. Take /\ pc' = "exponent" /\ base' = base /\ src' = src
    BY <1>6 DEF Power, Goto, Quiet
  <2>2. tok'.lo = tok.lo /\ tok'.hi = ctx.loc + 1
    <3>1. tok.hi <= Len(src)
      BY <1>1, <1>2
    <3> QED BY <1>1, <2>1, <3>1, Spanning DEF Ready, Take
  <2>3. ScaleTo(ctx.loc + 1)
    <3>1. DigitRun(ctx.loc + 1, ctx.loc + 1, Decimal)
      <4>1. ctx.loc + 1 \in Nat
        BY <1>2
      <4> QED BY <4>1, EmptyRun
    <3>2. CASE IntegerTo(ctx.loc) /\ second = Data(ctx.loc + 1)
      <4>1. Mantissa(ctx.loc, ctx.loc)
        <5>1. DigitRun(tok.lo, ctx.loc, Decimal) /\ tok.lo < ctx.loc
          BY <1>6, <3>2, DigitKinds DEF IntegerTo, DigitsFrom
        <5> QED BY <1>2, <1>6, <5>1 DEF Mantissa
      <4>2. Scale(ctx.loc, ctx.loc) = ctx.loc + 1
        BY <1>6, <3>2 DEF Scale
      <4> QED BY <1>2, <3>1, <4>1, <4>2 DEF ScaleTo
    <3>3. CASE \E dot \in Nat : FractionTo(dot, ctx.loc)
      <4>1. PICK dot \in Nat : FractionTo(dot, ctx.loc)
        BY <3>3
      <4>2. dot # ctx.loc /\ dot <= ctx.loc
        BY <1>2, <4>1 DEF FractionTo
      <4>3. Mantissa(dot, ctx.loc)
        BY <1>2, <1>6, <4>1, <4>2 DEF Mantissa, FractionTo
      <4>4. Scale(dot, ctx.loc) = ctx.loc + 1
        BY <4>2 DEF Scale
      <4> QED BY <1>2, <3>1, <4>3, <4>4 DEF ScaleTo
    <3> QED BY <1>1, <3>2, <3>3 DEF InPower
  <2>4. ScaleTo(tok.hi)'
    BY <2>1, <2>2, <2>3, Carries
  <2>5. Reached'
    <3>1. CASE AtEnd(ctx)
      <4>1. ctx' = ctx /\ ctx.loc + 1 = Len(src)
        BY <2>1, <3>1, Reading DEF Take
      <4> QED BY <2>1, <2>2, <3>1, <4>1 DEF Reached, AtEnd
    <3>2. CASE ~AtEnd(ctx)
      BY <2>1, <2>2, <3>2, Reading DEF Reached, Take
    <3> QED BY <3>1, <3>2
  <2>6. InExponent'
    BY <1>6, <2>1, <2>4, <2>5 DEF InExponent
  <2> QED BY <2>1, <2>6 DEF Shape
<1> QED BY <1>3, <1>4, <1>5, <1>6

LEMMA SuffixShape ==
  ASSUME Ready, Suffix
  PROVE  Shape'
<1>1. /\ InSuffix /\ pc = "suffix" /\ tok.lo \in Nat /\ tok.hi \in Nat
      /\ base \in {"b", "o", "x", "d"} /\ src' = src /\ base' = base
  BY Spanning DEF Suffix, At, Ready, Shape, TypeInv, TypeOK, Quiet
<1>2. CASE First \in SuffixChar
  <2>1. Take /\ pc' = "suffix"
    BY <1>2 DEF Suffix, Goto, Among
  <2>2. CASE AtEnd(ctx)
    <3>1. ctx' = ctx
      BY <2>1, <2>2, Reading DEF Take
    <3>2. Stuck(SuffixChar)'
      BY <1>1, <1>2, <2>2, <3>1 DEF Stuck, AtEnd, First, Data
    <3> QED BY <2>1, <3>2 DEF Shape, InSuffix
  <2>3. CASE ~AtEnd(ctx)
    <3>1. tok.hi = ctx.loc
      BY <1>1, <2>3 DEF InSuffix, Stuck, Reached
    <3>2. PICK end \in Nat : /\ end <= tok.hi /\ NumberTo(end)
                             /\ \A p \in end .. tok.hi - 1 : Data(p) \in SuffixChar
      BY <1>1, <2>3 DEF InSuffix, Stuck
    <3>3. ctx.loc \in Nat /\ First = Data(ctx.loc) /\ ctx'.loc = ctx.loc + 1
          /\ tok.hi <= Len(src)
      BY <2>1, <2>3, <3>1, Reading DEF Take
    <3>4. /\ tok'.lo = tok.lo /\ tok'.kind = tok.kind /\ tok'.hi = tok.hi + 1
      BY <2>1, <3>3, Spanning DEF Ready, Take
    <3>5. \A p \in end .. tok'.hi - 1 : Data(p)' \in SuffixChar
      <4>1. \A p \in end .. tok.hi : p = tok.hi \/ p \in end .. tok.hi - 1
        BY <1>1
      <4>2. \A p \in end .. tok.hi : Data(p) \in SuffixChar
        BY <1>2, <3>1, <3>2, <3>3, <4>1
      <4> QED BY <1>1, <3>4, <4>2, Carries
    <3>6. NumberTo(end)' /\ end <= tok'.hi
      BY <1>1, <3>2, <3>4, Carries
    <3>7. Reached'
      BY <3>1, <3>3, <3>4 DEF Reached
    <3> QED BY <2>1, <3>5, <3>6, <3>7 DEF Shape, InSuffix
  <2> QED BY <2>2, <2>3
<1>3. CASE First \notin SuffixChar
  <2>1. pc' = "exit" /\ tok' = tok /\ ctx' = ctx
    BY <1>3, Reading DEF Suffix, Goto, Among
  <2>2. PICK end \in Nat : /\ end <= tok.hi /\ NumberTo(end)
                           /\ \A p \in end .. tok.hi - 1 : Data(p) \in SuffixChar
    BY <1>1, <1>3 DEF InSuffix, Stuck
  <2>3. Data(tok.hi) \notin SuffixChar
    <3>1. tok.hi = ctx.loc \/ tok.hi = Len(src)
      BY <1>1, <1>3 DEF InSuffix, Stuck, Reached
    <3>2. Data(Len(src)) = "NUL"
      BY Reading DEF Data, CharAt
    <3> QED BY <1>3, <3>1, <3>2, Reading, DigitKinds
  <2>4. IsLexeme(tok)
    BY <1>1, <2>2, <2>3, NumberIsLexeme DEF SuffixRun
  <2> QED BY <1>1, <2>1, <2>4, LexemeStays DEF Shape
<1> QED BY <1>2, <1>3

(* The beginning of a token: the character that was consumed was not the    *)
(* last one.                                                                *)
LEMMA BeginShape ==
  ASSUME Ready, Begins
  PROVE  Shape'
<1>1. /\ ctx.loc \in Nat /\ Len(src) \in Nat /\ ctx.loc < Len(src)
      /\ src \in Seq(Char) /\ First = Data(ctx.loc) /\ First = src[ctx.loc + 1]
      /\ First # "NUL"
  BY Reading
<1>2. CASE SkipWhitespace
  BY <1>2 DEF SkipWhitespace, Goto, Shape
<1>3. CASE StartEof
  BY <1>3 DEF StartEof, Goto, Began, Shape, IsLexeme
<1>4. CASE StartInvalid
  BY <1>4, SameShape DEF StartInvalid, Fault, Panic, local, Ready
<1>5. ASSUME NEW kind, NEW node, NEW begun, Began(kind, ctx.loc + 1, node),
             Got(ctx) # "-1", ctx' = Consumed(ctx)
      PROVE  /\ tok'.kind = kind /\ tok'.lo = ctx.loc /\ tok'.hi = ctx.loc + 1
             /\ tok'.node = node /\ ctx'.loc = ctx.loc + 1 /\ Got(ctx) = First
             /\ ctx.loc + 1 < Len(src)
  BY <1>1, <1>5, Reading DEF Began
<1>6. CASE StartString
  <2>1. /\ Began("STRING", ctx.loc + 1, <<>>) /\ Got(ctx) = "DQ" /\ ctx' = Consumed(ctx)
        /\ pc' = "string" /\ src' = src
    BY <1>6 DEF StartString, Goto, Quiet
  <2>2. /\ tok'.kind = "STRING" /\ tok'.lo = ctx.loc /\ tok'.hi = ctx.loc + 1
        /\ ctx'.loc = ctx.loc + 1 /\ Got(ctx) = First
    BY <1>5, <2>1
  <2>3. (ctx.loc + 1) .. (ctx.loc + 1) - 1 = {}
    BY <1>1
  <2>4. \A n : Data(n)' = Data(n)
    BY <2>1, Carries
  <2>5. Data(ctx.loc) = "DQ"
    BY <1>1, <2>1, <2>2
  <2>6. Data(tok.lo)' = "DQ" /\ tok'.lo < ctx'.loc
    BY <1>1, <2>2, <2>4, <2>5
  <2>7. (tok'.lo + 1) .. (ctx'.loc - 1) = {}
    BY <2>2, <2>3
  <2>8. InString'
    BY <2>2, <2>6, <2>7 DEF InString
  <2> QED BY <2>1, <2>8 DEF Shape
<1>7. CASE StartOperator
  <2>1. /\ Began("OPERATOR", ctx.loc + 1, <<Got(ctx)>>) /\ Got(ctx) \in Operator
        /\ ctx' = Consumed(ctx) /\ pc' = "operator" /\ src' = src
    BY <1>7 DEF StartOperator, Goto, Quiet
  <2>2. Got(ctx) # "-1"
    BY <2>1 DEF Operator
  <2>3. /\ tok'.kind = "OPERATOR" /\ tok'.lo = ctx.loc /\ tok'.hi = ctx.loc + 1
        /\ ctx'.loc = ctx.loc + 1 /\ Got(ctx) = First /\ tok'.node = <<First>>
        /\ ctx.loc + 1 < Len(src)
    <3>1. /\ tok'.kind = "OPERATOR" /\ tok'.lo = ctx.loc /\ tok'.hi = ctx.loc + 1
          /\ ctx'.loc = ctx.loc + 1 /\ Got(ctx) = First /\ tok'.node = <<Got(ctx)>>
          /\ ctx.loc + 1 < Len(src)
      BY <1>5, <2>1, <2>2
    <3> QED BY <3>1
  <2>4. SubSeq(src, ctx.loc + 1, ctx.loc + 1) = <<First>>
    <3>1. SubSeq(src, ctx.loc + 1, ctx.loc + 1)
            = [i \in 1 .. 1 |-> src[ctx.loc + 1]]
      <4>1. 1 .. 1 + (ctx.loc + 1) - (ctx.loc + 1) = 1 .. 1
        BY <1>1
      <4>2. \A i \in 1 .. 1 : i + (ctx.loc + 1) - 1 = ctx.loc + 1
        BY <1>1
      <4> QED BY <1>1, <4>1, <4>2
    <3>2. <<First>> = [i \in 1 .. 1 |-> First]
      OBVIOUS
    <3> QED BY <1>1, <3>1, <3>2
  <2>5. Len(tok'.node) = 1 /\ tok'.node = Text(tok)'
    BY <2>1, <2>3, <2>4 DEF Text
  <2>6. InOperator'
    BY <1>1, <2>1, <2>3, <2>5 DEF InOperator
  <2> QED BY <2>1, <2>6 DEF Shape
<1>8. CASE StartIdent
  <2>1. /\ Began("IDENT", ctx.loc + 1, <<>>) /\ Got(ctx) \in IdentStart
        /\ ctx' = Consumed(ctx) /\ pc' = "ident" /\ src' = src
    BY <1>8 DEF StartIdent, Goto, Quiet
  <2>2. Got(ctx) # "-1"
    BY <2>1 DEF IdentStart, Letter
  <2>3. /\ tok'.kind = "IDENT" /\ tok'.lo = ctx.loc /\ tok'.hi = ctx.loc + 1
        /\ ctx'.loc = ctx.loc + 1 /\ Got(ctx) = First
    BY <1>5, <2>1, <2>2
  <2>4. Data(ctx.loc) \in IdentStart /\ Data(ctx.loc) \in IdentChar
    BY <1>1, <2>1, <2>3 DEF IdentChar
  <2>5. \A p \in ctx.loc .. (ctx.loc + 1) - 1 : p = ctx.loc
    BY <1>1
  <2>6. \A n : Data(n)' = Data(n)
    BY <2>1, Carries
  <2>7. Data(tok.lo)' \in IdentStart
    BY <2>3, <2>4, <2>6
  <2>8. \A p \in tok'.lo .. ctx'.loc - 1 : Data(p)' \in IdentChar
    BY <2>3, <2>4, <2>5, <2>6
  <2>9. InIdent'
    BY <1>1, <2>3, <2>7, <2>8 DEF InIdent
  <2> QED BY <2>1, <2>9 DEF Shape
<1>9. CASE StartNumber
  <2>1. Got(ctx) \in Decimal /\ Got(ctx) # "-1" /\ pc' = "integer" /\ src' = src
    BY <1>9 DEF StartNumber, Goto, Quiet, Decimal
  <2>2. Got(ctx) = First /\ ~AtEnd(ctx) /\ ctx.loc + 1 < Len(src)
    BY <1>1, <2>1, Reading
  <2>3. CASE Got(ctx) = "0" /\ Data(ctx.loc + 1) \in {"b", "o", "x"}
    <3>1. /\ ctx' = Consumed(Consumed(ctx)) /\ Began("INTEGER", ctx.loc + 2, <<>>)
          /\ base' = Data(ctx.loc + 1)
      BY <1>9, <2>3 DEF StartNumber
    <3>2. tok'.kind = "INTEGER" /\ tok'.lo = ctx.loc /\ tok'.hi = ctx.loc + 2
      BY <3>1 DEF Began
    <3>3. ctx'.loc = IF ctx.loc + 2 = Len(src) THEN ctx.loc + 1 ELSE ctx.loc + 2
      BY <2>2, <3>1, Reading
    <3>4. AtEnd(ctx)' <=> ctx'.loc = Len(src) - 1
      BY <2>1 DEF AtEnd
    <3>5. tok'.hi = ctx'.loc \/ AtEnd(ctx)'
      BY <1>1, <3>2, <3>3, <3>4
    <3>6. IntegerTo(ctx.loc)'
      <4>1. DigitsFrom' = ctx.loc + 2
        BY <2>3, <3>1, <3>2 DEF DigitsFrom
      <4>2. (ctx.loc + 2) .. ctx'.loc - 1 = {}
        BY <1>1, <3>3
      <4>3. \A d : DigitRun(DigitsFrom, ctx.loc, d)'
        BY <4>1, <4>2 DEF DigitRun
      <4>4. Data(tok.lo)' = "0" /\ Data(tok.lo + 1)' = base'
        BY <1>1, <2>1, <2>2, <2>3, <3>1, <3>2, Carries
      <4> QED BY <1>1, <3>2, <3>3, <4>3, <4>4 DEF IntegerTo
    <3> QED BY <2>1, <3>5, <3>6 DEF Shape, InInteger
  <2>4. CASE ~(Got(ctx) = "0" /\ Data(ctx.loc + 1) \in {"b", "o", "x"})
    <3>1. /\ ctx' = Consumed(ctx) /\ Began("INTEGER", ctx.loc + 1, <<>>)
          /\ base' = "d"
      BY <1>9, <2>4 DEF StartNumber
    <3>2. /\ tok'.kind = "INTEGER" /\ tok'.lo = ctx.loc /\ tok'.hi = ctx.loc + 1
          /\ ctx'.loc = ctx.loc + 1
      BY <1>5, <2>1, <3>1
    <3>3. IntegerTo(ctx.loc)'
      <4>1. DigitsFrom' = ctx.loc /\ Digits(base') = Decimal
        BY <3>1, <3>2, DigitKinds DEF DigitsFrom
      <4>2. \A p \in ctx.loc .. (ctx.loc + 1) - 1 : p = ctx.loc
        BY <1>1
      <4>3. Data(ctx.loc) \in Decimal
        BY <1>1, <2>1, <2>2
      <4>4. DigitRun(DigitsFrom, ctx.loc, Digits(base))'
        BY <2>1, <3>2, <4>1, <4>2, <4>3 DEF DigitRun, Data
      <4> QED BY <1>1, <3>1, <3>2, <4>4 DEF IntegerTo
    <3> QED BY <2>1, <3>2, <3>3 DEF Shape, InInteger
  <2> QED BY <2>3, <2>4
<1> QED BY <1>2, <1>3, <1>4, <1>6, <1>7, <1>8, <1>9 DEF Begins

LEMMA LoopShape ==
  ASSUME Ready, Loops
  PROVE  Shape'
<1>1. CASE SkipComment
  BY <1>1 DEF SkipComment, Goto, Shape
<1> QED BY <1>1, StringShape, OperatorShape, IdentShape, IntegerShape, FractionShape,
           ExponentShape, PointShape, PowerShape, SuffixShape DEF Loops

(* Of an empty text nothing is made.                                        *)
LEMMA EmptyText ==
  ASSUME TypeInv, src = <<>>, pc \in {"idle", "whitespace"}, out = <<>>, [Next]_vars
  PROVE  pc' \in {"idle", "whitespace"} /\ out' = <<>>
<1>1. CASE UNCHANGED vars \/ Panic \/ Fault
  BY <1>1 DEF vars, local, Panic, Fault
<1>2. CASE Client
  BY <1>2 DEF Client, LexerNext, LexerPeek, LexerScan, Enter, Goto
<1>3. ~Returns
  BY DEF Returns, NextReturns, PeekReturns, ScanFinds, ScanFails, ScanGoesOn, Returning
<1>4. CASE Begins
  <2>1. SkipWhitespace
    BY <1>4 DEF Begins, StartEof, StartInvalid, StartString, StartOperator, StartIdent,
                StartNumber, At
  <2>2. \A i \in Nat : Data(i) = "NUL"
    BY DEF Data, CharAt
  <2>3. First = "NUL" /\ ctx.loc \in Nat
    BY <2>2 DEF First, TypeInv, TypeOK, Context
  <2>4. ~AtEnd(ctx)
    BY <2>3 DEF AtEnd
  <2>5. Got(ctx) = "NUL"
    BY <2>3, <2>4 DEF Got, First
  <2> QED BY <2>1, <2>3, <2>5 DEF SkipWhitespace, Among, Goto, Quiet
<1>5. ~Loops
  BY DEF Loops, StringLoop, OperatorLoop, SkipComment, IdentLoop, Integer, Fraction,
         Exponent, DigitLoop, Point, Power, Suffix, At
<1>6. CASE Overread
  BY <1>1, <1>6 DEF Overread
<1> QED BY <1>1, <1>2, <1>3, <1>4, <1>5, <1>6 DEF Next, Internal

LEMMA WithinNext ==
  ASSUME TypeInv, Within, [Next]_vars
  PROVE  Within'
<1>1. src' = src
  BY ContextMoves
<1>2. CASE src = <<>>
  BY <1>1, <1>2, EmptyText DEF Within
<1>3. CASE src # <<>>
  <2>1. /\ src \in Seq(Char) /\ Len(src) \in Nat /\ ctx \in Context
        /\ call.start \in Context /\ ctx.loc < Len(src) /\ call.start.loc < Len(src)
        /\ 0 < Len(src)
    BY <1>3 DEF TypeInv, TypeOK, Within
  <2>2. ASSUME NEW x \in Context, x.loc < Len(src)
        PROVE  Consumed(x) \in Context /\ Consumed(x).loc < Len(src)
    <3>1. Consumed(x) \in Context
      BY <2>1, ConsumedType
    <3>2. x.loc \in Nat
      BY DEF Context
    <3>3. Consumed(x).loc = IF x.loc = Len(src) - 1 THEN x.loc ELSE x.loc + 1
      BY DEF Consumed, AtEnd
    <3> QED BY <2>1, <2>2, <3>1, <3>2, <3>3
  <2>3. ctx'.loc < Len(src) /\ call'.start.loc < Len(src)
    BY <2>1, <2>2, ContextMoves DEF Moved, Origin
  <2> QED BY <1>1, <1>3, <2>3 DEF Within
<1> QED BY <1>2, <1>3

LEMMA Appended ==
  ASSUME src' = src, out' = Append(out, tok), out \in Seq(Token), TokensAreLexemes,
         tok \in Token, IsLexeme(tok)
  PROVE  TokensAreLexemes'
<1>1. ASSUME NEW n \in 1 .. Len(out')
      PROVE  IsLexeme(out[n])'
  <2>1. PICK r : r = out'[n]
    OBVIOUS
  <2>2. IsLexeme(r)
    <3>1. CASE n \in 1 .. Len(out)
      BY <2>1, <3>1 DEF TokensAreLexemes
    <3>2. CASE n \notin 1 .. Len(out)
      BY <1>1, <2>1, <3>2
    <3> QED BY <3>1, <3>2
  <2>3. IsLexeme(r)'
    BY <2>2, SameLexeme
  <2> QED BY <2>1, <2>3
<1> QED BY <1>1 DEF TokensAreLexemes

LEMMA LexIndNext == TypeInv /\ LexInd /\ [Next]_vars => LexInd'
<1> SUFFICES ASSUME TypeInv, LexInd, [Next]_vars PROVE LexInd'
  OBVIOUS
<1>1. Within' /\ src' = src
  BY WithinNext, ContextMoves DEF LexInd
<1>2. out' = out => TokensAreLexemes'
  BY <1>1, SameText DEF LexInd
<1>3. CASE src = <<>>
  <2>1. pc' \in {"idle", "whitespace"} /\ out' = out
    BY <1>3, EmptyText DEF LexInd, Within
  <2> QED BY <1>1, <1>2, <2>1 DEF LexInd, Shape
<1>4. CASE src # <<>>
  <2>0. Ready
    BY <1>4 DEF LexInd, Within, Ready
  <2>1. CASE UNCHANGED vars \/ Panic \/ Fault
    <3>1. UNCHANGED <<src, ctx, pc, tok, base, second, out>>
      BY <2>1 DEF vars, local, Panic, Fault
    <3> QED BY <1>1, <1>2, <3>1, SameShape DEF LexInd
  <2>2. CASE Client \/ ScanGoesOn
    <3>1. pc' = "whitespace" /\ out' = out
      BY <2>2 DEF Client, LexerNext, LexerPeek, LexerScan, Enter, Goto, ScanGoesOn
    <3> QED BY <1>1, <1>2, <3>1 DEF LexInd, Shape
  <2>3. CASE PeekReturns \/ ScanFinds \/ ScanFails
    <3>1. pc' = "idle" /\ out' = out
      BY <2>3 DEF PeekReturns, ScanFinds, ScanFails, ScanReturns, Answer, Goto
    <3> QED BY <1>1, <1>2, <3>1 DEF LexInd, Shape
  <2>4. CASE NextReturns
    <3>1. pc' = "idle" /\ pc = "exit" /\ out' = Append(out, tok)
      BY <2>4 DEF NextReturns, Returning, Answer, Goto
    <3>2. IsLexeme(tok) /\ tok \in Token /\ out \in Seq(Token)
      BY <3>1 DEF LexInd, Shape, TypeInv, TypeOK
    <3>3. TokensAreLexemes'
      BY <1>1, <3>1, <3>2, Appended DEF LexInd
    <3> QED BY <1>1, <3>1, <3>3 DEF LexInd, Shape
  <2>5. CASE Begins
    <3>1. Shape'
      BY <2>0, <2>5, BeginShape
    <3>2. out' = out
      BY <2>5 DEF Begins, SkipWhitespace, StartEof, StartInvalid, StartString,
                  StartOperator, StartIdent, StartNumber, Quiet, Panic, Fault
    <3> QED BY <1>1, <1>2, <3>1, <3>2 DEF LexInd
  <2>6. CASE Loops
    <3>1. Shape'
      BY <2>0, <2>6, LoopShape
    <3>2. out' = out
      BY <2>6 DEF Loops, StringLoop, OperatorLoop, SkipComment, IdentLoop, Integer,
                  Fraction, Exponent, DigitLoop, Point, Power, Suffix, Quiet, Panic, Fault
    <3> QED BY <1>1, <1>2, <3>1, <3>2 DEF LexInd
  <2>7. CASE Overread
    BY <2>1, <2>7 DEF Overread
  <2> QED BY <2>1, <2>2, <2>3, <2>4, <2>5, <2>6, <2>7 DEF Next, Internal, Returns
<1> QED BY <1>3, <1>4

LEMMA LexIndInit == Init => LexInd
<1> SUFFICES ASSUME Init PROVE LexInd
  OBVIOUS
<1>1. src \in Seq(Char) /\ Len(src) \in Nat
  BY WordIsLarge DEF Init
<1>2. src # <<>> => 0 < Len(src)
  BY <1>1
<1> QED BY <1>1, <1>2 DEF Init, LexInd, Within, Shape, TokensAreLexemes, Origin, Idle

(* Every token lexer_next returns is a lexeme of its kind, as long as it    *)
(* can be, on every text, cut off anywhere, and whatever the client peeks   *)
(* or scans in between (lexer.c:144-307).                                   *)
THEOREM LexerLexemes == Spec => []TokensAreLexemes
<1>1. LexInd => TokensAreLexemes
  BY DEF LexInd
<1> QED
  BY <1>1, TypeInvInit, TypeInvNext, LexIndInit, LexIndNext, PTL DEF Spec

(***************************************************************************)
(* The tokens of a closed text tile it                                     *)
(***************************************************************************)

(* On a closed text a span is never counted past the context: the last      *)
(* character is a newline, and no token but a string takes one.             *)
Building == {"operator", "ident", "integer", "fraction", "exponent", "point", "power",
             "suffix", "exit"}
Exact ==
    /\ pc \in Building => tok.hi = ctx.loc
    /\ pc = "string"   => tok.hi = ctx.loc \/ AtEnd(ctx)

InComment ==
    /\ Data(tok.lo) = "/" /\ Data(tok.lo + 1) = "/" /\ tok.lo + 2 <= ctx.loc
    /\ \A q \in tok.lo .. ctx.loc - 1 : Data(q) # "NL"

(* Nothing but blanks and comments lies between the last token and j.       *)
Between(j) == Ended(Len(out)) <= j /\ Gap(Ended(Len(out)), j)

Tiling ==
    /\ Exact
    /\ call.op = "idle" <=> pc = "idle"
    /\ pc = "idle" => ctx.loc = Ended(Len(out))
    /\ pc # "idle" => call.start.loc = Ended(Len(out))
    /\ call.op = "next" /\ pc \in {"whitespace", "start"} => Between(ctx.loc)
    /\ call.op = "next" /\ pc \in Building \cup {"string", "comment"} => Between(tok.lo)
    /\ pc = "comment" => InComment
    /\ pc = "exit" /\ tok.kind = "EOF" => tok.lo = Len(src) - 1

TileInd == LexInd /\ TokensTile /\ (Closed(src) => Tiling)

LEMMA NoNewline ==
  /\ "NL" \notin IdentChar /\ "NL" \notin Decimal /\ "NL" \notin SuffixChar
  /\ \A b : "NL" \notin Digits(b)
  /\ \A b \in {"b", "o", "x"} : b # "NL"
  /\ \A s \in Compound : s[Len(s)] # "NL"
<1>1. "NL" \notin IdentChar /\ "NL" \notin Decimal /\ "NL" \notin SuffixChar
  BY DEF IdentChar, IdentStart, Letter, Decimal, SuffixChar
<1>2. \A b : "NL" \notin Digits(b)
  BY DEF Digits, Decimal
<1>3. ASSUME NEW s \in Compound
      PROVE  s[Len(s)] # "NL"
  <2>1. CASE s \in {<<c, "=">> : c \in {"!", "^", "%", "~", "-", "+", "*", "/", "|", "&",
                                        "=", ">", "<"}}
    BY <2>1
  <2>2. CASE s \in {<<c, c>> : c \in {".", ":", "/", "|", "&", ">", "<"}}
    BY <2>2
  <2>3. CASE s \in {<<"-", ">">>, <<".", ".", "=">>, <<">", ">", "=">>, <<"<", "<", "=">>}
    BY <2>3
  <2> QED BY <1>3, <2>1, <2>2, <2>3 DEF Compound
<1> QED BY <1>1, <1>2, <1>3

(* The last character of a closed text.                                     *)
LEMMA ClosedText ==
  ASSUME Ready, Closed(src)
  PROVE  /\ First # "-1" /\ (AtEnd(ctx) => First = "NL")
         /\ Got(ctx) = "-1" <=> AtEnd(ctx)
         /\ First # "NL" => /\ Consumed(ctx).loc = ctx.loc + 1
                            /\ Got(ctx) = First
<1>1. src[Len(src)] = "NL" /\ \A i \in 1 .. Len(src) : src[i] # "-1"
  BY DEF Closed
<1>2. ctx.loc + 1 \in 1 .. Len(src) /\ First = src[ctx.loc + 1]
  BY Reading
<1>3. First # "-1" /\ (AtEnd(ctx) => First = "NL")
  BY <1>1, <1>2, Reading
<1> QED BY <1>3, Reading

LEMMA TakeExact ==
  ASSUME Ready, Closed(src), Take, First # "NL", tok.hi = ctx.loc
  PROVE  /\ tok'.hi = ctx'.loc /\ ctx'.loc = ctx.loc + 1
         /\ tok'.lo = tok.lo /\ tok'.kind = tok.kind
<1>1. ctx'.loc = ctx.loc + 1 /\ ctx.loc \in Nat /\ ctx.loc < Len(src) /\ Len(src) \in Nat
  BY ClosedText, Reading DEF Take
<1>2. tok'.hi = tok.hi + 1 /\ tok'.lo = tok.lo /\ tok'.kind = tok.kind
  BY <1>1, Spanning DEF Ready, Take
<1> QED BY <1>1, <1>2

(* What a turn of a loop does to the span of the token in progress.         *)
Goes ==
    /\ Exact' /\ tok'.lo = tok.lo
    /\ pc' \in Building \cup {"string", "comment"}
    /\ pc' = "exit" => tok'.kind # "EOF"
    /\ pc' = "comment" => InComment'

LEMMA StringGoes ==
  ASSUME Ready, Closed(src), Exact, StringLoop
  PROVE  Goes
<1>1. InString /\ pc = "string" /\ (tok.hi = ctx.loc \/ AtEnd(ctx)) /\ src' = src
  BY DEF StringLoop, At, Ready, Shape, Exact, Quiet
<1>2. First # "-1"
  BY ClosedText
<1>3. CASE First = "DQ"
  <2>1. Take /\ pc' = "exit"
    BY <1>3 DEF StringLoop, Goto
  <2>2. tok.hi = ctx.loc
    BY <1>1, <1>3, ClosedText
  <2>3. tok'.hi = ctx'.loc /\ tok'.lo = tok.lo /\ tok'.kind = tok.kind
    BY <1>3, <2>1, <2>2, TakeExact
  <2>4. tok'.kind # "EOF"
    BY <1>1, <2>3 DEF InString
  <2> QED BY <2>1, <2>3, <2>4 DEF Goes, Exact, Building
<1>4. CASE First # "DQ"
  <2>1. Take /\ pc' = "string"
    BY <1>2, <1>4 DEF StringLoop, Goto
  <2>2. tok'.lo = tok.lo
    BY <2>1, Spanning DEF Ready, Take
  <2>3. CASE AtEnd(ctx)
    <3>1. ctx' = ctx
      BY <2>1, <2>3, Reading DEF Take
    <3>2. AtEnd(ctx)'
      BY <1>1, <2>3, <3>1 DEF AtEnd
    <3> QED BY <2>1, <2>2, <3>2 DEF Goes, Exact, Building
  <2>4. CASE ~AtEnd(ctx)
    <3>1. ctx'.loc = ctx.loc + 1 /\ tok.hi = ctx.loc /\ ctx.loc < Len(src)
      BY <1>1, <2>1, <2>4, Reading DEF Take
    <3>2. tok'.hi = ctx'.loc
      BY <2>1, <3>1, Reading, Spanning DEF Ready, Take
    <3> QED BY <2>1, <2>2, <3>2 DEF Goes, Exact, Building
  <2> QED BY <2>3, <2>4
<1> QED BY <1>3, <1>4

LEMMA OperatorGoes ==
  ASSUME Ready, Closed(src), Exact, OperatorLoop
  PROVE  Goes \/ Fault
<1>1. InOperator /\ pc = "operator" /\ tok.hi = ctx.loc
  BY DEF OperatorLoop, At, Ready, Shape, Exact, Building
<1> DEFINE node == Append(tok.node, First)
<1>2. CASE First \in OffTable
  BY <1>2 DEF OperatorLoop
<1>3. CASE First \notin OffTable /\ node \in Compound
  <2>1. /\ ctx' = Consumed(ctx) /\ tok' = [Taken(tok) EXCEPT !.node = node]
        /\ pc' = "operator"
    BY <1>3 DEF OperatorLoop, Goto
  <2>2. First # "NL"
    <3>1. tok.node \in Seq(Char) /\ First \in Char
      BY Reading, Spanning DEF Ready
    <3>2. node[Len(node)] = First
      BY <3>1, AppendProperties
    <3> QED BY <1>3, <3>2, NoNewline
  <2>3. ctx'.loc = ctx.loc + 1 /\ ctx.loc \in Nat /\ ctx.loc < Len(src)
        /\ Len(src) \in Nat
    BY <2>1, <2>2, ClosedText, Reading
  <2>4. tok'.hi = tok.hi + 1 /\ tok'.lo = tok.lo
    <3>1. Taken(tok).hi = tok.hi + 1 /\ Taken(tok).lo = tok.lo /\ Taken(tok) \in Token
      BY <1>1, <2>3, Spanning DEF Ready
    <3> QED BY <2>1, <3>1 DEF Token
  <2> QED BY <1>1, <2>1, <2>3, <2>4 DEF Goes, Exact, Building
<1>4. CASE First \notin OffTable /\ node \notin Compound
  <2>1. /\ pc' = IF tok.node = <<"/", "/">> THEN "comment" ELSE "exit"
        /\ ctx' = ctx /\ tok' = tok /\ src' = src
    BY <1>4 DEF OperatorLoop, Goto, Quiet
  <2>2. tok'.kind # "EOF"
    BY <1>1, <2>1 DEF InOperator
  <2>3. ASSUME tok.node = <<"/", "/">>
        PROVE  InComment
    <3>1. /\ tok.lo \in Nat /\ tok.hi \in Nat /\ tok.lo < tok.hi /\ tok.hi <= Len(src)
          /\ src \in Seq(Char) /\ tok.node = SubSeq(src, tok.lo + 1, tok.hi)
          /\ Len(src) \in Nat
      BY <1>1, Reading, Spanning DEF Ready, InOperator, Text
    <3>2. /\ Len(tok.node) = tok.hi - (tok.lo + 1) + 1
          /\ \A i \in 1 .. tok.hi - (tok.lo + 1) + 1 :
                tok.node[i] = src[(tok.lo + 1) + i - 1]
      <4>1. \A i \in tok.lo + 1 .. tok.hi : src[i] \in Char
        BY <3>1
      <4> QED BY SMTT(30), <3>1, <4>1, SubSeqProperties
    <3>3. tok.hi = tok.lo + 2
      BY <2>3, <3>1, <3>2
    <3>4. src[tok.lo + 1] = "/" /\ src[tok.lo + 2] = "/"
      <4>1. tok.hi - (tok.lo + 1) + 1 = 2 /\ (tok.lo + 1) + 1 - 1 = tok.lo + 1
            /\ (tok.lo + 1) + 2 - 1 = tok.lo + 2
        BY <3>1, <3>3
      <4>2. tok.node[1] = "/" /\ tok.node[2] = "/"
        BY <2>3
      <4>3. \A i \in 1 .. 2 : tok.node[i] = src[(tok.lo + 1) + i - 1]
        BY <3>2, <4>1
      <4> QED BY <4>1, <4>2, <4>3
    <3>5. Data(tok.lo) = "/" /\ Data(tok.lo + 1) = "/"
      BY <3>1, <3>3, <3>4 DEF Data, CharAt
    <3>6. \A q \in tok.lo .. ctx.loc - 1 : q = tok.lo \/ q = tok.lo + 1
      <4>1. ctx.loc - 1 = tok.lo + 1
        BY ONLY <1>1, <3>1, <3>3
      <4>2. PICK i \in Nat : i = tok.lo
        BY <3>1
      <4>3. \A q \in i .. i + 1 : q = i \/ q = i + 1
        OBVIOUS
      <4> QED BY <4>1, <4>2, <4>3
    <3> QED BY <1>1, <3>1, <3>3, <3>5, <3>6 DEF InComment
  <2>4. InComment' = InComment
    BY <2>1 DEF InComment, Data
  <2> QED BY <1>1, <2>1, <2>2, <2>3, <2>4 DEF Goes, Exact, Building
<1> QED BY <1>2, <1>3, <1>4

LEMMA IdentGoes ==
  ASSUME Ready, Closed(src), Exact, IdentLoop
  PROVE  Goes
<1>1. InIdent /\ pc = "ident" /\ tok.hi = ctx.loc /\ tok \in Token
  BY Spanning DEF IdentLoop, At, Ready, Shape, Exact, Building
<1>2. CASE First \in IdentChar
  <2>1. Take /\ pc' = "ident" /\ First # "NL"
    BY <1>2, NoNewline DEF IdentLoop, Goto
  <2> QED BY <1>1, <2>1, TakeExact DEF Goes, Exact, Building
<1>3. CASE First \notin IdentChar
  <2>1. /\ pc' = "exit" /\ ctx' = ctx
        /\ tok' = IF Text(tok) \in Keyword
                  THEN [tok EXCEPT !.kind = "KEYWORD", !.node = Text(tok)] ELSE tok
    BY <1>3 DEF IdentLoop, Goto
  <2>2. tok'.lo = tok.lo /\ tok'.hi = tok.hi /\ tok'.kind \in {"IDENT", "KEYWORD"}
    BY <1>1, <2>1 DEF InIdent, Token
  <2> QED BY <1>1, <2>1, <2>2 DEF Goes, Exact, Building
<1> QED BY <1>2, <1>3

LEMMA DigitsGo ==
  ASSUME Ready, Closed(src), Exact,
         NEW loop \in {"integer", "fraction", "exponent"},
         NEW after \in {"point", "power", "suffix"}, DigitLoop(loop, after)
  PROVE  Goes \/ Panic
<1>1. pc = loop /\ tok.hi = ctx.loc /\ tok \in Token
  BY Spanning DEF DigitLoop, At, Ready, Exact, Building
<1>2. CASE Panic
  BY <1>2
<1>3. CASE /\ (First = "_" /\ BetweenDigits) \/ Among(First, Digits(base))
           /\ Take /\ Goto(loop)
  <2>1. First # "NL"
    BY <1>3, NoNewline DEF Among
  <2>2. Take /\ pc' = loop
    BY <1>3 DEF Goto
  <2> QED BY <1>1, <2>1, <2>2, TakeExact DEF Goes, Exact, Building
<1>4. CASE /\ tok' = [tok EXCEPT !.kind = IF loop = "integer" THEN @ ELSE "FLOAT"]
           /\ Goto(after) /\ ctx' = ctx
  <2>1. tok'.lo = tok.lo /\ tok'.hi = tok.hi /\ pc' = after
    BY <1>1, <1>4 DEF Token, Goto
  <2> QED BY <1>1, <1>4, <2>1 DEF Goes, Exact, Building
<1> QED BY <1>2, <1>3, <1>4 DEF DigitLoop

LEMMA PointGoes ==
  ASSUME Ready, Closed(src), Exact, Point
  PROVE  Goes \/ Panic
<1>1. InInteger /\ pc = "point" /\ tok.hi = ctx.loc
  BY DEF Point, At, Ready, Shape, Exact, Building
<1>2. CASE Panic
  BY <1>2
<1>3. CASE First = "." /\ Take /\ Goto("fraction")
  BY <1>1, <1>3, TakeExact DEF Goes, Exact, Building, Goto
<1>4. CASE Goto(IF First = "." THEN "exit" ELSE "power") /\ UNCHANGED <<ctx, tok, base>>
  <2>1. tok'.kind # "EOF"
    BY <1>1, <1>4 DEF InInteger, IntegerTo
  <2> QED BY <1>1, <1>4, <2>1 DEF Goes, Exact, Building, Goto
<1> QED BY <1>2, <1>3, <1>4 DEF Point

(* A sign that was noted stands behind the e: after a fraction none is.     *)
LEMMA SignBehind ==
  ASSUME Ready, InPower, First \in {"e", "E"}, second \in {"-", "+"}
  PROVE  Data(ctx.loc + 1) = second
<1>1. CASE second = Data(ctx.loc + 1)
  BY <1>1
<1>2. CASE \E dot \in Nat : FractionTo(dot, ctx.loc) /\ second = Data(dot + 1)
  <2>1. PICK dot \in Nat : FractionTo(dot, ctx.loc) /\ second = Data(dot + 1)
    BY <1>2
  <2>2. dot < ctx.loc /\ DigitRun(dot + 1, ctx.loc, Decimal) /\ ctx.loc \in Nat
    BY <2>1, Reading DEF FractionTo
  <2>3. CASE dot + 1 = ctx.loc
    BY <2>1, <2>3, Reading
  <2>4. CASE dot + 1 # ctx.loc
    <3>1. dot + 1 \in dot + 1 .. ctx.loc - 1
      BY <2>2, <2>4
    <3>2. Data(dot + 1) \in Decimal \/ Data(dot + 1) = "_"
      BY <2>2, <3>1 DEF DigitRun
    <3> QED BY <2>1, <3>2 DEF Decimal
  <2> QED BY <2>3, <2>4
<1> QED BY <1>1, <1>2 DEF InPower

LEMMA PowerGoes ==
  ASSUME Ready, Closed(src), Exact, Power
  PROVE  Goes \/ Panic
<1>1. InPower /\ pc = "power" /\ tok.hi = ctx.loc
  BY DEF Power, At, Ready, Shape, Exact, Building
<1>2. CASE First \notin {"e", "E"}
  <2>1. pc' = "suffix" /\ ctx' = ctx /\ tok' = tok
    BY <1>2 DEF Power, Goto, local
  <2> QED BY <1>1, <2>1 DEF Goes, Exact, Building
<1>3. CASE First \in {"e", "E"} /\ base # "d"
  BY <1>3 DEF Power
<1>4. CASE First \in {"e", "E"} /\ base = "d" /\ second \notin {"-", "+"}
  <2>1. Take /\ pc' = "exponent" /\ First # "NL"
    BY <1>4 DEF Power, Goto
  <2> QED BY <1>1, <2>1, TakeExact DEF Goes, Exact, Building
<1>5. CASE First \in {"e", "E"} /\ base = "d" /\ second \in {"-", "+"}
  <2>1. /\ ctx' = Consumed(Consumed(ctx)) /\ tok' = Taken(Taken(tok))
        /\ pc' = "exponent"
    BY <1>5 DEF Power, Goto
  <2>2. ~AtEnd(ctx) /\ ctx.loc \in Nat /\ Len(src) \in Nat /\ ctx.loc + 1 < Len(src)
    BY <1>5, ClosedText, Reading
  <2>3. ctx.loc + 2 < Len(src)
    <3>1. Data(ctx.loc + 1) = src[ctx.loc + 2]
      BY <2>2 DEF Data, CharAt
    <3>2. Data(ctx.loc + 1) # "NL" /\ src[Len(src)] = "NL"
      BY <1>1, <1>5, SignBehind DEF Closed
    <3> QED BY <2>2, <3>1, <3>2
  <2>4. ctx'.loc = ctx.loc + 2
    BY <2>1, <2>2, <2>3, Reading
  <2>5. tok'.hi = tok.hi + 2 /\ tok'.lo = tok.lo
    <3>1. PICK t \in Token : t = Taken(tok) /\ t.hi = tok.hi + 1 /\ t.lo = tok.lo
      BY <1>1, <2>2, Spanning DEF Ready
    <3>2. (t.hi + 1) % Word = t.hi + 1
      <4>1. Word \in Nat \ {0} /\ t.hi + 1 \in 0 .. Word - 1
        BY <1>1, <2>2, <3>1, WordIsLarge DEF Ready, TypeInv
      <4> QED BY <4>1, ModOfNat
    <3>3. tok' = [t EXCEPT !.hi = (t.hi + 1) % Word]
      BY <2>1, <3>1 DEF Taken
    <3> QED BY <1>1, <2>2, <3>1, <3>2, <3>3 DEF Token
  <2> QED BY <1>1, <2>1, <2>4, <2>5 DEF Goes, Exact, Building
<1> QED BY <1>2, <1>3, <1>4, <1>5

LEMMA SuffixGoes ==
  ASSUME Ready, Closed(src), Exact, Suffix
  PROVE  Goes
<1>1. InSuffix /\ pc = "suffix" /\ tok.hi = ctx.loc
  BY DEF Suffix, At, Ready, Shape, Exact, Building
<1>2. CASE Among(First, SuffixChar)
  <2>1. Take /\ pc' = "suffix" /\ First # "NL"
    BY <1>2, NoNewline DEF Suffix, Among, Goto
  <2> QED BY <1>1, <2>1, TakeExact DEF Goes, Exact, Building
<1>3. CASE ~Among(First, SuffixChar)
  <2>1. pc' = "exit" /\ tok' = tok /\ ctx' = ctx
    BY <1>3 DEF Suffix, Goto
  <2>2. tok.kind # "EOF"
    BY <1>1, <1>3 DEF InSuffix, Stuck, Among, NumberTo, IntegerTo
  <2> QED BY <1>1, <2>1, <2>2 DEF Goes, Exact, Building
<1> QED BY <1>2, <1>3

(* What the beginning of a token does to its span.                          *)
Comes ==
    /\ Exact' /\ tok'.lo = ctx.loc
    /\ pc' \in Building \cup {"string"}
    /\ pc' = "exit" => tok'.lo = Len(src) - 1

LEMMA BeginGoes ==
  ASSUME Ready, Closed(src), Begins
  PROVE  SkipWhitespace \/ Panic \/ Fault \/ Comes
<1>1. /\ ctx.loc \in Nat /\ Len(src) \in Nat /\ ctx.loc < Len(src)
      /\ (AtEnd(ctx) <=> ctx.loc + 1 = Len(src)) /\ (Got(ctx) = "-1" <=> AtEnd(ctx))
  BY Reading, ClosedText
<1>2. CASE SkipWhitespace \/ StartInvalid
  BY <1>2 DEF StartInvalid
<1>3. CASE StartEof
  <2>1. /\ AtEnd(ctx) /\ ctx' = ctx /\ pc' = "exit" /\ tok'.lo = ctx.loc
        /\ tok'.hi = ctx.loc
    BY <1>1, <1>3, Reading DEF StartEof, Goto, Began
  <2> QED BY <1>1, <2>1 DEF Comes, Exact, Building
<1>4. ASSUME NEW kind, NEW node, Began(kind, ctx.loc + 1, node), Got(ctx) # "-1",
             ctx' = Consumed(ctx)
      PROVE  tok'.lo = ctx.loc /\ tok'.hi = ctx.loc + 1 /\ ctx'.loc = ctx.loc + 1
  BY <1>1, <1>4, Reading DEF Began
<1>5. CASE StartString
  <2>1. /\ Began("STRING", ctx.loc + 1, <<>>) /\ Got(ctx) # "-1" /\ ctx' = Consumed(ctx)
        /\ pc' = "string"
    BY <1>5 DEF StartString, Goto
  <2> QED BY <1>1, <1>4, <2>1 DEF Comes, Exact, Building
<1>6. CASE StartOperator
  <2>1. /\ Began("OPERATOR", ctx.loc + 1, <<Got(ctx)>>) /\ Got(ctx) # "-1"
        /\ ctx' = Consumed(ctx) /\ pc' = "operator"
    BY <1>6 DEF StartOperator, Goto, Operator
  <2> QED BY <1>1, <1>4, <2>1 DEF Comes, Exact, Building
<1>7. CASE StartIdent
  <2>1. /\ Began("IDENT", ctx.loc + 1, <<>>) /\ Got(ctx) # "-1" /\ ctx' = Consumed(ctx)
        /\ pc' = "ident"
    BY <1>7 DEF StartIdent, Goto, IdentStart, Letter
  <2> QED BY <1>1, <1>4, <2>1 DEF Comes, Exact, Building
<1>8. CASE StartNumber
  <2>1. Got(ctx) # "-1" /\ pc' = "integer" /\ ctx.loc + 1 < Len(src)
    <3>1. Got(ctx) # "-1" /\ pc' = "integer"
      BY <1>8 DEF StartNumber, Goto, Decimal
    <3> QED BY <1>1, <3>1
  <2>2. CASE Got(ctx) = "0" /\ Data(ctx.loc + 1) \in {"b", "o", "x"}
    <3>1. /\ ctx' = Consumed(Consumed(ctx)) /\ Began("INTEGER", ctx.loc + 2, <<>>)
      BY <1>8, <2>2 DEF StartNumber
    <3>2. ctx.loc + 2 < Len(src)
      <4>1. Data(ctx.loc + 1) = src[ctx.loc + 2]
        BY <1>1, <2>1 DEF Data, CharAt
      <4>2. Data(ctx.loc + 1) # "NL" /\ src[Len(src)] = "NL"
        BY <2>2 DEF Closed
      <4> QED BY <1>1, <2>1, <4>1, <4>2
    <3>3. ctx'.loc = ctx.loc + 2
      BY <1>1, <2>1, <3>1, <3>2, Reading
    <3>4. tok'.lo = ctx.loc /\ tok'.hi = ctx.loc + 2
      BY <3>1 DEF Began
    <3> QED BY <2>1, <3>3, <3>4 DEF Comes, Exact, Building
  <2>3. CASE ~(Got(ctx) = "0" /\ Data(ctx.loc + 1) \in {"b", "o", "x"})
    <3>1. ctx' = Consumed(ctx) /\ Began("INTEGER", ctx.loc + 1, <<>>)
      BY <1>8, <2>3 DEF StartNumber
    <3> QED BY <1>4, <2>1, <3>1 DEF Comes, Exact, Building
  <2> QED BY <2>2, <2>3
<1> QED BY <1>2, <1>3, <1>5, <1>6, <1>7, <1>8 DEF Begins

LEMMA LoopGoes ==
  ASSUME Ready, Closed(src), Exact, Loops
  PROVE  SkipComment \/ Panic \/ Fault \/ Goes
<1>1. CASE Integer
  <2>1. DigitLoop("integer", "point")
    BY <1>1 DEF Integer
  <2> QED BY <2>1, DigitsGo
<1>2. CASE Fraction
  <2>1. DigitLoop("fraction", "power")
    BY <1>2 DEF Fraction
  <2> QED BY <2>1, DigitsGo
<1>3. CASE Exponent
  <2>1. DigitLoop("exponent", "suffix")
    BY <1>3 DEF Exponent
  <2> QED BY <2>1, DigitsGo
<1> QED BY <1>1, <1>2, <1>3, StringGoes, OperatorGoes, IdentGoes, PointGoes, PowerGoes,
           SuffixGoes DEF Loops

(* What lies between two tokens stays as long as neither moves.             *)
LEMMA SameGaps ==
  ASSUME src' = src, out' = out
  PROVE  /\ Ended(Len(out))' = Ended(Len(out))
         /\ \A j : Between(j)' = Between(j)
  BY DEF Between, Ended, Gap, Commented, Data

LEMMA EndedType ==
  ASSUME TypeInv, NEW n \in 0 .. Len(out)
  PROVE  Ended(n) \in Nat
<1>1. out \in Seq(Token) /\ n \in Nat
  BY DEF TypeInv, TypeOK
<1>2. Word \in Nat
  BY LexerAssumption
<1>3. n # 0 => out[n] \in Token
  BY <1>1
<1> QED BY <1>1, <1>2, <1>3 DEF Ended, Token

LEMMA BlankExtends ==
  ASSUME TypeInv, NEW j \in Nat, Between(j), Data(j) \in Whitespace
  PROVE  Between(j + 1)
<1>1. PICK i \in Nat : i = Ended(Len(out))
  <2>1. Len(out) \in 0 .. Len(out)
    BY DEF TypeInv, TypeOK
  <2> QED BY <2>1, EndedType
<1>2. \A p \in i .. (j + 1) - 1 : p \in i .. j - 1 \/ p = j
  OBVIOUS
<1> QED BY <1>1, <1>2 DEF Between, Gap

LEMMA CommentExtends ==
  ASSUME TypeInv, Between(tok.lo), InComment, tok.lo \in Nat, ctx.loc \in Nat
  PROVE  Between(ctx.loc)
<1>1. PICK i \in Nat : i = Ended(Len(out))
  <2>1. Len(out) \in 0 .. Len(out)
    BY DEF TypeInv, TypeOK
  <2> QED BY <2>1, EndedType
<1>2. PICK lo \in Nat : lo = tok.lo
  OBVIOUS
<1>3. PICK loc \in Nat : loc = ctx.loc
  OBVIOUS
<1>4. /\ i <= lo /\ lo + 2 <= loc /\ Data(lo) = "/" /\ Data(lo + 1) = "/"
      /\ \A q \in lo .. loc - 1 : Data(q) # "NL"
      /\ \A p \in i .. lo - 1 : Data(p) \in Whitespace \/ Commented(p, i)
  BY <1>1, <1>2, <1>3 DEF Between, Gap, InComment
<1>5. ASSUME NEW p \in lo .. loc - 1
      PROVE  Commented(p, i)
  <2>1. lo \in i .. p
    BY <1>4, <1>5
  <2>2. \A q \in lo .. p : q \in lo .. loc - 1
    BY <1>5
  <2> QED BY <1>4, <2>1, <2>2 DEF Commented
<1>6. \A p \in i .. loc - 1 : p \in i .. lo - 1 \/ p \in lo .. loc - 1
  OBVIOUS
<1>7. Gap(i, loc)
  BY <1>4, <1>5, <1>6 DEF Gap
<1> QED BY <1>1, <1>3, <1>4, <1>7 DEF Between

LEMMA SkipTiling ==
  ASSUME Ready, Closed(src), Tiling, SkipWhitespace \/ SkipComment
  PROVE  Tiling'
<1>1. /\ src' = src /\ out' = out /\ call' = call /\ tok' = tok
      /\ pc \in {"whitespace", "comment"} /\ ctx.loc \in Nat /\ tok.lo \in Nat /\ TypeInv
  BY Reading, Spanning DEF SkipWhitespace, SkipComment, At, local, Quiet, Ready
<1>2. /\ Ended(Len(out))' = Ended(Len(out))
      /\ \A j : Between(j)' = Between(j)
  BY <1>1, SameGaps
<1>3. /\ call.op # "idle" /\ call.start.loc = Ended(Len(out))
      /\ pc = "whitespace" /\ call.op = "next" => Between(ctx.loc)
      /\ pc = "comment" /\ call.op = "next" => Between(tok.lo)
      /\ pc = "comment" => InComment
  BY <1>1 DEF Tiling
<1>4. ASSUME /\ pc' \in {"whitespace", "start"} /\ ctx'.loc \in Nat
             /\ call.op = "next" => Between(ctx'.loc)
      PROVE  Tiling'
  <2>1. call'.op = "next" => Between(ctx.loc)'
    BY <1>1, <1>2, <1>4
  <2> QED BY <1>1, <1>2, <1>3, <1>4, <2>1 DEF Tiling, Exact, Building
<1>5. CASE SkipWhitespace
  <2>1. pc = "whitespace" /\ pc' \in {"whitespace", "start"}
    BY <1>5 DEF SkipWhitespace, At, Goto
  <2>2. CASE ctx' = ctx
    BY <1>1, <1>3, <1>4, <2>1, <2>2
  <2>3. CASE ctx' # ctx
    <3>1. Among(First, Whitespace) /\ ctx' = Consumed(ctx)
      BY <1>5, <2>3 DEF SkipWhitespace
    <3>2. Data(ctx.loc) \in Whitespace /\ ctx'.loc = ctx.loc + 1
      BY <2>3, <3>1, Reading DEF Among
    <3>3. call.op = "next" => Between(ctx.loc + 1)
      BY <1>1, <1>3, <2>1, <3>2, BlankExtends
    <3> QED BY <1>1, <1>4, <2>1, <3>2, <3>3
  <2> QED BY <2>2, <2>3
<1>6. CASE SkipComment
  <2>1. pc = "comment"
    BY <1>6 DEF SkipComment, At
  <2>2. CASE First = "NL"
    <3>1. pc' = "whitespace" /\ ctx' = ctx
      BY <1>6, <2>2 DEF SkipComment, Goto
    <3>2. call.op = "next" => Between(ctx.loc)
      BY <1>1, <1>3, <2>1, CommentExtends
    <3> QED BY <1>1, <1>4, <3>1, <3>2
  <2>3. CASE First # "NL"
    <3>1. pc' = "comment" /\ ctx' = Consumed(ctx)
      BY <1>6, <2>3, ClosedText DEF SkipComment, Goto
    <3>2. ctx'.loc = ctx.loc + 1
      BY <2>3, <3>1, ClosedText
    <3>3. /\ Data(tok.lo) = "/" /\ Data(tok.lo + 1) = "/" /\ tok.lo + 2 <= ctx.loc
          /\ \A q \in tok.lo .. ctx.loc - 1 : Data(q) # "NL"
      BY <1>3, <2>1 DEF InComment
    <3>4. \A q \in tok.lo .. ctx.loc : q \in tok.lo .. ctx.loc - 1 \/ q = ctx.loc
      BY <1>1
    <3>5. \A q \in tok.lo .. ctx.loc : Data(q) # "NL"
      BY <2>3, <3>3, <3>4, Reading
    <3>6. \A q : Data(q)' = Data(q)
      BY <1>1, Carries
    <3>7. \A q \in tok'.lo .. ctx'.loc - 1 : Data(q)' # "NL"
      BY <1>1, <3>2, <3>5, <3>6
    <3>8. InComment'
      BY <1>1, <3>2, <3>3, <3>6, <3>7 DEF InComment
    <3>9. call'.op = "next" => Between(tok.lo)'
      BY <1>1, <1>2, <1>3, <2>1
    <3> QED BY <1>1, <1>2, <1>3, <3>1, <3>8, <3>9 DEF Tiling, Exact, Building
  <2> QED BY <2>2, <2>3
<1> QED BY <1>5, <1>6

LEMMA TilingNext ==
  ASSUME Ready, Closed(src), Tiling, [Next]_vars
  PROVE  Tiling'
<1>1. src' = src /\ TypeInv
  BY ContextMoves DEF Ready
<1>2. out' = out => /\ Ended(Len(out))' = Ended(Len(out))
                    /\ \A j : Between(j)' = Between(j)
  BY <1>1, SameGaps
<1>3. CASE UNCHANGED vars \/ Panic \/ Fault
  <2>1. UNCHANGED <<src, ctx, pc, tok, call, out>>
    BY <1>3 DEF vars, local, Panic, Fault
  <2>2. InComment' = InComment /\ Exact' = Exact
    BY <2>1 DEF InComment, Exact, AtEnd, Data
  <2>3. Between(ctx.loc)' = Between(ctx.loc) /\ Between(tok.lo)' = Between(tok.lo)
    BY <1>2, <2>1
  <2> QED BY <1>2, <2>1, <2>2, <2>3 DEF Tiling
<1>4. CASE Client
  <2>1. /\ pc = "idle" /\ pc' = "whitespace" /\ ctx' = ctx /\ out' = out
        /\ call'.op \in {"next", "peek", "scan"} /\ call'.start = ctx
    BY <1>4 DEF Client, LexerNext, LexerPeek, LexerScan, Enter, Goto
  <2>2. ctx.loc = Ended(Len(out)) /\ ctx.loc \in Nat
    BY <2>1, Reading DEF Tiling
  <2>3. Between(ctx.loc)
    <3>1. ctx.loc .. ctx.loc - 1 = {}
      BY <2>2
    <3> QED BY <2>2, <3>1 DEF Between, Gap
  <2>4. Between(ctx.loc)'
    BY <1>2, <2>1, <2>3
  <2> QED BY <1>2, <2>1, <2>2, <2>4 DEF Tiling, Exact, Building
<1>5. CASE NextReturns
  <2>1. /\ pc = "exit" /\ pc' = "idle" /\ ctx' = ctx /\ out' = Append(out, tok)
        /\ call'.op = "idle"
    BY <1>5 DEF NextReturns, Returning, Answer, Goto, Idle
  <2>2. tok.hi = ctx.loc
    BY <2>1 DEF Tiling, Exact, Building
  <2>3. Ended(Len(out))' = tok.hi
    <3>1. out \in Seq(Token) /\ tok \in Token
      BY <1>1 DEF TypeInv, TypeOK
    <3>2. Len(out') = Len(out) + 1 /\ out'[Len(out')] = tok /\ Len(out) \in Nat
      BY <2>1, <3>1, AppendProperties
    <3> QED BY <3>2 DEF Ended
  <2> QED BY <2>1, <2>2, <2>3 DEF Tiling, Exact, Building
<1>6. CASE PeekReturns \/ ScanFinds \/ ScanFails
  <2>1. /\ pc = "exit" /\ pc' = "idle" /\ ctx' = call.start /\ out' = out
        /\ call'.op = "idle"
    BY <1>6 DEF PeekReturns, ScanFinds, ScanFails, ScanReturns, Returning, Answer,
                Goto, Idle
  <2> QED BY <1>2, <2>1 DEF Tiling, Exact, Building
<1>7. CASE ScanGoesOn
  <2>1. /\ pc = "exit" /\ pc' = "whitespace" /\ out' = out
        /\ call'.op = "scan" /\ call'.start = call.start
    <3>1. call \in [op : {"idle", "next", "peek", "scan"}, key : TokenKind,
                    start : Context, cursor : Nat]
      BY <1>1 DEF TypeInv, TypeOK
    <3> QED BY <1>7, <3>1 DEF ScanGoesOn, Returning, Goto
  <2> QED BY <1>2, <2>1 DEF Tiling, Exact, Building
<1>8. CASE SkipWhitespace \/ SkipComment
  BY <1>8, SkipTiling
<1>9. CASE Begins
  <2>1. SkipWhitespace \/ Panic \/ Fault \/ Comes
    BY <1>9, BeginGoes
  <2>2. CASE ~SkipWhitespace /\ Comes /\ ~Panic /\ ~Fault
    <3>1. pc = "start" /\ call' = call /\ out' = out
      BY <1>9, <2>2 DEF Begins, StartEof, StartInvalid, StartString, StartOperator,
                        StartIdent, StartNumber, At, Quiet
    <3>2. call.op = "next" => Between(ctx.loc)
      BY <3>1 DEF Tiling
    <3>3. call'.op = "next" => Between(tok.lo)'
      BY <1>2, <2>2, <3>1, <3>2 DEF Comes
    <3>4. /\ pc' \in Building \cup {"string"} /\ Exact'
          /\ pc' = "exit" => tok'.lo = Len(src') - 1
      BY <1>1, <2>2 DEF Comes
    <3> QED BY <1>2, <3>1, <3>3, <3>4 DEF Tiling, Building
  <2> QED BY <1>3, <1>8, <2>1, <2>2
<1>10. CASE Loops
  <2>1. SkipComment \/ Panic \/ Fault \/ Goes
    BY <1>10, LoopGoes DEF Tiling
  <2>2. CASE ~SkipComment /\ Goes /\ ~Panic /\ ~Fault
    <3>1. pc \in Building \cup {"string"} /\ pc # "idle" /\ call' = call /\ out' = out
      BY <1>10, <2>2 DEF Loops, StringLoop, OperatorLoop, IdentLoop, Integer, Fraction,
                  Exponent, DigitLoop, Point, Power, Suffix, At, Quiet, Building
    <3>2. call.op = "next" => Between(tok.lo)
      BY <3>1 DEF Tiling
    <3>3. call'.op = "next" => Between(tok.lo)'
      BY <1>2, <2>2, <3>1, <3>2 DEF Goes
    <3>4. /\ pc' \in Building \cup {"string", "comment"} /\ Exact'
          /\ pc' = "exit" => tok'.kind # "EOF"
          /\ pc' = "comment" => InComment'
      BY <2>2 DEF Goes
    <3> QED BY <1>2, <3>1, <3>3, <3>4 DEF Tiling, Building
  <2> QED BY <1>3, <1>8, <2>1, <2>2
<1>11. CASE Overread
  BY <1>3, <1>11 DEF Overread
<1> QED BY <1>3, <1>4, <1>5, <1>6, <1>7, <1>9, <1>10, <1>11 DEF Next, Internal, Returns

(* What lexer_next adds to the tokens.                                      *)
LEMMA TilesNext ==
  ASSUME TypeInv, LexInd, Closed(src), Tiling, TokensTile, [Next]_vars
  PROVE  TokensTile'
<1>1. src' = src /\ out \in Seq(Token) /\ tok \in Token
  BY ContextMoves DEF TypeInv, TypeOK
<1>2. CASE out' = out
  BY <1>1, <1>2 DEF TokensTile, Closed, Ended, Gap, Commented, Data
<1>3. CASE out' # out
  <2>1. NextReturns
    <3>1. out' = out \/ NextReturns
      BY DEF vars, Next, Internal, Client, LexerNext, LexerPeek, LexerScan, Enter, Returns,
             PeekReturns, ScanFinds, ScanFails, ScanReturns, ScanGoesOn, Begins,
             SkipWhitespace, StartEof, StartInvalid, StartString, StartOperator,
             StartIdent, StartNumber, Loops, StringLoop, OperatorLoop, SkipComment,
             IdentLoop, Integer, Fraction, Exponent, DigitLoop, Point, Power, Suffix,
             Overread, Quiet, Panic, Fault
    <3> QED BY <1>3, <3>1
  <2>2. pc = "exit" /\ call.op = "next" /\ out' = Append(out, tok)
    BY <2>1 DEF NextReturns, Returning
  <2>3. /\ Between(tok.lo) /\ (tok.kind = "EOF" => tok.lo = Len(src) - 1)
    BY <2>2 DEF Tiling, Building
  <2>4. /\ Len(out') = Len(out) + 1 /\ Len(out) \in Nat /\ out'[Len(out) + 1] = tok
        /\ \A m \in 1 .. Len(out) : out'[m] = out[m]
    BY <1>1, <2>2, AppendProperties
  <2>5. \A m \in 0 .. Len(out) : Ended(m)' = Ended(m)
    BY <2>4 DEF Ended
  <2>6. \A i, j : Gap(i, j)' = Gap(i, j)
    BY <1>1 DEF Gap, Commented, Data
  <2>7. ASSUME NEW n \in 1 .. Len(out')
        PROVE  /\ Ended(n - 1)' <= out'[n].lo
               /\ Gap(Ended(n - 1), out[n].lo)'
               /\ out'[n].kind = "EOF" => out'[n].lo = Len(src') - 1
    <3>1. n - 1 \in 0 .. Len(out) /\ Ended(n - 1)' = Ended(n - 1)
      BY <2>4, <2>5
    <3>2. CASE n \in 1 .. Len(out)
      <4>1. /\ Ended(n - 1) <= out[n].lo /\ Gap(Ended(n - 1), out[n].lo)
            /\ out[n].kind = "EOF" => out[n].lo = Len(src) - 1
        BY <3>2 DEF TokensTile
      <4>2. out'[n] = out[n]
        BY <2>4, <3>2
      <4> QED BY <1>1, <2>6, <3>1, <4>1, <4>2
    <3>3. CASE n = Len(out) + 1
      <4>1. out'[n] = tok /\ n - 1 = Len(out)
        BY <2>4, <3>3
      <4>2. Ended(n - 1) <= tok.lo /\ Gap(Ended(n - 1), tok.lo)
        BY <2>3, <4>1 DEF Between
      <4> QED BY <1>1, <2>3, <2>6, <3>1, <4>1, <4>2
    <3> QED BY <2>4, <3>2, <3>3
  <2> QED BY <2>7 DEF TokensTile
<1> QED BY <1>2, <1>3

LEMMA TileIndNext == TypeInv /\ TileInd /\ [Next]_vars => TileInd'
<1> SUFFICES ASSUME TypeInv, TileInd, [Next]_vars PROVE TileInd'
  OBVIOUS
<1>1. LexInd /\ LexInd' /\ src' = src
  BY LexIndNext, ContextMoves DEF TileInd
<1>2. Closed(src)' = Closed(src)
  BY <1>1 DEF Closed
<1>3. CASE Closed(src)
  <2>1. Ready
    BY <1>1, <1>3 DEF LexInd, Within, Ready, Closed
  <2>2. Tiling' /\ TokensTile'
    BY <1>1, <1>3, <2>1, TilingNext, TilesNext DEF TileInd
  <2> QED BY <1>1, <2>2 DEF TileInd
<1>4. CASE ~Closed(src)
  <2>1. TokensTile'
    BY <1>2, <1>4 DEF TokensTile
  <2> QED BY <1>1, <1>2, <1>4, <2>1 DEF TileInd
<1> QED BY <1>3, <1>4

LEMMA TileIndInit == Init => TileInd
<1> SUFFICES ASSUME Init PROVE TileInd
  OBVIOUS
<1>1. LexInd
  BY LexIndInit
<1>2. Ended(Len(out)) = 0 /\ ctx.loc = 0 /\ pc = "idle" /\ call.op = "idle"
  BY DEF Init, Ended, Origin, Idle
<1>3. Tiling
  BY <1>2 DEF Tiling, Exact, Building
<1>4. TokensTile
  BY DEF Init, TokensTile
<1> QED BY <1>1, <1>3, <1>4 DEF TileInd

(* The tokens of a text that ends in a newline tile it but for blanks and   *)
(* comments, and TOK_EOF stands at its end: no character is lexed twice or  *)
(* dropped, whatever the client peeked or scanned at (lexer.c:371-391).     *)
THEOREM LexerTiles == Spec => []TokensTile
<1>1. TileInd => TokensTile
  BY DEF TileInd
<1> QED
  BY <1>1, TypeInvInit, TypeInvNext, TileIndInit, TileIndNext, PTL DEF Spec

(***************************************************************************)
(* A call comes to an end                                                  *)
(***************************************************************************)

(* What a turn of a call does for it: it reads on, or comes nearer to the   *)
(* end of the token, or stops the program.                                  *)
Descends ==
    \/ status' # "run"
    \/ pc = "string" /\ AtEnd(ctx)
    \/ ctx'.loc > ctx.loc
    \/ ctx'.loc = ctx.loc /\ Rank' < Rank

LEMMA ReadsOn ==
  ASSUME Ready, Closed(src), First # "NL", ctx' = Consumed(ctx)
  PROVE  Descends
BY ClosedText, Reading DEF Descends

LEMMA ExitRank == pc' = "exit" => Rank' \in {0, 3}
BY DEF Rank

LEMMA SkipDescends ==
  ASSUME Ready, Closed(src), SkipWhitespace \/ SkipComment
  PROVE  Descends
<1>1. CASE SkipWhitespace
  <2>1. pc = "whitespace" /\ Rank = 2
    BY <1>1 DEF SkipWhitespace, At, Rank
  <2>2. CASE Among(First, Whitespace) /\ ~AtEnd(ctx)
    BY <1>1, <2>2, Reading DEF SkipWhitespace, Descends
  <2>3. CASE ~Among(First, Whitespace) \/ AtEnd(ctx)
    <3>1. pc' = "start" /\ ctx'.loc = ctx.loc
      BY <1>1, <2>3, Reading DEF SkipWhitespace, Goto
    <3>2. Rank' = 1
      BY <3>1 DEF Rank
    <3> QED BY <2>1, <3>1, <3>2 DEF Descends
  <2> QED BY <2>2, <2>3
<1>2. CASE SkipComment
  <2>1. pc = "comment" /\ Rank = 3
    BY <1>2 DEF SkipComment, At, Rank
  <2>2. CASE First # "NL"
    BY <1>2, <2>2, ReadsOn DEF SkipComment
  <2>3. CASE First = "NL"
    <3>1. pc' = "whitespace" /\ ctx' = ctx
      BY <1>2, <2>3 DEF SkipComment, Goto
    <3>2. Rank' = 2
      BY <3>1 DEF Rank
    <3> QED BY <2>1, <3>1, <3>2 DEF Descends
  <2> QED BY <2>2, <2>3
<1> QED BY <1>1, <1>2

LEMMA StartDescends ==
  ASSUME Ready, Closed(src), Begins, ~SkipWhitespace
  PROVE  Descends
<1>1. CASE StartEof
  <2>1. pc = "start" /\ pc' = "exit" /\ tok'.kind = "EOF" /\ ctx' = ctx
    BY <1>1, ClosedText, Reading DEF StartEof, At, Goto, Began
  <2>2. Rank = 1
    BY <2>1 DEF Rank
  <2>3. Rank' = 0
    BY <2>1 DEF Rank
  <2> QED BY <2>1, <2>2, <2>3 DEF Descends
<1>2. CASE StartInvalid
  BY <1>2 DEF StartInvalid, Fault, Panic, Descends
<1>3. CASE StartString \/ StartOperator \/ StartIdent
  <2>1. ctx' = Consumed(ctx) /\ Got(ctx) # "-1"
    BY <1>3 DEF StartString, StartOperator, StartIdent, Operator, IdentStart, Letter
  <2>2. ~AtEnd(ctx)
    BY <2>1, Reading
  <2> QED BY <2>1, <2>2, Reading DEF Descends
<1>4. CASE StartNumber
  <2>1. Got(ctx) # "-1"
    BY <1>4 DEF StartNumber, Decimal
  <2>2. ~AtEnd(ctx)
    BY <2>1, Reading
  <2>3. ctx' = Consumed(ctx) \/ ctx' = Consumed(Consumed(ctx))
    BY <1>4 DEF StartNumber
  <2>4. ctx'.loc > ctx.loc
    BY <2>2, <2>3, Reading
  <2> QED BY <2>4 DEF Descends
<1> QED BY <1>1, <1>2, <1>3, <1>4 DEF Begins

(* From a loop of the token either a character is taken, or a later loop    *)
(* begins, or the token is complete.                                        *)
LEMMA LoopDescends ==
  ASSUME Ready, Closed(src), Loops
  PROVE  Descends
<1>0. "NL" \notin IdentChar /\ "NL" \notin SuffixChar /\ (\A b : "NL" \notin Digits(b))
  BY NoNewline
<1>1. ASSUME Take, First # "NL" PROVE Descends
  BY <1>1, ReadsOn DEF Take
<1>2. CASE StringLoop
  <2>1. pc = "string" /\ First # "-1"
    BY <1>2, ClosedText DEF StringLoop, At
  <2>2. Take
    BY <1>2, <2>1 DEF StringLoop
  <2> QED BY <2>1, <2>2, Reading DEF Take, Descends
<1>3. CASE OperatorLoop
  <2>1. pc = "operator" /\ Rank = 7
    BY <1>3 DEF OperatorLoop, At, Rank
  <2>2. CASE First \in OffTable
    BY <1>3, <2>2 DEF OperatorLoop, Fault, Descends
  <2>3. CASE First \notin OffTable /\ Append(tok.node, First) \in Compound
    <3>1. tok.node \in Seq(Char) /\ First \in Char
      BY Spanning, Reading DEF Ready
    <3> DEFINE node == Append(tok.node, First)
    <3>2. node[Len(node)] = First
      BY <3>1, AppendProperties
    <3>3. First # "NL"
      BY <2>3, <3>2, NoNewline
    <3>4. ctx' = Consumed(ctx)
      BY <1>3, <2>3 DEF OperatorLoop
    <3> QED BY <3>3, <3>4, ReadsOn
  <2>4. CASE First \notin OffTable /\ Append(tok.node, First) \notin Compound
    <3>1. ctx' = ctx /\ pc' \in {"comment", "exit"}
      BY <1>3, <2>4 DEF OperatorLoop, Goto
    <3>2. Rank' \in {0, 3}
      BY <3>1 DEF Rank
    <3> QED BY <2>1, <3>1, <3>2 DEF Descends
  <2> QED BY <2>2, <2>3, <2>4
<1>4. CASE SkipComment
  BY <1>4, SkipDescends
<1>5. CASE IdentLoop
  <2>1. pc = "ident" /\ Rank = 7
    BY <1>5 DEF IdentLoop, At, Rank
  <2>2. CASE First \in IdentChar
    BY <1>0, <1>1, <1>5, <2>2 DEF IdentLoop
  <2>3. CASE First \notin IdentChar
    <3>1. ctx' = ctx /\ pc' = "exit"
      BY <1>5, <2>3 DEF IdentLoop, Goto
    <3> QED BY <2>1, <3>1, ExitRank DEF Descends
  <2> QED BY <2>2, <2>3
<1>6. ASSUME NEW loop, NEW after, DigitLoop(loop, after), Rank > 0,
             pc' = after => Rank' < Rank
      PROVE  Descends
  <2>1. CASE Panic
    BY <2>1 DEF Panic, Descends
  <2>2. CASE /\ (First = "_" /\ BetweenDigits) \/ Among(First, Digits(base))
             /\ Take
    <3>1. First # "NL"
      BY <1>0, <2>2, Reading DEF Among
    <3> QED BY <1>1, <2>2, <3>1
  <2>3. CASE Goto(after) /\ ctx' = ctx
    BY <1>6, <2>3 DEF Goto, Descends
  <2> QED BY <1>6, <2>1, <2>2, <2>3 DEF DigitLoop
<1>7. CASE Integer
  <2>1. Rank = 7 /\ (pc' = "point" => Rank' = 6)
    BY <1>7 DEF Integer, DigitLoop, At, Rank
  <2> QED BY <1>6, <1>7, <2>1 DEF Integer
<1>8. CASE Fraction
  <2>1. Rank = 7 /\ (pc' = "power" => Rank' = 5)
    BY <1>8 DEF Fraction, DigitLoop, At, Rank
  <2> QED BY <1>6, <1>8, <2>1 DEF Fraction
<1>9. CASE Exponent
  <2>1. Rank = 5 /\ (pc' = "suffix" => Rank' = 4)
    BY <1>9 DEF Exponent, DigitLoop, At, Rank
  <2> QED BY <1>6, <1>9, <2>1 DEF Exponent
<1>10. CASE Point
  <2>1. pc = "point" /\ Rank = 6
    BY <1>10 DEF Point, At, Rank
  <2>2. CASE AtEnd(ctx)
    BY <1>10, <2>2 DEF Point, Panic, Descends
  <2>3. CASE ~AtEnd(ctx) /\ First = "." /\ Data(ctx.loc + 1) # "."
    <3>1. status' = "panic" \/ Take
      BY <1>10, <2>3 DEF Point, Panic
    <3> QED BY <1>1, <2>3, <3>1 DEF Descends
  <2>4. CASE ~AtEnd(ctx) /\ ~(First = "." /\ Data(ctx.loc + 1) # ".")
    <3>1. ctx' = ctx /\ pc' \in {"exit", "power"}
      BY <1>10, <2>4 DEF Point, Goto
    <3>2. Rank' \in {0, 3, 5}
      BY <3>1 DEF Rank
    <3> QED BY <2>1, <3>1, <3>2 DEF Descends
  <2> QED BY <2>2, <2>3, <2>4
<1>11. CASE Power
  <2>1. pc = "power" /\ Rank = 5
    BY <1>11 DEF Power, At, Rank
  <2>2. CASE First \notin {"e", "E"}
    <3>1. ctx' = ctx /\ pc' = "suffix"
      BY <1>11, <2>2 DEF Power, Goto
    <3>2. Rank' = 4
      BY <3>1 DEF Rank
    <3> QED BY <2>1, <3>1, <3>2 DEF Descends
  <2>3. CASE First \in {"e", "E"}
    <3>1. status' = "panic" \/ ctx' = Consumed(ctx) \/ ctx' = Consumed(Consumed(ctx))
      BY <1>11, <2>3 DEF Power, Panic, Take
    <3>2. ~AtEnd(ctx)
      BY <2>3, ClosedText
    <3>3. Consumed(ctx).loc > ctx.loc /\ Consumed(Consumed(ctx)).loc > ctx.loc
      BY <3>2, Reading
    <3> QED BY <3>1, <3>3 DEF Descends
  <2> QED BY <2>2, <2>3
<1>12. CASE Suffix
  <2>1. pc = "suffix" /\ Rank = 4
    BY <1>12 DEF Suffix, At, Rank
  <2>2. CASE Among(First, SuffixChar)
    <3>1. First # "NL"
      BY <1>0, <2>2, Reading DEF Among
    <3> QED BY <1>1, <1>12, <2>2, <3>1 DEF Suffix
  <2>3. CASE ~Among(First, SuffixChar)
    <3>1. ctx' = ctx /\ pc' = "exit"
      BY <1>12, <2>3 DEF Suffix, Goto
    <3> QED BY <2>1, <3>1, ExitRank DEF Descends
  <2> QED BY <2>2, <2>3
<1> QED BY <1>2, <1>3, <1>4, <1>5, <1>7, <1>8, <1>9, <1>10, <1>11, <1>12 DEF Loops

LEMMA CallDescends ==
  ASSUME Ready, Closed(src), Tiling, Next, call.op # "idle", call'.op # "idle"
  PROVE  Descends
<1>1. CASE Client
  BY <1>1 DEF Client, LexerNext, LexerPeek, LexerScan, Enter, Tiling
<1>2. CASE NextReturns \/ PeekReturns \/ ScanFinds \/ ScanFails
  BY <1>2 DEF NextReturns, PeekReturns, ScanFinds, ScanFails, ScanReturns, Answer, Idle
<1>3. CASE ScanGoesOn
  <2>1. pc = "exit" /\ tok.kind # "EOF" /\ pc' = "whitespace" /\ ctx' = ctx
    BY <1>3 DEF ScanGoesOn, Returning, Goto
  <2>2. Rank = 3 /\ Rank' = 2
    BY <2>1 DEF Rank
  <2> QED BY <2>1, <2>2 DEF Descends
<1>4. CASE Begins
  BY <1>4, SkipDescends, StartDescends
<1>5. CASE Loops
  BY <1>5, LoopDescends
<1>6. CASE Overread
  BY <1>6 DEF Overread, Fault, Descends
<1> QED BY <1>1, <1>2, <1>3, <1>4, <1>5, <1>6 DEF Next, Internal, Returns

(* On every text that ends in a newline a call of the lexer gets on with    *)
(* every turn of its loops, but for a string that is open at the end        *)
(* (lexer.c:127-192 and 235-307): no answer of lexer_consume lets a loop    *)
(* begin again where it was, and CallsReturn has no other way to fail.      *)
THEOREM LexerDescends == Spec => TurnsDescend
<1>1. ASSUME TypeInv, TileInd, [Next]_vars
      PROVE  [Closed(src) /\ call.op # "idle" /\ call'.op # "idle" /\ status' = "run" =>
                \/ pc = "string" /\ AtEnd(ctx)
                \/ ctx'.loc > ctx.loc
                \/ ctx'.loc = ctx.loc /\ Rank' < Rank]_vars
  <2> SUFFICES ASSUME Next, Closed(src), call.op # "idle", call'.op # "idle", status' = "run"
               PROVE  \/ pc = "string" /\ AtEnd(ctx)
                      \/ ctx'.loc > ctx.loc
                      \/ ctx'.loc = ctx.loc /\ Rank' < Rank
    BY <1>1
  <2>1. Ready /\ Tiling
    BY <1>1 DEF TileInd, LexInd, Within, Ready, Closed
  <2> QED BY <2>1, CallDescends DEF Descends
<1> QED
  BY <1>1, TypeInvInit, TypeInvNext, TileIndInit, TileIndNext, PTL DEF Spec, TurnsDescend

(***************************************************************************)
(* Foresight.  A turn of lexer_advance depends on nothing but the place it *)
(* is at and the token it has begun: Turn is that function.  A foretelling *)
(* is true at a state if every set that has the states which bear it out   *)
(* and, with a state, the one a turn before, has the state; so a lookahead *)
(* carries it from its answer back to its start, and the call of           *)
(* lexer_next that follows carries it from there to its own answer.        *)
(***************************************************************************)

Numeric  == {"integer", "point", "fraction", "power", "exponent"}
Begotten == Building \cup {"string"}
Base     == {"b", "o", "x", "d"}

State == [ctx : Context, pc : Loop, tok : Token, base : Base,
          second : Char \cup {"NUL"}, cursor : Nat]

(* What a turn can tell apart: a token before it has begun, the base        *)
(* outside a number and c_second before it is read are left over.           *)
Seen(c, p, t, b, s, w) ==
    [ctx |-> c, pc |-> p, tok |-> IF p \in Begotten THEN t ELSE NoToken,
     base |-> IF p \in Numeric THEN b ELSE "d",
     second |-> IF p \in {"fraction", "power"} THEN s ELSE "SP", cursor |-> w]
Fresh(c, p, w) == Seen(c, p, NoToken, "d", "SP", w)
Now == Seen(ctx, pc, tok, base, second, call.cursor)

OnLast(text, c) == c.loc = Len(text) - 1
Read(text, c) == IF OnLast(text, c) THEN "-1" ELSE CharAt(text, c.loc)
Onward(text, c) ==
    IF OnLast(text, c) THEN c
    ELSE [loc  |-> c.loc + 1,
          line |-> IF CharAt(text, c.loc) = "NL" THEN c.line + 1 ELSE c.line,
          col  |-> IF CharAt(text, c.loc) = "NL" THEN 0 ELSE c.col + 1]
Char1(text, x) == CharAt(text, x.ctx.loc)
Char2(text, x) == CharAt(text, x.ctx.loc + 1)

On(text, x, p)   == Seen(Onward(text, x.ctx), p, Taken(x.tok), x.base, x.second, x.cursor)
To(x, p, t)      == Seen(x.ctx, p, t, x.base, x.second, x.cursor)

TurnWhitespace(text, x) ==
    IF Among(Char1(text, x), Whitespace)
    THEN Fresh(Onward(text, x.ctx),
               IF Read(text, x.ctx) = "-1" THEN "start" ELSE "whitespace", x.cursor)
    ELSE Fresh(x.ctx, "start", x.cursor)

Born(text, x, p, kind, hi, node) ==
    Seen(Onward(text, x.ctx), p,
         [kind |-> kind, lo |-> x.ctx.loc, hi |-> hi, node |-> node], "d", "SP", x.cursor)
TurnStart(text, x) ==
    LET c == Read(text, x.ctx)
        n == x.ctx.loc
    IN  IF c = "-1" THEN Born(text, x, "exit", "EOF", n, <<>>)
        ELSE IF c = "DQ" THEN Born(text, x, "string", "STRING", n + 1, <<>>)
        ELSE IF c \in Operator THEN Born(text, x, "operator", "OPERATOR", n + 1, <<c>>)
        ELSE IF c \in IdentStart THEN Born(text, x, "ident", "IDENT", n + 1, <<>>)
        ELSE IF c = "0" /\ Char2(text, x) \in {"b", "o", "x"}
             THEN Seen(Onward(text, Onward(text, x.ctx)), "integer",
                       [kind |-> "INTEGER", lo |-> n, hi |-> n + 2, node |-> <<>>],
                       Char2(text, x), "SP", x.cursor)
        ELSE IF c \in Decimal THEN Born(text, x, "integer", "INTEGER", n + 1, <<>>)
        ELSE x

TurnString(text, x) ==
    IF Char1(text, x) = "DQ" THEN On(text, x, "exit")
    ELSE IF Char1(text, x) = "-1" THEN To(x, "exit", [x.tok EXCEPT !.kind = "EOF"])
    ELSE On(text, x, "string")

TurnOperator(text, x) ==
    LET node == Append(x.tok.node, Char1(text, x)) IN
    IF node \in Compound
    THEN Seen(Onward(text, x.ctx), "operator", [Taken(x.tok) EXCEPT !.node = node],
              "d", "SP", x.cursor)
    ELSE To(x, IF x.tok.node = <<"/", "/">> THEN "comment" ELSE "exit", x.tok)

TurnComment(text, x) ==
    IF Char1(text, x) # "NL"
    THEN Fresh(Onward(text, x.ctx),
               IF Read(text, x.ctx) = "-1" THEN "whitespace" ELSE "comment", x.cursor)
    ELSE Fresh(x.ctx, "whitespace", x.cursor)

TurnIdent(text, x) ==
    LET word == SubSeq(text, x.tok.lo + 1, x.tok.hi) IN
    IF Char1(text, x) \in IdentChar THEN On(text, x, "ident")
    ELSE To(x, "exit", IF word \in Keyword
                       THEN [x.tok EXCEPT !.kind = "KEYWORD", !.node = word] ELSE x.tok)

TurnDigits(text, x, after) ==
    IF Char1(text, x) = "_" \/ Among(Char1(text, x), Digits(x.base))
    THEN On(text, x, x.pc)
    ELSE To(x, after, [x.tok EXCEPT !.kind = IF x.pc = "integer" THEN @ ELSE "FLOAT"])

TurnPoint(text, x) ==
    IF Char1(text, x) = "." /\ Char2(text, x) # "."
    THEN Seen(Onward(text, x.ctx), "fraction", Taken(x.tok), x.base, Char2(text, x), x.cursor)
    ELSE Seen(x.ctx, IF Char1(text, x) = "." THEN "exit" ELSE "power", x.tok, x.base,
              Char2(text, x), x.cursor)

TurnPower(text, x) ==
    IF Char1(text, x) \notin {"e", "E"} THEN To(x, "suffix", x.tok)
    ELSE IF x.second \in {"-", "+"}
         THEN Seen(Onward(text, Onward(text, x.ctx)), "exponent", Taken(Taken(x.tok)),
                   x.base, "SP", x.cursor)
    ELSE On(text, x, "exponent")

TurnSuffix(text, x) ==
    IF Among(Char1(text, x), SuffixChar) THEN On(text, x, "suffix")
    ELSE To(x, "exit", x.tok)

(* From an exit the next call goes on where this one ended.                 *)
Turn(text, x) ==
    IF x.pc = "whitespace" THEN TurnWhitespace(text, x)
    ELSE IF x.pc = "start"    THEN TurnStart(text, x)
    ELSE IF x.pc = "string"   THEN TurnString(text, x)
    ELSE IF x.pc = "operator" THEN TurnOperator(text, x)
    ELSE IF x.pc = "comment"  THEN TurnComment(text, x)
    ELSE IF x.pc = "ident"    THEN TurnIdent(text, x)
    ELSE IF x.pc = "integer"  THEN TurnDigits(text, x, "point")
    ELSE IF x.pc = "fraction" THEN TurnDigits(text, x, "power")
    ELSE IF x.pc = "exponent" THEN TurnDigits(text, x, "suffix")
    ELSE IF x.pc = "point"    THEN TurnPoint(text, x)
    ELSE IF x.pc = "power"    THEN TurnPower(text, x)
    ELSE IF x.pc = "suffix"   THEN TurnSuffix(text, x)
    ELSE IF x.pc = "exit"     THEN Fresh(x.ctx, "whitespace", x.ctx.loc)
    ELSE x

LEMMA NowIs ==
    /\ Now.ctx = ctx /\ Now.pc = pc /\ Now.cursor = call.cursor
    /\ pc \in Begotten => Now.tok = tok
    /\ pc \in Numeric => Now.base = base
    /\ pc \in {"fraction", "power"} => Now.second = second
BY DEF Now, Seen

LEMMA SeenByTurn ==
    /\ Consumed(ctx) = Onward(src, ctx) /\ Got(ctx) = Read(src, ctx)
    /\ Consumed(Consumed(ctx)) = Onward(src, Onward(src, ctx))
    /\ First = Char1(src, Now) /\ Data(ctx.loc + 1) = Char2(src, Now)
<1>1. \A x : Consumed(x) = Onward(src, x) /\ Got(x) = Read(src, x)
  BY DEF Consumed, Onward, Got, Read, AtEnd, OnLast, Data
<1> QED BY <1>1, NowIs DEF First, Data, Char1, Char2

(* The loops from which a turn begins.                                      *)
Turning == Building \cup {"whitespace", "start", "string", "comment"}

LEMMA NowNext ==
    ASSUME Quiet
    PROVE  Now' = Seen(ctx', pc', tok', base', second', Now.cursor)
BY NowIs DEF Now, Quiet

LEMMA WhitespaceTurns == SkipWhitespace => Now' = Turn(src, Now)
<1> SUFFICES ASSUME SkipWhitespace PROVE Now' = Turn(src, Now)
  OBVIOUS
<1>1. Quiet /\ pc = "whitespace" /\ Now.pc = "whitespace" /\ Now.ctx = ctx
  BY NowIs DEF SkipWhitespace, At
<1>2. Turn(src, Now) = TurnWhitespace(src, Now)
  BY <1>1 DEF Turn
<1>3. pc' \in {"whitespace", "start"} => Now' = Fresh(ctx', pc', Now.cursor)
  BY <1>1, NowNext DEF Fresh, Seen, Begotten, Building, Numeric
<1> QED BY <1>1, <1>2, <1>3, SeenByTurn DEF SkipWhitespace, TurnWhitespace, Goto

LEMMA CommentTurns == SkipComment => Now' = Turn(src, Now)
<1> SUFFICES ASSUME SkipComment PROVE Now' = Turn(src, Now)
  OBVIOUS
<1>1. Quiet /\ pc = "comment" /\ Now.pc = "comment" /\ Now.ctx = ctx
  BY NowIs DEF SkipComment, At
<1>2. Turn(src, Now) = TurnComment(src, Now)
  BY <1>1 DEF Turn
<1>3. pc' \in {"whitespace", "comment"} => Now' = Fresh(ctx', pc', Now.cursor)
  BY <1>1, NowNext DEF Fresh, Seen, Begotten, Building, Numeric
<1> QED BY <1>1, <1>2, <1>3, SeenByTurn DEF SkipComment, TurnComment, Goto

(* The first characters of the kinds of tokens are different.               *)
LEMMA Firsts ==
    /\ \A c \in Operator : c \notin IdentStart /\ c # "-1"
    /\ \A c \in IdentStart \cup Decimal : c \notin Operator /\ c # "-1" /\ c # "DQ"
    /\ \A c \in Decimal : c \notin IdentStart
    /\ "0" \in Decimal /\ "DQ" \in Operator
BY DEF Operator, IdentStart, Letter, Decimal

LEMMA StartTurns ==
    ASSUME TypeInv
    PROVE  StartEof \/ StartString \/ StartOperator \/ StartIdent \/ StartNumber
             => Now' = Turn(src, Now)
<1> SUFFICES ASSUME StartEof \/ StartString \/ StartOperator \/ StartIdent \/ StartNumber
             PROVE  Now' = Turn(src, Now)
  OBVIOUS
<1> DEFINE c == Got(ctx)
           n == ctx.loc
           tokenAt(kind, hi, node) == [kind |-> kind, lo |-> n, hi |-> hi, node |-> node]
<1>1. Quiet /\ pc = "start" /\ Now.pc = "start" /\ Now.ctx = ctx
  BY NowIs DEF StartEof, StartString, StartOperator, StartIdent, StartNumber, At
<1>2. Turn(src, Now) = TurnStart(src, Now)
  BY <1>1 DEF Turn
<1>3. ASSUME NEW p \in {"exit", "string", "operator", "ident"}, NEW kind, NEW hi, NEW node,
             ctx' = Consumed(ctx), Began(kind, hi, node), Goto(p)
      PROVE  Now' = Born(src, Now, p, kind, hi, node)
  BY <1>1, <1>3, NowNext, SeenByTurn DEF Born, Began, Goto, Seen, Numeric
<1>4. CASE StartEof
  BY <1>1, <1>2, <1>3, <1>4, SeenByTurn DEF StartEof, TurnStart
<1>5. CASE StartString
  BY <1>1, <1>2, <1>3, <1>5, SeenByTurn DEF StartString, TurnStart
<1>6. CASE StartOperator
  <2>1. c \in Operator /\ c # "-1" /\ c # "DQ"
    BY <1>6, Firsts DEF StartOperator
  <2>2. TurnStart(src, Now) = Born(src, Now, "operator", "OPERATOR", n + 1, <<c>>)
    BY <1>1, <2>1, SeenByTurn DEF TurnStart
  <2>3. Now' = Born(src, Now, "operator", "OPERATOR", n + 1, <<c>>)
    BY <1>3, <1>6 DEF StartOperator
  <2> QED BY <1>2, <2>2, <2>3
<1>7. CASE StartIdent
  <2>1. c \in IdentStart /\ c \notin Operator /\ c # "-1" /\ c # "DQ"
    BY <1>7, Firsts DEF StartIdent
  <2>2. TurnStart(src, Now) = Born(src, Now, "ident", "IDENT", n + 1, <<>>)
    BY <1>1, <2>1, SeenByTurn DEF TurnStart
  <2>3. Now' = Born(src, Now, "ident", "IDENT", n + 1, <<>>)
    BY <1>3, <1>7 DEF StartIdent
  <2> QED BY <1>2, <2>2, <2>3
<1>8. CASE StartNumber
  <2>1. c \in Decimal /\ c \notin Operator /\ c \notin IdentStart /\ c # "-1" /\ c # "DQ"
    BY <1>8, Firsts DEF StartNumber
  <2>2. CASE c = "0" /\ Data(ctx.loc + 1) \in {"b", "o", "x"}
    <3>1. Now' = Seen(Consumed(Consumed(ctx)), "integer",
                      tokenAt("INTEGER", n + 2, <<>>), Data(ctx.loc + 1), "SP", Now.cursor)
      BY <1>1, <1>8, <2>2, NowNext DEF StartNumber, Began, Goto, Seen
    <3>2. TurnStart(src, Now) =
            Seen(Consumed(Consumed(ctx)), "integer",
                 tokenAt("INTEGER", n + 2, <<>>), Data(ctx.loc + 1), "SP", Now.cursor)
      BY <1>1, <2>1, <2>2, SeenByTurn DEF TurnStart
    <3> QED BY <1>2, <3>1, <3>2
  <2>3. CASE ~(c = "0" /\ Data(ctx.loc + 1) \in {"b", "o", "x"})
    <3>1. Now' = Born(src, Now, "integer", "INTEGER", n + 1, <<>>)
      BY <1>1, <1>8, <2>3, NowNext, SeenByTurn DEF StartNumber, Began, Goto, Seen, Born
    <3>2. TurnStart(src, Now) = Born(src, Now, "integer", "INTEGER", n + 1, <<>>)
      BY <1>1, <2>1, <2>3, SeenByTurn DEF TurnStart
    <3> QED BY <1>2, <3>1, <3>2
  <2> QED BY <2>2, <2>3
<1> QED BY <1>4, <1>5, <1>6, <1>7, <1>8

LEMMA StringTurns == StringLoop => Now' = Turn(src, Now)
<1> SUFFICES ASSUME StringLoop PROVE Now' = Turn(src, Now)
  OBVIOUS
<1>1. Quiet /\ pc = "string" /\ Now.pc = "string" /\ Now.ctx = ctx /\ Now.tok = tok
  BY NowIs DEF StringLoop, At, Begotten
<1>2. Turn(src, Now) = TurnString(src, Now)
  BY <1>1 DEF Turn
<1>3. CASE First = "DQ"
  <2>1. Take /\ pc' = "exit"
    BY <1>3 DEF StringLoop, Goto
  <2> QED BY <1>1, <1>2, <1>3, <2>1, NowNext, SeenByTurn
          DEF TurnString, On, Take, Seen, Numeric
<1>4. CASE First # "DQ" /\ First = "-1"
  <2>1. ctx' = ctx /\ tok' = [tok EXCEPT !.kind = "EOF"] /\ pc' = "exit"
    BY <1>4 DEF StringLoop, Goto
  <2> QED BY <1>1, <1>2, <1>4, <2>1, NowNext, SeenByTurn
          DEF TurnString, To, Seen, Numeric
<1>5. CASE First # "DQ" /\ First # "-1"
  <2>1. Take /\ pc' = "string"
    BY <1>5 DEF StringLoop, Goto
  <2> QED BY <1>1, <1>2, <1>5, <2>1, NowNext, SeenByTurn
          DEF TurnString, On, Take, Seen, Numeric
<1> QED BY <1>3, <1>4, <1>5

LEMMA OperatorTurns == OperatorLoop => Fault \/ Now' = Turn(src, Now)
<1> SUFFICES ASSUME OperatorLoop, First \notin OffTable PROVE Now' = Turn(src, Now)
  BY DEF OperatorLoop
<1> DEFINE node == Append(tok.node, First)
<1>1. Quiet /\ pc = "operator" /\ Now.pc = "operator" /\ Now.ctx = ctx /\ Now.tok = tok
  BY NowIs DEF OperatorLoop, At, Begotten, Building
<1>2. Turn(src, Now) = TurnOperator(src, Now)
  BY <1>1 DEF Turn
<1>3. CASE node \in Compound
  <2>1. ctx' = Consumed(ctx) /\ tok' = [Taken(tok) EXCEPT !.node = node] /\ pc' = "operator"
    BY <1>3 DEF OperatorLoop, Goto
  <2> QED BY <1>1, <1>2, <1>3, <2>1, NowNext, SeenByTurn
          DEF TurnOperator, Seen, Numeric
<1>4. CASE node \notin Compound
  <2>1. ctx' = ctx /\ tok' = tok /\ pc' = IF tok.node = <<"/", "/">> THEN "comment" ELSE "exit"
    BY <1>4 DEF OperatorLoop, Goto
  <2> QED BY <1>1, <1>2, <1>4, <2>1, NowNext, SeenByTurn
          DEF TurnOperator, To, Seen, Numeric
<1> QED BY <1>3, <1>4

LEMMA IdentTurns == IdentLoop => Now' = Turn(src, Now)
<1> SUFFICES ASSUME IdentLoop PROVE Now' = Turn(src, Now)
  OBVIOUS
<1>1. Quiet /\ pc = "ident" /\ Now.pc = "ident" /\ Now.ctx = ctx /\ Now.tok = tok
  BY NowIs DEF IdentLoop, At, Begotten, Building
<1>2. Turn(src, Now) = TurnIdent(src, Now)
  BY <1>1 DEF Turn
<1>3. CASE First \in IdentChar
  <2>1. Take /\ pc' = "ident"
    BY <1>3 DEF IdentLoop, Goto
  <2> QED BY <1>1, <1>2, <1>3, <2>1, NowNext, SeenByTurn
          DEF TurnIdent, On, Take, Seen, Numeric
<1>4. CASE First \notin IdentChar
  <2>1. /\ ctx' = ctx /\ pc' = "exit"
        /\ tok' = IF Text(tok) \in Keyword
                  THEN [tok EXCEPT !.kind = "KEYWORD", !.node = Text(tok)] ELSE tok
    BY <1>4 DEF IdentLoop, Goto
  <2> QED BY <1>1, <1>2, <1>4, <2>1, NowNext, SeenByTurn
          DEF TurnIdent, To, Text, Seen, Numeric
<1> QED BY <1>3, <1>4

LEMMA DigitsTurn ==
    ASSUME NEW loop \in {"integer", "fraction", "exponent"},
           NEW after \in {"point", "power", "suffix"},
           loop = "fraction" <=> after = "power",
           DigitLoop(loop, after)
    PROVE  Panic \/ (Now.pc = loop /\ Now' = TurnDigits(src, Now, after))
<1> SUFFICES ASSUME ~Panic PROVE Now.pc = loop /\ Now' = TurnDigits(src, Now, after)
  OBVIOUS
<1>1. /\ pc = loop /\ Now.pc = loop /\ Now.ctx = ctx /\ Now.tok = tok /\ Now.base = base
      /\ loop = "fraction" => Now.second = second
  BY NowIs DEF DigitLoop, At, Begotten, Building, Numeric
<1>2. CASE First = "_" \/ Among(First, Digits(base))
  <2>1. ~(First = "_" /\ ~BetweenDigits)
    <3>1. ~Among("_", Digits(base))
      BY DEF Among, Digits, Decimal
    <3> QED BY <3>1 DEF DigitLoop
  <2>2. Take /\ pc' = loop /\ base' = base /\ second' = second /\ Quiet
    BY <1>2, <2>1 DEF DigitLoop, Goto
  <2> QED BY <1>1, <1>2, <2>2, NowNext, SeenByTurn DEF TurnDigits, On, Take, Seen, Numeric
<1>3. CASE ~(First = "_" \/ Among(First, Digits(base)))
  <2>1. /\ tok' = [tok EXCEPT !.kind = IF loop = "integer" THEN @ ELSE "FLOAT"]
        /\ pc' = after /\ ctx' = ctx /\ base' = base /\ second' = second /\ Quiet
    BY <1>3 DEF DigitLoop, Goto
  <2>2. TurnDigits(src, Now, after) = To(Now, after, tok')
    BY <1>1, <1>3, <2>1, SeenByTurn DEF TurnDigits
  <2>3. Now' = Seen(ctx, after, tok', base, second, Now.cursor)
    BY <2>1, NowNext
  <2> QED BY <1>1, <2>2, <2>3 DEF To, Seen
<1> QED BY <1>2, <1>3

LEMMA NumbersTurn ==
    Integer \/ Fraction \/ Exponent => Panic \/ Now' = Turn(src, Now)
<1>1. Integer => Panic \/ Now' = Turn(src, Now)
  BY DigitsTurn DEF Integer, Turn
<1>2. Fraction => Panic \/ Now' = Turn(src, Now)
  BY DigitsTurn DEF Fraction, Turn
<1>3. Exponent => Panic \/ Now' = Turn(src, Now)
  BY DigitsTurn DEF Exponent, Turn
<1> QED BY <1>1, <1>2, <1>3

LEMMA PointTurns == Point => Panic \/ Now' = Turn(src, Now)
<1> SUFFICES ASSUME Point, ~Panic PROVE Now' = Turn(src, Now)
  OBVIOUS
<1> DEFINE ahead == Data(ctx.loc + 1)
<1>1. /\ pc = "point" /\ Now.pc = "point" /\ Now.ctx = ctx /\ Now.tok = tok /\ Now.base = base
  BY NowIs DEF Point, At, Begotten, Building, Numeric
<1>2. Turn(src, Now) = TurnPoint(src, Now)
  BY <1>1 DEF Turn
<1>3. CASE First = "." /\ ahead # "."
  <2>1. Take /\ pc' = "fraction" /\ second' = ahead /\ base' = base /\ Quiet
    BY <1>3 DEF Point, Goto
  <2> QED BY <1>1, <1>2, <1>3, <2>1, NowNext, SeenByTurn DEF TurnPoint, Take
<1>4. CASE ~(First = "." /\ ahead # ".")
  <2>1. /\ pc' = (IF First = "." THEN "exit" ELSE "power") /\ second' = ahead
        /\ ctx' = ctx /\ tok' = tok /\ base' = base /\ Quiet
    BY <1>4 DEF Point, Goto
  <2> QED BY <1>1, <1>2, <1>4, <2>1, NowNext, SeenByTurn DEF TurnPoint
<1> QED BY <1>3, <1>4

LEMMA PowerTurns == Power => Panic \/ Now' = Turn(src, Now)
<1> SUFFICES ASSUME Power, ~Panic PROVE Now' = Turn(src, Now)
  OBVIOUS
<1>1. /\ pc = "power" /\ Now.pc = "power" /\ Now.ctx = ctx /\ Now.tok = tok /\ Now.base = base
      /\ Now.second = second
  BY NowIs DEF Power, At, Begotten, Building, Numeric
<1>2. Turn(src, Now) = TurnPower(src, Now)
  BY <1>1 DEF Turn
<1>3. CASE First \notin {"e", "E"}
  <2>1. pc' = "suffix" /\ ctx' = ctx /\ tok' = tok /\ Quiet
    BY <1>3 DEF Power, Goto, local
  <2> QED BY <1>1, <1>2, <1>3, <2>1, NowNext, SeenByTurn DEF TurnPower, To, Seen, Numeric
<1>4. CASE First \in {"e", "E"}
  <2>1. pc' = "exponent" /\ base' = base /\ Quiet
    BY <1>4 DEF Power, Goto
  <2>2. \A c, t : Seen(c, "exponent", t, base, second', Now.cursor)
                    = Seen(c, "exponent", t, base, "SP", Now.cursor)
    BY DEF Seen
  <2>3. CASE second \in {"-", "+"}
    BY <1>1, <1>2, <1>4, <2>1, <2>2, <2>3, NowNext, SeenByTurn DEF TurnPower, Power
  <2>4. CASE second \notin {"-", "+"}
    <3>1. Take /\ second' = second
      BY <1>4, <2>4 DEF Power
    <3> QED BY <1>1, <1>2, <1>4, <2>1, <2>4, <3>1, NowNext, SeenByTurn
            DEF TurnPower, On, Take
  <2> QED BY <2>3, <2>4
<1> QED BY <1>3, <1>4

LEMMA SuffixTurns == Suffix => Now' = Turn(src, Now)
<1> SUFFICES ASSUME Suffix PROVE Now' = Turn(src, Now)
  OBVIOUS
<1>1. Quiet /\ pc = "suffix" /\ Now.pc = "suffix" /\ Now.ctx = ctx /\ Now.tok = tok
  BY NowIs DEF Suffix, At, Begotten, Building
<1>2. Turn(src, Now) = TurnSuffix(src, Now)
  BY <1>1 DEF Turn
<1>3. CASE Among(First, SuffixChar)
  <2>1. Take /\ pc' = "suffix"
    BY <1>3 DEF Suffix, Goto
  <2> QED BY <1>1, <1>2, <1>3, <2>1, NowNext, SeenByTurn
          DEF TurnSuffix, On, Take, Seen, Numeric
<1>4. CASE ~Among(First, SuffixChar)
  <2>1. ctx' = ctx /\ tok' = tok /\ pc' = "exit"
    BY <1>4 DEF Suffix, Goto
  <2> QED BY <1>1, <1>2, <1>4, <2>1, NowNext, SeenByTurn
          DEF TurnSuffix, To, Seen, Numeric
<1> QED BY <1>3, <1>4

(* Every step within lexer_advance is a turn, or stops the program.         *)
LEMMA StepsTurn ==
    ASSUME TypeInv, Begins \/ Loops
    PROVE  \/ Panic \/ Fault
           \/ Quiet /\ pc \in Turning \ {"exit"} /\ Now' = Turn(src, Now)
<1>1. CASE Begins
  <2>1. Begins => \/ Fault \/ Panic
                  \/ SkipWhitespace
                  \/ StartEof \/ StartString \/ StartOperator \/ StartIdent \/ StartNumber
    BY DEF Begins, StartInvalid
  <2>2. SkipWhitespace \/ StartEof \/ StartString \/ StartOperator \/ StartIdent \/ StartNumber
          => Quiet /\ pc \in {"whitespace", "start"}
    BY DEF SkipWhitespace, StartEof, StartString, StartOperator, StartIdent, StartNumber, At
  <2> QED BY <1>1, <2>1, <2>2, WhitespaceTurns, StartTurns DEF Turning
<1>2. CASE Loops
  <2>1. StringLoop \/ SkipComment \/ IdentLoop \/ Suffix
          => Quiet /\ pc \in Turning \ {"exit"}
    BY DEF StringLoop, SkipComment, IdentLoop, Suffix, At, Turning, Building
  <2>2. OperatorLoop => Fault \/ (Quiet /\ pc = "operator")
    BY DEF OperatorLoop, At
  <2>3. ASSUME NEW loop \in {"integer", "fraction", "exponent"}, NEW after,
               DigitLoop(loop, after)
        PROVE  Panic \/ (Quiet /\ pc = loop)
    BY <2>3 DEF DigitLoop, At
  <2>4. Integer \/ Fraction \/ Exponent
          => Panic \/ (Quiet /\ pc \in {"integer", "fraction", "exponent"})
    BY <2>3 DEF Integer, Fraction, Exponent
  <2>5. Point => Panic \/ (Quiet /\ pc = "point")
    BY DEF Point, At
  <2>6. Power => Panic \/ (Quiet /\ pc = "power")
    BY DEF Power, At
  <2>7. {"operator", "integer", "fraction", "exponent", "point", "power"}
          \subseteq Turning \ {"exit"}
    BY DEF Turning, Building
  <2> QED
    BY <1>2, <2>1, <2>2, <2>4, <2>5, <2>6, <2>7, StringTurns, OperatorTurns, CommentTurns,
       IdentTurns, NumbersTurn, PointTurns, PowerTurns, SuffixTurns DEF Loops
<1> QED BY <1>1, <1>2

(* A token that has begun lies behind the place its call began at.          *)
Sound(x) ==
    /\ x.cursor <= x.ctx.loc
    /\ x.pc \in Begotten /\ (x.pc = "exit" => x.tok.kind # "EOF") => x.cursor < x.ctx.loc

LEMMA OnwardIs ==
    ASSUME NEW text \in Seq(Char), NEW c \in Context
    PROVE  /\ c.loc \in Nat /\ Onward(text, c) \in Context /\ Onward(text, c).loc \in Nat
           /\ Onward(text, c).loc >= c.loc
           /\ Read(text, c) # "-1" => Onward(text, c).loc = c.loc + 1
BY DEF Context, Onward, Read, OnLast

(* A turn never moves back, and begins a call where the last one ended.     *)
LEMMA TurnGoesOn ==
    ASSUME NEW text \in Seq(Char), NEW x \in State, Sound(x)
    PROVE  Sound(Turn(text, x)) /\ x.cursor <= Turn(text, x).cursor
<1> DEFINE y == Turn(text, x)
           on == Onward(text, x.ctx)
<1>1. /\ x.ctx \in Context /\ x.cursor \in Nat /\ x.ctx.loc \in Nat
      /\ x.cursor <= x.ctx.loc
  BY DEF State, Context, Sound
<1>a. /\ on \in Context /\ on.loc \in Nat /\ on.loc >= x.ctx.loc
      /\ Read(text, x.ctx) # "-1" => on.loc = x.ctx.loc + 1
  BY <1>1, OnwardIs
<1>b. /\ Onward(text, on) \in Context /\ Onward(text, on).loc \in Nat
      /\ Onward(text, on).loc >= on.loc
  <2> HIDE DEF on
  <2> QED BY <1>a, OnwardIs
<1> HIDE DEF on
<1>2. ASSUME NEW c \in Context, NEW p, NEW t, NEW b, NEW s, c.loc >= x.ctx.loc,
             y = Seen(c, p, t, b, s, x.cursor),
             p \in Begotten /\ (p = "exit" => t.kind # "EOF") => x.cursor < c.loc
      PROVE  Sound(y) /\ x.cursor <= y.cursor
  <2>1. y.ctx = c /\ y.pc = p /\ y.cursor = x.cursor /\ (p \in Begotten => y.tok = t)
    BY <1>2 DEF Seen
  <2>2. c.loc \in Nat
    BY DEF Context
  <2> QED BY <1>1, <1>2, <2>1, <2>2 DEF Sound
<1>3. ASSUME NEW c \in Context, NEW p, c.loc >= x.ctx.loc, p \notin Begotten,
             y = Fresh(c, p, x.cursor)
      PROVE  Sound(y) /\ x.cursor <= y.cursor
  BY <1>2, <1>3 DEF Fresh
<1>4. x.pc \in {"whitespace", "comment"} => Sound(y) /\ x.cursor <= y.cursor
  <2>1. {"whitespace", "start", "comment"} \cap Begotten = {}
    BY DEF Begotten, Building
  <2> QED BY <1>1, <1>3, <1>a, <2>1 DEF Turn, TurnWhitespace, TurnComment, on
<1>5. x.pc = "exit" => Sound(y) /\ x.cursor <= y.cursor
  <2>1. "whitespace" \notin Begotten
    BY DEF Begotten, Building
  <2>2. x.pc = "exit" => y.ctx = x.ctx /\ y.pc = "whitespace" /\ y.cursor = x.ctx.loc
    BY DEF Turn, Fresh, Seen
  <2> QED BY <1>1, <2>1, <2>2 DEF Sound
<1>6. ASSUME x.pc = "start" PROVE Sound(y) /\ x.cursor <= y.cursor
  <2>1. y = TurnStart(text, x)
    BY <1>6 DEF Turn
  <2>2. CASE Read(text, x.ctx) = "-1"
    <3>1. y = Seen(on, "exit", [kind |-> "EOF", lo |-> x.ctx.loc, hi |-> x.ctx.loc,
                                node |-> <<>>], "d", "SP", x.cursor)
      BY <2>1, <2>2 DEF TurnStart, Born, on
    <3> QED BY <1>1, <1>2, <1>a, <3>1
  <2>3. CASE y = x
    BY <1>1, <2>3
  <2>4. CASE Read(text, x.ctx) # "-1" /\ y # x
    <3>1. PICK c, p, t, b : /\ c \in {on, Onward(text, on)}
                            /\ y = Seen(c, p, t, b, "SP", x.cursor)
      BY <2>1, <2>4 DEF TurnStart, Born, on
    <3>2. c \in Context /\ c.loc > x.cursor /\ c.loc >= x.ctx.loc
      BY <1>1, <1>a, <1>b, <2>4, <3>1
    <3> QED BY <1>2, <3>1, <3>2
  <2> QED BY <2>2, <2>3, <2>4
<1>7. ASSUME x.pc \in Begotten \ {"exit"} PROVE Sound(y) /\ x.cursor <= y.cursor
  <2>1. x.cursor < x.ctx.loc
    BY <1>7 DEF Sound
  <2>2. PICK c, p, t, b, s : /\ c \in {x.ctx, on, Onward(text, on)}
                             /\ y = Seen(c, p, t, b, s, x.cursor)
    <3> DEFINE Goal == \E c, p, t, b, s : /\ c \in {x.ctx, on, Onward(text, on)}
                                             /\ y = Seen(c, p, t, b, s, x.cursor)
    <3>1. ASSUME NEW c \in {x.ctx, on, Onward(text, on)}, NEW p, NEW t, NEW b, NEW s,
                 y = Seen(c, p, t, b, s, x.cursor)
          PROVE  Goal
      BY <3>1
    <3>2. \A p : y = On(text, x, p) => Goal
      BY <3>1 DEF On, on
    <3>3. \A p, t : y = To(x, p, t) => Goal
      BY <3>1 DEF To
    <3> HIDE DEF Goal
    <3>4. x.pc = "string" => Goal
      BY <3>2, <3>3 DEF Turn, TurnString
    <3>5. x.pc = "operator" => Goal
      BY <3>1, <3>3 DEF Turn, TurnOperator, on
    <3>6. x.pc = "ident" => Goal
      BY <3>2, <3>3 DEF Turn, TurnIdent
    <3>7. x.pc \in {"integer", "fraction", "exponent"} => Goal
      BY <3>2, <3>3 DEF Turn, TurnDigits
    <3>8. x.pc = "point" => Goal
      BY <3>1 DEF Turn, TurnPoint, on
    <3>9. x.pc = "power" => Goal
      BY <3>1, <3>2, <3>3 DEF Turn, TurnPower, on
    <3>10. x.pc = "suffix" => Goal
      BY <3>2, <3>3 DEF Turn, TurnSuffix
    <3>11. Goal
      BY <1>7, <3>4, <3>5, <3>6, <3>7, <3>8, <3>9, <3>10 DEF Begotten, Building
    <3> QED BY <3>11 DEF Goal
  <2> QED BY <1>1, <1>2, <1>a, <1>b, <2>1, <2>2
<1>8. x.pc = "idle" => y = x
  BY DEF Turn
<1> QED BY <1>1, <1>4, <1>5, <1>6, <1>7, <1>8 DEF State, Loop, Begotten, Building

(* A state that ends a call of the kind foretold, and one that bears the    *)
(* foretelling out.                                                         *)
Foretelling == [op : {"idle", "peek", "scan"}, token : Token, key : TokenKind, pos : Int]
Ends(x, f) ==
    x.pc = "exit" /\ (f.op = "peek" \/ KindOf(x.tok) = f.key \/ x.tok.kind = "EOF")
Answers(x, f) ==
    /\ Ends(x, f)
    /\ IF f.op = "peek" THEN x.tok = f.token
       ELSE f.pos = IF KindOf(x.tok) = f.key THEN x.cursor ELSE -1

Towards(text, X, f) ==
    /\ \A x \in State : Answers(x, f) => x \in X
    /\ \A x \in State : ~Ends(x, f) /\ Turn(text, x) \in X => x \in X
Leads(text, x, f) == \A X \in SUBSET State : Towards(text, X, f) => x \in X

LEMMA AnswerLeads ==
    ASSUME NEW text, NEW x \in State, NEW f, Answers(x, f)
    PROVE  Leads(text, x, f)
BY DEF Leads, Towards

LEMMA LeadsBack ==
    ASSUME NEW text, NEW x \in State, NEW f, ~Ends(x, f), Leads(text, Turn(text, x), f)
    PROVE  Leads(text, x, f)
BY DEF Leads, Towards

(* Turns are a function, so a foretelling that is true stays true.          *)
LEMMA LeadsOn ==
    ASSUME NEW text, NEW x \in State, NEW f, ~Ends(x, f), Leads(text, x, f)
    PROVE  Leads(text, Turn(text, x), f)
<1> SUFFICES ASSUME NEW X \in SUBSET State, Towards(text, X, f), Turn(text, x) \notin X
             PROVE  FALSE
  BY DEF Leads
<1> DEFINE Y == X \ {x}
<1>1. \A y \in State : Answers(y, f) => y \in Y
  BY DEF Towards, Answers
<1>2. \A y \in State : ~Ends(y, f) /\ Turn(text, y) \in Y => y \in Y
  BY DEF Towards
<1>3. Y \in SUBSET State /\ Towards(text, Y, f)
  BY <1>1, <1>2 DEF Towards
<1>4. x \in Y
  BY <1>3 DEF Leads
<1> QED BY <1>4

LEMMA LeadsToAnswer ==
    ASSUME NEW text, NEW x \in State, NEW f, Ends(x, f), Leads(text, x, f)
    PROVE  Answers(x, f)
<1> SUFFICES ASSUME ~Answers(x, f) PROVE FALSE
  OBVIOUS
<1> DEFINE Y == State \ {x}
<1>1. Y \in SUBSET State /\ Towards(text, Y, f)
  BY DEF Towards
<1>2. x \in Y
  BY <1>1 DEF Leads
<1> QED BY <1>2

(* A place foretold lies ahead.                                             *)
LEMMA LeadsAhead ==
    ASSUME NEW text \in Seq(Char), NEW x \in State, NEW f \in Foretelling, f.op = "scan",
           Sound(x), Leads(text, x, f)
    PROVE  f.pos = -1 \/ x.cursor <= f.pos
<1> DEFINE Y == {y \in State : Sound(y) => f.pos = -1 \/ y.cursor <= f.pos}
<1>0. f.pos \in Int
  BY DEF Foretelling
<1>1. \A y \in State : Answers(y, f) => y \in Y
  BY DEF Answers, State
<1>2. ASSUME NEW y \in State, Turn(text, y) \in Y
      PROVE  y \in Y
  <2> SUFFICES ASSUME Sound(y), f.pos # -1 PROVE y.cursor <= f.pos
    OBVIOUS
  <2>1. Sound(Turn(text, y)) /\ y.cursor <= Turn(text, y).cursor
    BY TurnGoesOn
  <2>2. Turn(text, y).cursor <= f.pos /\ Turn(text, y) \in State
    BY <1>2, <2>1
  <2>3. y.cursor \in Nat /\ Turn(text, y).cursor \in Nat
    BY <2>2 DEF State
  <2> QED BY <1>0, <2>1, <2>2, <2>3
<1>3. Y \in SUBSET State /\ Towards(text, Y, f)
  BY <1>1, <1>2 DEF Towards
<1>4. x \in Y
  BY <1>3 DEF Leads
<1> QED BY <1>4

(* What the next call of lexer_next sees, or the one in progress.           *)
Upcoming ==
    IF call.op = "next" THEN Now
    ELSE LET c == IF call.op = "idle" THEN ctx ELSE call.start
         IN  Fresh(c, "whitespace", c.loc)
Told == ~Finished /\ foretold.op # "idle" => Leads(src, Upcoming, foretold)

(* What a lookahead is about to foretell is true where it began.            *)
Meant(f) == f.op = call.op /\ (call.op = "scan" => f.key = call.key)
Telling ==
    call.op \in {"peek", "scan"} =>
        \A f \in Foretelling : Meant(f) /\ Leads(src, Now, f) => Leads(src, Upcoming, f)

Underway ==
    /\ call.op = "idle" <=> pc = "idle"
    /\ pc # "idle" => ~Finished
    /\ call.op \in {"next", "peek"} => call.cursor = call.start.loc
    /\ call.op = "next" => Sound(Now)

ForeInd == Underway /\ Told /\ Telling

LEMMA NowType == TypeInv => Now \in State
<1> SUFFICES ASSUME TypeInv PROVE Now \in State
  OBVIOUS
<1>1. NoToken \in Token /\ "SP" \in Char
  BY ConstantTypes, SomeChars DEF TypeInv
<1> QED BY <1>1 DEF TypeInv, TypeOK, Now, Seen, State, Base

LEMMA TurnBusy ==
    ASSUME NEW text, NEW x, x.pc \in Turning
    PROVE  Turn(text, x).pc # "idle"
<1>1. \A c, p, t, b, s, w : Seen(c, p, t, b, s, w).pc = p
  BY DEF Seen
<1>2. \A c, p, w : Fresh(c, p, w).pc = p
  BY <1>1 DEF Fresh
<1>3. /\ \A p : On(text, x, p).pc = p
      /\ \A p, t : To(x, p, t).pc = p
      /\ \A p, k, h, n : Born(text, x, p, k, h, n).pc = p
  BY <1>1 DEF On, To, Born
<1>4. x.pc \in {"whitespace", "comment", "exit"} => Turn(text, x).pc # "idle"
  BY <1>2 DEF Turn, TurnWhitespace, TurnComment
<1>5. x.pc = "start" => Turn(text, x).pc # "idle"
  BY <1>1, <1>3 DEF Turn, TurnStart
<1>6. x.pc \in {"string", "operator", "ident", "suffix"} => Turn(text, x).pc # "idle"
  BY <1>1, <1>3 DEF Turn, TurnString, TurnOperator, TurnIdent, TurnSuffix
<1>7. x.pc \in {"integer", "fraction", "exponent"} => Turn(text, x).pc # "idle"
  <2>1. \A after : TurnDigits(text, x, after).pc \in {x.pc, after}
    BY <1>3 DEF TurnDigits
  <2>2. /\ x.pc = "integer" => Turn(text, x).pc \in {x.pc, "point"}
        /\ x.pc = "fraction" => Turn(text, x).pc \in {x.pc, "power"}
        /\ x.pc = "exponent" => Turn(text, x).pc \in {x.pc, "suffix"}
    BY <2>1 DEF Turn
  <2> QED BY <2>2
<1>8. x.pc \in {"point", "power"} => Turn(text, x).pc # "idle"
  BY <1>1, <1>3 DEF Turn, TurnPoint, TurnPower
<1> QED BY <1>4, <1>5, <1>6, <1>7, <1>8 DEF Turning, Building

LEMMA SameForetelling ==
    ASSUME ForeInd, UNCHANGED <<src, ctx, pc, local, call, out, foretold>>
    PROVE  ForeInd'
<1>1. Now' = Now
  BY DEF Now, local
<1>2. Upcoming' = Upcoming /\ Finished' = Finished
  BY <1>1 DEF Upcoming, Finished
<1>3. Underway'
  BY <1>1, <1>2 DEF ForeInd, Underway
<1>4. Told'
  BY <1>2 DEF ForeInd, Told
<1>5. Telling'
  BY <1>1, <1>2 DEF ForeInd, Telling, Meant
<1> QED BY <1>3, <1>4, <1>5 DEF ForeInd

LEMMA StepForetelling ==
    ASSUME TypeInv, TypeInv', ForeInd, Begins \/ Loops
    PROVE  ForeInd'
<1>1. CASE Panic \/ Fault
  BY <1>1, SameForetelling DEF Panic, Fault
<1>2. CASE Quiet /\ pc \in Turning \ {"exit"} /\ Now' = Turn(src, Now)
  <2>1. /\ Now \in State /\ Now.pc = pc /\ Now'.pc = pc' /\ src \in Seq(Char)
        /\ foretold \in Foretelling
    BY NowType, NowIs DEF Now, Seen, TypeInv, TypeOK, Foretelling
  <2>2. \A f : ~Ends(Now, f)
    BY <1>2, <2>1 DEF Ends
  <2>3. pc # "idle" /\ pc' # "idle"
    BY <1>2, <2>1, TurnBusy DEF Turning, Building
  <2>4. /\ src' = src /\ call' = call /\ foretold' = foretold /\ Finished' = Finished
        /\ call.op # "idle"
    BY <1>2, <2>3 DEF Quiet, Finished, ForeInd, Underway
  <2>5. call.op = "next" => Upcoming' = Now' /\ Upcoming = Now
    BY <2>4 DEF Upcoming
  <2>6. call.op # "next" => Upcoming' = Upcoming
    BY <2>4 DEF Upcoming
  <2>7. Underway'
    <3>1. call.op = "next" => Sound(Now')
      BY <1>2, <2>1, TurnGoesOn DEF ForeInd, Underway
    <3> QED BY <2>3, <2>4, <3>1 DEF ForeInd, Underway
  <2>8. Told'
    <3>1. ASSUME ~Finished, foretold.op # "idle" PROVE Leads(src, Upcoming', foretold)
      BY <1>2, <2>1, <2>2, <2>5, <2>6, <3>1, LeadsOn DEF ForeInd, Told
    <3> QED BY <2>4, <3>1 DEF Told
  <2>9. Telling'
    <3>1. ASSUME call.op \in {"peek", "scan"}, NEW f \in Foretelling, Meant(f),
                 Leads(src, Now', f)
          PROVE  Leads(src, Upcoming', f)
      <4>1. Leads(src, Now, f)
        BY <1>2, <2>1, <2>2, <3>1, LeadsBack
      <4> QED BY <2>6, <3>1, <4>1 DEF ForeInd, Telling
    <3> QED BY <2>4, <3>1 DEF Telling, Meant
  <2> QED BY <2>7, <2>8, <2>9 DEF ForeInd
<1> QED BY <1>1, <1>2, StepsTurn

LEMMA EnterForetelling ==
    ASSUME TypeInv, ForeInd, Client
    PROVE  ForeInd'
<1>1. PICK op, key : op \in {"next", "peek", "scan"} /\ Enter(op, key)
  BY LexerAssumption DEF Client, LexerNext, LexerPeek, LexerScan
<1>2. /\ pc = "idle" /\ call.op = "idle" /\ ~Finished /\ pc' = "whitespace"
      /\ call' = [op |-> op, key |-> key, start |-> ctx, cursor |-> ctx.loc]
      /\ UNCHANGED <<src, ctx, local, out, foretold, status>>
  BY <1>1 DEF Enter, Goto, ForeInd, Underway
<1>3. Now' = Fresh(ctx, "whitespace", ctx.loc)
  BY <1>2 DEF Now, Fresh, Seen, Begotten, Building, Numeric
<1>4. Upcoming' = Upcoming /\ Finished' = Finished
  BY <1>2, <1>3 DEF Upcoming, Finished
<1>5. Underway'
  <2>1. ctx.loc \in Nat
    BY DEF TypeInv, TypeOK, Context
  <2>2. Sound(Now')
    BY <1>3, <2>1 DEF Sound, Fresh, Seen, Begotten, Building
  <2> QED BY <1>1, <1>2, <1>4, <2>2 DEF Underway
<1>6. Told'
  BY <1>2, <1>4 DEF ForeInd, Told
<1>7. Telling'
  <2>1. op # "next" => Now' = Upcoming'
    BY <1>2, <1>3 DEF Upcoming
  <2> QED BY <1>2, <2>1 DEF Telling
<1> QED BY <1>5, <1>6, <1>7 DEF ForeInd

LEMMA NextForetelling ==
    ASSUME TypeInv, ForeInd, NextReturns
    PROVE  ForeInd'
<1>1. /\ pc = "exit" /\ call.op = "next" /\ pc' = "idle" /\ call' = Idle /\ ctx' = ctx
      /\ foretold' = (IF Done THEN Nothing ELSE foretold) /\ src' = src
      /\ out' = Append(out, tok)
  BY DEF NextReturns, Returning, Answer, Goto
<1>2. Underway' /\ Telling'
  BY <1>1 DEF Underway, Telling, Idle
<1>3. Told'
  <2> SUFFICES ASSUME ~Finished', foretold'.op # "idle"
               PROVE  Leads(src, Upcoming', foretold')
    BY <1>1 DEF Told
  <2>1. ~Done /\ foretold' = foretold
    BY <1>1 DEF Nothing
  <2>2. tok.kind # "EOF"
    BY <1>1 DEF Finished, TypeInv, TypeOK
  <2>3. Now \in State /\ Now.pc = "exit" /\ Now.tok = tok /\ Now.ctx = ctx
    BY <1>1, NowType, NowIs DEF Begotten, Building
  <2>4. ~Ends(Now, foretold)
    BY <2>1, <2>2, <2>3 DEF Ends, Done
  <2>5. Leads(src, Now, foretold)
    BY <1>1, <2>1 DEF ForeInd, Told, Underway, Upcoming
  <2>6. Leads(src, Turn(src, Now), foretold)
    BY <2>3, <2>4, <2>5, LeadsOn
  <2>7. Turn(src, Now) = Fresh(ctx, "whitespace", ctx.loc)
    BY <2>3 DEF Turn
  <2>8. Upcoming' = Fresh(ctx, "whitespace", ctx.loc)
    BY <1>1 DEF Upcoming, Idle
  <2> QED BY <2>1, <2>6, <2>7, <2>8
<1> QED BY <1>2, <1>3 DEF ForeInd

LEMMA LookForetelling ==
    ASSUME TypeInv, ForeInd, PeekReturns \/ ScanFinds \/ ScanFails
    PROVE  ForeInd'
<1> DEFINE f == foretold'
<1>1. /\ pc = "exit" /\ call.op \in {"peek", "scan"} /\ pc' = "idle" /\ call' = Idle
      /\ ctx' = call.start /\ src' = src /\ out' = out
  BY DEF PeekReturns, ScanFinds, ScanFails, ScanReturns, Returning, Answer, Goto
<1>2. Underway' /\ Telling'
  BY <1>1 DEF Underway, Telling, Idle
<1>3. /\ Now \in State /\ Now.pc = "exit" /\ Now.tok = tok /\ Now.cursor = call.cursor
      /\ KindOf(tok) = <<tok.kind, tok.node>>
  BY <1>1, NowType, NowIs DEF Begotten, Building, KindOf
<1>4. f \in Foretelling
  <2>1. tok \in Token /\ NoToken \in Token /\ NoKind \in TokenKind
        /\ call.key \in TokenKind /\ call.cursor \in Int
    BY ConstantTypes DEF TypeInv, TypeOK
  <2> QED BY <2>1 DEF PeekReturns, ScanFinds, ScanFails, ScanReturns, Answer, Foretelling
<1>5. Meant(f) /\ Answers(Now, f)
  BY <1>3 DEF PeekReturns, ScanFinds, ScanFails, ScanReturns, Returning, Answer, Meant,
              Answers, Ends
<1>6. Leads(src, Upcoming, f)
  BY <1>1, <1>3, <1>4, <1>5, AnswerLeads DEF ForeInd, Telling
<1>7. Upcoming' = Upcoming
  BY <1>1 DEF Upcoming, Idle
<1> QED BY <1>1, <1>2, <1>6, <1>7 DEF ForeInd, Told

LEMMA ScanForetelling ==
    ASSUME TypeInv, ForeInd, ScanGoesOn
    PROVE  ForeInd'
<1>1. /\ pc = "exit" /\ call.op = "scan" /\ pc' = "whitespace" /\ ctx' = ctx /\ src' = src
      /\ call'.op = "scan" /\ call'.start = call.start /\ call'.key = call.key
      /\ call'.cursor = ctx.loc
      /\ out' = out /\ foretold' = foretold /\ UNCHANGED local
      /\ KindOf(tok) # call.key /\ tok.kind # "EOF"
  BY DEF ScanGoesOn, Returning, Goto, TypeInv, TypeOK
<1>2. Upcoming' = Upcoming /\ Finished' = Finished
  BY <1>1 DEF Upcoming, Finished
<1>3. Underway'
  BY <1>1, <1>2 DEF ForeInd, Underway
<1>4. Told'
  BY <1>1, <1>2 DEF ForeInd, Told
<1>5. /\ Now \in State /\ Now.pc = "exit" /\ Now.tok = tok /\ Now.ctx = ctx
  BY <1>1, NowType, NowIs DEF Begotten, Building
<1>6. Now' = Turn(src, Now)
  <2>1. Turn(src, Now) = Fresh(ctx, "whitespace", ctx.loc)
    BY <1>5 DEF Turn
  <2> QED BY <1>1, <2>1 DEF Now, Fresh, Seen, Begotten, Building, Numeric
<1>7. Telling'
  <2>1. ASSUME NEW f \in Foretelling, Meant(f), Leads(src, Now', f)
        PROVE  Leads(src, Upcoming, f)
    <3>1. ~Ends(Now, f)
      BY <1>1, <1>5, <2>1 DEF Ends, Meant
    <3>2. Leads(src, Now, f)
      BY <1>5, <1>6, <2>1, <3>1, LeadsBack
    <3> QED BY <1>1, <2>1, <3>2 DEF ForeInd, Telling
  <2> QED BY <1>1, <1>2, <2>1 DEF Telling, Meant
<1> QED BY <1>3, <1>4, <1>7 DEF ForeInd

LEMMA ForeIndNext == TypeInv /\ TypeInv' /\ ForeInd /\ [Next]_vars => ForeInd'
<1> SUFFICES ASSUME TypeInv, TypeInv', ForeInd, [Next]_vars PROVE ForeInd'
  OBVIOUS
<1>1. CASE UNCHANGED vars
  BY <1>1, SameForetelling DEF vars
<1>2. CASE Overread
  BY <1>2, SameForetelling DEF Overread, Fault
<1>3. CASE Returns
  BY <1>3, NextForetelling, LookForetelling, ScanForetelling DEF Returns
<1> QED BY <1>1, <1>2, <1>3, EnterForetelling, StepForetelling DEF Next, Internal

LEMMA ForeIndInit == Init => ForeInd
BY DEF Init, ForeInd, Underway, Told, Telling, Idle, Nothing, Finished

(* A call that returns a token bears out what was foretold of it.           *)
LEMMA Foreseen ==
    ASSUME TypeInv, ForeInd, NextReturns
    PROVE  /\ foretold.op = "peek" => tok = foretold.token
           /\ foretold.op = "scan" =>
                 (KindOf(tok) = foretold.key <=> call.start.loc = foretold.pos)
<1> SUFFICES ASSUME foretold.op \in {"peek", "scan"}
             PROVE  /\ foretold.op = "peek" => tok = foretold.token
                    /\ foretold.op = "scan" =>
                          (KindOf(tok) = foretold.key <=> call.start.loc = foretold.pos)
  OBVIOUS
<1>1. pc = "exit" /\ call.op = "next" /\ ~Finished /\ call.cursor = call.start.loc
  BY DEF NextReturns, Returning, ForeInd, Underway
<1>2. /\ Now \in State /\ Now.pc = "exit" /\ Now.tok = tok /\ Now.ctx = ctx
      /\ Now.cursor = call.start.loc
  BY <1>1, NowType, NowIs DEF Begotten, Building
<1>3. /\ foretold \in Foretelling /\ src \in Seq(Char) /\ ctx \in Context
      /\ call.start.loc \in Nat /\ ctx.loc \in Nat
  BY DEF TypeInv, TypeOK, Foretelling, Context
<1>4. Leads(src, Now, foretold)
  BY <1>1 DEF ForeInd, Told, Upcoming
<1>5. CASE Ends(Now, foretold)
  <2>1. Answers(Now, foretold)
    BY <1>2, <1>4, <1>5, LeadsToAnswer
  <2> QED BY <1>2, <1>3, <2>1 DEF Answers
<1>6. CASE ~Ends(Now, foretold)
  <2>1. foretold.op = "scan" /\ KindOf(tok) # foretold.key /\ tok.kind # "EOF"
    BY <1>2, <1>6 DEF Ends
  <2>2. Turn(src, Now) = Fresh(ctx, "whitespace", ctx.loc)
    BY <1>2 DEF Turn
  <2>3. Turn(src, Now) \in State
    <3>1. NoToken \in Token /\ "SP" \in Char /\ "whitespace" \in Loop
      BY ConstantTypes, SomeChars DEF TypeInv, Loop
    <3> QED BY <1>3, <2>2, <3>1 DEF Fresh, Seen, State, Base
  <2>4. Sound(Now) /\ call.start.loc < ctx.loc
    BY <1>1, <1>2, <2>1 DEF ForeInd, Underway, Sound, Begotten, Building
  <2>5. Sound(Turn(src, Now)) /\ Turn(src, Now).cursor = ctx.loc
    BY <1>2, <1>3, <2>2, <2>4, TurnGoesOn DEF Fresh, Seen
  <2>6. foretold.pos = -1 \/ ctx.loc <= foretold.pos
    BY <1>2, <1>3, <1>4, <1>6, <2>1, <2>3, <2>5, LeadsOn, LeadsAhead
  <2>7. foretold.pos \in Int
    BY <1>3 DEF Foretelling
  <2> QED BY <1>3, <2>1, <2>4, <2>6, <2>7
<1> QED BY <1>5, <1>6

(* lexer_peek and lexer_scan foretell lexer_next, on every text and in any  *)
(* order of calls: what lookahead leaves changed never shows.               *)
THEOREM LexerForesees == Spec => Foresight
<1> DEFINE Holds == /\ foretold.op = "peek" => tok = foretold.token
                    /\ foretold.op = "scan" =>
                          (KindOf(tok) = foretold.key <=> call.start.loc = foretold.pos)
<1>1. TypeInv /\ ForeInd /\ [Next]_vars => [out' # out => Holds]_vars
  <2> SUFFICES ASSUME TypeInv, ForeInd, Next, out' # out PROVE Holds
    BY DEF vars
  <2>1. NextReturns
    <3>1. Begins \/ Loops => out' = out
      BY StepsTurn DEF Panic, Fault, Quiet
    <3>2. Client \/ Overread => out' = out
      BY DEF Client, LexerNext, LexerPeek, LexerScan, Enter, Overread, Fault
    <3>3. PeekReturns \/ ScanFinds \/ ScanFails \/ ScanGoesOn => out' = out
      BY DEF PeekReturns, ScanFinds, ScanFails, ScanReturns, ScanGoesOn
    <3> QED BY <3>1, <3>2, <3>3 DEF Next, Internal, Returns
  <2> QED BY <2>1, Foreseen
<1> QED BY <1>1, TypeInvInit, TypeInvNext, ForeIndInit, ForeIndNext, PTL DEF Spec, Foresight
=============================================================================
