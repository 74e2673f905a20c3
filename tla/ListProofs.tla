------------------------------ MODULE ListProofs ------------------------------
(* Theorems about List, for every set of nodes and items and every word.     *)
EXTENDS List, FiniteSetTheorems, SequenceTheorems, WellFoundedInduction, TLAPS

Nodes(s) == {s[k] : k \in 1 .. Len(s)}

(* The live nodes but for those list_pop gave up are linked in the order s.  *)
Linked(s) ==
    /\ s \in Seq(Node)
    /\ \A i, j \in 1 .. Len(s) : s[i] = s[j] => i = j
    /\ head = IF Len(s) = 0 THEN NULL ELSE s[1]
    /\ \A k \in 1 .. Len(s) : child[s[k]] = IF k = Len(s) THEN NULL ELSE s[k + 1]
    /\ \A k \in 1 .. Len(s) : parent[s[k]] = IF k = 1 THEN NULL ELSE s[k - 1]
    /\ liveNode = Nodes(s) \cup dropped
    /\ Nodes(s) \cap dropped = {}

-----------------------------------------------------------------------------
(* What the walk along the child links visits                               *)

(* A set of natural numbers that is not empty has a least one.              *)
LEMMA LeastNat ==
    ASSUME NEW T, T \subseteq Nat, T # {}
    PROVE  \E n \in T : \A m \in T : n <= m
  <1> DEFINE R == OpToRel(<, Nat)
  <1>1. IsWellFoundedOn(R, Nat)
    BY NatLessThanWellFounded
  <1>2. PICK n \in T : \A m \in T : <<m, n>> \notin R
    <2> HIDE DEF R
    <2> QED BY <1>1, WFMin
  <1>3. \A m \in T : ~ (m < n)
    BY <1>2 DEF OpToRel
  <1> QED BY <1>3

LEMMA LengthIs ==
    ASSUME NEW q, NEW n \in Nat, DOMAIN q = 1 .. n, q = [k \in 1 .. n |-> q[k]]
    PROVE  Len(q) = n
  BY IsASeq

LEMMA NullNotLive ==
    ASSUME NEW s, Linked(s), dropped \subseteq Node
    PROVE  NULL \notin liveNode /\ \A k \in 1 .. Len(s) : s[k] \in liveNode /\ s[k] \in Node
  BY ListAssumption DEF Linked, Nodes

(* Step is defined, and it visits s and then NULL.                           *)
LEMMA StepIs ==
    ASSUME NEW s, Linked(s), dropped \subseteq Node
    PROVE  \A k \in Nat : Step[k] = IF k < Len(s) THEN s[k + 1] ELSE NULL
  <1> DEFINE W == [k \in Nat |-> IF k < Len(s) THEN s[k + 1] ELSE NULL]
             Turn(n) == IF n \in liveNode THEN child[n] ELSE n
  <1>1. Len(s) \in Nat
    BY DEF Linked
  <1>2. W[0] = head
    BY <1>1 DEF Linked
  <1>3. \A k \in Nat : k # 0 => W[k] = Turn(W[k - 1])
    <2> SUFFICES ASSUME NEW k \in Nat, k # 0 PROVE W[k] = Turn(W[k - 1])
      OBVIOUS
    <2>1. CASE k - 1 < Len(s)
      <3>1. k \in 1 .. Len(s) /\ W[k - 1] = s[k]
        BY <1>1, <2>1
      <3>2. s[k] \in liveNode /\ child[s[k]] = IF k = Len(s) THEN NULL ELSE s[k + 1]
        BY <3>1, NullNotLive DEF Linked
      <3> QED BY <1>1, <3>1, <3>2
    <2>2. CASE ~ (k - 1 < Len(s))
      <3>1. W[k - 1] = NULL /\ W[k] = NULL
        BY <1>1, <2>2
      <3> QED BY <3>1, NullNotLive
    <2> QED BY <2>1, <2>2
  <1>4. W = [k \in Nat |-> IF k = 0 THEN head ELSE Turn(W[k - 1])]
    BY <1>2, <1>3
  <1>5. Step = [k \in Nat |-> IF k = 0 THEN head ELSE Turn(Step[k - 1])]
    <2> HIDE DEF W
    <2> QED BY <1>4 DEF Step
  <1> HIDE DEF Turn, W
  <1>6. Step[0] = head /\ \A k \in Nat : k # 0 => Step[k] = Turn(Step[k - 1])
    BY ONLY <1>5
  <1>7. \A k \in Nat : Step[k] = W[k]
    <2> SUFFICES ASSUME NEW m \in Nat, Step[m] # W[m] PROVE FALSE
      OBVIOUS
    <2> DEFINE T == {k \in Nat : Step[k] # W[k]}
    <2>1. PICK k \in T : \A j \in T : k <= j
      <3>1. T \subseteq Nat /\ T # {}
        OBVIOUS
      <3> HIDE DEF T
      <3> QED BY <3>1, LeastNat
    <2>2. k # 0
      BY <1>2, <1>6
    <2>3. k - 1 \in Nat /\ k - 1 \notin T
      BY <2>1, <2>2
    <2>4. Step[k - 1] = W[k - 1]
      BY <2>3
    <2>5. Step[k] = W[k]
      BY <2>2, <2>4, <1>3, <1>6
    <2> QED BY <2>1, <2>5
  <1> QED BY <1>7 DEF W

LEMMA UpTo ==
    ASSUME NEW n \in Nat
    PROVE  Cardinality(1 .. n) = n /\ Cardinality(0 .. n - 1) = n
  <1>1. 1 \in Int /\ 0 \in Int /\ n \in Int /\ n - 1 \in Int
    OBVIOUS
  <1>2. Cardinality(1 .. n) = IF 1 > n THEN 0 ELSE n - 1 + 1
    BY <1>1, FS_Interval
  <1>3. Cardinality(0 .. n - 1) = IF 0 > n - 1 THEN 0 ELSE (n - 1) - 0 + 1
    BY ONLY <1>1, FS_Interval, Zenon
  <1> QED BY <1>1, <1>2, <1>3

(* There are no more nodes in a list than there are addresses.              *)
LEMMA FewNodes ==
    ASSUME NEW s, Len(s) \in Nat, s \in [1 .. Len(s) -> Node],
           \A i, j \in 1 .. Len(s) : s[i] = s[j] => i = j
    PROVE  Len(s) \in 0 .. Cardinality(Node) /\ Cardinality(Node) \in Nat
  <1>1. s \in Injection(1 .. Len(s), Node)
    BY DEF Injection, IsInjective
  <1>2. Cardinality(1 .. Len(s)) <= Cardinality(Node)
    BY <1>1, ListAssumption, FS_Injection
  <1>3. Cardinality(1 .. Len(s)) = Len(s)
    BY UpTo
  <1>4. Cardinality(Node) \in Nat
    BY ListAssumption, FS_CardinalityType
  <1> QED BY <1>2, <1>3, <1>4

LEMMA ChainBounded ==
    ASSUME NEW s, Linked(s)
    PROVE  Len(s) \in 0 .. Cardinality(Node) /\ Cardinality(Node) \in Nat
  <1>1. s \in [1 .. Len(s) -> Node] /\ Len(s) \in Nat
    BY DEF Linked
  <1>2. \A i, j \in 1 .. Len(s) : s[i] = s[j] => i = j
    BY DEF Linked
  <1> QED BY <1>1, <1>2, FewNodes

LEMMA ChainIs ==
    ASSUME NEW s, Linked(s), dropped \subseteq Node
    PROVE  Chain = s /\ Chained = Nodes(s) /\ Ends
  <1> DEFINE c == Cardinality(Node)
             visited == {k \in 0 .. c : Step[k] \in liveNode}
  <1>1. Len(s) \in 0 .. c /\ c \in Nat
    BY ChainBounded
  <1>2. \A k \in Nat : Step[k] = IF k < Len(s) THEN s[k + 1] ELSE NULL
    BY StepIs
  <1> HIDE DEF c
  <1>3. visited = 0 .. Len(s) - 1
    <2>1. ASSUME NEW k \in 0 .. c PROVE Step[k] \in liveNode <=> k < Len(s)
      <3>1. CASE k < Len(s)
        <4>1. k + 1 \in 1 .. Len(s)
          BY <1>1, <3>1
        <4> QED BY <1>1, <1>2, <3>1, <4>1, NullNotLive
      <3>2. CASE ~ (k < Len(s))
        BY <1>1, <1>2, <3>2, NullNotLive
      <3> QED BY <3>1, <3>2
    <2> QED BY ONLY <1>1, <2>1
  <1>4. Cardinality(visited) = Len(s)
    <2>1. Cardinality(0 .. Len(s) - 1) = Len(s)
      BY <1>1, UpTo
    <2> QED BY <1>3, <2>1
  <1>5. Chain = [k \in 1 .. Len(s) |-> Step[k - 1]]
    BY <1>4 DEF Chain, c
  <1>6. \A k \in 1 .. Len(s) : Step[k - 1] = s[k]
    BY <1>1, <1>2
  <1>7. s = [k \in 1 .. Len(s) |-> s[k]]
    BY DEF Linked
  <1>8. Chain = s
    BY ONLY <1>5, <1>6, <1>7
  <1>9. DOMAIN s = 1 .. Len(s)
    BY DEF Linked
  <1>10. Ends
    BY <1>1, <1>2 DEF Ends, c
  <1> QED BY <1>8, <1>9, <1>10 DEF Chained, Nodes

LEMMA NthIs ==
    ASSUME NEW s, Linked(s), dropped \subseteq Node, NEW idx \in Nat
    PROVE  Nth(idx) = IF idx < Len(s) THEN s[idx + 1] ELSE NULL
  <1>1. Step[idx] = IF idx < Len(s) THEN s[idx + 1] ELSE NULL
    BY StepIs
  <1>2. Len(s) \in Nat
    BY DEF Linked
  <1>3. idx < Len(s) => idx + 1 \in 1 .. Len(s)
    BY <1>2
  <1> QED BY <1>1, <1>3, NullNotLive DEF Nth

LEMMA TailIs ==
    ASSUME NEW s, Linked(s), dropped \subseteq Node
    PROVE  ListTail = IF Len(s) = 0 THEN NULL ELSE s[Len(s)]
  <1>1. Chain = s
    BY ChainIs
  <1>2. s = <<>> <=> Len(s) = 0
    BY DEF Linked
  <1> QED BY <1>1, <1>2 DEF ListTail

-----------------------------------------------------------------------------
(* What the steps do to the order                                           *)

Less(s, i) == [j \in 1 .. Len(s) - 1 |-> IF j < i THEN s[j] ELSE s[j + 1]]

(* list_free_node takes one node out of the order.                          *)
LEMMA FreeLinks ==
    ASSUME NEW s, Linked(s), dropped \subseteq Node,
           NEW i \in 1 .. Len(s), FreeNode(s[i]), dropped' = dropped,
           NEW t, t = Less(s, i)
    PROVE  /\ Linked(t)' /\ Len(t) = Len(s) - 1
           /\ Nodes(t) = Nodes(s) \ {s[i]}
  <1> DEFINE L    == Len(s)
             E(j) == IF j < i THEN j ELSE j + 1
             n    == s[i]
  <1>1. /\ s \in Seq(Node) /\ L \in Nat /\ L # 0 /\ n \in Node
        /\ \A j \in 1 .. L : s[j] \in Node
        /\ \A j, k \in 1 .. L : s[j] = s[k] => j = k
        /\ head = s[1]
        /\ \A k \in 1 .. L : child[s[k]] = IF k = L THEN NULL ELSE s[k + 1]
        /\ \A k \in 1 .. L : parent[s[k]] = IF k = 1 THEN NULL ELSE s[k - 1]
        /\ liveNode = Nodes(s) \cup dropped
        /\ Nodes(s) \cap dropped = {}
    BY DEF Linked
  <1>2. /\ child' = [m \in Node |-> IF m = n THEN NULL
                                    ELSE IF m = parent[n] THEN child[n] ELSE child[m]]
        /\ parent' = [m \in Node |-> IF m = n THEN NULL
                                     ELSE IF m = child[n] THEN parent[n] ELSE parent[m]]
        /\ head' = (IF n = head THEN child[n] ELSE head)
        /\ liveNode' = liveNode \ {n}
    BY DEF FreeNode, Freed
  <1>3. i \in 1 .. L /\ i \in Nat
    BY <1>1
  <1>4. /\ child[n] = IF i = L THEN NULL ELSE s[i + 1]
        /\ parent[n] = IF i = 1 THEN NULL ELSE s[i - 1]
    BY <1>1, <1>3
  <1> HIDE DEF L
  <1>5. t = [j \in 1 .. L - 1 |-> s[E(j)]]
    BY DEF Less, L
  <1>6. \A j \in 1 .. L - 1 : E(j) \in 1 .. L /\ E(j) # i
    BY <1>1, <1>3
  <1>7. \A j, k \in 1 .. L - 1 : E(j) = E(k) => j = k
    BY <1>1, <1>3
  <1>8. \A k \in 1 .. L : k # i => \E j \in 1 .. L - 1 : E(j) = k
    <2> SUFFICES ASSUME NEW k \in 1 .. L, k # i PROVE \E j \in 1 .. L - 1 : E(j) = k
      OBVIOUS
    <2>1. CASE k < i
      <3>1. k \in 1 .. L - 1 /\ E(k) = k
        BY <1>1, <1>3, <2>1
      <3> QED BY <3>1
    <2>2. CASE ~ (k < i)
      <3>1. k - 1 \in 1 .. L - 1 /\ E(k - 1) = k
        BY <1>1, <1>3, <2>2
      <3> QED BY <3>1
    <2> QED BY <2>1, <2>2
  <1>9. t \in Seq(Node) /\ Len(t) = L - 1 /\ \A j \in 1 .. L - 1 : t[j] = s[E(j)]
    <2>1. t \in [1 .. L - 1 -> Node]
      BY <1>1, <1>5, <1>6
    <2> QED BY <1>1, <1>5, <2>1
  <1>10. \A j \in 1 .. L - 1 : t[j] \in Node /\ t[j] # n
    <2> HIDE DEF E
    <2> SUFFICES ASSUME NEW j \in 1 .. L - 1 PROVE t[j] \in Node /\ t[j] # n
      OBVIOUS
    <2>1. E(j) \in 1 .. L /\ E(j) # i /\ t[j] = s[E(j)]
      BY <1>6, <1>9
    <2> QED BY <1>1, <1>3, <2>1
  <1>11. \A j, k \in 1 .. L - 1 : t[j] = t[k] => j = k
    <2> HIDE DEF E
    <2> SUFFICES ASSUME NEW j \in 1 .. L - 1, NEW k \in 1 .. L - 1, t[j] = t[k] PROVE j = k
      OBVIOUS
    <2>1. E(j) \in 1 .. L /\ E(k) \in 1 .. L /\ s[E(j)] = s[E(k)]
      BY <1>6, <1>9
    <2>2. E(j) = E(k)
      BY ONLY <1>1, <2>1
    <2> QED BY <1>7, <2>2
  <1>12. Nodes(t) = Nodes(s) \ {n}
    <2> HIDE DEF E
    <2>1. \A x \in Nodes(t) : x \in Nodes(s) /\ x # n
      BY <1>6, <1>9, <1>10 DEF Nodes, L
    <2>2. ASSUME NEW x \in Nodes(s), x # n PROVE x \in Nodes(t)
      <3>1. PICK k \in 1 .. L : x = s[k]
        BY DEF Nodes, L
      <3>2. k # i
        BY <2>2, <3>1
      <3>3. PICK j \in 1 .. L - 1 : E(j) = k
        BY <1>8, <3>2
      <3> QED BY <1>9, <3>1, <3>3 DEF Nodes
    <2> QED BY <2>1, <2>2
  <1>13. head' = IF L - 1 = 0 THEN NULL ELSE t[1]
    <2>1. CASE i = 1
      <3>1. n = head /\ head' = IF L = 1 THEN NULL ELSE s[2]
        BY <1>1, <1>2, <1>4, <2>1
      <3>2. L # 1 => t[1] = s[2]
        BY <1>1, <1>9, <2>1
      <3> QED BY <1>1, <3>1, <3>2
    <2>2. CASE i # 1
      <3>1. L > 1 /\ 1 \in 1 .. L
        BY <1>1, <1>3, <2>2
      <3>2. n # head
        BY <1>1, <1>3, <2>2, <3>1
      <3>3. t[1] = s[1]
        BY <1>1, <1>3, <1>9, <2>2, <3>1
      <3> QED BY <1>1, <1>2, <3>1, <3>2, <3>3
    <2> QED BY <2>1, <2>2
  <1>14. ASSUME NEW j \in 1 .. L - 1
         PROVE  child'[t[j]] = IF j = L - 1 THEN NULL ELSE t[j + 1]
    <2> DEFINE e == E(j)
    <2>1. e \in 1 .. L /\ e # i /\ t[j] = s[e]
      BY <1>6, <1>9
    <2>2. child[s[e]] = (IF e = L THEN NULL ELSE s[e + 1])
      BY <1>1, <2>1
    <2>3. child'[t[j]] = IF t[j] = parent[n] THEN child[n] ELSE child[s[e]]
      BY <1>2, <1>10, <2>1
    <2>4. t[j] = parent[n] <=> i # 1 /\ e = i - 1
      <3>1. CASE i = 1
        <4>1. parent[n] = NULL
          BY <1>4, <3>1
        <4> QED BY <1>10, <3>1, <4>1, ListAssumption
      <3>2. CASE i # 1
        <4>1. i - 1 \in 1 .. L /\ parent[n] = s[i - 1]
          BY <1>1, <1>3, <1>4, <3>2
        <4> QED BY <1>1, <2>1, <3>2, <4>1
      <3> QED BY <3>1, <3>2
    <2>5. j # L - 1 => j + 1 \in 1 .. L - 1 /\ t[j + 1] = s[E(j + 1)]
      <3> HIDE DEF E
      <3>1. j # L - 1 => j + 1 \in 1 .. L - 1
        BY <1>1
      <3> QED BY <3>1, <1>9
    <2>6. CASE i # 1 /\ e = i - 1
      <3>1. child'[t[j]] = IF i = L THEN NULL ELSE s[i + 1]
        BY <1>4, <2>3, <2>4, <2>6
      <3>2. j = i - 1
        BY <1>3, <2>6
      <3>3. i = L <=> j = L - 1
        BY <1>1, <1>3, <3>2
      <3>4. j # L - 1 => E(j + 1) = i + 1
        BY <1>3, <3>2
      <3> QED BY <2>5, <3>1, <3>3, <3>4
    <2>7. CASE ~ (i # 1 /\ e = i - 1)
      <3>1. child'[t[j]] = IF e = L THEN NULL ELSE s[e + 1]
        BY <2>2, <2>3, <2>4, <2>7
      <3>2. e = L <=> j = L - 1
        <4>1. CASE i = L
          BY <1>1, <1>3, <2>7, <4>1
        <4>2. CASE i # L
          BY <1>1, <1>3, <4>2
        <4> QED BY <4>1, <4>2
      <3>3. j # L - 1 => E(j + 1) = e + 1
        BY <1>1, <1>3, <2>7
      <3> QED BY <2>5, <3>1, <3>2, <3>3
    <2> QED BY <2>6, <2>7
  <1>15. ASSUME NEW j \in 1 .. L - 1
         PROVE  parent'[t[j]] = IF j = 1 THEN NULL ELSE t[j - 1]
    <2> DEFINE e == E(j)
    <2>1. e \in 1 .. L /\ e # i /\ t[j] = s[e]
      BY <1>6, <1>9
    <2>2. parent[s[e]] = (IF e = 1 THEN NULL ELSE s[e - 1])
      BY <1>1, <2>1
    <2>3. parent'[t[j]] = IF t[j] = child[n] THEN parent[n] ELSE parent[s[e]]
      BY <1>2, <1>10, <2>1
    <2>4. t[j] = child[n] <=> i # L /\ e = i + 1
      <3>1. CASE i = L
        <4>1. child[n] = NULL
          BY <1>4, <3>1
        <4> QED BY <1>10, <3>1, <4>1, ListAssumption
      <3>2. CASE i # L
        <4>1. i + 1 \in 1 .. L /\ child[n] = s[i + 1]
          BY <1>1, <1>3, <1>4, <3>2
        <4> QED BY <1>1, <2>1, <3>2, <4>1
      <3> QED BY <3>1, <3>2
    <2>5. j # 1 => j - 1 \in 1 .. L - 1 /\ t[j - 1] = s[E(j - 1)]
      <3> HIDE DEF E
      <3>1. j # 1 => j - 1 \in 1 .. L - 1
        BY <1>1
      <3> QED BY <3>1, <1>9
    <2>6. CASE i # L /\ e = i + 1
      <3>1. parent'[t[j]] = IF i = 1 THEN NULL ELSE s[i - 1]
        BY <1>4, <2>3, <2>4, <2>6
      <3>2. j = i
        BY <1>3, <2>6
      <3>3. j # 1 => E(j - 1) = i - 1
        BY <1>3, <3>2
      <3> QED BY <2>5, <3>1, <3>2, <3>3
    <2>7. CASE ~ (i # L /\ e = i + 1)
      <3>1. parent'[t[j]] = IF e = 1 THEN NULL ELSE s[e - 1]
        BY <2>2, <2>3, <2>4, <2>7
      <3>2. e = 1 <=> j = 1
        BY <1>1, <1>3, <2>7
      <3>3. j # 1 => E(j - 1) = e - 1
        BY <1>1, <1>3, <2>7
      <3> QED BY <2>5, <3>1, <3>2, <3>3
    <2> QED BY <2>6, <2>7
  <1>16. liveNode' = Nodes(t) \cup dropped' /\ Nodes(t) \cap dropped' = {}
    <2>1. n \in Nodes(s)
      BY <1>3 DEF Nodes, L
    <2> QED BY <1>1, <1>2, <1>12, <2>1
  <1> QED BY <1>9, <1>11, <1>12, <1>13, <1>14, <1>15, <1>16 DEF Linked, L

(* list_push puts a new node behind the last.                                *)
LEMMA PushLinks ==
    ASSUME NEW s, Linked(s), dropped \subseteq Node,
           NEW n \in Node, n \notin liveNode, dropped' = dropped,
           liveNode' = liveNode \cup {n},
           head' = IF head = NULL THEN n ELSE head,
           parent' = [parent EXCEPT ![n] = ListTail],
           child' = [m \in Node |-> IF m = n THEN NULL
                                    ELSE IF m = ListTail THEN n ELSE child[m]],
           parent \in [Node -> OptNode],
           NEW t, t = Append(s, n)
    PROVE  Linked(t)' /\ Len(t) = Len(s) + 1 /\ Nodes(t) = Nodes(s) \cup {n}
  <1> DEFINE L    == Len(s)
             tail == ListTail
  <1>1. /\ s \in Seq(Node) /\ L \in Nat
        /\ \A j \in 1 .. L : s[j] \in Node
        /\ \A j, k \in 1 .. L : s[j] = s[k] => j = k
        /\ head = IF L = 0 THEN NULL ELSE s[1]
        /\ \A k \in 1 .. L : child[s[k]] = IF k = L THEN NULL ELSE s[k + 1]
        /\ \A k \in 1 .. L : parent[s[k]] = IF k = 1 THEN NULL ELSE s[k - 1]
        /\ liveNode = Nodes(s) \cup dropped
        /\ Nodes(s) \cap dropped = {}
    BY DEF Linked
  <1>2. tail = IF L = 0 THEN NULL ELSE s[L]
    BY TailIs
  <1> HIDE DEF L, tail
  <1>3. /\ t \in Seq(Node) /\ Len(t) = L + 1 /\ t[L + 1] = n
        /\ \A j \in 1 .. L : t[j] = s[j]
    BY <1>1 DEF L
  <1>4. \A j \in 1 .. L : s[j] # n
    BY <1>1 DEF Nodes, L
  <1>5. \A j, k \in 1 .. L + 1 : t[j] = t[k] => j = k
    <2> SUFFICES ASSUME NEW j \in 1 .. L + 1, NEW k \in 1 .. L + 1, t[j] = t[k] PROVE j = k
      OBVIOUS
    <2>1. CASE j \in 1 .. L /\ k \in 1 .. L
      BY ONLY <2>1, <1>1, <1>3, t[j] = t[k]
    <2>2. CASE j = L + 1 /\ k \in 1 .. L
      BY ONLY <2>2, <1>3, <1>4, t[j] = t[k]
    <2>3. CASE j \in 1 .. L /\ k = L + 1
      BY ONLY <2>3, <1>3, <1>4, t[j] = t[k]
    <2> QED BY <2>1, <2>2, <2>3, <1>1
  <1>6. Nodes(t) = Nodes(s) \cup {n}
    <2>1. Nodes(t) = {t[k] : k \in 1 .. L + 1}
      BY <1>3 DEF Nodes
    <2>2. 1 .. L + 1 = (1 .. L) \cup {L + 1}
      BY <1>1
    <2> QED BY ONLY <2>1, <2>2, <1>3 DEF Nodes, L
  <1>7. head' = t[1]
    <2>1. CASE L = 0
      BY <2>1, <1>1, <1>3
    <2>2. CASE L # 0
      <3>1. 1 \in 1 .. L
        BY <1>1, <2>2
      <3>2. head # NULL
        BY <1>1, <2>2, <3>1, ListAssumption
      <3> QED BY <1>1, <1>3, <2>2, <3>1, <3>2
    <2> QED BY <2>1, <2>2
  <1>8. /\ child'[n] = NULL /\ parent'[n] = tail
        /\ \A m \in Node : m # n => /\ child'[m] = (IF m = tail THEN n ELSE child[m])
                                    /\ parent'[m] = parent[m]
    BY DEF tail
  <1>9. ASSUME NEW k \in 1 .. L + 1
        PROVE  /\ child'[t[k]] = IF k = L + 1 THEN NULL ELSE t[k + 1]
               /\ parent'[t[k]] = IF k = 1 THEN NULL ELSE t[k - 1]
    <2>1. CASE k = L + 1
      <3>1. child'[t[k]] = NULL /\ parent'[t[k]] = tail
        BY <1>3, <1>8, <2>1
      <3>2. tail = IF k = 1 THEN NULL ELSE t[k - 1]
        <4>1. CASE L = 0
          BY <4>1, <1>2, <2>1
        <4>2. CASE L # 0
          <5>1. L \in 1 .. L /\ k # 1 /\ k - 1 = L
            BY <4>2, <1>1, <2>1
          <5> QED BY <4>2, <5>1, <1>2, <1>3
        <4> QED BY <4>1, <4>2
      <3> QED BY <2>1, <3>1, <3>2
    <2>2. CASE k \in 1 .. L
      <3>1. t[k] = s[k] /\ s[k] # n /\ s[k] \in Node
        BY <2>2, <1>1, <1>3, <1>4
      <3>2. s[k] = tail <=> k = L
        <4>1. L # 0 /\ L \in 1 .. L
          BY <1>1, <2>2
        <4> QED BY ONLY <4>1, <1>1, <1>2, <2>2
      <3>3. child'[t[k]] = IF k = L + 1 THEN NULL ELSE t[k + 1]
        <4>1. CASE k = L
          BY <4>1, <1>1, <1>3, <1>8, <3>1, <3>2
        <4>2. CASE k # L
          <5>1. k + 1 \in 1 .. L /\ child[s[k]] = s[k + 1]
            BY <1>1, <2>2, <4>2
          <5>2. t[k + 1] = s[k + 1]
            BY <1>3, <5>1
          <5> QED BY <4>2, <1>1, <1>8, <2>2, <3>1, <3>2, <5>1, <5>2
        <4> QED BY <4>1, <4>2
      <3>4. parent'[t[k]] = IF k = 1 THEN NULL ELSE t[k - 1]
        <4>1. parent'[t[k]] = IF k = 1 THEN NULL ELSE s[k - 1]
          BY <1>1, <1>8, <2>2, <3>1
        <4>2. k # 1 => k - 1 \in 1 .. L
          BY <1>1, <2>2
        <4> QED BY <4>1, <4>2, <1>3
      <3> QED BY <3>3, <3>4
    <2>3. k = L + 1 \/ k \in 1 .. L
      BY <1>1
    <2> QED BY <2>1, <2>2, <2>3
  <1>10. liveNode' = Nodes(t) \cup dropped' /\ Nodes(t) \cap dropped' = {}
    BY <1>1, <1>6
  <1>11. head' = IF Len(t) = 0 THEN NULL ELSE t[1]
    BY <1>1, <1>3, <1>7
  <1> QED BY <1>3, <1>5, <1>6, <1>9, <1>10, <1>11 DEF Linked, L

-----------------------------------------------------------------------------
(* The inductive invariant                                                  *)

(* What length is once list_remove was called for an item behind the last.   *)
OneLess(s) == IF Len(s) = 0 THEN Word - 1 ELSE Len(s) - 1

(* Where the iterator and list_deinit are in the order s, and what length    *)
(* counts.                                                                  *)
Placed(s) ==
    /\ listIter \in Nodes(s) \cup {NULL}
    /\ deinit # "no" => deinit \in Nodes(s) /\ listIter = NULL
    /\ deinit = "no" /\ ~miscounted => length = Len(s)
    /\ deinit = "no" /\ miscounted => length = OneLess(s)

ListInd == ListTypeOK /\ ListFaults /\ \E s : Linked(s) /\ Placed(s)

LEMMA SameLinks ==
    ASSUME NEW s, Linked(s), UNCHANGED <<head, parent, child, liveNode, dropped>>
    PROVE  Linked(s)'
  BY DEF Linked

LEMMA FreeTyped ==
    ASSUME ListTypeOK, NEW n \in Node, FreeNode(n)
    PROVE  /\ head' \in OptNode /\ parent' \in [Node -> OptNode]
           /\ child' \in [Node -> OptNode] /\ item' \in [Node -> Item]
           /\ liveNode' \in SUBSET Node
  <1>1. child[n] \in OptNode /\ parent[n] \in OptNode /\ NULL \in OptNode /\ Zero \in Item
    BY ContainerAssumption DEF ListTypeOK, OptNode
  <1>2. item' \in [Node -> Item] /\ liveNode' \in SUBSET Node
    BY <1>1 DEF ListTypeOK, FreeNode, Freed
  <1>3. child' \in [Node -> OptNode]
    BY <1>1 DEF ListTypeOK, FreeNode
  <1>4. parent' \in [Node -> OptNode]
    BY <1>1 DEF ListTypeOK, FreeNode
  <1>5. head' \in OptNode
    BY <1>1 DEF ListTypeOK, FreeNode
  <1> QED BY <1>2, <1>3, <1>4, <1>5

LEMMA WordMod ==
    ASSUME NEW x \in Int
    PROVE  /\ x % Word \in 0 .. Word - 1
           /\ x \in 0 .. Word - 1 => x % Word = x
  BY ContainerAssumption

LEMMA WordEnds == (Word - 1 + 1) % Word = 0 /\ (0 - 1) % Word = Word - 1
  <1>1. (0 - 1) % Word = Word - 1
    BY ContainerAssumption
  <1>2. Word % Word = 0
    BY ContainerAssumption
  <1>3. Word - 1 + 1 = Word
    BY ContainerAssumption
  <1> QED BY <1>1, <1>2, <1>3

LEMMA LengthLess ==
    ASSUME NEW l \in 0 .. Word - 1
    PROVE  (l - 1) % Word \in 0 .. Word - 1
  <1>1. l - 1 \in Int
    BY ContainerAssumption
  <1> QED BY <1>1, WordMod

(* What does not touch the links.                                           *)
LEMMA StopKeepsInd ==
    ASSUME ListInd, NEW call, NEW how \in {"run", "panic", "fault"}, ListStop(call, how),
           how = "fault" => \E idx \in Index, x \in Item :
                                /\ call = <<"insert", idx, x>>
                                /\ idx < length \/ miscounted
    PROVE  ListInd'
  <1> USE DEF ListStop, links
  <1>1. ListTypeOK'
    BY DEF ListInd, ListTypeOK
  <1>2. ListFaults'
    BY DEF ListFaults, Answer
  <1>3. PICK s : Linked(s) /\ Placed(s)
    BY DEF ListInd
  <1>4. Linked(s)'
    BY <1>3, SameLinks
  <1>5. Placed(s)'
    BY <1>3 DEF Placed
  <1> QED BY <1>1, <1>2, <1>4, <1>5 DEF ListInd

LEMMA QuietKeepsInd ==
    ASSUME ListInd, listStatus = "run", deinit = "no",
           item' \in [Node -> Item], listIter' \in OptNode,
           \A s : Linked(s) /\ Placed(s) => listIter' \in Nodes(s) \cup {NULL},
           UNCHANGED <<head, length, parent, child, liveNode, dropped, miscounted>>,
           UNCHANGED <<deinit, listStatus>>
    PROVE  ListInd'
  <1>1. ListTypeOK'
    BY DEF ListInd, ListTypeOK
  <1>2. ListFaults'
    BY DEF ListFaults
  <1>3. PICK s : Linked(s) /\ Placed(s)
    BY DEF ListInd
  <1>4. Linked(s)'
    BY <1>3, SameLinks
  <1>5. Placed(s)'
    BY <1>3 DEF Placed
  <1> QED BY <1>1, <1>2, <1>4, <1>5 DEF ListInd

(* An index behind the last item is reached only where length is wrong.     *)
LEMMA InsertKeepsInd ==
    ASSUME ListInd, NEW idx \in Index, NEW x \in Item, ListInsert(idx, x)
    PROVE  ListInd'
  <1>1. listStatus = "run" /\ deinit = "no"
    BY DEF ListInsert, ListReady
  <1>2. PICK s : Linked(s) /\ Placed(s)
    BY DEF ListInd
  <1>3. Chain = s /\ Len(s) \in Nat
    BY SMTT(30), <1>2, ChainIs DEF ListInd, ListTypeOK, Linked
  <1>4. length \in Nat /\ idx \in Nat
    BY ContainerAssumption DEF ListInd, ListTypeOK
  <1>5. CASE idx > length
    BY <1>5, <1>4, StopKeepsInd DEF ListInsert
  <1>6. CASE idx = length /\ length <= Len(Chain)
    <2>1. Returns(<<"insert", idx, x>>) /\ UNCHANGED <<links, listIter>>
      BY <1>4, <1>6 DEF ListInsert
    <2> QED BY <1>1, <2>1, QuietKeepsInd DEF ListInd, ListTypeOK, Returns, links, Placed
  <1>7. CASE ~ (idx > length) /\ ~ (idx = length /\ length <= Len(Chain))
    <2>1. \/ ListStop(<<"insert", idx, x>>, "fault")
          \/ ListStop(<<"insert", idx, x>>, "panic")
      BY <1>7 DEF ListInsert
    <2>2. idx < length \/ miscounted
      <3>1. ~miscounted => length = Len(s)
        BY <1>1, <1>2 DEF Placed
      <3> QED BY <1>3, <1>4, <1>7, <3>1 DEF ListInd, ListTypeOK
    <2> QED BY <2>1, <2>2, StopKeepsInd
  <1> QED BY <1>5, <1>6, <1>7

LEMMA PushKeepsInd ==
    ASSUME ListInd, NEW x \in Item, ListPush(x)
    PROVE  ListInd'
  <1>1. CASE ListStop(<<"push", x>>, "panic")
    BY <1>1, StopKeepsInd
  <1>2. CASE ~ListStop(<<"push", x>>, "panic")
    <2>1. /\ listStatus = "run" /\ deinit = "no"
          /\ liveNode # Node
          /\ liveNode' = liveNode \cup {NewNode}
          /\ head' = (IF head = NULL THEN NewNode ELSE head)
          /\ parent' = [parent EXCEPT ![NewNode] = ListTail]
          /\ child' = [m \in Node |-> IF m = NewNode THEN NULL
                                      ELSE IF m = ListTail THEN NewNode ELSE child[m]]
          /\ item' = [item EXCEPT ![NewNode] = x]
          /\ length' = (length + 1) % Word
          /\ deinit' = deinit /\ listStatus' = listStatus
          /\ UNCHANGED <<listIter, dropped, miscounted>>
      BY <1>2 DEF ListPush, ListReady, Returns
    <2>2. PICK s : Linked(s) /\ Placed(s)
      BY DEF ListInd
    <2>3. /\ dropped \subseteq Node /\ liveNode \subseteq Node
          /\ parent \in [Node -> OptNode] /\ child \in [Node -> OptNode]
          /\ item \in [Node -> Item] /\ head \in OptNode /\ length \in 0 .. Word - 1
          /\ miscounted \in BOOLEAN /\ listIter \in OptNode
      BY DEF ListInd, ListTypeOK
    <2>4. PICK n \in Node : n = NewNode /\ n \notin liveNode
      BY <2>1, <2>3 DEF NewNode
    <2>t. PICK t : t = Append(s, n)
      OBVIOUS
    <2>n. /\ liveNode' = liveNode \cup {n}
          /\ head' = (IF head = NULL THEN n ELSE head)
          /\ parent' = [parent EXCEPT ![n] = ListTail]
          /\ child' = [m \in Node |-> IF m = n THEN NULL
                                      ELSE IF m = ListTail THEN n ELSE child[m]]
          /\ item' = [item EXCEPT ![n] = x]
          /\ dropped' = dropped
      BY <2>1, <2>4
    <2>5. Linked(t)' /\ Len(t) = Len(s) + 1 /\ Nodes(t) = Nodes(s) \cup {n}
      BY ONLY <2>n, <2>2, <2>3, <2>4, <2>t, PushLinks
    <2>6. ListTail \in OptNode
      <3>1. ListTail = IF Len(s) = 0 THEN NULL ELSE s[Len(s)]
        BY <2>2, <2>3, TailIs
      <3>2. Len(s) \in Nat /\ \A k \in 1 .. Len(s) : s[k] \in Node
        BY <2>2 DEF Linked
      <3> QED BY <3>1, <3>2 DEF OptNode
    <2>7. ListTypeOK'
      <3>1. length' \in 0 .. Word - 1
        BY <2>1, <2>3, WordMod, ContainerAssumption
      <3>2. parent' \in [Node -> OptNode] /\ item' \in [Node -> Item]
        BY <2>n, <2>3, <2>6
      <3>3. child' \in [Node -> OptNode]
        BY <2>n, <2>3, <2>4 DEF OptNode
      <3>4. head' \in OptNode /\ liveNode' \in SUBSET Node
        BY <2>n, <2>3, <2>4 DEF OptNode
      <3> QED BY <3>1, <3>2, <3>3, <3>4, <2>1 DEF ListInd, ListTypeOK
    <2>8. Placed(t)'
      <3>1. listIter' \in Nodes(t) \cup {NULL} /\ deinit' = "no"
        BY <2>1, <2>2, <2>5 DEF Placed
      <3>2. Len(t) \in 0 .. Word - 1 /\ Len(s) \in Nat
        <4>1. t \in [1 .. Len(t) -> Node] /\ Len(t) \in Nat
          BY <2>5 DEF Linked
        <4>2. \A i, j \in 1 .. Len(t) : t[i] = t[j] => i = j
          BY <2>5 DEF Linked
        <4>3. Len(t) \in 0 .. Cardinality(Node) /\ Cardinality(Node) \in Nat
          BY <4>1, <4>2, FewNodes
        <4>4. Len(s) \in Nat
          BY <2>2 DEF Linked
        <4> QED BY <4>3, <4>4, ListAssumption, ContainerAssumption
      <3>3. ASSUME ~miscounted' PROVE length' = Len(t)
        <4>1. length = Len(s)
          BY <2>1, <2>2, <3>3 DEF Placed
        <4>2. length + 1 = Len(t)
          BY <2>5, <4>1
        <4> QED BY <2>1, <3>2, <4>2, WordMod
      <3>4. ASSUME miscounted' PROVE length' = OneLess(t)
        <4>1. length = OneLess(s)
          BY <2>1, <2>2, <3>4 DEF Placed
        <4>2. CASE Len(s) = 0
          <5>1. length = Word - 1
            BY <4>1, <4>2 DEF OneLess
          <5> QED BY <2>1, <2>5, <4>2, <5>1, WordEnds DEF OneLess
        <4>3. CASE Len(s) # 0
          <5>1. length + 1 = Len(s) /\ Len(s) \in 0 .. Word - 1
            BY <2>5, <3>2, <4>1, <4>3, ContainerAssumption DEF OneLess
          <5>2. length' = Len(s)
            BY <2>1, <5>1, WordMod
          <5> QED BY <2>5, <3>2, <4>3, <5>2 DEF OneLess
        <4> QED BY <4>2, <4>3
      <3> QED BY <3>1, <3>3, <3>4 DEF Placed
    <2>9. ListFaults'
      BY <2>1 DEF ListFaults
    <2> QED BY <2>5, <2>7, <2>8, <2>9 DEF ListInd
  <1> QED BY <1>1, <1>2

LEMMA AskKeepsInd ==
    ASSUME ListInd, ListReady, deinit' = deinit, listStatus' = listStatus,
           UNCHANGED links, listIter' \in OptNode,
           \A s : Linked(s) /\ Placed(s) => listIter' \in Nodes(s) \cup {NULL}
    PROVE  ListInd'
  <1>1. item' \in [Node -> Item]
    BY DEF ListInd, ListTypeOK, links
  <1> QED BY <1>1, QuietKeepsInd DEF ListReady, links

LEMMA IterTyped ==
    ASSUME ListInd
    PROVE  listIter \in OptNode /\ \A s : Linked(s) /\ Placed(s) => listIter \in Nodes(s) \cup {NULL}
  BY DEF ListInd, ListTypeOK, Placed

LEMMA FindKeepsInd ==
    ASSUME ListInd, NEW x \in Item, ListFind(x)
    PROVE  ListInd'
  BY AskKeepsInd, IterTyped DEF ListFind, Answers

LEMMA GetKeepsInd ==
    ASSUME ListInd, NEW idx \in Index, ListGet(idx)
    PROVE  ListInd'
  <1>1. CASE idx > length
    BY <1>1, StopKeepsInd DEF ListGet
  <1>2. CASE ~ (idx > length)
    <2>1. ListReady /\ deinit' = deinit /\ listStatus' = listStatus /\ UNCHANGED links
          /\ listIter' = listIter
      BY <1>2 DEF ListGet, Answers
    <2> QED BY <2>1, AskKeepsInd, IterTyped
  <1> QED BY <1>1, <1>2

LEMMA ItemInitKeepsInd ==
    ASSUME ListInd, NEW x \in Item, ListItemInit(x)
    PROVE  ListInd'
  <1>1. item' \in [Node -> Item]
    BY DEF ListItemInit, ListInd, ListTypeOK
  <1>2. listIter' = listIter
    BY DEF ListItemInit
  <1> QED BY <1>1, <1>2, IterTyped, QuietKeepsInd DEF ListItemInit, ListReady, Returns

LEMMA IterInitKeepsInd ==
    ASSUME ListInd, ListIterInit
    PROVE  ListInd'
  <1>1. head \in OptNode
    BY DEF ListInd, ListTypeOK
  <1>2. ASSUME NEW s, Linked(s) PROVE head \in Nodes(s) \cup {NULL}
    <2>1. Len(s) \in Nat /\ head = IF Len(s) = 0 THEN NULL ELSE s[1]
      BY <1>2 DEF Linked
    <2> QED BY <2>1 DEF Nodes
  <1> QED BY <1>1, <1>2, AskKeepsInd DEF ListIterInit, Returns

LEMMA IterNextKeepsInd ==
    ASSUME ListInd, ListIterNext
    PROVE  ListInd'
  <1>1. CASE listIter = NULL
    BY <1>1, AskKeepsInd, IterTyped DEF ListIterNext, Answers
  <1>2. CASE listIter # NULL
    <2>1. PICK s : Linked(s) /\ Placed(s)
      BY DEF ListInd
    <2>2. listIter \in liveNode
      BY <1>2, <2>1 DEF Placed, Linked
    <2>3. /\ ListReady /\ deinit' = deinit /\ listStatus' = listStatus /\ UNCHANGED links
          /\ listIter' = child[listIter]
      BY <1>2, <2>2 DEF ListIterNext, Answers
    <2>4. listIter' \in OptNode
      BY <2>2, <2>3 DEF ListInd, ListTypeOK
    <2>5. ASSUME NEW r, Linked(r), Placed(r) PROVE listIter' \in Nodes(r) \cup {NULL}
      <3>1. PICK k \in 1 .. Len(r) : listIter = r[k]
        BY <1>2, <2>5 DEF Placed, Nodes
      <3>2. Len(r) \in Nat /\ child[r[k]] = IF k = Len(r) THEN NULL ELSE r[k + 1]
        BY <2>5 DEF Linked
      <3>3. k # Len(r) => k + 1 \in 1 .. Len(r)
        BY <3>2
      <3> QED BY <2>3, <3>1, <3>2, <3>3 DEF Nodes
    <2> QED BY <2>3, <2>4, <2>5, AskKeepsInd
  <1> QED BY <1>1, <1>2

(* A node is taken out by list_remove or list_pop.                          *)
LEMMA TakeKeepsInd ==
    ASSUME ListInd, ListReady, NEW s, Linked(s), Placed(s), NEW i \in 1 .. Len(s),
           FreeNode(s[i]), listIter = NULL \/ listIter # s[i],
           length' = (length - 1) % Word,
           UNCHANGED <<listIter, deinit, listStatus, dropped, miscounted>>
    PROVE  ListInd'
  <1>1. PICK t : t = Less(s, i)
    OBVIOUS
  <1>2. dropped \subseteq Node /\ length \in 0 .. Word - 1 /\ ListTypeOK
    BY DEF ListInd, ListTypeOK
  <1>3. Linked(t)' /\ Len(t) = Len(s) - 1 /\ Nodes(t) = Nodes(s) \ {s[i]}
    BY <1>1, <1>2, FreeLinks
  <1>4. s[i] \in Node /\ Len(s) \in Nat
    BY DEF Linked
  <1>5. ListTypeOK'
    <2>1. length' \in 0 .. Word - 1
      BY <1>2, LengthLess
    <2>2. /\ head' \in OptNode /\ parent' \in [Node -> OptNode]
          /\ child' \in [Node -> OptNode] /\ item' \in [Node -> Item]
          /\ liveNode' \in SUBSET Node
      BY <1>2, <1>4, FreeTyped
    <2> QED BY <2>1, <2>2 DEF ListInd, ListTypeOK
  <1>6. Placed(t)'
    <2>1. listIter' \in Nodes(t) \cup {NULL} /\ deinit' = "no"
      BY <1>3 DEF Placed, ListReady
    <2>2. ASSUME ~miscounted' PROVE length' = Len(t)
      <3>1. length = Len(s)
        BY <2>2 DEF Placed, ListReady
      <3>2. length - 1 \in 0 .. Word - 1
        BY <1>2, <1>4, <3>1, ContainerAssumption
      <3>3. length' = length - 1
        BY <3>2, WordMod
      <3> QED BY <1>3, <3>1, <3>3
    <2>3. ASSUME miscounted' PROVE length' = OneLess(t)
      <3>1. length = Len(s) - 1 /\ Len(s) \in Nat \ {0}
        BY <1>4, <2>3 DEF Placed, ListReady, OneLess
      <3>2. CASE Len(s) = 1
        <4>1. length = 0 /\ Len(t) = 0
          BY <1>3, <3>1, <3>2
        <4> QED BY <4>1, WordEnds DEF OneLess
      <3>3. CASE Len(s) # 1
        <4>1. length - 1 \in 0 .. Word - 1 /\ Len(t) # 0 /\ Len(t) - 1 = length - 1
          BY <1>2, <1>3, <3>1, <3>3, ContainerAssumption
        <4> QED BY <4>1, WordMod DEF OneLess
      <3> QED BY <3>2, <3>3
    <2> QED BY <2>1, <2>2, <2>3 DEF Placed
  <1>7. ListFaults'
    BY DEF ListFaults, ListReady
  <1> QED BY <1>3, <1>5, <1>6, <1>7 DEF ListInd

LEMMA RemoveKeepsInd ==
    ASSUME ListInd, NEW idx \in Index, IterSpared(Nth(idx)), OneSlip(idx),
           ListRemove(idx)
    PROVE  ListInd'
  <1>1. CASE idx > length
    BY <1>1, StopKeepsInd DEF ListRemove
  <1>2. CASE ~ (idx > length)
    <2>1. PICK s : Linked(s) /\ Placed(s)
      BY DEF ListInd
    <2>2. idx \in Nat /\ Len(s) \in Nat /\ dropped \subseteq Node /\ length \in 0 .. Word - 1
      BY <2>1, ContainerAssumption DEF Linked, ListInd, ListTypeOK
    <2>3. Nth(idx) = IF idx < Len(s) THEN s[idx + 1] ELSE NULL
      BY <2>1, <2>2, NthIs
    <2>4. /\ ListReady /\ length' = (length - 1) % Word
          /\ UNCHANGED <<listIter, deinit, listStatus, dropped>>
      BY <1>2 DEF ListRemove, Returns
    <2>5. CASE idx < Len(s)
      <3>1. idx + 1 \in 1 .. Len(s) /\ Nth(idx) = s[idx + 1]
        BY <2>2, <2>3, <2>5
      <3>2. Nth(idx) # NULL
        BY <2>1, <2>2, <3>1, NullNotLive
      <3>3. FreeNode(s[idx + 1]) /\ miscounted' = miscounted
        BY <1>2, <3>1, <3>2 DEF ListRemove
      <3>4. listIter = NULL \/ listIter # s[idx + 1]
        BY <3>1 DEF IterSpared
      <3> QED BY <2>1, <2>4, <3>1, <3>3, <3>4, TakeKeepsInd
    <2>6. CASE ~ (idx < Len(s))
      <3>1. miscounted' = TRUE /\ UNCHANGED <<head, parent, child, item, liveNode>>
        BY <1>2, <2>3, <2>6 DEF ListRemove
      <3>2. Linked(s)'
        BY <2>1, <2>4, <3>1, SameLinks
      <3>3. Placed(s)'
        <4>1. ~miscounted
          BY <2>1, <2>2, <2>6, ChainIs DEF OneSlip, ListInd
        <4>2. length = Len(s)
          BY <2>1, <2>4, <4>1 DEF Placed, ListReady
        <4>3. length' = OneLess(s)
          <5>1. CASE Len(s) = 0
            BY <2>4, <4>2, <5>1, WordEnds DEF OneLess
          <5>2. CASE Len(s) # 0
            <6>1. length - 1 \in 0 .. Word - 1
              BY <2>2, <4>2, <5>2, ContainerAssumption
            <6> QED BY <2>4, <4>2, <5>2, <6>1, WordMod DEF OneLess
          <5> QED BY <5>1, <5>2
        <4> QED BY <2>1, <2>4, <3>1, <4>3 DEF Placed, ListReady
      <3>4. length' \in 0 .. Word - 1
        BY <2>2, <2>4, LengthLess
      <3>5. ListTypeOK'
        BY <2>4, <3>1, <3>4 DEF ListInd, ListTypeOK
      <3>6. ListFaults'
        BY <2>4 DEF ListFaults, ListReady
      <3> QED BY <3>2, <3>3, <3>5, <3>6 DEF ListInd
    <2> QED BY <2>5, <2>6
  <1> QED BY <1>1, <1>2

LEMMA PopKeepsInd ==
    ASSUME ListInd, IterSpared(ListTail), ListPop
    PROVE  ListInd'
  <1> DEFINE tail == ListTail
  <1>1. PICK s : Linked(s) /\ Placed(s)
    BY DEF ListInd
  <1>2. /\ Len(s) \in Nat /\ dropped \subseteq Node /\ length \in 0 .. Word - 1
        /\ \A k \in 1 .. Len(s) : s[k] \in Node
        /\ ListReady
    BY <1>1 DEF Linked, ListInd, ListTypeOK, ListPop
  <1>3. tail = IF Len(s) = 0 THEN NULL ELSE s[Len(s)]
    BY <1>1, <1>2, TailIs
  <1>4. CASE Len(s) = 0
    <2>1. Answers(<<"pop">>, NULL) /\ listIter' = listIter
      BY <1>3, <1>4 DEF ListPop
    <2> QED BY <1>2, <2>1, AskKeepsInd, IterTyped DEF Answers
  <1>5. CASE Len(s) # 0
    <2>1. Len(s) \in 1 .. Len(s) /\ tail = s[Len(s)] /\ tail \in Node
      BY <1>2, <1>3, <1>5
    <2>2. tail # NULL
      BY <2>1, ListAssumption
    <2>3. parent[tail] = IF Len(s) = 1 THEN NULL ELSE s[Len(s) - 1]
      BY <1>1, <2>1 DEF Linked
    <2> HIDE DEF tail
    <2>4. CASE ListStop(<<"pop">>, "panic")
      BY <2>4, StopKeepsInd
    <2>5. CASE parent[tail] # NULL /\ ~ListStop(<<"pop">>, "panic")
      <3>1. /\ FreeNode(tail) /\ dropped' = dropped /\ length' = (length - 1) % Word
            /\ UNCHANGED <<listIter, deinit, listStatus, miscounted>>
        BY <2>2, <2>5 DEF ListPop, tail
      <3>2. listIter = NULL \/ listIter # s[Len(s)]
        BY <2>1 DEF IterSpared, tail
      <3> QED BY <1>1, <1>2, <2>1, <3>1, <3>2, TakeKeepsInd
    <2>6. CASE parent[tail] = NULL /\ ~ListStop(<<"pop">>, "panic")
      <3>1. /\ head' = (IF tail = head THEN NULL ELSE head)
            /\ dropped' = dropped \cup {tail} /\ length' = (length - 1) % Word
            /\ UNCHANGED <<parent, child, item, liveNode>>
            /\ UNCHANGED <<listIter, deinit, listStatus, miscounted>>
        BY <2>2, <2>6 DEF ListPop, tail
      <3>2. Len(s) = 1
        <4>1. Len(s) # 1 => Len(s) - 1 \in 1 .. Len(s)
          BY ONLY <1>2, <1>5
        <4> QED BY <1>2, <2>3, <2>6, <4>1, ListAssumption
      <3>3. tail = head /\ Nodes(s) = {tail}
        BY <1>1, <2>1, <3>2 DEF Linked, Nodes
      <3>4. PICK t : t = <<>>
        OBVIOUS
      <3>5. t \in Seq(Node) /\ Len(t) = 0 /\ Nodes(t) = {}
        BY <3>4 DEF Nodes
      <3>6. head' = NULL /\ liveNode' = dropped'
        BY <1>1, <3>1, <3>3 DEF Linked
      <3>7. Linked(t)'
        BY ONLY <3>5, <3>6 DEF Linked
      <3>8. Placed(t)'
        <4>1. listIter' = NULL /\ deinit' = "no"
          BY <1>1, <1>2, <3>1, <3>3 DEF Placed, IterSpared, ListReady, tail
        <4>2. ASSUME ~miscounted' PROVE length' = 0
          <5>1. length = 1
            BY <1>1, <1>2, <3>1, <3>2, <4>2 DEF Placed, ListReady
          <5>2. length - 1 = 0 /\ 0 \in 0 .. Word - 1
            BY <5>1, ContainerAssumption
          <5>3. 0 % Word = 0
            BY <5>2, WordMod
          <5> QED BY <3>1, <5>2, <5>3
        <4>3. ASSUME miscounted' PROVE length' = Word - 1
          <5>1. length = 0
            BY <1>1, <1>2, <3>1, <3>2, <4>3 DEF Placed, ListReady, OneLess
          <5> QED BY <3>1, <5>1, WordEnds
        <4> QED BY <4>1, <4>2, <4>3, <3>5 DEF Placed, OneLess
      <3>9. ListTypeOK'
        <4>1. length' \in 0 .. Word - 1
          BY <1>2, <3>1, LengthLess
        <4>2. dropped' \in SUBSET Node /\ head' \in OptNode
          BY <1>2, <2>1, <3>1, <3>6 DEF OptNode
        <4> QED BY <3>1, <4>1, <4>2 DEF ListInd, ListTypeOK
      <3>10. ListFaults'
        BY <1>2, <3>1 DEF ListFaults, ListReady
      <3> QED BY <3>7, <3>8, <3>9, <3>10 DEF ListInd
    <2> QED BY <2>4, <2>5, <2>6
  <1> QED BY <1>4, <1>5

LEMMA DeinitKeepsInd ==
    ASSUME ListInd, ListDeinit
    PROVE  ListInd'
  <1>1. PICK s : Linked(s) /\ Placed(s)
    BY DEF ListInd
  <1>2. /\ ListReady /\ listIter' = NULL
        /\ UNCHANGED <<head, parent, child, item, liveNode, listStatus, dropped>>
    BY DEF ListDeinit
  <1>3. Linked(s)'
    BY <1>1, <1>2, SameLinks
  <1>4. Len(s) \in Nat /\ head = (IF Len(s) = 0 THEN NULL ELSE s[1])
        /\ \A k \in 1 .. Len(s) : s[k] \in Node
    BY <1>1 DEF Linked
  <1>5. ListFaults'
    BY <1>2 DEF ListFaults, ListReady
  <1>6. NULL \in OptNode /\ 0 \in 0 .. Word - 1
    BY ContainerAssumption DEF OptNode
  <1>7. CASE head = NULL
    <2>1. length' = 0 /\ miscounted' = FALSE /\ deinit' = deinit
      BY <1>7 DEF ListDeinit
    <2>2. Len(s) = 0
      BY <1>4, <1>7, ListAssumption
    <2>3. ListTypeOK'
      BY <1>2, <1>6, <2>1 DEF ListInd, ListTypeOK
    <2>4. Placed(s)'
      BY <1>2, <2>1, <2>2 DEF Placed, ListReady
    <2> QED BY <1>3, <1>5, <2>3, <2>4 DEF ListInd
  <1>8. CASE head # NULL
    <2>1. deinit' = head /\ UNCHANGED <<length, miscounted>>
      BY <1>8 DEF ListDeinit
    <2>2. 1 \in 1 .. Len(s) /\ head = s[1] /\ head \in Node
      BY <1>4, <1>8
    <2>3. ListTypeOK'
      BY <1>2, <1>6, <2>1, <2>2 DEF ListInd, ListTypeOK
    <2>4. head \in Nodes(s) /\ head # "no"
      BY <2>2, ListAssumption DEF Nodes
    <2>5. Placed(s)'
      BY <1>2, <2>1, <2>4 DEF Placed
    <2> QED BY <1>3, <1>5, <2>3, <2>5 DEF ListInd
  <1> QED BY <1>7, <1>8

(* The loop of list_deinit never meets memory that is not live.             *)
LEMMA TurnKeepsInd ==
    ASSUME ListInd, ListDeinitTurn
    PROVE  ListInd'
  <1>1. PICK s : Linked(s) /\ Placed(s)
    BY DEF ListInd
  <1>2. listStatus = "run" /\ deinit # "no" /\ UNCHANGED <<listIter, listReply, dropped>>
    BY DEF ListDeinitTurn
  <1>3. deinit \in Nodes(s) /\ listIter = NULL
    BY <1>1, <1>2 DEF Placed
  <1>4. PICK i \in 1 .. Len(s) : deinit = s[i]
    BY <1>3 DEF Nodes
  <1>5. /\ Len(s) \in Nat /\ dropped \subseteq Node /\ ListTypeOK
        /\ length \in 0 .. Word - 1
        /\ \A k \in 1 .. Len(s) : s[k] \in liveNode /\ s[k] \in Node
        /\ \A j, k \in 1 .. Len(s) : s[j] = s[k] => j = k
        /\ child[deinit] = (IF i = Len(s) THEN NULL ELSE s[i + 1])
        /\ parent[deinit] = (IF i = 1 THEN NULL ELSE s[i - 1])
    <2>1. ListTypeOK /\ dropped \subseteq Node /\ length \in 0 .. Word - 1
      BY DEF ListInd, ListTypeOK
    <2>2. \A k \in 1 .. Len(s) : s[k] \in liveNode /\ s[k] \in Node
      BY <1>1, <2>1, NullNotLive
    <2>3. /\ Len(s) \in Nat
          /\ \A j, k \in 1 .. Len(s) : s[j] = s[k] => j = k
          /\ child[s[i]] = (IF i = Len(s) THEN NULL ELSE s[i + 1])
          /\ parent[s[i]] = (IF i = 1 THEN NULL ELSE s[i - 1])
      BY <1>1 DEF Linked
    <2> QED BY <1>4, <2>1, <2>2, <2>3
  <1>6. /\ i # 1 => i - 1 \in 1 .. Len(s)
        /\ i # Len(s) => i + 1 \in 1 .. Len(s)
    BY ONLY <1>5, i \in 1 .. Len(s)
  <1>7. {deinit, parent[deinit]} \subseteq liveNode \cup {NULL}
    BY <1>4, <1>5, <1>6
  <1>8. /\ parent[deinit] # NULL <=> i # 1
        /\ child[deinit] # NULL <=> i # Len(s)
    BY <1>5, <1>6, ListAssumption
  <1>9. listStatus' = "run"
    BY <1>2, <1>7 DEF ListDeinitTurn
  <1>10. ListFaults'
    BY <1>9 DEF ListFaults
  <1>11. CASE i # 1
    <2>1. /\ FreeNode(s[i - 1]) /\ dropped' = dropped
          /\ deinit' = (IF i # Len(s) THEN s[i + 1] ELSE s[i])
          /\ UNCHANGED <<length, miscounted>>
      BY <1>2, <1>4, <1>5, <1>7, <1>8, <1>11 DEF ListDeinitTurn
    <2>2. PICK t : t = Less(s, i - 1)
      OBVIOUS
    <2>3. Linked(t)' /\ Len(t) = Len(s) - 1 /\ Nodes(t) = Nodes(s) \ {s[i - 1]}
      BY <1>1, <1>5, <1>6, <1>11, <2>1, <2>2, FreeLinks
    <2>4. PICK k \in 1 .. Len(s) : deinit' = s[k] /\ k # i - 1
      <3>1. CASE i = Len(s)
        BY ONLY <3>1, <2>1, i \in 1 .. Len(s), <1>5
      <3>2. CASE i # Len(s)
        <4>1. i + 1 \in 1 .. Len(s) /\ i + 1 # i - 1
          BY ONLY <3>2, <1>6, i \in 1 .. Len(s), <1>5
        <4> QED BY <3>2, <4>1, <2>1
      <3> QED BY <3>1, <3>2
    <2>5. deinit' \in Nodes(t) /\ deinit' \in Node
      <3>1. s[k] # s[i - 1] /\ s[k] \in Node
        BY <1>5, <1>6, <1>11, <2>4
      <3> QED BY <2>3, <2>4, <3>1 DEF Nodes
    <2>6. Placed(t)'
      BY <1>2, <1>3, <2>5, ListAssumption DEF Placed
    <2>7. ListTypeOK'
      <3>1. /\ head' \in OptNode /\ parent' \in [Node -> OptNode]
            /\ child' \in [Node -> OptNode] /\ item' \in [Node -> Item]
            /\ liveNode' \in SUBSET Node
        BY <1>5, <1>6, <1>11, <2>1, FreeTyped
      <3> QED BY <3>1, <1>2, <1>5, <1>9, <2>1, <2>5 DEF ListTypeOK
    <2> QED BY <1>10, <2>3, <2>6, <2>7 DEF ListInd
  <1>12. CASE i = 1 /\ i # Len(s)
    <2>1. /\ deinit' = s[i + 1]
          /\ UNCHANGED <<head, length, parent, child, item, liveNode, miscounted>>
      BY <1>5, <1>7, <1>8, <1>12 DEF ListDeinitTurn
    <2>2. Linked(s)'
      BY <1>1, <1>2, <2>1, SameLinks
    <2>3. deinit' \in Nodes(s) /\ deinit' \in Node
      BY <1>5, <1>6, <1>12, <2>1 DEF Nodes
    <2>4. Placed(s)'
      BY <1>2, <1>3, <2>3, ListAssumption DEF Placed
    <2>5. ListTypeOK'
      BY <1>2, <1>5, <1>9, <2>1, <2>3 DEF ListTypeOK
    <2> QED BY <1>10, <2>2, <2>4, <2>5 DEF ListInd
  <1>13. CASE i = 1 /\ i = Len(s)
    <2>1. /\ FreeNode(s[i]) /\ length' = 0 /\ miscounted' = FALSE /\ deinit' = "no"
          /\ dropped' = dropped
      BY <1>2, <1>4, <1>7, <1>8, <1>13 DEF ListDeinitTurn
    <2>2. PICK t : t = Less(s, i)
      OBVIOUS
    <2>3. Linked(t)' /\ Len(t) = Len(s) - 1 /\ Nodes(t) = Nodes(s) \ {s[i]}
      BY <1>1, <1>5, <2>1, <2>2, FreeLinks
    <2>4. Len(t) = 0
      BY <1>5, <1>13, <2>3
    <2>5. Placed(t)'
      BY <1>2, <1>3, <2>1, <2>4 DEF Placed
    <2>6. ListTypeOK'
      <3>1. /\ head' \in OptNode /\ parent' \in [Node -> OptNode]
            /\ child' \in [Node -> OptNode] /\ item' \in [Node -> Item]
            /\ liveNode' \in SUBSET Node
        BY <1>4, <1>5, <2>1, FreeTyped
      <3>2. length' \in 0 .. Word - 1
        BY <2>1, ContainerAssumption
      <3> QED BY <3>1, <3>2, <1>2, <1>5, <1>9, <2>1 DEF ListTypeOK
    <2> QED BY <1>10, <2>3, <2>5, <2>6 DEF ListInd
  <1> QED BY <1>11, <1>12, <1>13

LEMMA ListInitially == ListInit => ListInd
  <1> SUFFICES ASSUME ListInit PROVE ListInd
    OBVIOUS
  <1>1. PICK s : s = <<>>
    OBVIOUS
  <1>2. s \in Seq(Node) /\ Len(s) = 0 /\ Nodes(s) = {}
    BY <1>1 DEF Nodes
  <1>3. Linked(s) /\ Placed(s)
    BY <1>2 DEF Linked, Placed, ListInit
  <1>4. ListTypeOK
    <2>1. 0 \in 0 .. Word - 1 /\ NULL \in OptNode /\ Zero \in Item
      BY ContainerAssumption DEF OptNode
    <2> QED BY <2>1 DEF ListInit, ListTypeOK
  <1>5. ListFaults
    BY DEF ListInit, ListFaults
  <1> QED BY <1>3, <1>4, <1>5 DEF ListInd

LEMMA ListStep == ListInd /\ [ListNext]_listVars => ListInd'
  <1> SUFFICES ASSUME ListInd, [ListNext]_listVars PROVE ListInd'
    OBVIOUS
  <1>1. CASE UNCHANGED listVars
    <2>1. UNCHANGED <<links, listIter, deinit, listReply, listStatus>>
      BY <1>1 DEF listVars
    <2>2. PICK s : Linked(s) /\ Placed(s)
      BY DEF ListInd
    <2>3. Linked(s)'
      BY <2>1, <2>2, SameLinks DEF links
    <2>4. Placed(s)'
      BY <2>1, <2>2 DEF Placed, links
    <2>5. ListTypeOK' /\ ListFaults'
      BY <2>1 DEF ListInd, ListTypeOK, ListFaults, links
    <2> QED BY <2>3, <2>4, <2>5 DEF ListInd
  <1>2. ASSUME NEW x \in Item, ListPush(x) \/ ListFind(x) \/ ListItemInit(x) PROVE ListInd'
    BY <1>2, PushKeepsInd, FindKeepsInd, ItemInitKeepsInd
  <1>3. ASSUME NEW idx \in Index, NEW x \in Item, ListInsert(idx, x) PROVE ListInd'
    BY <1>3, InsertKeepsInd
  <1>7. ASSUME NEW idx \in Index, ListGet(idx) PROVE ListInd'
    BY <1>7, GetKeepsInd
  <1>4. ASSUME NEW idx \in Index, IterSpared(Nth(idx)), OneSlip(idx), ListRemove(idx)
        PROVE  ListInd'
    BY <1>4, RemoveKeepsInd
  <1>5. ASSUME IterSpared(ListTail), ListPop PROVE ListInd'
    BY <1>5, PopKeepsInd
  <1>6. ASSUME ListIterInit \/ ListIterNext \/ ListDeinit \/ ListDeinitTurn PROVE ListInd'
    BY <1>6, IterInitKeepsInd, IterNextKeepsInd, DeinitKeepsInd, TurnKeepsInd
  <1> QED BY <1>1, <1>2, <1>3, <1>4, <1>5, <1>6, <1>7 DEF ListNext

-----------------------------------------------------------------------------
(* The inductive invariant: there is an order in which all links agree.      *)
THEOREM ListInvariant == ListSpec => []ListInd
  BY ListInitially, ListStep, PTL DEF ListSpec

(* Every variable of a list keeps its type, length its width included.       *)
THEOREM ListTyped == ListSpec => []ListTypeOK
  <1>1. ListInd => ListTypeOK
    BY DEF ListInd
  <1> QED BY <1>1, ListInvariant, PTL

(* No call but list_insert follows a link to memory that is not live; not    *)
(* even the loop of list_deinit, which frees the node behind it.             *)
THEOREM ListSafe == ListSpec => []ListFaults
  <1>1. ListInd => ListFaults
    BY DEF ListInd
  <1> QED BY <1>1, ListInvariant, PTL

(* The walk from the head ends, the parent links lead back along it, it      *)
(* meets every node that is allocated and was not given up, and length       *)
(* counts its nodes unless list_remove was called for an index behind them.  *)
THEOREM ListWellLinked == ListSpec => []ListChain
  <1>1. ListInd => ListChain
    <2> SUFFICES ASSUME ListInd PROVE ListChain
      OBVIOUS
    <2>1. PICK s : Linked(s) /\ Placed(s)
      BY DEF ListInd
    <2>2. Chain = s /\ Chained = Nodes(s) /\ Ends
      BY <2>1, ChainIs DEF ListInd, ListTypeOK
    <2>3. DOMAIN s = 1 .. Len(s)
      BY <2>1 DEF Linked
    <2> QED BY <2>1, <2>2, <2>3 DEF ListChain, Linked, Placed
  <1> QED BY <1>1, ListInvariant, PTL

-----------------------------------------------------------------------------
(* The refinement: what the sequence is, and where its iterator              *)

Items(s) == [k \in 1 .. Len(s) |-> item[s[k]]]

(* The order is determined by the links.                                    *)
LEMMA OrderIs ==
    \A s : Linked(s) /\ dropped \subseteq Node => Chain = s
  <1> SUFFICES ASSUME NEW s, Linked(s), dropped \subseteq Node PROVE Chain = s
    OBVIOUS
  <1> QED BY ChainIs

LEMMA OrderAfter ==
    (\A s : Linked(s) /\ dropped \subseteq Node => Chain = s)'
  BY OrderIs, PTL

LEMMA PlacedAfter ==
    ASSUME ListInd', NEW t, Linked(t)'
    PROVE  Placed(t)'
  <1>1. PICK r : Linked(r)' /\ Placed(r)'
    BY DEF ListInd
  <1>2. dropped' \subseteq Node
    BY DEF ListInd, ListTypeOK
  <1>3. r = t
    BY <1>1, <1>2, OrderAfter
  <1> QED BY <1>1, <1>3

(* The sequence and its cursor, by the order.                               *)
Shown(s) ==
    Linked(s) /\ Placed(s) /\ ListTypeOK =>
    /\ deinit = "no" => /\ ListItems = Items(s)
                        /\ listIter = NULL => ListCursor = Len(s) + 1
    /\ \A k \in 1 .. Len(s) : listIter = s[k] => ListCursor = k
    /\ deinit # "no" => ListItems = <<>> /\ ListCursor = 1

LEMMA ShownIs == \A s : Shown(s)
  <1> SUFFICES ASSUME NEW s, Linked(s), Placed(s), ListTypeOK
               PROVE  /\ deinit = "no" => /\ ListItems = Items(s)
                                          /\ listIter = NULL => ListCursor = Len(s) + 1
                      /\ \A k \in 1 .. Len(s) : listIter = s[k] => ListCursor = k
                      /\ deinit # "no" => ListItems = <<>> /\ ListCursor = 1
    BY DEF Shown
  <1>1. Chain = s /\ Len(s) \in Nat /\ DOMAIN s = 1 .. Len(s)
    BY ChainIs DEF ListTypeOK, Linked
  <1>2. deinit = "no" => ListItems = Items(s)
    BY <1>1 DEF ListItems, Items
  <1>3. Len(Items(s)) = Len(s)
    <2>1. DOMAIN Items(s) = 1 .. Len(s)
      BY DEF Items
    <2> QED BY <1>1, <2>1, LengthIs DEF Items
  <1>4. deinit = "no" /\ listIter = NULL => ListCursor = Len(s) + 1
    BY <1>2, <1>3 DEF ListCursor
  <1>5. ASSUME NEW k \in 1 .. Len(s), listIter = s[k] PROVE ListCursor = k
    <2>1. listIter # NULL
      BY <1>5, ListAssumption DEF Linked
    <2>2. ListCursor = CHOOSE j \in 1 .. Len(s) : s[j] = listIter
      BY <1>1, <2>1 DEF ListCursor
    <2>3. \A j \in 1 .. Len(s) : s[j] = listIter <=> j = k
      BY <1>5 DEF Linked
    <2> QED BY <2>2, <2>3
  <1>6. deinit # "no" => ListItems = <<>> /\ ListCursor = 1
    <2>1. deinit # "no" => listIter = NULL /\ ListItems = <<>>
      BY DEF Placed, ListItems
    <2> QED BY <2>1 DEF ListCursor
  <1> QED BY <1>2, <1>4, <1>5, <1>6

LEMMA ShownAfter == (\A s : Shown(s))'
  BY ShownIs, PTL

(* The sequence before a step, and after it.                                *)
LEMMA Before ==
    ASSUME ListInd, deinit = "no", NEW s, Linked(s)
    PROVE  /\ Placed(s) /\ Len(s) \in Nat
           /\ ListItems = Items(s) /\ Len(ListItems) = Len(s)
           /\ listIter = NULL => ListCursor = Len(s) + 1
           /\ \A k \in 1 .. Len(s) : listIter = s[k] => ListCursor = k
           /\ listIter = NULL \/ \E k \in 1 .. Len(s) : listIter = s[k]
  <1>1. PICK r : Linked(r) /\ Placed(r)
    BY DEF ListInd
  <1>2. dropped \subseteq Node /\ ListTypeOK
    BY DEF ListInd, ListTypeOK
  <1>3. Placed(s)
    BY <1>1, <1>2, OrderIs
  <1>4. Shown(s)
    BY ShownIs
  <1>5. Len(s) \in Nat
    BY DEF Linked
  <1>6. Len(Items(s)) = Len(s)
    BY <1>5, LengthIs DEF Items
  <1> QED BY <1>2, <1>3, <1>4, <1>5, <1>6 DEF Shown, Placed, Nodes

LEMMA After ==
    ASSUME ListInd', deinit' = "no", NEW s, Linked(s)'
    PROVE  /\ Placed(s)' /\ Len(s) \in Nat
           /\ ListItems' = [k \in 1 .. Len(s) |-> item'[s[k]]]
           /\ Len(ListItems') = Len(s)
           /\ listIter' = NULL => ListCursor' = Len(s) + 1
           /\ \A k \in 1 .. Len(s) : listIter' = s[k] => ListCursor' = k
           /\ listIter' = NULL \/ \E k \in 1 .. Len(s) : listIter' = s[k]
  <1>1. Placed(s)'
    BY PlacedAfter
  <1>2. ListTypeOK'
    BY DEF ListInd
  <1>3. Shown(s)'
    BY ShownAfter
  <1>4. Len(s) \in Nat
    BY DEF Linked
  <1>5. ListItems' = [k \in 1 .. Len(s) |-> item'[s[k]]]
    BY <1>1, <1>2, <1>3 DEF Shown, Items
  <1>6. Len(ListItems') = Len(s)
    BY <1>4, <1>5, LengthIs
  <1>7. /\ listIter' = NULL => ListCursor' = Len(s) + 1
        /\ \A k \in 1 .. Len(s) : listIter' = s[k] => ListCursor' = k
    BY <1>1, <1>2, <1>3 DEF Shown
  <1>8. listIter' = NULL \/ \E k \in 1 .. Len(s) : listIter' = s[k]
    BY <1>1 DEF Placed, Nodes
  <1> QED BY <1>1, <1>4, <1>5, <1>6, <1>7, <1>8

(* A step of the sequence, or a departure from it that is named.            *)
Mapped == ListAbs!AbsNext \/ ListDeparts

LEMMA Asked ==
    ASSUME NEW q, NEW v, q # <<>>, listReply' = Answer(q, v)
    PROVE  /\ listReply'.question = q /\ listReply'.value = v
           /\ listReply'.question # <<>>
  BY DEF Answer

(* A call asks something.                                                   *)
LEMMA OneWord == ASSUME NEW a PROVE <<a>> # <<>>
  OBVIOUS

LEMMA TwoWords == ASSUME NEW a, NEW b PROVE <<a, b>> # <<>>
  OBVIOUS

LEMMA ThreeWords == ASSUME NEW a, NEW b, NEW c PROVE <<a, b, c>> # <<>>
  OBVIOUS

LEMMA CallMaps ==
    ASSUME listStatus = "run", listStatus' = listStatus,
           listReply'.question # <<>>, ListAbs!AbsCall
    PROVE  Mapped
  BY DEF Mapped, ListAbs!AbsNext, ListAbs!Running

(* Neither the items nor the iterator change.                               *)
LEMMA SameShown ==
    ASSUME ListInd, ListInd',
           UNCHANGED <<head, parent, child, item, liveNode, dropped, listIter, deinit>>
    PROVE  ListItems' = ListItems /\ ListCursor' = ListCursor
  <1>1. PICK s : Linked(s) /\ Placed(s)
    BY DEF ListInd
  <1>2. Linked(s)'
    BY <1>1, SameLinks
  <1>3. CASE deinit = "no"
    <2>1. deinit' = "no"
      BY <1>3
    <2>2. ListItems' = ListItems
      BY <1>1, <1>2, <1>3, <2>1, Before, After DEF Items
    <2>3. /\ listIter = NULL => ListCursor = Len(s) + 1 /\ ListCursor' = Len(s) + 1
          /\ \A k \in 1 .. Len(s) : listIter = s[k] => ListCursor = k /\ ListCursor' = k
          /\ listIter = NULL \/ \E k \in 1 .. Len(s) : listIter = s[k]
      BY <1>1, <1>2, <1>3, <2>1, Before, After
    <2> QED BY <2>2, <2>3
  <1>4. CASE deinit # "no"
    <2>1. Shown(s) /\ Shown(s)' /\ Placed(s)'
      BY <1>2, ShownIs, ShownAfter, PlacedAfter
    <2> QED BY <1>1, <1>2, <1>4, <2>1 DEF Shown, ListInd
  <1> QED BY <1>3, <1>4

LEMMA StopShown ==
    ASSUME ListInd, ListInd', NEW call, NEW how, ListStop(call, how)
    PROVE  /\ ListAbs!AbsEnds(how)
           /\ listReply'.question = call /\ listReply'.value = NULL
  <1>1. ListItems' = ListItems /\ ListCursor' = ListCursor
    BY SameShown DEF ListStop, links
  <1> QED BY <1>1 DEF ListStop, Answer, ListAbs!AbsEnds, ListAbs!AbsKeep

(* There is no memory left.                                                 *)
LEMMA NoMemoryMaps ==
    ASSUME ListInd, ListInd', listStatus = "run", NEW call, call # <<>>,
           ListStop(call, "panic"), ListAbs!Allocates(call)
    PROVE  Mapped
  <1>1. ListAbs!AbsEnds("panic") /\ listReply'.question = call
    BY StopShown
  <1> QED BY <1>1 DEF Mapped, ListAbs!AbsNext, ListAbs!Running, ListAbs!NoMemory

(* What length counts, rightly or wrongly, is behind the last item.         *)
LEMMA Behind ==
    ASSUME ListInd, deinit = "no", NEW idx \in Nat, idx > length
    PROVE  idx >= Len(ListItems)
  <1>1. PICK s : Linked(s) /\ Placed(s)
    BY DEF ListInd
  <1>2. Len(s) \in Nat /\ Len(ListItems) = Len(s)
    BY <1>1, Before
  <1>3. length = Len(s) \/ length = OneLess(s)
    BY <1>1 DEF Placed
  <1> QED BY <1>2, <1>3, ContainerAssumption DEF OneLess

LEMMA PanicMaps ==
    ASSUME ListInd, ListInd', listStatus = "run", NEW call, call # <<>>,
           NEW idx \in Index, idx >= Len(ListItems), ListStop(call, "panic"),
           \/ call = <<"get", idx>> \/ call = <<"remove", idx>>
           \/ \E x \in Item : call = <<"insert", idx, x>>
    PROVE  Mapped
  <1>1. /\ ListAbs!AbsEnds("panic")
        /\ listReply'.question = call /\ listReply'.value = NULL
    BY StopShown
  <1>2. ListAbs!BehindLast(idx)
    BY <1>1 DEF ListAbs!BehindLast, ListAbs!Replies
  <1> QED BY <1>1, <1>2 DEF Mapped, ListDeparts, ListAbs!IndexPanics, ListAbs!Running

LEMMA InsertMaps ==
    ASSUME ListInd, ListInd', NEW idx \in Index, NEW x \in Item, ListInsert(idx, x)
    PROVE  Mapped
  <1>1. listStatus = "run" /\ deinit = "no"
    BY DEF ListInsert, ListReady
  <1>2. PICK q : q = <<"insert", idx, x>>
    OBVIOUS
  <1>3. q # <<>>
    BY <1>2, ThreeWords
  <1>4. idx \in Nat /\ length \in Nat
    BY ContainerAssumption DEF ListInd, ListTypeOK
  <1>5. CASE idx > length
    <2>1. ListStop(q, "panic")
      BY <1>2, <1>4, <1>5 DEF ListInsert
    <2> QED BY <1>1, <1>2, <1>3, <1>4, <1>5, <2>1, Behind, PanicMaps
  <1>6. CASE Returns(q) /\ UNCHANGED <<links, listIter>>
    <2>1. ListItems' = ListItems /\ ListCursor' = ListCursor
      BY <1>6, SameShown DEF Returns, links
    <2>2. /\ listReply'.question = q /\ listReply'.value = NULL
          /\ listReply'.question # <<>> /\ listStatus' = listStatus
      BY <1>3, <1>6, Asked DEF Returns
    <2>3. ListAbs!InsertAddsNone
      BY <1>1, <1>2, <2>1, <2>2 DEF ListAbs!InsertAddsNone, ListAbs!Running,
         ListAbs!Replies, ListAbs!AbsKeep
    <2> QED BY <2>3 DEF Mapped, ListDeparts
  <1>7. CASE ListStop(q, "fault")
    <2>1. /\ ListAbs!AbsEnds("fault")
          /\ listReply'.question = q /\ listReply'.value = NULL
      BY <1>7, StopShown
    <2>2. ListAbs!InsertFaults
      BY <1>1, <1>2, <1>3, <2>1 DEF ListAbs!InsertFaults, ListAbs!Running, ListAbs!Replies
    <2> QED BY <2>2 DEF Mapped, ListDeparts
  <1>8. CASE ListStop(q, "panic")
    <2>1. ListAbs!Allocates(q)
      BY <1>2 DEF ListAbs!Allocates
    <2> QED BY <1>1, <1>3, <1>8, <2>1, NoMemoryMaps
  <1>9. \/ idx > length
        \/ Returns(q) /\ UNCHANGED <<links, listIter>>
        \/ ListStop(q, "fault") \/ ListStop(q, "panic")
    <2> USE <1>2
    <2>1. CASE idx > length
      BY <2>1
    <2>2. CASE ~ (idx > length) /\ idx = length /\ length <= Len(Chain)
      BY <2>2 DEF ListInsert
    <2>3. CASE ~ (idx > length) /\ ~ (idx = length /\ length <= Len(Chain))
      BY <2>3 DEF ListInsert
    <2> QED BY <2>1, <2>2, <2>3
  <1> QED BY <1>5, <1>6, <1>7, <1>8, <1>9

LEMMA FindMaps ==
    ASSUME ListInd, ListInd', NEW x \in Item, ListFind(x)
    PROVE  Mapped
  <1>1. /\ listStatus = "run" /\ deinit = "no" /\ listStatus' = listStatus
        /\ listReply' = Answer(<<"find", x>>,
                               IF x \in {item[n] : n \in Chained} THEN x ELSE NULL)
        /\ UNCHANGED <<links, listIter, deinit>>
    BY DEF ListFind, ListReady, Answers
  <1>2. PICK s : Linked(s) /\ Placed(s)
    BY DEF ListInd
  <1>3. ListItems = Items(s) /\ Len(s) \in Nat
    BY <1>1, <1>2, Before
  <1>4. Chained = Nodes(s)
    BY <1>2, ChainIs DEF ListInd, ListTypeOK
  <1>5. DOMAIN ListItems = 1 .. Len(s) /\ \A k \in 1 .. Len(s) : ListItems[k] = item[s[k]]
    BY <1>3 DEF Items
  <1>6. x \in {item[n] : n \in Chained} <=> \E i \in DOMAIN ListItems : ListItems[i] = x
    BY <1>4, <1>5 DEF Nodes
  <1>7. ListItems' = ListItems /\ ListCursor' = ListCursor
    BY <1>1, SameShown DEF links
  <1>8. /\ listReply'.question = <<"find", x>>
        /\ listReply'.value = (IF x \in {item[n] : n \in Chained} THEN x ELSE NULL)
        /\ listReply'.question # <<>>
    BY <1>1, TwoWords, Asked
  <1>9. ListAbs!AbsFind(x)
    BY <1>6, <1>7, <1>8 DEF ListAbs!AbsFind, ListAbs!Replies, ListAbs!AbsKeep
  <1> QED BY <1>1, <1>8, <1>9, CallMaps DEF ListAbs!AbsCall

LEMMA GetMaps ==
    ASSUME ListInd, ListInd', NEW idx \in Index, ListGet(idx)
    PROVE  Mapped
  <1>1. CASE idx > length
    <2>1. ListStop(<<"get", idx>>, "panic") /\ listStatus = "run" /\ deinit = "no"
      BY <1>1 DEF ListGet, ListReady
    <2>2. idx >= Len(ListItems)
      BY <1>1, <2>1, Behind, ContainerAssumption
    <2> QED BY <2>1, <2>2, TwoWords, PanicMaps
  <1>2. CASE ~ (idx > length)
    <2>1. /\ listStatus = "run" /\ deinit = "no" /\ listStatus' = listStatus
          /\ listReply' = Answer(<<"get", idx>>,
                                 IF Nth(idx) # NULL THEN item[Nth(idx)] ELSE NULL)
          /\ UNCHANGED <<links, listIter, deinit>>
      BY <1>2 DEF ListGet, ListReady, Answers
    <2>2. PICK s : Linked(s) /\ Placed(s)
      BY DEF ListInd
    <2>3. ListItems = Items(s) /\ Len(s) \in Nat /\ Len(ListItems) = Len(s)
      BY <2>1, <2>2, Before
    <2>4. idx \in Nat /\ dropped \subseteq Node
      BY ContainerAssumption DEF ListInd, ListTypeOK
    <2>5. Nth(idx) = IF idx < Len(s) THEN s[idx + 1] ELSE NULL
      BY <2>2, <2>4, NthIs
    <2>6. idx < Len(s) => idx + 1 \in 1 .. Len(s) /\ s[idx + 1] # NULL
      <3>1. idx < Len(s) => idx + 1 \in 1 .. Len(s)
        BY <2>3, <2>4
      <3> QED BY <3>1, <2>2, <2>4, NullNotLive
    <2>7. (IF Nth(idx) # NULL THEN item[Nth(idx)] ELSE NULL)
          = IF idx < Len(ListItems) THEN ListItems[idx + 1] ELSE NULL
      BY <2>3, <2>5, <2>6 DEF Items
    <2>8. ListItems' = ListItems /\ ListCursor' = ListCursor
      BY <2>1, SameShown DEF links
    <2>9. /\ listReply'.question = <<"get", idx>>
          /\ listReply'.value = (IF Nth(idx) # NULL THEN item[Nth(idx)] ELSE NULL)
          /\ listReply'.question # <<>>
      BY <2>1, TwoWords, Asked
    <2>10. ListAbs!AbsGet(idx)
      BY <2>7, <2>8, <2>9 DEF ListAbs!AbsGet, ListAbs!Replies, ListAbs!AbsKeep
    <2> QED BY <2>1, <2>9, <2>10, CallMaps DEF ListAbs!AbsCall
  <1> QED BY <1>1, <1>2

LEMMA ItemInitMaps ==
    ASSUME ListInd, ListInd', NEW x \in Item, ListItemInit(x)
    PROVE  Mapped
  <1>1. /\ listStatus = "run" /\ deinit = "no" /\ listStatus' = listStatus
        /\ listReply' = Answer(<<"all", x>>, NULL)
        /\ deinit' = deinit /\ listIter' = listIter
        /\ item' = [n \in Node |-> IF n \in Chained THEN x ELSE item[n]]
        /\ UNCHANGED <<head, parent, child, liveNode, dropped>>
    BY DEF ListItemInit, ListReady, Returns
  <1>2. PICK s : Linked(s) /\ Placed(s)
    BY DEF ListInd
  <1>3. Linked(s)'
    BY <1>1, <1>2, SameLinks
  <1>4. Chained = Nodes(s) /\ \A k \in 1 .. Len(s) : s[k] \in Node
    <2>1. Chained = Nodes(s)
      BY <1>2, ChainIs DEF ListInd, ListTypeOK
    <2>2. \A k \in 1 .. Len(s) : s[k] \in Node
      BY <1>2 DEF Linked
    <2> QED BY <2>1, <2>2
  <1>5. /\ ListItems' = [k \in 1 .. Len(s) |-> item'[s[k]]]
        /\ Len(ListItems') = Len(s) /\ Len(ListItems) = Len(s) /\ ListCursor' = ListCursor
    BY <1>1, <1>2, <1>3, Before, After
  <1>6. \A k \in 1 .. Len(s) : item'[s[k]] = x
    BY <1>1, <1>4 DEF Nodes
  <1>7. ListItems' = [i \in 1 .. Len(ListItems) |-> x]
    BY <1>5, <1>6
  <1>8. /\ listReply'.question = <<"all", x>> /\ listReply'.value = NULL
        /\ listReply'.question # <<>>
    BY <1>1, TwoWords, Asked
  <1>9. ListAbs!AbsFill(x)
    BY <1>5, <1>7, <1>8 DEF ListAbs!AbsFill, ListAbs!Replies
  <1> QED BY <1>1, <1>8, <1>9, CallMaps DEF ListAbs!AbsCall

LEMMA IterInitMaps ==
    ASSUME ListInd, ListInd', ListIterInit
    PROVE  Mapped
  <1>1. /\ listStatus = "run" /\ deinit = "no" /\ listStatus' = listStatus
        /\ listReply' = Answer(<<"iter">>, NULL)
        /\ deinit' = deinit /\ listIter' = head
        /\ UNCHANGED <<head, parent, child, item, liveNode, dropped>>
    BY DEF ListIterInit, ListReady, Returns, links
  <1>2. PICK s : Linked(s) /\ Placed(s)
    BY DEF ListInd
  <1>3. Linked(s)' /\ Len(s) \in Nat
    BY <1>1, <1>2, SameLinks DEF Linked
  <1>4. ListItems' = ListItems
    BY <1>1, <1>2, <1>3, Before, After DEF Items
  <1>5. ListCursor' = 1
    <2>1. head = IF Len(s) = 0 THEN NULL ELSE s[1]
      BY <1>2 DEF Linked
    <2>2. CASE Len(s) = 0
      BY <1>1, <1>3, <2>1, <2>2, After
    <2>3. CASE Len(s) # 0
      <3>1. 1 \in 1 .. Len(s) /\ listIter' = s[1]
        BY <1>1, <1>3, <2>1, <2>3
      <3> QED BY <1>1, <1>3, <3>1, After
    <2> QED BY <2>2, <2>3
  <1>6. /\ listReply'.question = <<"iter">> /\ listReply'.value = NULL
        /\ listReply'.question # <<>>
    BY <1>1, OneWord, Asked
  <1>7. ListAbs!AbsIterate
    BY <1>4, <1>5, <1>6 DEF ListAbs!AbsIterate, ListAbs!Replies
  <1> QED BY <1>1, <1>6, <1>7, CallMaps DEF ListAbs!AbsCall

LEMMA IterNextMaps ==
    ASSUME ListInd, ListInd', ListIterNext
    PROVE  Mapped
  <1>1. listStatus = "run" /\ deinit = "no"
    BY DEF ListIterNext, ListReady
  <1>2. PICK s : Linked(s) /\ Placed(s)
    BY DEF ListInd
  <1>3. /\ Len(s) \in Nat /\ ListItems = Items(s) /\ Len(ListItems) = Len(s)
        /\ listIter = NULL => ListCursor = Len(s) + 1
        /\ \A k \in 1 .. Len(s) : listIter = s[k] => ListCursor = k
    BY <1>1, <1>2, Before
  <1>4. CASE listIter = NULL
    <2>1. /\ listReply' = Answer(<<"next">>, NULL) /\ listStatus' = listStatus
          /\ UNCHANGED <<links, deinit, listIter>>
      BY <1>4 DEF ListIterNext, Answers
    <2>2. ListItems' = ListItems /\ ListCursor' = ListCursor
      BY <2>1, SameShown DEF links
    <2>3. /\ listReply'.question = <<"next">> /\ listReply'.value = NULL
          /\ listReply'.question # <<>>
      BY <2>1, OneWord, Asked
    <2>4. ListAbs!AbsIterNext
      BY <1>3, <1>4, <2>2, <2>3
         DEF ListAbs!AbsIterNext, ListAbs!AtEnd, ListAbs!Replies
    <2> QED BY <1>1, <2>1, <2>3, <2>4, CallMaps DEF ListAbs!AbsCall
  <1>5. CASE listIter # NULL
    <2>1. PICK k \in 1 .. Len(s) : listIter = s[k]
      BY <1>2, <1>5 DEF Placed, Nodes
    <2>2. listIter \in liveNode /\ child[s[k]] = IF k = Len(s) THEN NULL ELSE s[k + 1]
      BY <1>2, <2>1 DEF Linked, Nodes
    <2>3. /\ listReply' = Answer(<<"next">>, item[s[k]]) /\ listStatus' = listStatus
          /\ listIter' = child[s[k]] /\ deinit' = deinit
          /\ UNCHANGED <<head, parent, child, item, liveNode, dropped>>
      BY <1>5, <2>1, <2>2 DEF ListIterNext, Answers, links
    <2>4. Linked(s)' /\ deinit' = "no"
      BY <1>1, <1>2, <2>3, SameLinks
    <2>5. ListItems' = ListItems
      BY <1>3, <2>3, <2>4, After DEF Items
    <2>6. ListCursor' = k + 1
      <3>1. CASE k = Len(s)
        BY <2>2, <2>3, <2>4, <3>1, After
      <3>2. CASE k # Len(s)
        <4>1. k + 1 \in 1 .. Len(s) /\ listIter' = s[k + 1]
          BY <1>3, <2>2, <2>3, <3>2
        <4> QED BY <2>4, <4>1, After
      <3> QED BY <3>1, <3>2
    <2>7. ListCursor = k /\ k # Len(s) + 1 /\ ListItems[k] = item[s[k]]
      BY <1>3, <2>1 DEF Items
    <2>8. /\ listReply'.question = <<"next">> /\ listReply'.value = item[s[k]]
          /\ listReply'.question # <<>>
      BY <2>3, OneWord, Asked
    <2>9. ListAbs!AbsIterNext
      BY <1>3, <2>5, <2>6, <2>7, <2>8
         DEF ListAbs!AbsIterNext, ListAbs!AtEnd, ListAbs!Replies
    <2> QED BY <1>1, <2>3, <2>8, <2>9, CallMaps DEF ListAbs!AbsCall
  <1> QED BY <1>4, <1>5

LEMMA PushMaps ==
    ASSUME ListInd, ListInd', NEW x \in Item, ListPush(x)
    PROVE  Mapped
  <1>1. listStatus = "run" /\ deinit = "no"
    BY DEF ListPush, ListReady
  <1>2. CASE ListStop(<<"push", x>>, "panic")
    <2>1. ListAbs!Allocates(<<"push", x>>)
      BY DEF ListAbs!Allocates
    <2> QED BY <1>1, <1>2, <2>1, TwoWords, NoMemoryMaps
  <1>3. CASE ~ListStop(<<"push", x>>, "panic")
    <2>1. /\ liveNode # Node
          /\ liveNode' = liveNode \cup {NewNode}
          /\ head' = (IF head = NULL THEN NewNode ELSE head)
          /\ parent' = [parent EXCEPT ![NewNode] = ListTail]
          /\ child' = [m \in Node |-> IF m = NewNode THEN NULL
                                      ELSE IF m = ListTail THEN NewNode ELSE child[m]]
          /\ item' = [item EXCEPT ![NewNode] = x]
          /\ listReply' = Answer(<<"push", x>>, NULL)
          /\ deinit' = deinit /\ listStatus' = listStatus
          /\ UNCHANGED <<listIter, dropped>>
      BY <1>3 DEF ListPush, Returns
    <2>2. PICK s : Linked(s) /\ Placed(s)
      BY DEF ListInd
    <2>3. /\ dropped \subseteq Node /\ liveNode \subseteq Node
          /\ parent \in [Node -> OptNode] /\ item \in [Node -> Item]
      BY DEF ListInd, ListTypeOK
    <2>4. PICK n \in Node : n = NewNode /\ n \notin liveNode
      BY <2>1, <2>3 DEF NewNode
    <2>5. PICK t : t = Append(s, n)
      OBVIOUS
    <2>6. /\ liveNode' = liveNode \cup {n}
          /\ head' = (IF head = NULL THEN n ELSE head)
          /\ parent' = [parent EXCEPT ![n] = ListTail]
          /\ child' = [m \in Node |-> IF m = n THEN NULL
                                      ELSE IF m = ListTail THEN n ELSE child[m]]
          /\ item' = [item EXCEPT ![n] = x]
          /\ dropped' = dropped
      BY <2>1, <2>4
    <2>7. Linked(t)' /\ Len(t) = Len(s) + 1
      BY ONLY <2>6, <2>2, <2>3, <2>4, <2>5, PushLinks
    <2>8. deinit' = "no" /\ listIter' = listIter
      BY <1>1, <2>1
    <2>9. /\ Len(s) \in Nat /\ ListItems = Items(s) /\ Len(ListItems) = Len(s)
          /\ listIter = NULL => ListCursor = Len(s) + 1
          /\ \A k \in 1 .. Len(s) : listIter = s[k] => ListCursor = k
          /\ listIter = NULL \/ \E k \in 1 .. Len(s) : listIter = s[k]
      BY <1>1, <2>2, Before
    <2>10. /\ ListItems' = [k \in 1 .. Len(t) |-> item'[t[k]]]
           /\ listIter' = NULL => ListCursor' = Len(t) + 1
           /\ \A k \in 1 .. Len(t) : listIter' = t[k] => ListCursor' = k
      BY <2>7, <2>8, After
    <2>11. s \in Seq(Node) /\ \A k \in 1 .. Len(s) : s[k] \in Node /\ s[k] # n
      BY <2>2, <2>4, NullNotLive, <2>3 DEF Linked
    <2>12. t[Len(s) + 1] = n /\ \A k \in 1 .. Len(s) : t[k] = s[k]
      BY ONLY <2>5, <2>11, n \in Node
    <2>13. item'[n] = x /\ \A k \in 1 .. Len(s) : item'[s[k]] = item[s[k]]
      BY <2>3, <2>6, <2>11
    <2>14. ListItems' = Append(ListItems, x)
      <3>1. PICK u : u = ListItems
        OBVIOUS
      <3>2. u = [k \in 1 .. Len(s) |-> item[s[k]]] /\ Len(u) = Len(s) /\ u \in Seq(Item)
        <4>1. \A k \in 1 .. Len(s) : item[s[k]] \in Item
          BY <2>3, <2>11
        <4>2. u = [k \in 1 .. Len(s) |-> item[s[k]]]
          BY <2>9, <3>1 DEF Items
        <4>3. u \in Seq(Item)
          BY ONLY <4>1, <4>2, <2>9
        <4> QED BY <4>2, <4>3, <2>9, <3>1
      <3>3. Append(u, x) = [k \in 1 .. Len(s) + 1 |-> IF k = Len(s) + 1 THEN x ELSE item[s[k]]]
        BY ONLY <3>2, <2>9, x \in Item
      <3>4. \A k \in 1 .. Len(s) + 1 :
               item'[t[k]] = IF k = Len(s) + 1 THEN x ELSE item[s[k]]
        <4> SUFFICES ASSUME NEW k \in 1 .. Len(s) + 1
                     PROVE  item'[t[k]] = IF k = Len(s) + 1 THEN x ELSE item[s[k]]
          OBVIOUS
        <4>1. CASE k = Len(s) + 1
          BY ONLY <4>1, <2>12, <2>13
        <4>2. CASE k # Len(s) + 1
          <5>1. k \in 1 .. Len(s)
            BY ONLY <4>2, <2>9, k \in 1 .. Len(s) + 1
          <5> QED BY ONLY <5>1, <4>2, <2>12, <2>13
        <4> QED BY <4>1, <4>2
      <3> QED BY ONLY <3>1, <3>3, <3>4, <2>7, <2>10
    <2>15. ListCursor' \in {ListCursor}
              \cup (IF ListCursor = Len(ListItems) + 1 THEN {ListCursor + 1} ELSE {})
      <3>1. CASE listIter = NULL
        BY <3>1, <2>7, <2>8, <2>9, <2>10
      <3>2. CASE listIter # NULL
        <4>1. PICK k \in 1 .. Len(s) : listIter = s[k]
          BY <3>2, <2>9
        <4>2. k \in 1 .. Len(t) /\ listIter' = t[k]
          BY <4>1, <2>7, <2>8, <2>9, <2>12
        <4>3. ListCursor = k /\ ListCursor' = k
          BY <4>1, <4>2, <2>9, <2>10
        <4> QED BY <4>3
      <3> QED BY <3>1, <3>2
    <2>16. /\ listReply'.question = <<"push", x>> /\ listReply'.value = NULL
           /\ listReply'.question # <<>>
      BY <2>1, TwoWords, Asked
    <2>17. ListAbs!AbsPush(x)
      BY <2>14, <2>15, <2>16 DEF ListAbs!AbsPush, ListAbs!AtEnd, ListAbs!Replies
    <2> QED BY <1>1, <2>1, <2>16, <2>17, CallMaps DEF ListAbs!AbsCall
  <1> QED BY <1>2, <1>3

(* An item goes, and the iterator stays at the one it was at.               *)
LEMMA RemovedMaps ==
    ASSUME ListInd, ListInd', deinit = "no", deinit' = "no",
           NEW s, Linked(s), NEW i \in 1 .. Len(s), NEW t, t = Less(s, i), Linked(t)',
           \A k \in 1 .. Len(s) : k # i => item'[s[k]] = item[s[k]],
           listIter = NULL \/ listIter # s[i], listIter' = listIter
    PROVE  /\ ListAbs!RemoveAt(i) /\ i \in DOMAIN ListItems
           /\ Len(ListItems) = Len(s) /\ ListItems[i] = item[s[i]]
  <1>1. /\ Len(s) \in Nat /\ ListItems = Items(s) /\ Len(ListItems) = Len(s)
        /\ listIter = NULL => ListCursor = Len(s) + 1
        /\ \A k \in 1 .. Len(s) : listIter = s[k] => ListCursor = k
        /\ listIter = NULL \/ \E k \in 1 .. Len(s) : listIter = s[k]
    BY Before
  <1>2. /\ ListItems' = [k \in 1 .. Len(t) |-> item'[t[k]]] /\ Len(t) \in Nat
        /\ listIter' = NULL => ListCursor' = Len(t) + 1
        /\ \A k \in 1 .. Len(t) : listIter' = t[k] => ListCursor' = k
    BY After
  <1>3. i \in Nat /\ 1 <= i /\ i <= Len(s)
    BY <1>1
  <1>4. /\ t = [j \in 1 .. Len(s) - 1 |-> IF j < i THEN s[j] ELSE s[j + 1]]
        /\ Len(t) = Len(s) - 1
    <2>1. t = [j \in 1 .. Len(s) - 1 |-> IF j < i THEN s[j] ELSE s[j + 1]]
      BY DEF Less
    <2>2. Len(s) - 1 \in Nat
      BY <1>1, <1>3
    <2> QED BY <2>1, <2>2, LengthIs
  <1>5. \A j \in 1 .. Len(s) - 1 : item'[t[j]] = IF j < i THEN item[s[j]] ELSE item[s[j + 1]]
    <2> SUFFICES ASSUME NEW j \in 1 .. Len(s) - 1
                 PROVE  item'[t[j]] = IF j < i THEN item[s[j]] ELSE item[s[j + 1]]
      OBVIOUS
    <2>1. CASE j < i
      <3>1. j \in 1 .. Len(s) /\ j # i /\ t[j] = s[j]
        BY <1>1, <1>3, <1>4, <2>1
      <3> QED BY <2>1, <3>1
    <2>2. CASE ~ (j < i)
      <3>1. j + 1 \in 1 .. Len(s) /\ j + 1 # i /\ t[j] = s[j + 1]
        BY <1>1, <1>3, <1>4, <2>2
      <3> QED BY <2>2, <3>1
    <2> QED BY <2>1, <2>2
  <1>6. \A k \in 1 .. Len(s) : ListItems[k] = item[s[k]]
    BY <1>1 DEF Items
  <1>7. ListItems' = ListAbs!Without(ListItems, i)
    <2>1. ListAbs!Without(ListItems, i)
          = [j \in 1 .. Len(s) - 1 |-> IF j < i THEN ListItems[j] ELSE ListItems[j + 1]]
      BY <1>1 DEF ListAbs!Without
    <2>2. \A j \in 1 .. Len(s) - 1 :
             item'[t[j]] = IF j < i THEN ListItems[j] ELSE ListItems[j + 1]
      <3> SUFFICES ASSUME NEW j \in 1 .. Len(s) - 1
                   PROVE  item'[t[j]] = IF j < i THEN ListItems[j] ELSE ListItems[j + 1]
        OBVIOUS
      <3>1. j \in 1 .. Len(s) /\ j + 1 \in 1 .. Len(s)
        BY <1>1
      <3> QED BY <3>1, <1>5, <1>6
    <2> QED BY ONLY <1>2, <1>4, <2>1, <2>2
  <1>8. ListCursor' = IF i < ListCursor THEN ListCursor - 1 ELSE ListCursor
    <2>1. CASE listIter = NULL
      BY <2>1, <1>1, <1>2, <1>3, <1>4
    <2>2. CASE listIter # NULL
      <3>1. PICK k \in 1 .. Len(s) : listIter = s[k]
        BY <1>1, <2>2
      <3>2. ListCursor = k /\ k # i
        BY <1>1, <2>2, <3>1
      <3>3. CASE k < i
        <4>1. k \in 1 .. Len(t) /\ t[k] = s[k]
          BY <1>1, <1>3, <1>4, <3>3
        <4> QED BY <4>1, <1>2, <1>3, <3>1, <3>2, <3>3
      <3>4. CASE ~ (k < i)
        <4>1. k - 1 \in 1 .. Len(t) /\ t[k - 1] = s[k] /\ i < k
          BY <1>1, <1>3, <1>4, <3>2, <3>4
        <4> QED BY <4>1, <1>2, <3>1, <3>2
      <3> QED BY <3>3, <3>4
    <2> QED BY <2>1, <2>2
  <1>9. i \in DOMAIN ListItems
    BY <1>1 DEF Items
  <1> QED BY <1>1, <1>6, <1>7, <1>8, <1>9 DEF ListAbs!RemoveAt

LEMMA FreedItems ==
    ASSUME NEW s, Linked(s), NEW i \in 1 .. Len(s), FreeNode(s[i]), ListTypeOK
    PROVE  \A k \in 1 .. Len(s) : k # i => item'[s[k]] = item[s[k]]
  <1>1. \A k \in 1 .. Len(s) : s[k] \in Node /\ (k # i => s[k] # s[i])
    BY DEF Linked
  <1> QED BY <1>1 DEF FreeNode, Freed, ListTypeOK

LEMMA RemoveMaps ==
    ASSUME ListInd, ListInd', NEW idx \in Index, IterSpared(Nth(idx)), ListRemove(idx)
    PROVE  Mapped
  <1>1. listStatus = "run" /\ deinit = "no"
    BY DEF ListRemove, ListReady
  <1>2. CASE idx > length
    <2>1. ListStop(<<"remove", idx>>, "panic")
      BY <1>2 DEF ListRemove
    <2>2. idx >= Len(ListItems)
      BY <1>1, <1>2, Behind, ContainerAssumption
    <2> QED BY <1>1, <2>1, <2>2, TwoWords, PanicMaps
  <1>3. CASE ~ (idx > length)
    <2>1. PICK s : Linked(s) /\ Placed(s)
      BY DEF ListInd
    <2>2. idx \in Nat /\ Len(s) \in Nat /\ dropped \subseteq Node
      BY <2>1, ContainerAssumption DEF Linked, ListInd, ListTypeOK
    <2>3. Nth(idx) = IF idx < Len(s) THEN s[idx + 1] ELSE NULL
      BY <2>1, <2>2, NthIs
    <2>r. /\ listReply'.question = <<"remove", idx>> /\ listReply'.value = NULL
          /\ listReply'.question # <<>>
      <3>1. listReply' = Answer(<<"remove", idx>>, NULL)
        BY <1>3 DEF ListRemove, Returns
      <3> QED BY <3>1, TwoWords, Asked
    <2>4. /\ listStatus' = listStatus
          /\ listIter' = listIter /\ deinit' = deinit /\ dropped' = dropped
      BY <1>3 DEF ListRemove, Returns
    <2>5. CASE idx < Len(s)
      <3>1. idx + 1 \in 1 .. Len(s) /\ Nth(idx) = s[idx + 1]
        BY <2>2, <2>3, <2>5
      <3>2. Nth(idx) # NULL
        BY <2>1, <2>2, <3>1, NullNotLive
      <3>3. FreeNode(s[idx + 1])
        BY <1>3, <3>1, <3>2 DEF ListRemove
      <3>4. listIter = NULL \/ listIter # s[idx + 1]
        BY <3>1 DEF IterSpared
      <3>5. PICK i \in 1 .. Len(s) : i = idx + 1
        BY <3>1
      <3>6. PICK t : t = Less(s, i)
        OBVIOUS
      <3>7. Linked(t)'
        BY <2>1, <2>2, <2>4, <3>3, <3>5, <3>6, FreeLinks
      <3>8. \A k \in 1 .. Len(s) : k # i => item'[s[k]] = item[s[k]]
        BY <2>1, <3>3, <3>5, FreedItems DEF ListInd
      <3>9. ListAbs!RemoveAt(i) /\ Len(ListItems) = Len(s)
        BY <1>1, <2>1, <2>4, <3>4, <3>5, <3>6, <3>7, <3>8, RemovedMaps
      <3>10. ListAbs!AbsRemove(idx)
        BY <2>r, <2>5, <3>5, <3>9 DEF ListAbs!AbsRemove, ListAbs!Replies
      <3> QED BY <1>1, <2>r, <2>4, <3>10, CallMaps DEF ListAbs!AbsCall
    <2>6. CASE ~ (idx < Len(s))
      <3>1. UNCHANGED <<head, parent, child, item, liveNode>>
        BY <1>3, <2>3, <2>6 DEF ListRemove
      <3>2. ListAbs!AbsKeep
        BY <2>4, <3>1, SameShown DEF ListAbs!AbsKeep
      <3>3. idx >= Len(ListItems)
        BY <1>1, <2>1, <2>2, <2>6, Before
      <3>4. ListAbs!BehindLast(idx)
        BY <2>r, <3>3 DEF ListAbs!BehindLast, ListAbs!Replies
      <3>5. ListAbs!IndexIgnored
        BY <1>1, <2>r, <2>4, <3>2, <3>4 DEF ListAbs!IndexIgnored, ListAbs!Running
      <3> QED BY <3>5 DEF Mapped, ListDeparts
    <2> QED BY <2>5, <2>6
  <1> QED BY <1>2, <1>3

(* list_pop does not return the only item: PopLosesOnly.                    *)
LEMMA PopMaps ==
    ASSUME ListInd, ListInd', IterSpared(ListTail), ListPop
    PROVE  Mapped
  <1>1. listStatus = "run" /\ deinit = "no"
    BY DEF ListPop, ListReady
  <1>2. PICK s : Linked(s) /\ Placed(s)
    BY DEF ListInd
  <1>3. /\ Len(s) \in Nat /\ dropped \subseteq Node /\ ListTypeOK
        /\ \A k \in 1 .. Len(s) : s[k] \in Node
        /\ ListItems = Items(s) /\ Len(ListItems) = Len(s)
    <2>1. ListTypeOK
      BY DEF ListInd
    <2>2. dropped \subseteq Node
      BY <2>1 DEF ListTypeOK
    <2>3. \A k \in 1 .. Len(s) : s[k] \in Node
      BY <1>2 DEF Linked
    <2>4. Len(s) \in Nat /\ ListItems = Items(s) /\ Len(ListItems) = Len(s)
      BY <1>1, <1>2, Before
    <2> QED BY <2>1, <2>2, <2>3, <2>4
  <1>4. ListTail = IF Len(s) = 0 THEN NULL ELSE s[Len(s)]
    BY <1>2, <1>3, TailIs
  <1>5. CASE Len(s) = 0
    <2>1. /\ listReply' = Answer(<<"pop">>, NULL) /\ listStatus' = listStatus
          /\ UNCHANGED <<links, deinit, listIter>>
      BY <1>4, <1>5 DEF ListPop, Answers
    <2>2. ListItems' = ListItems /\ ListCursor' = ListCursor
      BY <2>1, SameShown DEF links
    <2>3. ListItems = <<>>
      <3>1. ListItems = [k \in 1 .. 0 |-> item[s[k]]]
        BY <1>3, <1>5 DEF Items
      <3> QED BY ONLY <3>1
    <2>4. /\ listReply'.question = <<"pop">> /\ listReply'.value = NULL
          /\ listReply'.question # <<>>
      BY <2>1, OneWord, Asked
    <2>5. ListAbs!AbsPop
      BY <2>2, <2>3, <2>4 DEF ListAbs!AbsPop, ListAbs!Replies, ListAbs!AbsKeep
    <2> QED BY <1>1, <2>1, <2>4, <2>5, CallMaps DEF ListAbs!AbsCall
  <1>6. CASE Len(s) # 0
    <2>1. PICK i \in 1 .. Len(s) : i = Len(s) /\ ListTail = s[i]
      BY <1>3, <1>4, <1>6
    <2>2. ListTail # NULL /\ s[i] \in Node
      BY <1>3, <2>1, ListAssumption
    <2>3. ListItems # <<>>
      BY <1>3, <1>6
    <2>4. listIter = NULL \/ listIter # s[i]
      BY <2>1 DEF IterSpared
    <2>5. CASE ListStop(<<"pop">>, "panic")
      <3>1. ListAbs!Allocates(<<"pop">>)
        BY DEF ListAbs!Allocates
      <3> QED BY <1>1, <2>5, <3>1, OneWord, NoMemoryMaps
    <2>6. CASE ~ListStop(<<"pop">>, "panic") /\ parent[s[i]] # NULL
      <3>1. /\ FreeNode(s[i]) /\ dropped' = dropped
            /\ listReply' = Answer(<<"pop">>, item[s[i]])
            /\ UNCHANGED <<listIter, deinit, listStatus>>
        BY <2>1, <2>2, <2>6 DEF ListPop
      <3>2. PICK t : t = Less(s, i)
        OBVIOUS
      <3>3. Linked(t)'
        BY <1>2, <1>3, <3>1, <3>2, FreeLinks
      <3>4. \A k \in 1 .. Len(s) : k # i => item'[s[k]] = item[s[k]]
        BY <1>2, <1>3, <3>1, FreedItems
      <3>5. ListAbs!RemoveAt(i) /\ ListItems[i] = item[s[i]]
        BY <1>1, <1>2, <2>4, <3>1, <3>2, <3>3, <3>4, RemovedMaps
      <3>6. /\ listReply'.question = <<"pop">> /\ listReply'.value = item[s[i]]
            /\ listReply'.question # <<>>
        BY <3>1, OneWord, Asked
      <3>7. ListAbs!AbsPop
        BY <1>3, <2>1, <2>3, <3>5, <3>6 DEF ListAbs!AbsPop, ListAbs!Replies
      <3> QED BY <1>1, <3>1, <3>6, <3>7, CallMaps DEF ListAbs!AbsCall
    <2>7. CASE ~ListStop(<<"pop">>, "panic") /\ parent[s[i]] = NULL
      <3>1. /\ head' = (IF s[i] = head THEN NULL ELSE head)
            /\ listReply' = Answer(<<"pop">>, NULL)
            /\ dropped' = dropped \cup {s[i]}
            /\ UNCHANGED <<parent, child, item, liveNode>>
            /\ UNCHANGED <<listIter, deinit, listStatus>>
        BY <2>1, <2>2, <2>7 DEF ListPop
      <3>2. Len(s) = 1
        <4>1. parent[s[i]] = IF i = 1 THEN NULL ELSE s[i - 1]
          BY <1>2 DEF Linked
        <4>2. i # 1 => i - 1 \in 1 .. Len(s)
          BY ONLY <1>3, i \in 1 .. Len(s)
        <4> QED BY <1>3, <2>1, <2>7, <4>1, <4>2, ListAssumption
      <3>3. s[i] = head /\ Nodes(s) = {s[i]}
        BY <1>2, <2>1, <3>2 DEF Linked, Nodes
      <3>4. PICK t : t = Less(s, i)
        OBVIOUS
      <3>5. t = <<>>
        <4>1. t = [j \in 1 .. 0 |-> IF j < i THEN s[j] ELSE s[j + 1]]
          BY <3>2, <3>4 DEF Less
        <4> QED BY ONLY <4>1
      <3>6. t \in Seq(Node) /\ Len(t) = 0 /\ Nodes(t) = {}
        BY <3>5 DEF Nodes
      <3>7. head' = NULL /\ liveNode' = dropped'
        BY <1>2, <3>1, <3>3 DEF Linked
      <3>8. Linked(t)'
        BY ONLY <3>6, <3>7 DEF Linked
      <3>9. ListAbs!RemoveAt(i)
        BY <1>1, <1>2, <2>4, <3>1, <3>4, <3>8, RemovedMaps
      <3>10. /\ listReply'.question = <<"pop">> /\ listReply'.value = NULL
             /\ listReply'.question # <<>>
        BY <3>1, OneWord, Asked
      <3>11. ListAbs!PopLosesOnly
        BY <1>1, <1>3, <2>1, <3>1, <3>2, <3>9, <3>10
           DEF ListAbs!PopLosesOnly, ListAbs!Running, ListAbs!Replies
      <3> QED BY <3>11 DEF Mapped, ListDeparts
    <2> QED BY <2>5, <2>6, <2>7
  <1> QED BY <1>5, <1>6

(* While list_deinit frees the nodes, the sequence is empty.                *)
LEMMA DeinitShown ==
    ASSUME ListInd, deinit # "no"
    PROVE  ListItems = <<>> /\ ListCursor = 1
  <1>1. PICK s : Linked(s) /\ Placed(s)
    BY DEF ListInd
  <1>2. Shown(s)
    BY ShownIs
  <1> QED BY <1>1, <1>2 DEF Shown, ListInd

LEMMA DeinitShownAfter ==
    ASSUME ListInd', deinit' # "no"
    PROVE  ListItems' = <<>> /\ ListCursor' = 1
  <1>1. PICK s : Linked(s)' /\ Placed(s)'
    BY DEF ListInd
  <1>2. Shown(s)'
    BY ShownAfter
  <1> QED BY <1>1, <1>2 DEF Shown, ListInd

LEMMA EmptyShownAfter ==
    ASSUME ListInd', deinit' = "no", head' = NULL, listIter' = NULL
    PROVE  ListItems' = <<>> /\ ListCursor' = 1
  <1>1. PICK s : Linked(s)' /\ Placed(s)'
    BY DEF ListInd
  <1>2. Len(s) = 0
    <2>1. Len(s) \in Nat /\ head' = (IF Len(s) = 0 THEN NULL ELSE s[1])
          /\ \A k \in 1 .. Len(s) : s[k] \in Node
      BY <1>1 DEF Linked
    <2> QED BY <2>1, ListAssumption
  <1>3. ListItems' = [k \in 1 .. Len(s) |-> item'[s[k]]] /\ ListCursor' = Len(s) + 1
    BY <1>1, After
  <1>4. ListItems' = [k \in 1 .. 0 |-> item'[s[k]]]
    BY <1>2, <1>3
  <1>5. ListItems' = <<>>
    BY ONLY <1>4
  <1> QED BY <1>2, <1>3, <1>5

LEMMA DeinitMaps ==
    ASSUME ListInd, ListInd', ListDeinit
    PROVE  Mapped
  <1>1. /\ listStatus = "run" /\ deinit = "no" /\ listStatus' = listStatus
        /\ listIter' = NULL /\ listReply' = Answer(<<"deinit">>, NULL) /\ head' = head
        /\ deinit' = (IF head = NULL THEN deinit ELSE head)
    BY DEF ListDeinit, ListReady
  <1>2. ListItems' = <<>> /\ ListCursor' = 1
    <2>1. CASE head = NULL
      BY <1>1, <2>1, EmptyShownAfter
    <2>2. CASE head # NULL
      <3>1. head \in Node
        BY <2>2 DEF ListInd, ListTypeOK, OptNode
      <3>2. deinit' # "no"
        BY <1>1, <2>2, <3>1, ListAssumption
      <3> QED BY <3>2, DeinitShownAfter
    <2> QED BY <2>1, <2>2
  <1>3. /\ listReply'.question = <<"deinit">> /\ listReply'.value = NULL
        /\ listReply'.question # <<>>
    BY <1>1, OneWord, Asked
  <1>4. ListAbs!AbsClear
    BY <1>2, <1>3 DEF ListAbs!AbsClear, ListAbs!Replies
  <1> QED BY <1>1, <1>3, <1>4, CallMaps DEF ListAbs!AbsCall

LEMMA TurnMaps ==
    ASSUME ListInd, ListInd', ListDeinitTurn
    PROVE  UNCHANGED <<ListItems, ListCursor, listReply, listStatus>>
  <1>1. deinit # "no" /\ listReply' = listReply /\ listIter' = listIter
    BY DEF ListDeinitTurn
  <1>2. ListItems = <<>> /\ ListCursor = 1
    BY <1>1, DeinitShown
  <1>3. PICK s : Linked(s) /\ Placed(s)
    BY DEF ListInd
  <1>4. PICK i \in 1 .. Len(s) : deinit = s[i]
    BY <1>1, <1>3 DEF Placed, Nodes
  <1>5. /\ Len(s) \in Nat /\ dropped \subseteq Node
        /\ child[s[i]] = (IF i = Len(s) THEN NULL ELSE s[i + 1])
        /\ parent[s[i]] = (IF i = 1 THEN NULL ELSE s[i - 1])
        /\ head = s[1]
    BY <1>3 DEF Linked, ListInd, ListTypeOK
  <1>6. \A k \in 1 .. Len(s) : s[k] \in liveNode /\ s[k] \in Node
    BY <1>3, <1>5, NullNotLive
  <1>7. /\ i # 1 => i - 1 \in 1 .. Len(s)
        /\ i # Len(s) => i + 1 \in 1 .. Len(s)
    BY ONLY <1>5, i \in 1 .. Len(s)
  <1>8. {deinit, parent[deinit]} \subseteq liveNode \cup {NULL}
    BY <1>4, <1>5, <1>6, <1>7
  <1>9. listStatus' = listStatus
    BY <1>8 DEF ListDeinitTurn
  <1>10. ListItems' = <<>> /\ ListCursor' = 1
    <2>1. CASE deinit' # "no"
      BY <2>1, DeinitShownAfter
    <2>2. CASE deinit' = "no"
      <3>1. s[i] # "no" /\ (i # Len(s) => child[s[i]] # "no" /\ child[s[i]] # NULL)
        BY <1>5, <1>6, <1>7, ListAssumption
      <3>2. i = Len(s) /\ parent[deinit] = NULL /\ FreeNode(deinit)
        BY <1>1, <1>4, <1>5, <1>8, <2>2, <3>1 DEF ListDeinitTurn
      <3>3. i = 1
        BY <1>4, <1>5, <1>6, <1>7, <3>2, ListAssumption
      <3>4. head' = NULL
        BY <1>4, <1>5, <3>2, <3>3 DEF FreeNode
      <3>5. listIter' = NULL
        BY <1>1, <1>3 DEF Placed
      <3> QED BY <2>2, <3>4, <3>5, EmptyShownAfter
    <2> QED BY <2>1, <2>2
  <1> QED BY <1>1, <1>2, <1>9, <1>10

LEMMA ListBegins == ListInit => ListAbs!AbsInit
  <1> SUFFICES ASSUME ListInit PROVE ListAbs!AbsInit
    OBVIOUS
  <1>1. ListInd /\ deinit = "no" /\ listIter = NULL /\ head = NULL
    BY ListInitially DEF ListInit
  <1>2. PICK s : Linked(s) /\ Placed(s)
    BY <1>1 DEF ListInd
  <1>3. Len(s) = 0
    <2>1. Len(s) \in Nat /\ head = (IF Len(s) = 0 THEN NULL ELSE s[1])
          /\ \A k \in 1 .. Len(s) : s[k] \in Node
      BY <1>2 DEF Linked
    <2> QED BY <1>1, <2>1, ListAssumption
  <1>4. ListItems = Items(s) /\ ListCursor = 1
    BY <1>1, <1>2, <1>3, Before
  <1>5. ListItems = [k \in 1 .. 0 |-> item[s[k]]]
    BY <1>3, <1>4 DEF Items
  <1>6. ListItems = <<>>
    BY ONLY <1>5
  <1> QED BY <1>4, <1>6 DEF ListInit, ListAbs!AbsInit, NoAnswer, Answer,
                            ListAbs!NoAnswer, ListAbs!Answer

LEMMA ListMaps ==
    ListInd /\ ListInd' /\ [ListNext]_listVars
        => [ListAbs!AbsNext \/ ListDeparts]_(ListAbs!absVars)
  <1> SUFFICES ASSUME ListInd, ListInd', [ListNext]_listVars
               PROVE  Mapped \/ UNCHANGED ListAbs!absVars
    BY DEF Mapped
  <1>1. CASE UNCHANGED listVars
    <2>1. ListItems' = ListItems /\ ListCursor' = ListCursor
      BY <1>1, SameShown DEF listVars, links
    <2> QED BY <1>1, <2>1 DEF listVars, ListAbs!absVars
  <1>2. ASSUME NEW x \in Item, ListPush(x) \/ ListFind(x) \/ ListItemInit(x)
        PROVE  Mapped
    BY <1>2, PushMaps, FindMaps, ItemInitMaps
  <1>3. ASSUME NEW idx \in Index, NEW x \in Item, ListInsert(idx, x) PROVE Mapped
    BY <1>3, InsertMaps
  <1>8. ASSUME NEW idx \in Index, ListGet(idx) PROVE Mapped
    BY <1>8, GetMaps
  <1>4. ASSUME NEW idx \in Index, IterSpared(Nth(idx)), ListRemove(idx) PROVE Mapped
    BY <1>4, RemoveMaps
  <1>5. ASSUME IterSpared(ListTail), ListPop PROVE Mapped
    BY <1>5, PopMaps
  <1>6. ASSUME ListIterInit \/ ListIterNext \/ ListDeinit PROVE Mapped
    BY <1>6, IterInitMaps, IterNextMaps, DeinitMaps
  <1>7. ASSUME ListDeinitTurn PROVE UNCHANGED ListAbs!absVars
    BY <1>7, TurnMaps DEF ListAbs!absVars
  <1> QED BY <1>1, <1>2, <1>3, <1>4, <1>5, <1>6, <1>7, <1>8 DEF ListNext

(* The nodes implement the sequence that list.h promises but for the        *)
(* departures ListDeparts names: each call does what its own arguments ask   *)
(* for, and the turns of the loop of list_deinit nothing more.               *)
THEOREM ListRefinement == ListSpec => ListRefines
  BY ListBegins, ListMaps, ListInvariant, PTL DEF ListSpec, ListRefines
=============================================================================
