--------------------------- MODULE AllocatorProofs ---------------------------
(* Proofs about Allocator, for every set of allocators, addresses and sizes. *)
EXTENDS AllocatorRefinement, FiniteSetTheorems, TLAPS

(* Unfolding of the variables for a step that changes none of them.          *)
LEMMA Stutter ==
    ASSUME TypeOK, ChainInv, NoFault, UNCHANGED vars
    PROVE  TypeOK' /\ ChainInv' /\ NoFault'
<1>1. TypeOK'
  BY DEF TypeOK, vars, heap, ghost, Call, OptNode
<1>2. EndInv' /\ ParentInv' /\ ScopeInv'
  BY ZenonT(30) DEF ChainInv, EndInv, ParentInv, ScopeInv, UpTo, vars, heap, ghost
<1>3. ChildInv' /\ OwnerInv' /\ BufferInv'
  BY DEF ChainInv, ChildInv, OwnerInv, BufferInv, vars, heap, ghost
<1>4. CallInv'
  BY DEF ChainInv, CallInv, Sought, Removable, UpTo, vars, heap, ghost
<1> QED
  BY <1>1, <1>2, <1>3, <1>4 DEF ChainInv, NoFault, vars

LEMMA TypeInit == Init => TypeOK
BY AllocatorAssumption DEF Init, TypeOK, Call, Idle, Op, OptNode

LEMMA ChainInit == Init => ChainInv /\ NoFault
BY DEF Init, ChainInv, EndInv, ParentInv, ChildInv, OwnerInv, BufferInv,
       ScopeInv, CallInv, NoFault, UpTo, Idle

(* The counter stays a usize.                                                *)
LEMMA CountedIsWord ==
    ASSUME NEW t \in 0 .. Word - 1, NEW d \in Int
    PROVE  Counted(t, d) \in 0 .. Word - 1
BY AllocatorAssumption DEF Counted

LEMMA SizeIsNat ==
    ASSUME NEW sz \in Size \cup {0}
    PROVE  sz \in Nat /\ sz \in Int /\ -sz \in Int
<1>1. sz \in Nat
  BY AllocatorAssumption
<1> QED BY <1>1

-----------------------------------------------------------------------------
(* Type correctness, one action at a time.                                   *)

LEMMA TypeKept ==
    ASSUME TypeOK, Panic \/ Fault
    PROVE  TypeOK'
BY DEF TypeOK, Panic, Fault, heap, ghost, Call

LEMMA TypeAppend ==
    ASSUME TypeOK, NEW a \in Allocator, NEW n \in Node, NEW b \in Buffer,
           NEW sz \in Size, AppendNode(a, n, b, sz)
    PROVE  TypeOK'
<1>1. total_alloc' \in [Allocator -> 0 .. Word - 1]
  BY CountedIsWord, AllocatorAssumption DEF TypeOK, AppendNode
<1> QED
  BY <1>1 DEF TypeOK, AppendNode, OptNode, Call

LEMMA TypeAlloc ==
    ASSUME TypeOK, NEW a \in Allocator, NEW sz \in Size, Alloc(a, sz)
    PROVE  TypeOK'
BY TypeKept, TypeAppend DEF Alloc

LEMMA TypeStart ==
    ASSUME TypeOK, NEW op \in {"free", "realloc"}, NEW a \in Allocator,
           NEW p \in Buffer, NEW sz \in Size \cup {0}, Start(op, a, p, sz, NULL)
    PROVE  TypeOK'
BY TypeKept DEF TypeOK, Start, Call, Op, OptNode, heap, ghost

LEMMA TypeWalk == ASSUME TypeOK, Walk PROVE TypeOK'
BY TypeKept DEF TypeOK, Walk, Call, OptNode, heap, ghost

LEMMA TypeFree == ASSUME TypeOK, ChainInv, Free PROVE TypeOK'
<1> DEFINE a == call.self
           n == call.node
<1>1. a \in Allocator /\ n \in Node /\ n \in liveNode
  BY DEF TypeOK, Free, Found, ChainInv, CallInv
<1>2. CASE Fault
  BY <1>2, TypeKept
<1>3. CASE Unlink(a, n)
  <2>1. total_alloc' \in [Allocator -> 0 .. Word - 1]
    <3> HIDE DEF a, n
    <3>0. size[n] \in Size \cup {0}
      BY <1>1 DEF TypeOK
    <3>1. size[n] \in Nat /\ -size[n] \in Int
      BY <3>0, SizeIsNat
    <3> QED BY <1>1, <1>3, <3>1, CountedIsWord DEF TypeOK, Unlink
  <2> HIDE DEF a, n
  <2> QED BY <1>1, <1>3, <2>1
          DEF TypeOK, Unlink, OptNode, Call, Op, Idle, Forget
<1> QED BY <1>2, <1>3 DEF Free

LEMMA TypeRealloc == ASSUME TypeOK, ChainInv, Realloc PROVE TypeOK'
<1> DEFINE a == call.self
           n == call.node
<1>1. a \in Allocator /\ n \in Node /\ call.bytes \in Size \cup {0}
  BY DEF TypeOK, Call, Realloc, Found, ChainInv, CallInv
<1>2. CASE Fault \/ Panic
  BY <1>2, TypeKept
<1>3. ASSUME NEW b \in Buffer, Replace(a, n, b, call.bytes) PROVE TypeOK'
  <2>1. total_alloc' \in [Allocator -> 0 .. Word - 1]
    <3> HIDE DEF a, n
    <3>0. size'[n] = call.bytes
      BY <1>1, <1>3 DEF TypeOK, Replace
    <3>1. size'[n] \in Int /\ -size'[n] \in Int /\ call.bytes \in Int
      BY <1>1, <3>0, SizeIsNat
    <3>2. total_alloc[a] \in 0 .. Word - 1
      BY <1>1 DEF TypeOK
    <3>3. Counted(total_alloc[a], -size'[n]) \in 0 .. Word - 1
      BY <3>1, <3>2, CountedIsWord
    <3>4. Counted(Counted(total_alloc[a], -size'[n]), call.bytes) \in 0 .. Word - 1
      BY <3>1, <3>3, CountedIsWord
    <3> QED BY <1>1, <1>3, <3>4 DEF TypeOK, Replace
  <2> HIDE DEF a, n
  <2> QED BY <1>1, <1>3, <2>1
          DEF TypeOK, Replace, OptNode, Call, Op, Idle, ghost
<1> QED BY <1>2, <1>3 DEF Realloc

LEMMA TypeNewScope ==
    ASSUME TypeOK, NEW a \in Allocator, NewScope(a) PROVE TypeOK'
BY DEF TypeOK, NewScope, heap, ghost, Call, OptNode

LEMMA TypeStartRelease ==
    ASSUME TypeOK, NEW a \in Allocator, NEW op \in {"free_scope", "deinit"},
           NEW s \in OptNode, StartRelease(op, a, s)
    PROVE  TypeOK'
<1>1. Outer(a, s) \in SUBSET OptNode
  BY DEF TypeOK, Outer
<1> QED BY <1>1 DEF TypeOK, StartRelease, heap, ghost, Call, Idle, Op, OptNode

LEMMA TypePopScope == ASSUME TypeOK, ChainInv, PopScope PROVE TypeOK'
<1>1. call.self \in Allocator
  BY DEF PopScope, Releasing, ChainInv, CallInv
<1> QED BY <1>1, TypeKept
        DEF TypeOK, PopScope, Pop, Forget, OptNode, Call

LEMMA TypeEndScope == ASSUME TypeOK, ChainInv, EndScope PROVE TypeOK'
<1>1. call.self \in Allocator
  BY DEF EndScope, Releasing, ChainInv, CallInv
<1> QED BY <1>1, AllocatorAssumption
        DEF TypeOK, EndScope, heap, ghost, Call, Idle, Op, OptNode

LEMMA TypeNext == ASSUME TypeOK, ChainInv, Next PROVE TypeOK'
<1>1. CASE Internal
  BY <1>1, TypeWalk, TypeFree, TypeRealloc, TypePopScope, TypeEndScope
  DEF Internal
<1>2. ASSUME NEW a \in Allocator, Client(a) PROVE TypeOK'
  <2>1. ASSUME NEW sz \in Size, Alloc(a, sz) PROVE TypeOK'
    BY <2>1, TypeAlloc
  <2>2. ASSUME NEW o \in Allocator, NEW sz \in Size, NEW n \in owned[o], Copy(a, n, sz)
        PROVE  TypeOK'
    BY <2>2, TypeAlloc, TypeKept DEF Copy
  <2>3. ASSUME NEW n \in owned[a], StartFree(a, buffer[n]) PROVE TypeOK'
    <3>1. buffer[n] \in Buffer
      BY <2>3 DEF TypeOK, StartFree
    <3> QED BY <2>3, <3>1, TypeStart DEF StartFree
  <2>4. ASSUME NEW n \in owned[a], NEW sz \in Size, StartRealloc(a, buffer[n], sz)
        PROVE  TypeOK'
    <3>1. buffer[n] \in Buffer \/ buffer[n] = NULL
      BY DEF TypeOK
    <3> QED BY <2>4, <3>1, TypeStart, TypeKept DEF StartRealloc
  <2>5. CASE NewScope(a)
    BY <2>5, TypeNewScope
  <2>6. ASSUME NEW s \in scopes[a], StartFreeScope(a, s) PROVE TypeOK'
    <3>1. s \in OptNode
      BY DEF TypeOK
    <3> QED BY <2>6, <3>1, TypeStartRelease DEF StartFreeScope
  <2>7. CASE StartDeinit(a)
    BY <2>7, TypeStartRelease DEF StartDeinit, OptNode
  <2> QED BY <1>2, <2>1, <2>2, <2>3, <2>4, <2>5, <2>6, <2>7 DEF Client
<1> QED BY <1>1, <1>2 DEF Next

-----------------------------------------------------------------------------
(* The chain invariant and the absence of faults, one action at a time.      *)

(* UpTo after the step, of a node that is given.                             *)
UpToNext(n) == IF n = NULL THEN {} ELSE below'[n] \cup {n}

LEMMA NodeFacts ==
    ASSUME TypeOK, ChainInv, NEW a \in Allocator, NEW n \in owned[a]
    PROVE  /\ n \in Node /\ n # NULL /\ n \in liveNode
           /\ parent[n] \in owned[a] \cup {NULL}
           /\ parent[n] = NULL => below[n] = {}
           /\ parent[n] # NULL => /\ below[n] = below[parent[n]] \cup {parent[n]}
                                  /\ parent[n] \in below[n]
                                  /\ child[parent[n]] = n
                                  /\ parent[n] # n
           /\ n \notin below[n] /\ below[n] \subseteq owned[a]
           /\ \A m \in below[n] : below[m] \subseteq below[n]
           /\ n # node_end[a] => child[n] \in owned[a] /\ parent[child[n]] = n
           /\ n # node_end[a] => n \in below[node_end[a]]
           /\ node_end[a] \in owned[a] /\ node_end[a] # NULL
           /\ \A b \in Allocator : n \in owned[b] => b = a
<1>1. n \in Node /\ n # NULL /\ n \in liveNode
  BY AllocatorAssumption DEF TypeOK, ChainInv, OwnerInv
<1>2. \A b \in Allocator : n \in owned[b] => b = a
  BY DEF ChainInv, OwnerInv
<1>3. /\ node_end[a] \in owned[a] /\ node_end[a] # NULL
      /\ n # node_end[a] => n \in below[node_end[a]]
  <2>1. owned[a] = UpTo(node_end[a]) /\ node_end[a] \in owned[a] \cup {NULL}
    BY DEF ChainInv, EndInv
  <2> QED BY <2>1 DEF UpTo
<1>4. /\ parent[n] \in owned[a] \cup {NULL}
      /\ parent[n] = NULL => below[n] = {}
      /\ parent[n] # NULL => below[n] = below[parent[n]] \cup {parent[n]}
      /\ n \notin below[n] /\ below[n] \subseteq owned[a]
      /\ \A m \in below[n] : below[m] \subseteq below[n]
  BY DEF ChainInv, ParentInv, UpTo
<1>5. /\ parent[n] # NULL => child[parent[n]] = n
      /\ n # node_end[a] => child[n] \in owned[a] /\ parent[child[n]] = n
  BY DEF ChainInv, ChildInv
<1> QED BY <1>1, <1>2, <1>3, <1>4, <1>5

(* The end of a chain is no node's parent.                                   *)
LEMMA EndHasNoSuccessor ==
    ASSUME TypeOK, ChainInv, NEW a \in Allocator, NEW o \in Allocator,
           NEW m \in owned[o], node_end[a] # NULL
    PROVE  parent[m] # node_end[a]
<1>1. SUFFICES ASSUME parent[m] = node_end[a] PROVE FALSE
  OBVIOUS
<1>2. node_end[a] \in owned[a]
  BY DEF ChainInv, EndInv
<1>3. o = a
  BY <1>1, <1>2, NodeFacts
<1>4. parent[m] # m /\ parent[m] \in below[m]
  BY <1>1, NodeFacts
<1>5. m \in below[node_end[a]]
  BY <1>1, <1>3, <1>4, NodeFacts
<1> QED BY <1>1, <1>2, <1>4, <1>5, NodeFacts

LEMMA ChainPanic ==
    ASSUME TypeOK, ChainInv, NoFault, Panic PROVE ChainInv' /\ NoFault'
<1>1. EndInv' /\ ParentInv' /\ ScopeInv'
  BY SMTT(30) DEF ChainInv, EndInv, ParentInv, ScopeInv, UpTo, Panic, heap, ghost
<1>2. ChildInv' /\ OwnerInv' /\ BufferInv'
  BY DEF ChainInv, ChildInv, OwnerInv, BufferInv, Panic, heap, ghost
<1>3. CallInv'
  BY DEF ChainInv, CallInv, Sought, Removable, UpTo, Panic, heap, ghost
<1> QED
  BY <1>1, <1>2, <1>3 DEF ChainInv, NoFault, Panic

LEMMA ChainAppend ==
    ASSUME TypeOK, ChainInv, call = Idle,
           NEW a \in Allocator, NEW n \in Node \ liveNode,
           NEW b \in Buffer \ liveBuf, NEW sz \in Size, AppendNode(a, n, b, sz)
    PROVE  ChainInv'
<1> DEFINE e == node_end[a]
<1>1. /\ n \in Node /\ n # NULL
      /\ \A o \in Allocator : n \notin owned[o]
  BY AllocatorAssumption DEF ChainInv, OwnerInv
<1>2. /\ node_end' = [node_end EXCEPT ![a] = n]
      /\ owned' = [owned EXCEPT ![a] = @ \cup {n}]
      /\ below' = [below EXCEPT ![n] = owned[a]]
      /\ parent' = [parent EXCEPT ![n] = e]
      /\ child' = [m \in Node |-> IF m = e THEN n ELSE IF m = n THEN NULL ELSE child[m]]
      /\ node_end'[a] = n /\ owned'[a] = owned[a] \cup {n}
      /\ below'[n] = owned[a] /\ parent'[n] = e
      /\ UNCHANGED <<call, scopes>>
  BY <1>1 DEF AppendNode, TypeOK
<1>3. \A o \in Allocator \ {a} :
         node_end'[o] = node_end[o] /\ owned'[o] = owned[o]
  BY <1>2 DEF TypeOK
<1>4. \A m \in Node \ {n} : below'[m] = below[m] /\ parent'[m] = parent[m]
  BY <1>2 DEF TypeOK
<1>5. \A o \in Allocator : owned[o] \subseteq Node \ {n}
  BY <1>1 DEF TypeOK
<1>6. e \in owned[a] \cup {NULL} /\ owned[a] = UpTo(e)
  BY DEF ChainInv, EndInv
<1> HIDE DEF e
<1>7. EndInv'
  <2> SUFFICES ASSUME NEW o \in Allocator
               PROVE  /\ node_end'[o] \in owned'[o] \cup {NULL}
                      /\ owned'[o] = UpToNext(node_end'[o])
    BY DEF EndInv, UpTo, UpToNext
  <2>1. CASE o = a
    BY <2>1, <1>1, <1>2 DEF UpToNext
  <2>2. CASE o # a
    BY ZenonT(30), <2>2, <1>1, <1>3, <1>4, <1>5 DEF UpTo, UpToNext, ChainInv, EndInv
  <2> QED BY <2>1, <2>2
<1>8. ParentInv'
  <2> SUFFICES ASSUME NEW o \in Allocator, NEW m \in owned'[o]
               PROVE  /\ parent'[m] \in owned'[o] \cup {NULL}
                      /\ below'[m] = UpToNext(parent'[m])
                      /\ m \notin below'[m]
                      /\ below'[m] \subseteq owned'[o]
                      /\ \A k \in below'[m] : below'[k] \subseteq below'[m]
    BY DEF ParentInv, UpTo, UpToNext
  <2>1. CASE m = n
    <3>1. o = a
      BY <2>1, <1>1, <1>3
    <3>2. UpToNext(e) = UpTo(e)
      BY <1>1, <1>4, <1>5, <1>6, <1>2 DEF UpTo, UpToNext
    <3>3. \A k \in owned[a] : below'[k] \subseteq owned[a]
      BY <1>4, <1>5 DEF ChainInv, ParentInv
    <3> QED BY <2>1, <3>1, <3>2, <3>3, <1>1, <1>2, <1>6
  <2>2. CASE m # n
    <3>1. m \in owned[o] /\ owned[o] \subseteq owned'[o]
      BY <2>2, <1>2, <1>3
    <3>2. /\ parent[m] \in owned[o] \cup {NULL}
          /\ below[m] = UpTo(parent[m])
          /\ m \notin below[m]
          /\ below[m] \subseteq owned[o]
          /\ \A k \in below[m] : below[k] \subseteq below[m]
      BY <3>1 DEF ChainInv, ParentInv
    <3>3. below'[m] = below[m] /\ parent'[m] = parent[m]
      BY <3>1, <1>4, <1>5
    <3>4. UpToNext(parent[m]) = UpTo(parent[m])
      BY <3>2, <3>3, <1>4, <1>5 DEF UpTo, UpToNext
    <3>5. \A k \in below[m] : below'[k] = below[k]
      BY <3>2, <1>4, <1>5
    <3> QED BY <3>1, <3>2, <3>3, <3>4, <3>5
  <2> QED BY <2>1, <2>2
<1>9. ChildInv'
  <2> SUFFICES ASSUME NEW o \in Allocator, NEW m \in owned'[o]
               PROVE  /\ parent'[m] # NULL => child'[parent'[m]] = m
                      /\ m # node_end'[o] => /\ child'[m] \in owned'[o]
                                             /\ parent'[child'[m]] = m
    BY DEF ChildInv
  <2>1. CASE m = n
    <3>1. o = a
      BY <2>1, <1>1, <1>3
    <3> QED BY <2>1, <3>1, <1>1, <1>2, <1>5, <1>6
  <2>2. CASE m # n
    <3>1. m \in owned[o] /\ m \in Node
      BY <2>2, <1>2, <1>3, <1>5
    <3>2. /\ parent[m] # NULL => child[parent[m]] = m
          /\ m # node_end[o] => child[m] \in owned[o] /\ parent[child[m]] = m
          /\ parent[m] \in owned[o] \cup {NULL}
      BY <3>1 DEF ChainInv, ChildInv, ParentInv
    <3>3. parent[m] # NULL => parent[m] # e
      BY <3>1, <3>2, EndHasNoSuccessor DEF e
    <3>4. parent'[m] = parent[m]
      BY <3>1, <2>2, <1>4
    <3>5. parent[m] # NULL => child'[parent[m]] = m
      BY <3>1, <3>2, <3>3, <1>2, <1>5, <2>2
    <3>6. CASE o = a /\ m = e
      BY <3>6, <3>1, <3>4, <3>5, <1>1, <1>2
    <3>7. CASE ~(o = a /\ m = e)
      <4>1. m # e
        BY <3>7, <3>1, <1>6, AllocatorAssumption DEF ChainInv, OwnerInv, TypeOK
      <4>2. child'[m] = child[m]
        BY <4>1, <3>1, <2>2, <1>2
      <4>3. m # node_end'[o] => m # node_end[o]
        BY <3>7, <1>2, <1>3 DEF e
      <4>4. m # node_end[o] => parent'[child[m]] = m /\ child[m] \in owned'[o]
        BY <3>2, <1>2, <1>3, <1>4, <1>5
      <4> QED BY <4>2, <4>3, <4>4, <3>4, <3>5
    <3> QED BY <3>6, <3>7
  <2> QED BY <2>1, <2>2
<1>10. OwnerInv'
  <2>1. liveNode' = liveNode \cup {n}
    BY DEF AppendNode
  <2>2. liveNode' = UNION {owned'[o] : o \in Allocator}
    BY <2>1, <1>2, <1>3 DEF ChainInv, OwnerInv
  <2>3. \A o, q \in Allocator : o # q => owned'[o] \cap owned'[q] = {}
    BY <1>1, <1>2, <1>3 DEF ChainInv, OwnerInv
  <2> QED BY <2>2, <2>3 DEF OwnerInv
<1>11. BufferInv'
  <2>1. /\ liveNode' = liveNode \cup {n} /\ liveBuf' = liveBuf \cup {b}
        /\ buffer'[n] = b /\ \A m \in liveNode : buffer'[m] = buffer[m]
    BY <1>1 DEF AppendNode, TypeOK
  <2> QED BY <2>1 DEF ChainInv, BufferInv
<1>12. ScopeInv' /\ CallInv'
  BY <1>2, <1>3 DEF ChainInv, ScopeInv, CallInv, Idle
<1> QED
  BY <1>7, <1>8, <1>9, <1>10, <1>11, <1>12 DEF ChainInv

LEMMA ChainAlloc ==
    ASSUME TypeOK, ChainInv, NoFault, NEW a \in Allocator, NEW sz \in Size,
           Alloc(a, sz)
    PROVE  ChainInv' /\ NoFault'
<1>1. node_end[a] \in liveNode \cup {NULL}
  BY DEF ChainInv, EndInv, OwnerInv
<1>2. ASSUME NEW n \in Node \ liveNode, NEW b \in Buffer \ liveBuf,
             AppendNode(a, n, b, sz)
      PROVE  ChainInv' /\ NoFault'
  BY <1>2, ChainAppend DEF Alloc, Ready, AppendNode, NoFault
<1> QED BY <1>1, <1>2, ChainPanic DEF Alloc

(* A step that changes only the call leaves the chains alone.                *)
LEMMA SameHeap ==
    ASSUME ChainInv, UNCHANGED <<node_end, heap, scopes, ghost>>
    PROVE  EndInv' /\ ParentInv' /\ ChildInv' /\ OwnerInv' /\ BufferInv' /\ ScopeInv'
<1>1. EndInv' /\ ParentInv' /\ ScopeInv'
  BY ZenonT(30) DEF ChainInv, EndInv, ParentInv, ScopeInv, UpTo, heap, ghost
<1>2. ChildInv' /\ OwnerInv' /\ BufferInv'
  BY DEF ChainInv, ChildInv, OwnerInv, BufferInv, heap, ghost
<1> QED BY <1>1, <1>2

LEMMA ChainStart ==
    ASSUME TypeOK, ChainInv, NoFault, NEW a \in Allocator, NEW n \in owned[a],
           NEW op \in {"free", "realloc"}, NEW sz \in Size \cup {0},
           op = "free" => Removable(a, n), op = "realloc" => size[n] <= sz,
           Start(op, a, buffer[n], sz, NULL)
    PROVE  ChainInv' /\ NoFault'
<1>1. /\ call' = [op |-> op, self |-> a, ptr |-> buffer[n], node |-> node_end[a],
                  bytes |-> sz, scope |-> NULL, dst |-> NULL]
      /\ UNCHANGED <<node_end, total_alloc, heap, status, scopes, ghost>>
  BY NodeFacts DEF Start
<1>2. EndInv' /\ ParentInv' /\ ChildInv' /\ OwnerInv' /\ BufferInv' /\ ScopeInv'
  BY <1>1, SameHeap
<1>3. n \in Node /\ n \in owned'[a] /\ node_end[a] \in owned'[a] /\ n \in UpToNext(node_end[a])
  BY <1>1, NodeFacts DEF UpToNext, ghost
<1>4. Sought(n)'
  BY <1>1, <1>3 DEF Sought, UpTo, UpToNext, heap
<1>5. op = "free" => Removable(a, n)'
  BY <1>1 DEF Removable, heap
<1>6. op = "realloc" => size'[n] <= call'.bytes
  BY <1>1 DEF heap
<1>7. CallInv'
  BY <1>1, <1>3, <1>4, <1>5, <1>6 DEF CallInv
<1> QED BY <1>1, <1>2, <1>7 DEF ChainInv, NoFault

(* The block sought is at the node reached or before it; a node that is not  *)
(* the one sought has one before it.                                         *)
LEMMA SoughtStep ==
    ASSUME TypeOK, ChainInv, call.self \in Allocator, NEW t \in Node, Sought(t), ~Found
    PROVE  /\ call.node \in liveNode
           /\ parent[call.node] \in owned[call.self]
           /\ t \in UpTo(parent[call.node])
<1> DEFINE a == call.self
           c == call.node
<1>1. c \in owned[a] /\ t \in owned[a] /\ t \in UpTo(c) /\ buffer[t] = call.ptr
  BY DEF Sought
<1>2. c \in liveNode /\ c # NULL
  BY <1>1, NodeFacts
<1>3. t # c
  BY <1>1, <1>2 DEF Found
<1>4. t \in below[c]
  BY <1>1, <1>2, <1>3 DEF UpTo
<1>5. parent[c] # NULL
  BY <1>1, <1>4, NodeFacts
<1>6. t \in UpTo(parent[c]) /\ parent[c] \in owned[a]
  BY <1>1, <1>4, <1>5, NodeFacts DEF UpTo
<1> QED BY <1>2, <1>6

LEMMA ChainWalk ==
    ASSUME TypeOK, ChainInv, NoFault, Walk PROVE ChainInv' /\ NoFault'
<1>0. call.op \in {"free", "realloc"} /\ call.self \in Allocator
  BY DEF Walk, Finding, TypeOK, Call, Op, ChainInv, CallInv
<1>1. PICK t \in Node : /\ Sought(t)
                        /\ call.op = "free" => Removable(call.self, t)
                        /\ call.op = "realloc" => size[t] <= call.bytes
  BY <1>0 DEF ChainInv, CallInv
<1>2. /\ call.node \in liveNode
      /\ parent[call.node] \in owned[call.self]
      /\ t \in UpTo(parent[call.node])
  BY <1>0, <1>1, SoughtStep DEF Walk
<1>3. /\ call' = [call EXCEPT !.node = parent[call.node]]
      /\ UNCHANGED <<node_end, total_alloc, heap, status, scopes, ghost>>
  BY <1>2 DEF Walk
<1>4. EndInv' /\ ParentInv' /\ ChildInv' /\ OwnerInv' /\ BufferInv' /\ ScopeInv'
  BY <1>3, SameHeap
<1>5. /\ call'.op = call.op /\ call'.self = call.self /\ call'.ptr = call.ptr
      /\ call'.bytes = call.bytes /\ call'.scope = call.scope
      /\ call'.node = parent[call.node]
  BY <1>3 DEF TypeOK, Call
<1>6. Sought(t)'
  BY <1>1, <1>2, <1>3, <1>5 DEF Sought, UpTo, heap, ghost
<1>7. Removable(call.self, t) => Removable(call.self, t)'
  BY <1>3, <1>5 DEF Removable, heap
<1>8. CallInv'
  BY <1>0, <1>1, <1>3, <1>5, <1>6, <1>7 DEF CallInv, heap
<1> QED BY <1>3, <1>4, <1>8 DEF ChainInv, NoFault

LEMMA ChainNewScope ==
    ASSUME TypeOK, ChainInv, NoFault, NEW a \in Allocator, NewScope(a)
    PROVE  ChainInv' /\ NoFault'
<1>1. EndInv' /\ ParentInv'
  BY ZenonT(30) DEF ChainInv, EndInv, ParentInv, UpTo, NewScope, heap, ghost
<1>2. ChildInv' /\ OwnerInv' /\ BufferInv'
  BY DEF ChainInv, ChildInv, OwnerInv, BufferInv, NewScope, heap, ghost
<1>3. ScopeInv'
  BY DEF ChainInv, ScopeInv, EndInv, NewScope, TypeOK, ghost
<1>4. CallInv'
  BY DEF CallInv, NewScope, Ready, Idle
<1> QED BY <1>1, <1>2, <1>3, <1>4 DEF ChainInv, NoFault, NewScope

LEMMA ChainStartRelease ==
    ASSUME TypeOK, ChainInv, NoFault, NEW a \in Allocator,
           NEW op \in {"free_scope", "deinit"},
           NEW s \in owned[a] \cup {NULL}, op = "deinit" => s = NULL,
           StartRelease(op, a, s)
    PROVE  ChainInv' /\ NoFault'
<1>1. /\ call'.op = op /\ call'.self = a /\ call'.scope = s
      /\ scopes' = [scopes EXCEPT ![a] = Outer(a, s)]
      /\ UNCHANGED <<node_end, total_alloc, heap, status, ghost>>
  BY DEF StartRelease, Idle
<1>2. EndInv' /\ ParentInv'
  BY ZenonT(60), <1>1 DEF ChainInv, EndInv, ParentInv, UpTo, heap, ghost
<1>3. ChildInv' /\ OwnerInv' /\ BufferInv'
  BY <1>1 DEF ChainInv, ChildInv, OwnerInv, BufferInv, heap, ghost
<1>4. /\ scopes'[a] \subseteq UpTo(s) \cup {NULL}
      /\ scopes'[a] \subseteq scopes[a]
      /\ \A b \in Allocator \ {a} : scopes'[b] = scopes[b]
  BY <1>1 DEF TypeOK, Outer, UpTo
<1>5. ScopeInv'
  BY <1>1, <1>4 DEF ChainInv, ScopeInv, ghost
<1>6. CallInv'
  BY <1>1, <1>4 DEF CallInv, UpTo, ghost
<1> QED BY <1>1, <1>2, <1>3, <1>5, <1>6 DEF ChainInv, NoFault

LEMMA ChainEndScope ==
    ASSUME TypeOK, ChainInv, NoFault, EndScope PROVE ChainInv' /\ NoFault'
<1>1. EndInv' /\ ParentInv' /\ ChildInv' /\ OwnerInv' /\ BufferInv' /\ ScopeInv'
  BY SameHeap DEF EndScope
<1>2. CallInv'
  BY DEF EndScope, CallInv, Idle
<1> QED BY <1>1, <1>2 DEF ChainInv, NoFault, EndScope

LEMMA ChainReplace ==
    ASSUME TypeOK, ChainInv, NEW a \in Allocator, NEW n \in owned[a],
           NEW b \in Buffer \ liveBuf, NEW sz \in Size \cup {0},
           Replace(a, n, b, sz)
    PROVE  ChainInv'
<1>0. UNCHANGED <<node_end, parent, child, liveNode, scopes, owned, below>>
  BY DEF Replace, ghost
<1>1. EndInv' /\ ParentInv' /\ ScopeInv'
  <2>1. EndInv'
    BY <1>0 DEF ChainInv, EndInv, UpTo
  <2>2. ParentInv'
    BY <1>0 DEF ChainInv, ParentInv, UpTo
  <2>3. ScopeInv'
    BY <1>0 DEF ChainInv, ScopeInv
  <2> QED BY <2>1, <2>2, <2>3
<1>2. ChildInv' /\ OwnerInv'
  BY <1>0 DEF ChainInv, ChildInv, OwnerInv
<1>3. BufferInv'
  <2>1. n \in Node /\ n \in liveNode
    BY NodeFacts
  <2>2. /\ liveNode' = liveNode /\ liveBuf' = (liveBuf \ {buffer[n]}) \cup {b}
        /\ buffer'[n] = b
        /\ \A m \in liveNode \ {n} : buffer'[m] = buffer[m]
    BY <2>1 DEF Replace, TypeOK
  <2> QED BY <2>1, <2>2 DEF ChainInv, BufferInv
<1>4. CallInv'
  BY DEF Replace, CallInv, Idle
<1> QED BY <1>1, <1>2, <1>3, <1>4 DEF ChainInv

LEMMA ChainRealloc ==
    ASSUME TypeOK, ChainInv, NoFault, Realloc PROVE ChainInv' /\ NoFault'
<1> DEFINE n == call.node
<1>0. call.op = "realloc" /\ call.self \in Allocator /\ Found
  BY DEF Realloc, ChainInv, CallInv
<1>1. PICK t \in Node : Sought(t) /\ size[t] <= call.bytes
  BY <1>0 DEF ChainInv, CallInv
<1>2. t = n
  BY <1>0, <1>1, NodeFacts DEF Sought, Found, ChainInv, BufferInv
<1>3. ASSUME NEW b \in Buffer \ liveBuf, Replace(call.self, n, b, call.bytes)
      PROVE  ChainInv' /\ NoFault'
  <2>1. n \in owned[call.self] /\ call.bytes \in Size \cup {0}
    BY <1>1 DEF Sought, TypeOK, Call
  <2>2. ChainInv'
    BY <1>0, <1>3, <2>1, ChainReplace
  <2>3. NoFault'
    BY <1>3 DEF Replace, NoFault
  <2> QED BY <2>2, <2>3
<1> QED BY <1>1, <1>2, <1>3, ChainPanic DEF Realloc

(* Nothing is above the end of a chain.                                      *)
LEMMA EndIsTop ==
    ASSUME TypeOK, ChainInv, NEW a \in Allocator, node_end[a] # NULL,
           NEW o \in Allocator, NEW m \in owned[o]
    PROVE  node_end[a] \notin below[m]
<1>1. SUFFICES ASSUME node_end[a] \in below[m] PROVE FALSE
  OBVIOUS
<1>2. node_end[a] \in owned[a] /\ node_end[a] \in owned[o]
  BY <1>1, NodeFacts DEF ChainInv, EndInv
<1>3. o = a /\ m # node_end[a]
  BY <1>1, <1>2, NodeFacts
<1>4. m \in below[node_end[a]]
  BY <1>3, NodeFacts
<1>5. below[m] \subseteq below[node_end[a]] /\ node_end[a] \notin below[node_end[a]]
  BY <1>2, <1>4, NodeFacts
<1> QED BY <1>1, <1>5

LEMMA ChainPop ==
    ASSUME TypeOK, ChainInv, NEW a \in Allocator, call.self = a,
           call.op \in {"free_scope", "deinit"},
           node_end[a] # call.scope, node_end[a] \in liveNode, Pop(a, node_end[a])
    PROVE  ChainInv'
<1> DEFINE n == node_end[a]
<1>1. n \in owned[a] /\ n # NULL /\ n \in Node /\ n \in liveNode
  BY AllocatorAssumption DEF ChainInv, EndInv, TypeOK
<1>2. /\ node_end' = [node_end EXCEPT ![a] = parent[n]]
      /\ liveNode' = liveNode \ {n} /\ liveBuf' = liveBuf \ {buffer[n]}
      /\ UNCHANGED <<parent, child, buffer, call, scopes>>
      /\ owned' = [o \in Allocator |-> owned[o] \ {n}]
      /\ below' = [m \in Node |-> IF m = n THEN {} ELSE below[m] \ {n}]
  BY DEF Pop, Forget
<1>3. \A o \in Allocator : \A m \in owned[o] : m # n => below'[m] = below[m]
  <2> SUFFICES ASSUME NEW o \in Allocator, NEW m \in owned[o], m # n
               PROVE  below'[m] = below[m]
    OBVIOUS
  <2>1. n \notin below[m] /\ m \in Node
    BY <1>1, EndIsTop, NodeFacts
  <2> QED BY <2>1, <1>2
<1>4. \A o \in Allocator : /\ owned'[o] = owned[o] \ {n}
                           /\ o # a => owned'[o] = owned[o] /\ node_end'[o] = node_end[o]
  BY <1>1, <1>2, NodeFacts DEF TypeOK
<1>5. owned'[a] = below[n] /\ node_end'[a] = parent[n]
  BY <1>1, <1>2, <1>4, NodeFacts DEF ChainInv, EndInv, UpTo, TypeOK
<1>6. /\ parent[n] \in owned'[a] \cup {NULL}
      /\ parent[n] = NULL => below[n] = {}
      /\ parent[n] # NULL => below[n] = below[parent[n]] \cup {parent[n]}
  BY <1>1, <1>5, NodeFacts
<1> HIDE DEF n
<1>7. EndInv'
  <2> SUFFICES ASSUME NEW o \in Allocator
               PROVE  /\ node_end'[o] \in owned'[o] \cup {NULL}
                      /\ owned'[o] = UpToNext(node_end'[o])
    BY DEF EndInv, UpTo, UpToNext
  <2>1. CASE o = a
    BY <2>1, <1>3, <1>4, <1>5, <1>6 DEF UpToNext
  <2>2. CASE o # a
    <3>1. node_end[o] \in owned[o] \cup {NULL} /\ owned[o] = UpTo(node_end[o])
      BY DEF ChainInv, EndInv
    <3> QED BY <2>2, <3>1, <1>3, <1>4 DEF UpTo, UpToNext
  <2> QED BY <2>1, <2>2
<1>8. ParentInv' /\ ChildInv'
  <2>0. ASSUME NEW o \in Allocator, NEW m \in owned'[o]
        PROVE  /\ m \in owned[o] /\ m # n
               /\ below'[m] = below[m] /\ n \notin below[m] /\ parent[m] # n
    <3>1. m \in owned[o] /\ m # n
      BY <1>4
    <3> QED BY <3>1, <1>1, <1>3, EndIsTop, EndHasNoSuccessor DEF n
  <2>1. ASSUME NEW o \in Allocator, NEW m \in owned'[o]
        PROVE  /\ parent[m] \in owned'[o] \cup {NULL}
               /\ below'[m] = UpToNext(parent[m])
               /\ m \notin below'[m]
               /\ below'[m] \subseteq owned'[o]
               /\ \A k \in below'[m] : below'[k] \subseteq below'[m]
    <3>1. /\ m \in owned[o] /\ m # n
          /\ below'[m] = below[m] /\ n \notin below[m] /\ parent[m] # n
      BY <2>0
    <3>2. \A k \in below[m] : below'[k] = below[k] /\ below[k] \subseteq below[m]
      BY <3>1, <1>3, NodeFacts
    <3>3. parent[m] # NULL => below'[parent[m]] = below[parent[m]]
      BY <3>1, <1>3, NodeFacts
    <3>4. CASE parent[m] = NULL
      BY <3>1, <3>2, <3>4, <1>4, NodeFacts DEF UpToNext
    <3>5. CASE parent[m] # NULL
      BY <3>1, <3>2, <3>3, <3>5, <1>4, NodeFacts DEF UpToNext
    <3> QED BY <3>4, <3>5
  <2>2. ASSUME NEW o \in Allocator, NEW m \in owned'[o]
        PROVE  /\ parent[m] # NULL => child[parent[m]] = m
               /\ m # node_end'[o] => child[m] \in owned'[o] /\ parent[child[m]] = m
    <3>0. m \in owned[o] /\ m # n
      BY <2>0
    <3>1. SUFFICES ASSUME m # node_end'[o]
                   PROVE  child[m] \in owned'[o] /\ parent[child[m]] = m
      BY <3>0, NodeFacts
    <3>2. m # node_end[o]
      BY <3>0, <1>4, <3>1 DEF n
    <3>3. child[m] \in owned[o] /\ parent[child[m]] = m
      BY <3>0, <3>2, NodeFacts
    <3>4. child[m] # n
      <4>1. CASE o = a
        BY <4>1, <3>1, <3>3, <1>5
      <4>2. CASE o # a
        BY <4>2, <3>3, <1>1, NodeFacts
      <4> QED BY <4>1, <4>2
    <3> QED BY <3>3, <3>4, <1>4
  <2>3. ParentInv'
    <3> SUFFICES ASSUME NEW o \in Allocator, NEW m \in owned'[o]
                 PROVE  /\ parent'[m] \in owned'[o] \cup {NULL}
                        /\ below'[m] = UpToNext(parent'[m])
                        /\ m \notin below'[m]
                        /\ below'[m] \subseteq owned'[o]
                        /\ \A k \in below'[m] : below'[k] \subseteq below'[m]
      BY DEF ParentInv, UpTo, UpToNext
    <3>1. parent'[m] = parent[m]
      BY <1>2
    <3> QED BY <3>1, <2>1
  <2>4. ChildInv'
    BY <2>2, <1>2 DEF ChildInv
  <2> QED BY <2>3, <2>4
<1>9. OwnerInv'
  BY <1>2, <1>4 DEF ChainInv, OwnerInv
<1>10. BufferInv'
  BY <1>1, <1>2 DEF ChainInv, BufferInv
<1>11. /\ call.scope \in owned[a] \cup {NULL}
       /\ scopes[a] \subseteq UpTo(call.scope) \cup {NULL}
       /\ call.op = "deinit" => call.scope = NULL
  BY DEF ChainInv, CallInv
<1>12. UpTo(call.scope) \subseteq owned'[a]
  <2>1. CASE call.scope = NULL
    BY <2>1 DEF UpTo
  <2>2. CASE call.scope # NULL
    <3>1. call.scope \in owned[a] /\ call.scope # n
      BY <2>2, <1>11 DEF n
    <3>2. n \notin below[call.scope] /\ below[call.scope] \subseteq owned[a]
      BY <3>1, <1>1, EndIsTop, NodeFacts DEF n
    <3> QED BY <2>2, <3>1, <3>2, <1>4 DEF UpTo
  <2> QED BY <2>1, <2>2
<1>13. UpToNext(call.scope) = UpTo(call.scope)
  <2>1. call.scope # NULL => call.scope \in owned'[a]
    BY <1>12 DEF UpTo
  <2>2. call.scope # NULL => below'[call.scope] = below[call.scope]
    <3>1. call.scope # NULL => call.scope \in owned[a] /\ call.scope # n
      BY <1>4, <2>1
    <3> QED BY <1>3, <3>1
  <2> QED BY <2>2 DEF UpTo, UpToNext
<1>14. ScopeInv'
  <2>1. scopes[a] \subseteq owned'[a] \cup {NULL}
    BY <1>11, <1>12
  <2> QED BY <2>1, <1>2, <1>4 DEF ChainInv, ScopeInv
<1>15. CallInv'
  <2>1. call.scope \in owned'[a] \cup {NULL}
    BY <1>12 DEF UpTo
  <2>2. scopes[a] \subseteq UpToNext(call.scope) \cup {NULL}
    BY <1>11, <1>13
  <2> QED BY <2>1, <2>2, <1>2, <1>11 DEF CallInv, UpTo, UpToNext
<1> QED
  BY <1>7, <1>8, <1>9, <1>10, <1>14, <1>15 DEF ChainInv

LEMMA ChainPopScope ==
    ASSUME TypeOK, ChainInv, NoFault, PopScope PROVE ChainInv' /\ NoFault'
<1>1. /\ call.self \in Allocator /\ call.op \in {"free_scope", "deinit"}
      /\ call.scope \in owned[call.self] \cup {NULL}
      /\ node_end[call.self] # call.scope
  BY DEF PopScope, Releasing, ChainInv, CallInv
<1>2. node_end[call.self] \in liveNode
  <2>1. node_end[call.self] # NULL
    BY <1>1 DEF ChainInv, EndInv, UpTo
  <2> QED BY <1>1, <2>1 DEF ChainInv, EndInv, OwnerInv
<1>3. Pop(call.self, node_end[call.self])
  BY <1>2 DEF PopScope
<1>4. ChainInv'
  BY <1>1, <1>2, <1>3, ChainPop
<1> QED BY <1>3, <1>4 DEF Pop, NoFault

(* The child link of a removable node is right: NULL exactly at the end.     *)
LEMMA RemovableChild ==
    ASSUME TypeOK, ChainInv, NEW a \in Allocator, NEW n \in owned[a],
           Removable(a, n)
    PROVE  /\ n = node_end[a] => child[n] = NULL
           /\ n # node_end[a] => child[n] \in owned[a] /\ parent[child[n]] = n
<1>1. n # NULL /\ node_end[a] # NULL
  BY NodeFacts
<1>2. ASSUME n = node_end[a], child[n] # NULL PROVE FALSE
  <2>1. child[n] \in liveNode /\ parent[child[n]] = n
    BY <1>2 DEF Removable
  <2>2. PICK o \in Allocator : child[n] \in owned[o]
    BY <2>1 DEF ChainInv, OwnerInv
  <2> QED BY <1>1, <1>2, <2>1, <2>2, EndHasNoSuccessor
<1> QED BY <1>2, NodeFacts

LEMMA ChainUnlink ==
    ASSUME TypeOK, ChainInv, NEW a \in Allocator, NEW n \in owned[a],
           Removable(a, n), Unlink(a, n)
    PROVE  ChainInv'
<1> DEFINE p == parent[n]
           c == child[n]
<1>1. n # NULL /\ n \in Node /\ n \in liveNode
  BY NodeFacts
<1>2. /\ node_end' = [node_end EXCEPT ![a] = IF n = @ THEN p ELSE @]
      /\ liveNode' = liveNode \ {n} /\ liveBuf' = liveBuf \ {buffer[n]}
      /\ child' = [m \in Node |-> IF m = p THEN c ELSE child[m]]
      /\ parent' = [m \in Node |-> IF m = c THEN p ELSE parent[m]]
      /\ UNCHANGED <<buffer, scopes>>
      /\ call' = Idle
      /\ owned' = [o \in Allocator |-> owned[o] \ {n}]
      /\ below' = [m \in Node |-> IF m = n THEN {} ELSE below[m] \ {n}]
  BY DEF Unlink, Forget
<1>3. /\ n = node_end[a] => c = NULL
      /\ n # node_end[a] => c \in owned[a] /\ parent[c] = n /\ c # n /\ c # NULL
  BY RemovableChild, NodeFacts
<1>4. /\ p \in owned[a] \cup {NULL} /\ p # n
      /\ p = NULL => below[n] = {}
      /\ p # NULL => below[n] = below[p] \cup {p} /\ child[p] = n
      /\ n \notin below[n]
      /\ p # NULL => n \notin below[p]
  BY <1>1, NodeFacts
<1>5. \A o \in Allocator : /\ owned'[o] = owned[o] \ {n}
                           /\ o # a => owned'[o] = owned[o] /\ node_end'[o] = node_end[o]
  BY <1>1, <1>2, NodeFacts DEF TypeOK
<1>6. node_end'[a] = IF n = node_end[a] THEN p ELSE node_end[a]
  BY <1>2 DEF TypeOK
<1>7. \A m \in Node : m # n => below'[m] = below[m] \ {n}
  BY <1>2
<1>7a. p # NULL => p \in Node /\ below'[p] = below[p]
  <2>1. SUFFICES ASSUME p # NULL PROVE p \in Node /\ below'[p] = below[p]
    OBVIOUS
  <2>2. p \in Node
    BY <2>1, <1>4 DEF TypeOK
  <2>3. below'[p] = below[p] \ {n}
    BY <2>2, <1>4, <1>7
  <2> QED BY <2>1, <2>2, <2>3, <1>4
(* The only node after n is its child. *)
<1>8. ASSUME NEW o \in Allocator, NEW m \in owned[o], parent[m] = n
      PROVE  m = c /\ c # NULL /\ o = a
  <2>1. child[n] = m /\ m # NULL /\ n \in owned[o]
    BY <1>1, <1>8, NodeFacts
  <2> QED BY <2>1, NodeFacts
<1>9. ASSUME NEW o \in Allocator, NEW m \in owned'[o]
      PROVE  m \in owned[o] /\ m # n /\ m \in Node /\ m # NULL
  BY <1>5, <1>9, NodeFacts
<1> HIDE DEF p, c
<1>10. EndInv'
  <2> SUFFICES ASSUME NEW o \in Allocator
               PROVE  /\ node_end'[o] \in owned'[o] \cup {NULL}
                      /\ owned'[o] = UpToNext(node_end'[o])
    BY DEF EndInv, UpTo, UpToNext
  <2>1. node_end[o] \in owned[o] \cup {NULL} /\ owned[o] = UpTo(node_end[o])
    BY DEF ChainInv, EndInv
  <2>2. CASE o # a
    <3>1. n \notin owned[o]
      BY <2>2, NodeFacts
    <3>2. node_end[o] # NULL => below'[node_end[o]] = below[node_end[o]]
      <4> SUFFICES ASSUME node_end[o] # NULL
                   PROVE  below'[node_end[o]] = below[node_end[o]]
        OBVIOUS
      <4>1. node_end[o] \in owned[o]
        BY <2>1
      <4>2. node_end[o] \in Node /\ node_end[o] # n /\ n \notin below[node_end[o]]
        BY <4>1, <3>1, NodeFacts
      <4> QED BY SMTT(30), <4>2, <1>7
    <3> QED BY <2>1, <2>2, <3>2, <1>5 DEF UpTo, UpToNext
  <2>3. CASE o = a /\ n = node_end[a]
    <3>1. owned'[a] = below[n] /\ node_end'[a] = p
      BY <2>1, <2>3, <1>1, <1>4, <1>5, <1>6 DEF UpTo
    <3>2. p # NULL => p \in Node /\ below'[p] = below[p]
      BY <1>7a
    <3> QED BY <2>3, <3>1, <3>2, <1>4 DEF UpToNext
  <2>4. CASE o = a /\ n # node_end[a]
    <3>1. node_end[a] \in Node /\ node_end[a] # NULL
      BY NodeFacts DEF TypeOK
    <3> QED BY <2>1, <2>4, <3>1, <1>5, <1>6, <1>7 DEF UpTo, UpToNext
  <2> QED BY <2>2, <2>3, <2>4
<1>11. ParentInv'
  <2> SUFFICES ASSUME NEW o \in Allocator, NEW m \in owned'[o]
               PROVE  /\ parent'[m] \in owned'[o] \cup {NULL}
                      /\ below'[m] = UpToNext(parent'[m])
                      /\ m \notin below'[m]
                      /\ below'[m] \subseteq owned'[o]
                      /\ \A k \in below'[m] : below'[k] \subseteq below'[m]
    BY DEF ParentInv, UpTo, UpToNext
  <2>1. m \in owned[o] /\ m # n /\ m \in Node /\ m # NULL
    BY <1>9
  <2>2. below'[m] = below[m] \ {n}
    BY <2>1, <1>7
  <2>3. \A k \in below'[m] : below'[k] \subseteq below'[m]
    <3> SUFFICES ASSUME NEW k \in below'[m] PROVE below'[k] \subseteq below'[m]
      OBVIOUS
    <3>1. k \in below[m] /\ k # n /\ k \in Node
      <4>1. k \in below[m] /\ k # n
        BY <2>2
      <4>2. below[m] \subseteq Node
        BY <2>1 DEF TypeOK
      <4> QED BY <4>1, <4>2
    <3>2. below'[k] = below[k] \ {n}
      BY <3>1, <1>7
    <3>3. below[k] \subseteq below[m]
      BY <2>1, <3>1, NodeFacts
    <3> QED BY <2>2, <3>2, <3>3
  <2>4. m \notin below'[m] /\ below'[m] \subseteq owned'[o]
    BY <2>1, <2>2, <1>5, NodeFacts
  <2>5. CASE m = c
    <3>1. o = a /\ parent[m] = n /\ parent'[m] = p
      BY <2>1, <2>5, <1>2, <1>3, NodeFacts DEF p
    <3>2. below[m] = below[n] \cup {n}
      BY <2>1, <3>1, <1>1, NodeFacts
    <3>3. below'[m] = below[n]
      BY <2>2, <3>2, <1>4
    <3>4. p # NULL => p \in Node /\ below'[p] = below[p]
      BY <1>7a
    <3>5. parent'[m] \in owned'[o] \cup {NULL} /\ below'[m] = UpToNext(parent'[m])
      BY <3>1, <3>3, <3>4, <1>4, <1>5 DEF UpToNext
    <3> QED BY <2>3, <2>4, <3>5
  <2>6. CASE m # c
    <3>1. parent'[m] = parent[m] /\ parent[m] # n
      BY <2>1, <2>6, <1>2, <1>8
    <3>2. parent[m] \in owned'[o] \cup {NULL}
      BY <2>1, <3>1, <1>5, NodeFacts
    <3>3. below'[m] = UpToNext(parent[m])
      <4>1. CASE parent[m] = NULL
        BY <2>1, <2>2, <4>1, NodeFacts DEF UpToNext
      <4>2. CASE parent[m] # NULL
        <5>1. parent[m] \in Node /\ below[m] = below[parent[m]] \cup {parent[m]}
          BY <2>1, <4>2, NodeFacts DEF TypeOK
        <5> QED BY <2>2, <4>2, <5>1, <3>1, <1>7 DEF UpToNext
      <4> QED BY <4>1, <4>2
    <3> QED BY <2>3, <2>4, <3>1, <3>2, <3>3
  <2> QED BY <2>5, <2>6
<1>12. ChildInv'
  <2> SUFFICES ASSUME NEW o \in Allocator, NEW m \in owned'[o]
               PROVE  /\ parent'[m] # NULL => child'[parent'[m]] = m
                      /\ m # node_end'[o] => /\ child'[m] \in owned'[o]
                                             /\ parent'[child'[m]] = m
    BY DEF ChildInv
  <2>1. m \in owned[o] /\ m # n /\ m \in Node /\ m # NULL
    BY <1>9
  <2>2. ASSUME parent'[m] # NULL PROVE child'[parent'[m]] = m
    <3>1. CASE m = c
      <4>1. parent'[m] = p
        BY <2>1, <3>1, <1>2
      <4>2. p \in Node
        BY <2>2, <4>1, <1>4 DEF TypeOK
      <4> QED BY <3>1, <4>1, <4>2, <1>2
    <3>2. CASE m # c
      <4>1. parent'[m] = parent[m] /\ parent[m] # n /\ parent[m] # NULL
        BY <2>1, <2>2, <3>2, <1>2, <1>8
      <4>2. parent[m] \in Node /\ child[parent[m]] = m
        BY <2>1, <4>1, NodeFacts DEF TypeOK
      <4>3. parent[m] # p
        BY <2>1, <4>1, <4>2, <1>4
      <4> QED BY <4>1, <4>2, <4>3, <1>2
    <3> QED BY <3>1, <3>2
  <2>3. ASSUME m # node_end'[o]
        PROVE  child'[m] \in owned'[o] /\ parent'[child'[m]] = m
    <3>1. CASE m = p
      <4>1. o = a /\ child'[m] = c
        BY <2>1, <3>1, <1>2, <1>4, NodeFacts
      <4>2. n # node_end[a]
        BY <2>3, <3>1, <4>1, <1>6
      <4>3. c \in owned[a] /\ c # n /\ c \in Node
        BY <4>2, <1>3 DEF TypeOK
      <4>4. parent'[c] = p
        BY <4>3, <1>2
      <4> QED BY <3>1, <4>1, <4>3, <4>4, <1>5
    <3>2. CASE m # p
      <4>1. m # node_end[o]
        BY <2>1, <2>3, <1>5, <1>6
      <4>2. child[m] \in owned[o] /\ parent[child[m]] = m /\ child[m] \in Node
        BY <2>1, <4>1, NodeFacts DEF TypeOK
      <4>3. child'[m] = child[m]
        BY <2>1, <3>2, <1>2
      <4>4. child[m] # n
        BY <3>2, <4>2 DEF p
      <4>5. child[m] # c
        <5>1. SUFFICES ASSUME child[m] = c PROVE FALSE
          OBVIOUS
        <5>2. c # NULL
          BY <4>2, <5>1, NodeFacts
        <5> QED BY <2>1, <4>2, <5>1, <5>2, <1>3
      <4>6. parent'[child[m]] = m
        BY <4>2, <4>5, <1>2
      <4> QED BY <4>2, <4>3, <4>4, <4>6, <1>5
    <3> QED BY <3>1, <3>2
  <2> QED BY <2>2, <2>3
<1>13. OwnerInv'
  BY <1>2, <1>5 DEF ChainInv, OwnerInv
<1>14. BufferInv'
  BY <1>1, <1>2 DEF ChainInv, BufferInv
<1>15. ScopeInv'
  BY <1>2, <1>5 DEF ChainInv, ScopeInv, Removable
<1>16. CallInv'
  BY <1>2 DEF CallInv, Idle
<1> QED
  BY <1>10, <1>11, <1>12, <1>13, <1>14, <1>15, <1>16 DEF ChainInv

(* The block a call has found is the one it looks for.                       *)
LEMMA SoughtFound ==
    ASSUME TypeOK, ChainInv, call.self \in Allocator, NEW t \in Node, Sought(t), Found
    PROVE  call.node = t /\ t \in owned[call.self]
BY NodeFacts DEF Sought, Found, ChainInv, BufferInv

LEMMA ChainFree ==
    ASSUME TypeOK, ChainInv, NoFault, Free PROVE ChainInv' /\ NoFault'
<1> DEFINE a == call.self
           n == call.node
<1>0. call.op = "free" /\ a \in Allocator /\ Found
  BY DEF Free, ChainInv, CallInv
<1>1. PICK t \in Node : Sought(t) /\ Removable(a, t)
  BY <1>0 DEF ChainInv, CallInv
<1>2. t = n /\ n \in owned[a]
  BY <1>0, <1>1, SoughtFound
<1>3. {parent[n], child[n]} \subseteq liveNode \cup {NULL}
  <2>1. parent[n] \in liveNode \cup {NULL}
    BY <1>0, <1>2, NodeFacts
  <2>2. child[n] \in liveNode \cup {NULL}
    BY <1>1, <1>2 DEF Removable
  <2> QED BY <2>1, <2>2
<1>4. Unlink(a, n)
  BY <1>3 DEF Free
<1>5. ChainInv'
  BY <1>0, <1>1, <1>2, <1>4, ChainUnlink
<1> QED BY <1>4, <1>5 DEF Unlink, NoFault

-----------------------------------------------------------------------------
(* The theorems.                                                             *)

LEMMA ChainNext ==
    ASSUME TypeOK, ChainInv, NoFault, Next PROVE ChainInv' /\ NoFault'
<1>1. CASE Internal
  BY <1>1, ChainWalk, ChainFree, ChainRealloc, ChainPopScope, ChainEndScope
  DEF Internal
<1>2. ASSUME NEW a \in Allocator, Client(a) PROVE ChainInv' /\ NoFault'
  <2>1. ASSUME NEW sz \in Size, Alloc(a, sz) PROVE ChainInv' /\ NoFault'
    BY <2>1, ChainAlloc
  <2>2. ASSUME NEW o \in Allocator, NEW sz \in Size, NEW n \in owned[o],
               sz <= size[n], Copy(a, n, sz)
        PROVE  ChainInv' /\ NoFault'
    <3>1. n \in liveNode
      BY NodeFacts
    <3> QED BY <2>2, <3>1, ChainAlloc DEF Copy
  <2>3. ASSUME NEW n \in owned[a], Removable(a, n), StartFree(a, buffer[n])
        PROVE  ChainInv' /\ NoFault'
    BY <2>3, ChainStart DEF StartFree
  <2>4. ASSUME NEW n \in owned[a], NEW sz \in Size, size[n] <= sz,
               StartRealloc(a, buffer[n], sz)
        PROVE  ChainInv' /\ NoFault'
    BY <2>4, ChainStart, ChainPanic DEF StartRealloc
  <2>5. CASE NewScope(a)
    BY <2>5, ChainNewScope
  <2>6. ASSUME NEW s \in scopes[a], StartFreeScope(a, s)
        PROVE  ChainInv' /\ NoFault'
    <3>1. s \in owned[a] \cup {NULL}
      BY DEF ChainInv, ScopeInv
    <3> QED BY <2>6, <3>1, ChainStartRelease DEF StartFreeScope
  <2>7. CASE StartDeinit(a)
    BY <2>7, ChainStartRelease DEF StartDeinit
  <2> QED BY <1>2, <2>1, <2>2, <2>3, <2>4, <2>5, <2>6, <2>7 DEF Client
<1> QED BY <1>1, <1>2 DEF Next

(* Every variable keeps its type, the chains of all allocators stay well     *)
(* formed, and no step is an invalid access: the inductive invariant of      *)
(* allocator.c under a disciplined client.                                   *)
THEOREM AllocatorInvariant == Spec => [](TypeOK /\ ChainInv /\ NoFault)
<1>1. Init => TypeOK /\ ChainInv /\ NoFault
  BY TypeInit, ChainInit
<1>2. TypeOK /\ ChainInv /\ NoFault /\ [Next]_vars
        => (TypeOK /\ ChainInv /\ NoFault)'
  BY Stutter, TypeNext, ChainNext
<1> QED
  BY <1>1, <1>2, PTL DEF Spec

(* allocator_free, allocator_realloc and allocator_free_scope never follow a *)
(* link to freed memory or through NULL, whatever the order of the calls.    *)
THEOREM AllocatorIsSafe == Spec => []NoFault
BY AllocatorInvariant, PTL

(* Type correctness.                                                         *)
THEOREM AllocatorTypes == Spec => []TypeOK
BY AllocatorInvariant, PTL

(* The client waits for its calls.                                           *)
LEMMA ClientReady ==
    ASSUME TypeOK, ChainInv, NEW a \in Allocator, Client(a)
    PROVE  call.op = "idle"
<1>1. \A sz \in Size : Alloc(a, sz) => Ready
  BY DEF Alloc
<1>2. \A n \in Node, sz \in Size : Copy(a, n, sz) => Ready
  BY <1>1 DEF Copy
<1>3. \A p, sz : (StartFree(a, p) => Ready) /\ (StartRealloc(a, p, sz) => Ready)
  BY DEF StartFree, StartRealloc, Start
<1>4. \A s : (StartFreeScope(a, s) => Ready) /\ (StartDeinit(a) => Ready)
  BY DEF StartFreeScope, StartDeinit, StartRelease
<1>5. NewScope(a) => Ready
  BY DEF NewScope
<1>6. Ready
  BY <1>1, <1>2, <1>3, <1>4, <1>5, NodeFacts DEF Client
<1> QED BY <1>6 DEF Ready, Idle

LEMMA DeinitStep ==
    ASSUME TypeOK, ChainInv, Next, call.op = "deinit", call'.op = "idle"
    PROVE  owned'[call.self] = {} /\ node_end'[call.self] = NULL
<1>1. CASE EndScope
  <2>1. node_end[call.self] = NULL /\ call.self \in Allocator
    BY <1>1 DEF EndScope, ChainInv, CallInv
  <2>2. owned[call.self] = {}
    BY <2>1 DEF ChainInv, EndInv, UpTo
  <2> QED BY <1>1, <2>1, <2>2 DEF EndScope, ghost
<1>2. CASE PopScope
  BY <1>2 DEF PopScope, Pop, Fault
<1>3. CASE Walk \/ Free \/ Realloc
  BY <1>3 DEF Walk, Free, Realloc, Finding
<1>4. ASSUME NEW a \in Allocator, Client(a) PROVE FALSE
  BY <1>4, ClientReady
<1> QED BY <1>1, <1>2, <1>3, <1>4 DEF Next, Internal

(* allocator_deinit returns only when its allocator holds no node: nothing   *)
(* allocated on a scoped_allocator outlives it.                              *)
THEOREM DeinitReleases == Spec => DeinitReleasesAll
<1>1. TypeOK /\ ChainInv /\ [Next]_vars =>
        [call.op = "deinit" /\ call'.op = "idle" =>
            owned'[call.self] = {} /\ node_end'[call.self] = NULL]_vars
  BY DeinitStep
<1> QED BY <1>1, AllocatorInvariant, PTL DEF Spec, DeinitReleasesAll

-----------------------------------------------------------------------------
(* Calls come to an end.                                                     *)

LEMMA FewerNodes ==
    ASSUME NEW S \in SUBSET Node, NEW T \in SUBSET S, NEW x \in S, x \notin T
    PROVE  Cardinality(T) < Cardinality(S)
<1>1. IsFiniteSet(S)
  BY AllocatorAssumption, FS_Subset
<1>2. Cardinality(T) <= Cardinality(S) /\ Cardinality(T) # Cardinality(S)
  BY <1>1, FS_Subset
<1>3. Cardinality(S) \in Nat /\ Cardinality(T) \in Nat
  BY <1>1, FS_Subset, FS_CardinalityType
<1> QED BY <1>2, <1>3

LEMMA WalkDescends ==
    ASSUME TypeOK, ChainInv, Walk, status' = "run"
    PROVE  Cardinality(Before') < Cardinality(Before)
<1> DEFINE n == call.node
<1>1. /\ call.op \in {"free", "realloc"} /\ call.self \in Allocator
      /\ status = "run"
  BY DEF Walk, Finding, Running, TypeOK, Call, Op, ChainInv, CallInv
<1>2. n \in owned[call.self]
  BY <1>1 DEF ChainInv, CallInv, Sought
<1>3. n \in Node /\ n # NULL /\ n \in liveNode
  BY <1>1, <1>2, NodeFacts
<1>4. call' = [call EXCEPT !.node = parent[n]] /\ UNCHANGED below
  BY <1>1, <1>3 DEF Walk, Fault, ghost
<1>5. call'.op = call.op /\ call'.node = parent[n]
  BY <1>4 DEF TypeOK, Call
<1>6. Before = below[n] \cup {n}
  BY <1>1, <1>3 DEF Before, UpTo
<1>7. Before' = UpTo(parent[n])
  BY <1>1, <1>4, <1>5 DEF Before, UpTo
<1>8. UpTo(parent[n]) = below[n] /\ n \notin below[n] /\ below[n] \in SUBSET Node
  BY <1>1, <1>2, <1>3 DEF ChainInv, ParentInv, TypeOK
<1> QED BY <1>3, <1>6, <1>7, <1>8, FewerNodes

LEMMA PopDescends ==
    ASSUME TypeOK, ChainInv, PopScope, status' = "run"
    PROVE  Cardinality(Before') < Cardinality(Before)
<1> DEFINE a == call.self
           n == node_end[a]
<1>1. call.op \in {"free_scope", "deinit"} /\ a \in Allocator /\ status = "run"
  BY DEF PopScope, Releasing, Running, ChainInv, CallInv
<1>2. Pop(a, n) /\ n \in liveNode
  BY <1>1 DEF PopScope, Fault
<1>3. n \in owned[a]
  BY <1>1, <1>2, AllocatorAssumption DEF ChainInv, EndInv, TypeOK
<1>4. Before = owned[a] /\ Before' = owned[a] \ {n}
  BY <1>1, <1>2 DEF Before, Pop, Forget
<1> QED BY <1>1, <1>3, <1>4, FewerNodes DEF TypeOK

(* No turn of a walk or of a release leaves as many blocks to go through as  *)
(* there were before it, so that no call of allocator.c can loop for ever.   *)
THEOREM CallsComeToAnEnd == Spec => CallsDescend
<1>1. TypeOK /\ ChainInv /\ [Next]_vars =>
        [call.op # "idle" /\ call'.op # "idle" /\ status' = "run"
            => Cardinality(Before') < Cardinality(Before)]_vars
  <2> SUFFICES ASSUME TypeOK, ChainInv, Next,
                      call.op # "idle", call'.op # "idle", status' = "run"
               PROVE  Cardinality(Before') < Cardinality(Before)
    BY DEF vars
  <2>1. Internal
    BY ClientReady DEF Next
  <2>2. /\ Free => Unlink(call.self, call.node)
        /\ Realloc => \E b : Replace(call.self, call.node, b, call.bytes)
    BY DEF Free, Realloc, Fault, Panic
  <2>3. ~Free /\ ~Realloc /\ ~EndScope
    BY <2>2 DEF Unlink, Replace, EndScope, Idle
  <2> QED BY <2>1, <2>3, WalkDescends, PopDescends DEF Internal
<1> QED BY <1>1, AllocatorInvariant, PTL DEF Spec, CallsDescend

-----------------------------------------------------------------------------
(* Nothing leaks.                                                            *)

(* A set that has the end of a chain and is closed under parent links has    *)
(* the whole chain: of the nodes it has above one it has not, the lowest has *)
(* a parent that is lower still.                                             *)
LEMMA ChainIsFollowed ==
    ASSUME TypeOK, ChainInv, NEW a \in Allocator, NEW S \in SUBSET Node,
           node_end[a] \in S \cup {NULL}, Follows(S)
    PROVE  owned[a] \subseteq S
<1> SUFFICES ASSUME NEW x \in owned[a], x \notin S PROVE FALSE
  OBVIOUS
<1> DEFINE T == {below[m] : m \in {k \in owned[a] \cap S : x \in below[k]}}
<1>1. T # {}
  <2>1. /\ node_end[a] \in owned[a] /\ node_end[a] # NULL
        /\ x # node_end[a] => x \in below[node_end[a]]
    BY NodeFacts
  <2>2. node_end[a] \in S
    BY <2>1
  <2> QED BY <2>1, <2>2
<1>2. T \subseteq FiniteSubsetsOf(Node)
  <2>1. \A m \in owned[a] : below[m] \in SUBSET Node
    BY NodeFacts DEF TypeOK
  <2>2. \A U \in SUBSET Node : IsFiniteSet(U)
    BY AllocatorAssumption, FS_Subset
  <2> QED BY <2>1, <2>2 DEF FiniteSubsetsOf
<1>3. IsWellFoundedOn(StrictSubsetOrdering(Node), FiniteSubsetsOf(Node))
  BY FS_StrictSubsetOrderingWellFounded
<1>4. PICK L \in T : \A U \in T : <<U, L>> \notin StrictSubsetOrdering(Node)
  <2> HIDE DEF T
  <2> QED BY <1>1, <1>2, <1>3, WFMin
<1>5. PICK m \in owned[a] \cap S : x \in below[m] /\ L = below[m]
  OBVIOUS
<1>6. /\ parent[m] \in owned[a] /\ parent[m] # NULL
      /\ below[m] = below[parent[m]] \cup {parent[m]}
      /\ m \in Node
  BY <1>5, NodeFacts
<1>7. parent[m] \in S
  BY <1>5, <1>6 DEF Follows
<1>8. /\ parent[m] \notin below[parent[m]] /\ below[parent[m]] \in SUBSET Node
      /\ below[m] \in SUBSET Node
  BY <1>6, NodeFacts DEF TypeOK
<1>9. x \in below[parent[m]]
  BY <1>5, <1>6, <1>7
<1>10. below[parent[m]] \in T
  BY <1>6, <1>7, <1>9
<1>11. <<below[parent[m]], L>> \in StrictSubsetOrdering(Node)
  BY <1>5, <1>6, <1>8 DEF StrictSubsetOrdering
<1> QED BY <1>4, <1>10, <1>11

LEMMA ChainReached ==
    ASSUME TypeOK, ChainInv, NEW a \in Allocator
    PROVE  Reached(a) = owned[a]
<1>1. owned[a] \in SUBSET Node /\ node_end[a] \in owned[a] \cup {NULL}
  BY DEF TypeOK, ChainInv, EndInv
<1>2. Follows(owned[a])
  BY NodeFacts DEF Follows
<1>3. Reached(a) \subseteq owned[a]
  BY <1>1, <1>2 DEF Reached
<1>4. owned[a] \subseteq Reached(a)
  BY <1>1, ChainIsFollowed DEF Reached
<1> QED BY <1>3, <1>4

(* Nothing leaks: every node and buffer that is live hangs on the chain of   *)
(* an allocator, where allocator_free_scope and allocator_deinit find it.    *)
THEOREM AllocatorKeepsAll == Spec => []NoLeak
<1>1. TypeOK /\ ChainInv => NoLeak
  <2> SUFFICES ASSUME TypeOK, ChainInv PROVE NoLeak
    OBVIOUS
  <2>1. UNION {Reached(a) : a \in Allocator} = UNION {owned[a] : a \in Allocator}
    BY ChainReached
  <2> QED BY <2>1 DEF NoLeak, ChainInv, OwnerInv, BufferInv
<1> QED BY <1>1, AllocatorInvariant, PTL

-----------------------------------------------------------------------------
(* A step leaves all allocators but one alone.                               *)

(* A step that writes nothing but the links, the sizes and the blocks of     *)
(* nodes that no other allocator has.                                        *)
LEMMA OthersUntouched ==
    ASSUME TypeOK, NEW a \in Allocator, NEW W,
           \A b \in Allocator \ {a} : owned[b] \cap W = {},
           \A m \in Node \ W : /\ parent'[m] = parent[m] /\ child'[m] = child[m]
                               /\ size'[m] = size[m] /\ buffer'[m] = buffer[m],
           \A b \in Allocator \ {a} : /\ node_end'[b] = node_end[b]
                                      /\ owned'[b] = owned[b]
                                      /\ scopes'[b] = scopes[b]
    PROVE  \A b \in Allocator \ {a} : Untouched(b)
<1> SUFFICES ASSUME NEW b \in Allocator \ {a} PROVE Untouched(b)
  OBVIOUS
<1>1. \A m \in owned[b] : m \in Node \ W
  BY DEF TypeOK
<1> QED BY <1>1 DEF Untouched

LEMMA ForgottenElsewhere ==
    ASSUME TypeOK, ChainInv, NEW a \in Allocator, NEW n \in owned[a], Forget({n})
    PROVE  \A b \in Allocator \ {a} : owned'[b] = owned[b]
BY DEF Forget, ChainInv, OwnerInv, TypeOK

LEMMA AppendIsolated ==
    ASSUME TypeOK, ChainInv, NEW a \in Allocator, NEW n \in Node \ liveNode,
           NEW b, NEW sz, AppendNode(a, n, b, sz)
    PROVE  \A o \in Allocator \ {a} : Untouched(o)
<1> DEFINE W == {n, node_end[a]}
<1>1. \A o \in Allocator \ {a} : owned[o] \cap W = {}
  <2>1. node_end[a] \in owned[a] \cup {NULL}
    BY DEF ChainInv, EndInv
  <2> QED BY <2>1, NodeFacts
<1>2. \A m \in Node \ W : /\ parent'[m] = parent[m] /\ child'[m] = child[m]
                          /\ size'[m] = size[m] /\ buffer'[m] = buffer[m]
  BY DEF AppendNode, TypeOK
<1>3. \A o \in Allocator \ {a} : /\ node_end'[o] = node_end[o] /\ owned'[o] = owned[o]
                                 /\ scopes'[o] = scopes[o]
  BY DEF AppendNode, TypeOK
<1> HIDE DEF W
<1> QED BY <1>1, <1>2, <1>3, OthersUntouched

LEMMA UnlinkIsolated ==
    ASSUME TypeOK, ChainInv, NEW a \in Allocator, NEW n \in owned[a], Removable(a, n),
           Unlink(a, n)
    PROVE  \A o \in Allocator \ {a} : Untouched(o)
<1> DEFINE W == {parent[n], child[n]}
<1>1. \A o \in Allocator \ {a} : owned[o] \cap W = {}
  <2>1. parent[n] \in owned[a] \cup {NULL}
    BY NodeFacts
  <2>2. child[n] \in owned[a] \cup {NULL}
    BY RemovableChild
  <2> QED BY <2>1, <2>2, NodeFacts
<1>2. \A m \in Node \ W : /\ parent'[m] = parent[m] /\ child'[m] = child[m]
                          /\ size'[m] = size[m] /\ buffer'[m] = buffer[m]
  BY DEF Unlink, TypeOK
<1>3. \A o \in Allocator \ {a} : /\ node_end'[o] = node_end[o] /\ owned'[o] = owned[o]
                                 /\ scopes'[o] = scopes[o]
  BY ForgottenElsewhere DEF Unlink, TypeOK
<1> HIDE DEF W
<1> QED BY <1>1, <1>2, <1>3, OthersUntouched

LEMMA ReplaceIsolated ==
    ASSUME TypeOK, ChainInv, NEW a \in Allocator, NEW n \in owned[a], NEW b, NEW sz,
           Replace(a, n, b, sz)
    PROVE  \A o \in Allocator \ {a} : Untouched(o)
<1>1. \A o \in Allocator \ {a} : owned[o] \cap {n} = {}
  BY NodeFacts
<1>2. \A m \in Node \ {n} : /\ parent'[m] = parent[m] /\ child'[m] = child[m]
                            /\ size'[m] = size[m] /\ buffer'[m] = buffer[m]
  BY DEF Replace, TypeOK
<1>3. \A o \in Allocator \ {a} : /\ node_end'[o] = node_end[o] /\ owned'[o] = owned[o]
                                 /\ scopes'[o] = scopes[o]
  BY DEF Replace, ghost
<1> QED BY <1>1, <1>2, <1>3, OthersUntouched

LEMMA PopIsolated ==
    ASSUME TypeOK, ChainInv, NEW a \in Allocator, NEW n \in owned[a], Pop(a, n)
    PROVE  \A o \in Allocator \ {a} : Untouched(o)
<1>0. \A o \in Allocator \ {a} : owned[o] \cap {} = {}
  OBVIOUS
<1>1. \A m \in Node \ {} : /\ parent'[m] = parent[m] /\ child'[m] = child[m]
                           /\ size'[m] = size[m] /\ buffer'[m] = buffer[m]
  BY DEF Pop
<1>2. \A o \in Allocator \ {a} : /\ node_end'[o] = node_end[o] /\ owned'[o] = owned[o]
                                 /\ scopes'[o] = scopes[o]
  BY ForgottenElsewhere DEF Pop, TypeOK
<1> QED BY <1>0, <1>1, <1>2, OthersUntouched

(* A step that leaves the heap alone.                                        *)
LEMMA HeapKept ==
    ASSUME TypeOK, NEW a \in Allocator, UNCHANGED <<node_end, heap, ghost>>,
           \A o \in Allocator \ {a} : scopes'[o] = scopes[o]
    PROVE  \A o \in Allocator \ {a} : Untouched(o)
BY DEF Untouched, heap, ghost

LEMMA InternalIsolated ==
    ASSUME TypeOK, ChainInv, Internal
    PROVE  /\ call.self \in Allocator
           /\ \A o \in Allocator \ {call.self} : Untouched(o)
<1>1. call.self \in Allocator
  BY DEF Internal, Walk, Free, Realloc, PopScope, EndScope, Finding, Releasing, ChainInv,
         CallInv
<1>2. ASSUME UNCHANGED <<node_end, heap, ghost, scopes>>
      PROVE  \A o \in Allocator \ {call.self} : Untouched(o)
  BY <1>1, <1>2, HeapKept
<1>3. CASE Walk \/ EndScope
  BY <1>1, <1>2, <1>3 DEF Walk, EndScope, Fault
<1>4. CASE Free
  <2>1. PICK t \in Node : Sought(t) /\ Removable(call.self, t)
    BY <1>4 DEF Free, ChainInv, CallInv
  <2>2. call.node = t /\ t \in owned[call.self]
    BY <1>1, <1>4, <2>1, SoughtFound DEF Free
  <2> QED BY <1>1, <1>2, <1>4, <2>1, <2>2, UnlinkIsolated DEF Free, Fault
<1>5. CASE Realloc
  <2>1. call.node \in owned[call.self]
    BY <1>5 DEF Realloc, ChainInv, CallInv, Sought
  <2> QED BY <1>1, <1>2, <1>5, <2>1, ReplaceIsolated DEF Realloc, Fault, Panic
<1>6. CASE PopScope
  <2>1. node_end[call.self] \in liveNode => node_end[call.self] \in owned[call.self]
    BY <1>1, AllocatorAssumption DEF ChainInv, EndInv, TypeOK
  <2> QED BY <1>1, <1>2, <1>6, <2>1, PopIsolated DEF PopScope, Fault
<1> QED BY <1>1, <1>3, <1>4, <1>5, <1>6 DEF Internal

LEMMA ClientIsolated ==
    ASSUME TypeOK, ChainInv, NEW a \in Allocator, Client(a)
    PROVE  \A o \in Allocator \ {a} : Untouched(o)
<1>1. ASSUME UNCHANGED <<node_end, heap, ghost>>,
             \A o \in Allocator \ {a} : scopes'[o] = scopes[o]
      PROVE  \A o \in Allocator \ {a} : Untouched(o)
  BY <1>1, HeapKept
<1>2. ASSUME NEW sz \in Size, Alloc(a, sz)
      PROVE  \A o \in Allocator \ {a} : Untouched(o)
  BY <1>1, <1>2, AppendIsolated DEF Alloc, Panic, Fault
<1>3. ASSUME NEW o \in Allocator, NEW sz \in Size, NEW n \in owned[o],
             sz <= size[n], Copy(a, n, sz)
      PROVE  \A b \in Allocator \ {a} : Untouched(b)
  BY <1>1, <1>2, <1>3 DEF Copy, Fault
<1>4. ASSUME NEW op, NEW p, NEW sz, NEW d, Start(op, a, p, sz, d)
      PROVE  \A o \in Allocator \ {a} : Untouched(o)
  BY <1>1, <1>4 DEF Start, Panic
<1>5. ASSUME NEW p, NEW sz, StartFree(a, p) \/ StartRealloc(a, p, sz)
      PROVE  \A o \in Allocator \ {a} : Untouched(o)
  BY <1>1, <1>4, <1>5 DEF StartFree, StartRealloc, Panic
<1>6. CASE NewScope(a)
  <2>1. \A o \in Allocator \ {a} : scopes'[o] = scopes[o]
    BY <1>6 DEF NewScope, TypeOK
  <2> QED BY <1>1, <1>6, <2>1 DEF NewScope
<1>7. ASSUME NEW op, NEW s, StartRelease(op, a, s)
      PROVE  \A o \in Allocator \ {a} : Untouched(o)
  <2>1. \A o \in Allocator \ {a} : scopes'[o] = scopes[o]
    BY <1>7 DEF StartRelease, TypeOK
  <2> QED BY <1>1, <1>7, <2>1 DEF StartRelease
<1> QED BY <1>2, <1>3, <1>5, <1>6, <1>7 DEF Client, StartFreeScope, StartDeinit

(* No call on one allocator reads as a change on another: no links cross,    *)
(* and an address one allocator has freed comes back only to one of them     *)
(* (allocator.c:54-69).                                                      *)
THEOREM AllocatorsAreIsolated == Spec => Isolation
<1>1. TypeOK /\ ChainInv /\ [Next]_vars =>
        [\E a \in Allocator : \A b \in Allocator \ {a} : Untouched(b)]_vars
  BY InternalIsolated, ClientIsolated DEF Next
<1> QED BY <1>1, AllocatorInvariant, PTL DEF Spec, Isolation

-----------------------------------------------------------------------------
(* The chain implements the promise of AllocatorAbs, one action at a time.   *)

LEMMA RefInit == Init => Abs!AbsInit
BY DEF Init, Abs!AbsInit, AbsHeld, AbsAddr, AbsRoom, AbsKeep, HeldBy, IsHeld, UpTo, Idle,
       AbsAsked, Abs!Nothing, Abs!Request

(* The request is what the call in progress was called with.                 *)
LEMMA NothingAsked ==
    ASSUME call = Idle
    PROVE  AbsAsked = Abs!Nothing
BY DEF Idle, AbsAsked, Abs!Nothing, Abs!Request

LEMMA AnswersAsked ==
    ASSUME call' = Idle
    PROVE  AbsAsked' = Abs!Nothing
BY DEF Idle, AbsAsked, Abs!Nothing, Abs!Request

LEMMA AskedKept ==
    ASSUME call' = call
    PROVE  AbsAsked' = AbsAsked
BY DEF AbsAsked

LEMMA AskedFields ==
    /\ AbsAsked.op = call.op /\ AbsAsked.self = call.self
    /\ AbsAsked.ptr = call.ptr /\ AbsAsked.bytes = call.bytes
BY DEF AbsAsked

(* When no release is in progress, all that is owned is held.                *)
LEMMA HeldIsOwned ==
    ASSUME TypeOK, ChainInv, call.op \notin {"free_scope", "deinit"}
    PROVE  /\ \A a \in Allocator : AbsHeld[a] = owned[a]
           /\ \A n \in Node : /\ AbsAddr[n] = IF n \in liveNode THEN buffer[n] ELSE NULL
                              /\ AbsRoom[n] = IF n \in liveNode THEN size[n] ELSE 0
<1>1. \A a \in Allocator : HeldBy(a) = owned[a]
  BY DEF HeldBy
<1>2. \A n : IsHeld(n) <=> n \in liveNode
  BY <1>1 DEF IsHeld, ChainInv, OwnerInv
<1> QED BY <1>1, <1>2 DEF AbsHeld, AbsAddr, AbsRoom

LEMMA HeldIsOwnedNext ==
    ASSUME TypeOK', ChainInv', call'.op \notin {"free_scope", "deinit"}
    PROVE  /\ \A a \in Allocator : AbsHeld'[a] = owned'[a]
           /\ \A n \in Node : /\ AbsAddr'[n] = IF n \in liveNode' THEN buffer'[n] ELSE NULL
                              /\ AbsRoom'[n] = IF n \in liveNode' THEN size'[n] ELSE 0
<1>1. \A a \in Allocator : HeldBy(a)' = owned'[a]
  BY DEF HeldBy
<1>2. \A n : IsHeld(n)' <=> n \in liveNode'
  BY <1>1 DEF IsHeld, ChainInv, OwnerInv
<1> QED BY <1>1, <1>2 DEF AbsHeld, AbsAddr, AbsRoom

(* The types of the abstract state.                                          *)
LEMMA AbsFunctions ==
    /\ AbsHeld = [a \in Allocator |-> AbsHeld[a]]
    /\ AbsAddr = [n \in Node |-> AbsAddr[n]]
    /\ AbsRoom = [n \in Node |-> AbsRoom[n]]
    /\ AbsKeep = [a \in Allocator |-> AbsKeep[a]]
    /\ \A a \in Allocator : AbsKeep[a] = [h \in scopes[a] |-> UpTo(h)]
BY DEF AbsHeld, AbsAddr, AbsRoom, AbsKeep

LEMMA AbsFunctionsNext ==
    /\ AbsHeld' = [a \in Allocator |-> AbsHeld'[a]]
    /\ AbsAddr' = [n \in Node |-> AbsAddr'[n]]
    /\ AbsRoom' = [n \in Node |-> AbsRoom'[n]]
    /\ AbsKeep' = [a \in Allocator |-> AbsKeep'[a]]
    /\ \A a \in Allocator : AbsKeep'[a] = [h \in scopes'[a] |-> UpToNext(h)]
BY DEF AbsHeld, AbsAddr, AbsRoom, AbsKeep, UpTo, UpToNext

(* Scopes keep what they kept when the nodes below them stay.                *)
LEMMA KeepKept ==
    ASSUME \A o \in Allocator : /\ scopes'[o] = scopes[o]
                                /\ \A h \in scopes[o] : UpToNext(h) = UpTo(h)
    PROVE  AbsKeep' = AbsKeep
<1>1. \A o \in Allocator : AbsKeep'[o] = AbsKeep[o]
  BY AbsFunctions, AbsFunctionsNext
<1> QED BY <1>1, AbsFunctions, AbsFunctionsNext

LEMMA ScopesAreOwned ==
    ASSUME TypeOK, ChainInv, NEW a \in Allocator, NEW h \in scopes[a]
    PROVE  h = NULL \/ h \in owned[a]
BY DEF ChainInv, ScopeInv

LEMMA RefAppend ==
    ASSUME TypeOK, ChainInv, TypeOK', ChainInv', Ready, NEW a \in Allocator,
           NEW n \in Node \ liveNode, NEW b \in Buffer \ liveBuf, NEW sz \in Size,
           AppendNode(a, n, b, sz)
    PROVE  Abs!AbsNext
<1>1. call.op = "idle" /\ call' = call /\ status' = status /\ status = "run"
  BY DEF Ready, Running, Idle, AppendNode
<1>2. /\ \A o \in Allocator : AbsHeld[o] = owned[o]
      /\ \A m \in Node : /\ AbsAddr[m] = IF m \in liveNode THEN buffer[m] ELSE NULL
                         /\ AbsRoom[m] = IF m \in liveNode THEN size[m] ELSE 0
  BY <1>1, HeldIsOwned
<1>3. /\ \A o \in Allocator : AbsHeld'[o] = owned'[o]
      /\ \A m \in Node : /\ AbsAddr'[m] = IF m \in liveNode' THEN buffer'[m] ELSE NULL
                         /\ AbsRoom'[m] = IF m \in liveNode' THEN size'[m] ELSE 0
  BY <1>1, HeldIsOwnedNext
<1>4. n \notin UNION {AbsHeld[o] : o \in Allocator}
  BY <1>2 DEF ChainInv, OwnerInv
<1>5. b \notin {AbsAddr[m] : m \in Node}
  BY <1>2, AllocatorAssumption DEF ChainInv, BufferInv
<1>6. AbsHeld' = [AbsHeld EXCEPT ![a] = @ \cup {n}]
  <2>1. \A o \in Allocator : owned'[o] = IF o = a THEN owned[a] \cup {n} ELSE owned[o]
    BY DEF AppendNode, TypeOK
  <2> QED BY <1>2, <1>3, <2>1, AbsFunctions, AbsFunctionsNext
<1>7. AbsAddr' = [AbsAddr EXCEPT ![n] = b] /\ AbsRoom' = [AbsRoom EXCEPT ![n] = sz]
  <2>1. /\ liveNode' = liveNode \cup {n}
        /\ \A m \in Node : /\ buffer'[m] = IF m = n THEN b ELSE buffer[m]
                           /\ size'[m] = IF m = n THEN sz ELSE size[m]
    BY DEF AppendNode, TypeOK
  <2>2. \A m \in Node : /\ AbsAddr'[m] = IF m = n THEN b ELSE AbsAddr[m]
                        /\ AbsRoom'[m] = IF m = n THEN sz ELSE AbsRoom[m]
    BY <1>2, <1>3, <2>1
  <2> QED BY <2>2, AbsFunctions, AbsFunctionsNext
<1>8. AbsKeep' = AbsKeep
  <2>1. ASSUME NEW o \in Allocator, NEW h \in scopes[o]
        PROVE  scopes'[o] = scopes[o] /\ UpToNext(h) = UpTo(h)
    <3>1. h = NULL \/ (h \in Node /\ h # n)
      BY <2>1, ScopesAreOwned, NodeFacts
    <3>2. h \in Node /\ h # n => below'[h] = below[h]
      BY DEF AppendNode, TypeOK
    <3> QED BY <3>1, <3>2 DEF AppendNode, UpTo, UpToNext
  <2>2. scopes' = scopes
    BY DEF AppendNode
  <2> QED BY <2>1, <2>2, KeepKept
<1>9. AbsAsked = Abs!Nothing /\ AbsAsked' = AbsAsked
  BY <1>1, NothingAsked, AskedKept DEF Ready
<1> QED BY <1>1, <1>4, <1>5, <1>6, <1>7, <1>8, <1>9
        DEF Abs!AbsNext, Abs!AbsAlloc, Abs!AllHeld, Abs!FreeAddr

LEMMA RefUnlink ==
    ASSUME TypeOK, ChainInv, TypeOK', ChainInv', Running, call.op = "free",
           NEW a \in Allocator, call.self = a, NEW n \in owned[a], call.ptr = buffer[n],
           Removable(a, n), Unlink(a, n)
    PROVE  Abs!AbsNext
<1>1. call'.op = "idle" /\ status' = status /\ status = "run"
  BY DEF Running, Idle, Unlink
<1>2. /\ \A o \in Allocator : AbsHeld[o] = owned[o]
      /\ \A m \in Node : /\ AbsAddr[m] = IF m \in liveNode THEN buffer[m] ELSE NULL
                         /\ AbsRoom[m] = IF m \in liveNode THEN size[m] ELSE 0
  BY HeldIsOwned
<1>3. /\ \A o \in Allocator : AbsHeld'[o] = owned'[o]
      /\ \A m \in Node : /\ AbsAddr'[m] = IF m \in liveNode' THEN buffer'[m] ELSE NULL
                         /\ AbsRoom'[m] = IF m \in liveNode' THEN size'[m] ELSE 0
  BY <1>1, HeldIsOwnedNext
<1>4. n \in AbsHeld[a] \ DOMAIN AbsKeep[a] /\ DOMAIN AbsKeep[a] = scopes[a]
  BY <1>2, AbsFunctions DEF Removable
<1>5. AbsHeld' = [AbsHeld EXCEPT ![a] = @ \ {n}]
  <2>1. \A o \in Allocator : owned'[o] = IF o = a THEN owned[a] \ {n} ELSE owned[o]
    BY ForgottenElsewhere DEF Unlink, Forget
  <2>2. \A o \in Allocator : AbsHeld'[o] = IF o = a THEN AbsHeld[a] \ {n} ELSE AbsHeld[o]
    BY <1>2, <1>3, <2>1
  <2>3. /\ AbsHeld = [o \in Allocator |-> AbsHeld[o]]
        /\ AbsHeld' = [o \in Allocator |-> AbsHeld'[o]]
    BY AbsFunctions, AbsFunctionsNext
  <2> QED BY <2>2, <2>3
<1>6. /\ AbsAddr' = [m \in Node |-> IF m \in {n} THEN NULL ELSE AbsAddr[m]]
      /\ AbsRoom' = [m \in Node |-> IF m \in {n} THEN 0 ELSE AbsRoom[m]]
  <2>1. liveNode' = liveNode \ {n} /\ buffer' = buffer /\ size' = size
    BY DEF Unlink
  <2>2. \A m \in Node : /\ AbsAddr'[m] = IF m \in {n} THEN NULL ELSE AbsAddr[m]
                        /\ AbsRoom'[m] = IF m \in {n} THEN 0 ELSE AbsRoom[m]
    BY <1>2, <1>3, <2>1
  <2> QED BY <2>2, AbsFunctionsNext
<1>7. AbsKeep' = [AbsKeep EXCEPT ![a] = [h \in scopes[a] |-> AbsKeep[a][h] \ {n}]]
  <2>1. ASSUME NEW o \in Allocator, NEW h \in scopes[o]
        PROVE  UpToNext(h) = UpTo(h) \ {n} /\ (o # a => UpToNext(h) = UpTo(h))
    <3>1. CASE h = NULL
      BY <3>1 DEF UpTo, UpToNext
    <3>2. CASE h # NULL
      <4>1. h \in owned[o] /\ h \in Node /\ below[h] \subseteq owned[o]
        BY <3>2, ScopesAreOwned, NodeFacts
      <4>2. h # n
        BY <4>1, NodeFacts DEF Removable
      <4>3. below'[h] = below[h] \ {n}
        BY <4>1, <4>2 DEF Unlink, Forget
      <4>4. o # a => n \notin below[h]
        BY <4>1, NodeFacts
      <4> QED BY <3>2, <4>2, <4>3, <4>4 DEF UpTo, UpToNext
    <3> QED BY <3>1, <3>2
  <2>2. scopes' = scopes
    BY DEF Unlink
  <2>3. \A o \in Allocator :
          AbsKeep'[o] = IF o = a THEN [h \in scopes[a] |-> AbsKeep[a][h] \ {n}]
                        ELSE AbsKeep[o]
    BY <2>1, <2>2, AbsFunctions, AbsFunctionsNext
  <2> QED BY <2>3, AbsFunctions, AbsFunctionsNext
<1>8. Abs!Release(a, {n}, DOMAIN AbsKeep[a])
  BY <1>4, <1>5, <1>6, <1>7 DEF Abs!Release
<1>9. /\ AbsAsked.op = "free" /\ AbsAsked.self = a /\ AbsAddr[n] = AbsAsked.ptr
      /\ AbsAsked' = Abs!Nothing
  BY <1>2, NodeFacts, AskedFields, AnswersAsked DEF Unlink
<1> QED BY <1>1, <1>4, <1>8, <1>9 DEF Abs!AbsNext, Abs!AbsFree

LEMMA RefReplace ==
    ASSUME TypeOK, ChainInv, TypeOK', ChainInv', Running, call.op = "realloc",
           NEW a \in Allocator, call.self = a, NEW n \in owned[a], call.ptr = buffer[n],
           NEW b \in Buffer \ liveBuf, NEW sz, sz = call.bytes, Replace(a, n, b, sz)
    PROVE  Abs!AbsNext
<1>1. call'.op = "idle" /\ status' = status /\ status = "run"
  BY DEF Running, Idle, Replace
<1>2. /\ \A o \in Allocator : AbsHeld[o] = owned[o]
      /\ \A m \in Node : /\ AbsAddr[m] = IF m \in liveNode THEN buffer[m] ELSE NULL
                         /\ AbsRoom[m] = IF m \in liveNode THEN size[m] ELSE 0
  BY HeldIsOwned
<1>3. /\ \A o \in Allocator : AbsHeld'[o] = owned'[o]
      /\ \A m \in Node : /\ AbsAddr'[m] = IF m \in liveNode' THEN buffer'[m] ELSE NULL
                         /\ AbsRoom'[m] = IF m \in liveNode' THEN size'[m] ELSE 0
  BY <1>1, HeldIsOwnedNext
<1>4. /\ n \in Node /\ n \in liveNode /\ n \in AbsHeld[a]
  BY <1>2, NodeFacts
<1>5. b \notin {AbsAddr[m] : m \in Node}
  BY <1>2, AllocatorAssumption DEF ChainInv, BufferInv
<1>6. AbsHeld' = AbsHeld
  BY <1>2, <1>3, AbsFunctions, AbsFunctionsNext DEF Replace, ghost
<1>7. AbsAddr' = [AbsAddr EXCEPT ![n] = b] /\ AbsRoom' = [AbsRoom EXCEPT ![n] = sz]
  <2>1. /\ liveNode' = liveNode
        /\ \A m \in Node : /\ buffer'[m] = IF m = n THEN b ELSE buffer[m]
                           /\ size'[m] = IF m = n THEN sz ELSE size[m]
    BY DEF Replace, TypeOK
  <2>2. \A m \in Node : /\ AbsAddr'[m] = IF m = n THEN b ELSE AbsAddr[m]
                        /\ AbsRoom'[m] = IF m = n THEN sz ELSE AbsRoom[m]
    BY <1>2, <1>3, <1>4, <2>1
  <2> QED BY <2>2, AbsFunctions, AbsFunctionsNext
<1>8. AbsKeep' = AbsKeep
  BY KeepKept DEF Replace, ghost, UpTo, UpToNext
<1>9. /\ AbsAsked.op = "realloc" /\ AbsAsked.self = a /\ AbsAddr[n] = AbsAsked.ptr
      /\ AbsAsked.bytes = sz /\ AbsAsked' = Abs!Nothing
  BY <1>2, <1>4, AskedFields, AnswersAsked DEF Replace
<1> QED BY <1>1, <1>4, <1>5, <1>6, <1>7, <1>8, <1>9
        DEF Abs!AbsNext, Abs!AbsRealloc, Abs!FreeAddr

(* A step that moves none of the abstract state but perhaps the outcome.     *)
LEMMA RefHidden ==
    ASSUME UNCHANGED <<size, buffer>>,
           \A o \in Allocator : HeldBy(o)' = HeldBy(o),
           \A o \in Allocator : /\ scopes'[o] = scopes[o]
                                /\ \A h \in scopes[o] : UpToNext(h) = UpTo(h)
    PROVE  UNCHANGED <<AbsHeld, AbsAddr, AbsRoom, AbsKeep>>
<1>1. AbsKeep' = AbsKeep
  BY KeepKept
<1>2. AbsHeld' = AbsHeld
  <2>1. \A o \in Allocator : AbsHeld'[o] = AbsHeld[o]
    BY DEF AbsHeld
  <2> QED BY <2>1, AbsFunctions, AbsFunctionsNext
<1>3. \A n : IsHeld(n)' <=> IsHeld(n)
  BY DEF IsHeld
<1>4. AbsAddr' = AbsAddr /\ AbsRoom' = AbsRoom
  <2>1. \A n \in Node : AbsAddr'[n] = AbsAddr[n] /\ AbsRoom'[n] = AbsRoom[n]
    BY <1>3 DEF AbsAddr, AbsRoom
  <2> QED BY <2>1, AbsFunctions, AbsFunctionsNext
<1> QED BY <1>1, <1>2, <1>4

LEMMA RefQuiet ==
    ASSUME UNCHANGED <<size, buffer, scopes, owned, below>>,
           \/ call' = call
           \/ {call.op, call'.op} \cap {"free_scope", "deinit"} = {}
    PROVE  UNCHANGED <<AbsHeld, AbsAddr, AbsRoom, AbsKeep>>
<1>1. \A o \in Allocator : HeldBy(o)' = HeldBy(o)
  BY DEF HeldBy, UpTo
<1>2. \A h : UpToNext(h) = UpTo(h)
  BY DEF UpTo, UpToNext
<1> QED BY <1>1, <1>2, RefHidden

LEMMA RefPanic ==
    ASSUME Running, Panic
    PROVE  Abs!AbsNext
<1>1. UNCHANGED <<AbsHeld, AbsAddr, AbsRoom, AbsKeep>>
  BY RefQuiet DEF Panic, heap, ghost
<1>2. AbsAsked' = AbsAsked
  BY AskedKept DEF Panic
<1> QED BY <1>1, <1>2 DEF Running, Panic, Abs!AbsNext

LEMMA RefNewScope ==
    ASSUME TypeOK, ChainInv, NEW a \in Allocator, NewScope(a)
    PROVE  Abs!AbsNext
<1>1. /\ call.op = "idle" /\ call' = call /\ status' = status /\ status = "run"
      /\ UNCHANGED <<node_end, heap, owned, below>>
      /\ \A o \in Allocator : scopes'[o] = IF o = a THEN scopes[a] \cup {node_end[a]}
                                           ELSE scopes[o]
  BY DEF NewScope, Ready, Running, Idle, ghost, TypeOK
<1>2. AbsHeld[a] = owned[a] /\ owned[a] = UpTo(node_end[a])
      /\ node_end[a] \in AbsHeld[a] \cup {NULL}
  BY <1>1, HeldIsOwned DEF ChainInv, EndInv
<1>3. AbsHeld' = AbsHeld /\ AbsAddr' = AbsAddr /\ AbsRoom' = AbsRoom
  BY <1>1 DEF AbsHeld, AbsAddr, AbsRoom, IsHeld, HeldBy, UpTo, heap
<1>4. AbsKeep' = [AbsKeep EXCEPT ![a] =
                    [g \in DOMAIN AbsKeep[a] \cup {node_end[a]} |->
                        IF g = node_end[a] THEN AbsHeld[a] ELSE AbsKeep[a][g]]]
  <2>1. \A h : UpToNext(h) = UpTo(h)
    BY <1>1 DEF UpTo, UpToNext
  <2>2. AbsKeep'[a] = [g \in DOMAIN AbsKeep[a] \cup {node_end[a]} |->
                        IF g = node_end[a] THEN AbsHeld[a] ELSE AbsKeep[a][g]]
    <3>1. DOMAIN AbsKeep[a] = scopes[a] /\ \A g \in scopes[a] : AbsKeep[a][g] = UpTo(g)
      BY AbsFunctions
    <3>2. AbsKeep'[a] = [g \in scopes[a] \cup {node_end[a]} |-> UpTo(g)]
      BY <1>1, <2>1, AbsFunctionsNext
    <3>3. \A g \in scopes[a] \cup {node_end[a]} :
            UpTo(g) = IF g = node_end[a] THEN AbsHeld[a] ELSE AbsKeep[a][g]
      BY <1>2, <3>1
    <3> QED BY <3>1, <3>2, <3>3
  <2>3. \A o \in Allocator : o # a => AbsKeep'[o] = AbsKeep[o]
    BY <1>1, <2>1, AbsFunctions, AbsFunctionsNext
  <2> QED BY <2>2, <2>3, AbsFunctions, AbsFunctionsNext
<1>5. AbsAsked = Abs!Nothing /\ AbsAsked' = AbsAsked
  BY NothingAsked, AskedKept DEF NewScope, Ready
<1> QED BY <1>1, <1>2, <1>3, <1>4, <1>5 DEF Abs!AbsNext, Abs!AbsNewScope

LEMMA RefRelease ==
    ASSUME TypeOK, ChainInv, NEW a \in Allocator, NEW op \in {"free_scope", "deinit"},
           NEW s \in owned[a] \cup {NULL}, op = "free_scope" => s \in scopes[a],
           op = "deinit" => s = NULL, StartRelease(op, a, s)
    PROVE  Abs!AbsNext
<1>1. /\ call.op = "idle" /\ status' = status /\ status = "run"
      /\ UNCHANGED <<node_end, heap, owned, below>>
      /\ call'.op = op /\ call'.self = a /\ call'.scope = s
      /\ \A o \in Allocator : scopes'[o] = IF o = a THEN Outer(a, s) ELSE scopes[o]
  BY DEF StartRelease, Ready, Running, Idle, ghost, TypeOK
<1>2. /\ \A o \in Allocator : AbsHeld[o] = owned[o]
      /\ \A m \in Node : /\ AbsAddr[m] = IF m \in liveNode THEN buffer[m] ELSE NULL
                         /\ AbsRoom[m] = IF m \in liveNode THEN size[m] ELSE 0
  BY <1>1, HeldIsOwned
<1> DEFINE gone == owned[a] \ UpTo(s)
<1>3. \A o \in Allocator : AbsHeld'[o] = IF o = a THEN owned[a] \ gone ELSE owned[o]
  <2>1. \A o \in Allocator : HeldBy(o)' = IF o = a THEN owned[a] \cap UpTo(s) ELSE owned[o]
    BY <1>1 DEF HeldBy, UpTo
  <2> QED BY <2>1 DEF AbsHeld
<1>4. \A m \in Node : /\ AbsAddr'[m] = IF m \in gone THEN NULL ELSE AbsAddr[m]
                      /\ AbsRoom'[m] = IF m \in gone THEN 0 ELSE AbsRoom[m]
  <2> SUFFICES ASSUME NEW m \in Node
               PROVE  /\ AbsAddr'[m] = IF m \in gone THEN NULL ELSE AbsAddr[m]
                      /\ AbsRoom'[m] = IF m \in gone THEN 0 ELSE AbsRoom[m]
    OBVIOUS
  <2>1. \A o \in Allocator : HeldBy(o)' = IF o = a THEN owned[a] \ gone ELSE owned[o]
    BY <1>3 DEF AbsHeld
  <2>2. m \in liveNode <=> \E o \in Allocator : m \in owned[o]
    BY DEF ChainInv, OwnerInv
  <2>3. IsHeld(m)' <=> m \in liveNode \ gone
    <3>1. m \in owned[a] => \A o \in Allocator : m \in owned[o] => o = a
      BY NodeFacts
    <3> QED BY <2>1, <2>2, <3>1 DEF IsHeld
  <2>4. AbsAddr'[m] = (IF IsHeld(m)' THEN buffer[m] ELSE NULL)
        /\ AbsRoom'[m] = (IF IsHeld(m)' THEN size[m] ELSE 0)
    BY <1>1 DEF AbsAddr, AbsRoom, heap
  <2> HIDE DEF gone
  <2> QED BY <1>2, <2>3, <2>4
<1>5. UpTo(s) \subseteq owned[a] /\ \A h \in scopes[a] : UpTo(h) \subseteq owned[a]
  BY ScopesAreOwned, NodeFacts DEF UpTo
<1>6. ASSUME NEW g \in scopes[a]
      PROVE  /\ g \in Outer(a, s) <=> s # NULL /\ UpTo(g) \subseteq UpTo(s) \ {s}
             /\ g \in Outer(a, s) => UpTo(g) \subseteq UpTo(s) /\ g # s
  <2>1. CASE s = NULL
    BY <2>1 DEF Outer
  <2>2. CASE s # NULL
    <3>1. s \in owned[a] /\ s \notin below[s]
          /\ \A m \in below[s] : below[m] \subseteq below[s]
      BY <2>2, NodeFacts
    <3>2. NULL \notin below[s]
      BY <3>1, NodeFacts
    <3> QED BY <2>2, <3>1, <3>2 DEF Outer, UpTo
  <2> QED BY <2>1, <2>2
<1>7. Outer(a, s) \subseteq scopes[a]
  BY DEF Outer
<1> HIDE DEF gone
<1>8. AbsKeep' = [AbsKeep EXCEPT ![a] =
                    [h \in Outer(a, s) |-> AbsKeep[a][h] \ gone]]
  <2>1. \A h : UpToNext(h) = UpTo(h)
    BY <1>1 DEF UpTo, UpToNext
  <2>2. \A h \in Outer(a, s) : UpTo(h) \ gone = UpTo(h)
    BY <1>6, <1>7 DEF gone
  <2>3. AbsKeep'[a] = [h \in Outer(a, s) |-> AbsKeep[a][h] \ gone]
    <3>1. AbsKeep'[a] = [h \in Outer(a, s) |-> UpTo(h)]
      BY <1>1, <2>1, AbsFunctionsNext
    <3>2. \A h \in Outer(a, s) : AbsKeep[a][h] \ gone = UpTo(h)
      BY <1>7, <2>2, AbsFunctions
    <3> QED BY <3>1, <3>2
  <2>4. \A o \in Allocator : o # a => AbsKeep'[o] = AbsKeep[o]
    BY <1>1, <2>1, AbsFunctions, AbsFunctionsNext
  <2> QED BY <2>3, <2>4, AbsFunctions, AbsFunctionsNext
<1>9. Abs!Release(a, gone, Outer(a, s))
  <2>1. AbsHeld' = [AbsHeld EXCEPT ![a] = @ \ gone]
    BY <1>2, <1>3, AbsFunctions, AbsFunctionsNext
  <2>2. /\ AbsAddr' = [m \in Node |-> IF m \in gone THEN NULL ELSE AbsAddr[m]]
        /\ AbsRoom' = [m \in Node |-> IF m \in gone THEN 0 ELSE AbsRoom[m]]
    BY <1>4, AbsFunctionsNext
  <2> QED BY <1>8, <2>1, <2>2 DEF Abs!Release
<1>0. /\ AbsAsked = Abs!Nothing
      /\ AbsAsked' = Abs!Request(op, a, NULL, 0, s)
  <2>1. call = Idle /\ call' = [Idle EXCEPT !.op = op, !.self = a, !.scope = s]
    BY DEF StartRelease, Ready
  <2> QED BY <2>1, NothingAsked DEF AbsAsked, Abs!Request, Idle
<1>10. CASE op = "deinit"
  <2>1. gone = AbsHeld[a] /\ Outer(a, s) = {}
    BY <1>2, <1>10 DEF gone, Outer, UpTo
  <2>2. Abs!AbsDeinit(a)
    BY <1>0, <1>9, <1>10, <2>1 DEF Abs!AbsDeinit
  <2> QED BY <1>1, <2>2 DEF Abs!AbsNext
<1>11. CASE op = "free_scope"
  <2>1. s \in scopes[a] /\ s \in DOMAIN AbsKeep[a] /\ AbsKeep[a][s] = UpTo(s)
        /\ DOMAIN AbsKeep[a] = scopes[a]
    BY <1>11, AbsFunctions
  <2>2. gone = AbsHeld[a] \ AbsKeep[a][s]
    BY <1>2, <2>1 DEF gone
  <2>3. \A g \in scopes[a] :
          g \in Outer(a, s) <=> AbsKeep[a][g] \subseteq AbsKeep[a][s] \ {s} /\ g # s
    <3> SUFFICES ASSUME NEW g \in scopes[a]
                 PROVE  g \in Outer(a, s) <=> UpTo(g) \subseteq UpTo(s) \ {s} /\ g # s
      BY <2>1, AbsFunctions
    <3>1. CASE s # NULL
      <4>1. UpTo(g) \subseteq UpTo(s) \ {s} => g # s
        BY <3>1 DEF UpTo
      <4> QED BY <1>6, <3>1, <4>1
    <3>2. CASE s = NULL
      BY <1>6, <3>2 DEF UpTo
    <3> QED BY <3>1, <3>2
  <2>4. Outer(a, s) = {g \in DOMAIN AbsKeep[a] :
                          AbsKeep[a][g] \subseteq AbsKeep[a][s] \ {s} /\ g # s}
    BY <1>7, <2>1, <2>3
  <2>5. Abs!AbsFreeScope(a)
    BY <1>0, <1>9, <1>11, <2>1, <2>2, <2>4 DEF Abs!AbsFreeScope
  <2> QED BY <1>1, <2>5 DEF Abs!AbsNext
<1> QED BY <1>10, <1>11

LEMMA RefPop ==
    ASSUME TypeOK, ChainInv, PopScope, node_end[call.self] \in liveNode
    PROVE  UNCHANGED <<AbsHeld, AbsAddr, AbsRoom, AbsKeep>>
<1> DEFINE a == call.self
           n == node_end[a]
<1>1. /\ a \in Allocator /\ n \in owned[a] /\ n # call.scope /\ Pop(a, n)
      /\ call.op \in {"free_scope", "deinit"}
      /\ call.scope \in owned[a] \cup {NULL}
      /\ scopes[a] \subseteq UpTo(call.scope) \cup {NULL}
  BY AllocatorAssumption DEF PopScope, Releasing, ChainInv, CallInv, EndInv, TypeOK
<1>2. /\ UNCHANGED <<size, buffer, scopes, call>>
      /\ owned' = [o \in Allocator |-> owned[o] \ {n}]
      /\ below' = [m \in Node |-> IF m = n THEN {} ELSE below[m] \ {n}]
  BY <1>1 DEF Pop, Forget
<1>3. ASSUME NEW o \in Allocator, NEW h, h = NULL \/ (h \in owned[o] /\ h # n)
      PROVE  UpToNext(h) = UpTo(h) /\ n \notin UpTo(h)
  <2>1. CASE h = NULL
    BY <2>1 DEF UpTo, UpToNext
  <2>2. CASE h # NULL
    <3>1. h \in Node /\ n \notin below[h] /\ h # n
      BY <1>1, <1>3, <2>2, EndIsTop, NodeFacts
    <3> QED BY <1>2, <2>2, <3>1 DEF UpTo, UpToNext
  <2> QED BY <2>1, <2>2
<1>4. UpToNext(call.scope) = UpTo(call.scope) /\ n \notin UpTo(call.scope)
  BY <1>1, <1>3
<1>5. ASSUME NEW o \in Allocator
      PROVE  HeldBy(o)' = HeldBy(o)
  <2>1. HeldBy(o)' = IF o = a THEN owned'[a] \cap UpToNext(call.scope) ELSE owned'[o]
    BY <1>1, <1>2 DEF HeldBy, UpTo, UpToNext
  <2>2. HeldBy(o) = IF o = a THEN owned[a] \cap UpTo(call.scope) ELSE owned[o]
    BY <1>1 DEF HeldBy
  <2>3. owned'[o] = owned[o] \ {n} /\ (o # a => n \notin owned[o])
    BY <1>1, <1>2, NodeFacts
  <2> HIDE DEF n
  <2> QED BY <1>4, <2>1, <2>2, <2>3
<1>6. ASSUME NEW o \in Allocator, NEW h \in scopes[o]
      PROVE  UpToNext(h) = UpTo(h)
  <2>1. h = NULL \/ h \in owned[o]
    BY ScopesAreOwned
  <2>2. h # n
    <3>1. CASE o = a
      BY <1>1, <1>4, <1>6, <3>1, NodeFacts
    <3>2. CASE o # a
      BY <1>1, <2>1, <3>2, NodeFacts
    <3> QED BY <3>1, <3>2
  <2> QED BY <1>3, <2>1, <2>2
<1> QED BY <1>2, <1>5, <1>6, RefHidden

LEMMA RefEnd ==
    ASSUME TypeOK, ChainInv, EndScope
    PROVE  UNCHANGED <<AbsHeld, AbsAddr, AbsRoom, AbsKeep>>
<1>1. /\ call.self \in Allocator /\ call'.op = "idle"
      /\ UNCHANGED <<size, buffer, scopes, owned, below>>
      /\ node_end[call.self] = call.scope
  BY DEF EndScope, Releasing, ChainInv, CallInv, heap, ghost, Idle
<1>2. ASSUME NEW o \in Allocator
      PROVE  HeldBy(o)' = HeldBy(o)
  <2>1. HeldBy(o)' = owned[o]
    BY <1>1 DEF HeldBy
  <2>2. owned[call.self] = UpTo(call.scope)
    BY <1>1 DEF ChainInv, EndInv
  <2> QED BY <2>1, <2>2 DEF HeldBy
<1>3. \A h : UpToNext(h) = UpTo(h)
  BY <1>1 DEF UpTo, UpToNext
<1> QED BY <1>1, <1>2, <1>3, RefHidden

(* A free or a realloc is called: the block is the client's.                 *)
LEMMA RefAsk ==
    ASSUME TypeOK, ChainInv, Ready, NEW a \in Allocator, NEW n \in owned[a],
           NEW op \in {"free", "realloc"}, NEW sz,
           op = "free" => sz = 0 /\ n \notin scopes[a],
           op = "realloc" => sz \in Size /\ size[n] <= sz,
           Start(op, a, buffer[n], sz, NULL)
    PROVE  Abs!AbsNext
<1>1. CASE Panic
  BY <1>1, RefPanic DEF Ready
<1>2. CASE ~Panic
  <2>1. /\ call' = [op |-> op, self |-> a, ptr |-> buffer[n], node |-> node_end[a],
                    bytes |-> sz, scope |-> NULL, dst |-> NULL]
        /\ UNCHANGED <<size, buffer, scopes, owned, below, status>>
        /\ call = Idle /\ status = "run"
    BY <1>2 DEF Start, Ready, Running, heap, ghost
  <2>2. AbsAsked = Abs!Nothing /\ AbsAsked' = Abs!Request(op, a, buffer[n], sz, NULL)
    BY <2>1, NothingAsked DEF AbsAsked, Abs!Request
  <2>3. UNCHANGED <<AbsHeld, AbsAddr, AbsRoom, AbsKeep>>
    <3>1. {call.op, call'.op} \cap {"free_scope", "deinit"} = {}
      BY <2>1 DEF Idle
    <3> QED BY <2>1, <3>1, RefQuiet
  <2>4. n \in AbsHeld[a] /\ AbsAddr[n] = buffer[n] /\ AbsRoom[n] = size[n]
    BY <2>1, HeldIsOwned, NodeFacts DEF Idle
  <2>5. DOMAIN AbsKeep[a] = scopes[a]
    BY AbsFunctions
  <2>6. Abs!AbsAsk(a)
    BY <2>2, <2>3, <2>4, <2>5 DEF Abs!AbsAsk
  <2> QED BY <2>1, <2>6 DEF Abs!AbsNext
<1> QED BY <1>1, <1>2

LEMMA RefInternal ==
    ASSUME TypeOK, ChainInv, TypeOK', ChainInv', NoFault', Internal
    PROVE  Abs!AbsNext \/ UNCHANGED Abs!absVars
<1>1. call.self \in Allocator /\ Running
  BY InternalIsolated DEF Internal, Walk, Free, Realloc, PopScope, EndScope, Finding,
     Releasing
<1>2. ~Fault
  BY DEF Fault, NoFault
<1>3. CASE Walk
  <2>1. UNCHANGED <<size, buffer, scopes, owned, below, status>>
    BY <1>2, <1>3 DEF Walk, heap, ghost
  <2>2. {call.op, call'.op} \cap {"free_scope", "deinit"} = {}
    BY <1>2, <1>3 DEF Walk, Finding, TypeOK, Call
  <2>3. AbsAsked' = AbsAsked
    <3>1. call \in Call /\ call' = [call EXCEPT !.node = parent[call.node]]
      BY <1>2, <1>3 DEF Walk, TypeOK
    <3>2. /\ call'.op = call.op /\ call'.self = call.self /\ call'.ptr = call.ptr
          /\ call'.bytes = call.bytes /\ call'.scope = call.scope
      BY <3>1 DEF Call
    <3> QED BY <3>2 DEF AbsAsked
  <2> QED BY <2>1, <2>2, <2>3, RefQuiet DEF Abs!absVars
<1>4. CASE Free
  <2>1. PICK t \in Node : Sought(t) /\ Removable(call.self, t)
    BY <1>4 DEF Free, ChainInv, CallInv
  <2>2. call.node = t /\ t \in owned[call.self] /\ Unlink(call.self, t)
    BY <1>1, <1>2, <1>4, <2>1, SoughtFound DEF Free
  <2>3. call.ptr = buffer[t]
    BY <2>1 DEF Sought
  <2> QED BY <1>1, <1>4, <2>1, <2>2, <2>3, RefUnlink DEF Free
<1>5. CASE Realloc
  <2>1. PICK t \in Node : Sought(t) /\ size[t] <= call.bytes
    BY <1>5 DEF Realloc, ChainInv, CallInv
  <2>2. call.node = t /\ t \in owned[call.self]
    BY <1>1, <1>5, <2>1, SoughtFound DEF Realloc
  <2>3. CASE Panic
    BY <1>1, <2>3, RefPanic
  <2>4. CASE ~Panic
    <3>1. PICK b \in Buffer \ liveBuf : Replace(call.self, t, b, call.bytes)
      BY <1>2, <1>5, <2>1, <2>2, <2>4 DEF Realloc
    <3>2. call.ptr = buffer[t]
      BY <2>1 DEF Sought
    <3> QED BY <1>1, <1>5, <2>1, <2>2, <3>1, <3>2, RefReplace DEF Realloc
  <2> QED BY <2>3, <2>4
<1>6. CASE PopScope
  <2>1. node_end[call.self] \in liveNode /\ status' = status
    BY <1>2, <1>6 DEF PopScope, Pop
  <2>2. AbsAsked' = AbsAsked
    BY <1>2, <1>6, AskedKept DEF PopScope, Pop
  <2> QED BY <1>6, <2>1, <2>2, RefPop DEF Abs!absVars
<1>7. CASE EndScope
  <2>1. status' = status /\ status = "run" /\ AbsAsked.op \in {"free_scope", "deinit"}
        /\ AbsAsked' = Abs!Nothing
    BY <1>7, AskedFields, AnswersAsked DEF EndScope, Releasing, Running
  <2> QED BY <1>7, <2>1, RefEnd DEF Abs!AbsNext, Abs!AbsReturn
<1> QED BY <1>3, <1>4, <1>5, <1>6, <1>7 DEF Internal

LEMMA RefClient ==
    ASSUME TypeOK, ChainInv, TypeOK', ChainInv', NoFault', NEW a \in Allocator, Client(a)
    PROVE  Abs!AbsNext \/ UNCHANGED Abs!absVars
<1>1. ~Fault
  BY DEF Fault, NoFault
<1>2. ASSUME NEW sz \in Size, Alloc(a, sz)
      PROVE  Abs!AbsNext
  <2>1. Ready
    BY <1>2 DEF Alloc
  <2>2. CASE Panic
    BY <2>1, <2>2, RefPanic DEF Ready
  <2>3. CASE ~Panic
    <3>1. PICK n \in Node \ liveNode, b \in Buffer \ liveBuf : AppendNode(a, n, b, sz)
      BY <1>1, <1>2, <2>3 DEF Alloc
    <3> QED BY <2>1, <3>1, RefAppend
  <2> QED BY <2>2, <2>3
<1>3. ASSUME NEW o \in Allocator, NEW sz \in Size, NEW n \in owned[o],
             sz <= size[n], Copy(a, n, sz)
      PROVE  Abs!AbsNext
  BY <1>1, <1>2, <1>3 DEF Copy
<1>4. ASSUME NEW n \in owned[a], Removable(a, n), StartFree(a, buffer[n])
      PROVE  Abs!AbsNext
  BY <1>4, RefAsk DEF StartFree, Start, Removable
<1>5. ASSUME NEW n \in owned[a], NEW sz \in Size, size[n] <= sz,
             StartRealloc(a, buffer[n], sz)
      PROVE  Abs!AbsNext
  <2>1. CASE Panic
    BY <1>5, <2>1, RefPanic DEF StartRealloc, Start, Ready
  <2>2. CASE ~Panic
    BY <1>5, <2>2, RefAsk DEF StartRealloc, Start
  <2> QED BY <2>1, <2>2
<1>6. ASSUME NEW s \in scopes[a], StartFreeScope(a, s)
      PROVE  Abs!AbsNext
  <2>1. s \in owned[a] \cup {NULL}
    BY ScopesAreOwned
  <2> QED BY <1>6, <2>1, RefRelease DEF StartFreeScope
<1>7. CASE StartDeinit(a)
  <2>1. NULL \in owned[a] \cup {NULL}
    OBVIOUS
  <2> QED BY <1>7, <2>1, RefRelease DEF StartDeinit
<1>8. CASE NewScope(a)
  BY <1>8, RefNewScope
<1> QED BY <1>2, <1>3, <1>4, <1>5, <1>6, <1>7, <1>8 DEF Client

LEMMA RefStutter ==
    ASSUME UNCHANGED vars
    PROVE  UNCHANGED Abs!absVars
<1>1. UNCHANGED <<size, buffer, scopes, owned, below, call, status>>
  BY DEF vars, heap, ghost
<1> QED BY <1>1, RefQuiet, AskedKept DEF Abs!absVars

(* The allocator keeps the promise of allocator.h: until a call of free,     *)
(* realloc, free_scope or deinit returns, nothing happens to the blocks of   *)
(* any client but what it was called for, to the block whose pointer was     *)
(* passed, through whatever chain earlier calls have left                    *)
(* (allocator.c:47-138).                                                     *)
THEOREM AllocatorImplementsAbs == Spec => RefinesAbs
<1>1. TypeOK /\ ChainInv /\ (TypeOK /\ ChainInv /\ NoFault)' /\ [Next]_vars
        => [Abs!AbsNext]_(Abs!absVars)
  BY RefInternal, RefClient, RefStutter DEF Next
<1> QED
  BY <1>1, RefInit, AllocatorInvariant, PTL DEF Spec, RefinesAbs, Abs!AbsSpec
=============================================================================
