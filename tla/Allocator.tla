------------------------------ MODULE Allocator ------------------------------
(***************************************************************************)
(* The node allocator of core/allocator.c, on which every container, the   *)
(* lexer and the parser of the compiler allocate.                          *)
(*                                                                         *)
(* An Allocator is the end of a doubly linked chain of heap nodes, one per *)
(* live block, in allocation order.  allocator_free and allocator_realloc  *)
(* walk the chain from its end to the node of the block they were given;   *)
(* allocator_free_scope and allocator_deinit pop nodes from the end.  The  *)
(* walk and the pops are single steps here, so that a walk that leaves the *)
(* chain and a link that outlives its node are behaviours of the model.    *)
(*                                                                         *)
(* The heap is two sets of addresses, of nodes and of buffers.  xmalloc    *)
(* returns any address that is not live: whether addresses come back soon  *)
(* (plain malloc) or late (the quarantine of the address sanitizer that    *)
(* xmake.lua turns on), the run is one of those modelled.  An access to    *)
(* memory that is not live is undefined behaviour, status "fault".         *)
(***************************************************************************)
EXTENDS Integers, FiniteSets

CONSTANTS
    Allocator,  \* the Allocator structures of the program
    Node,       \* heap addresses of AllocatorNode structures
    Buffer,     \* heap addresses of blocks handed to clients
    Size,       \* the block sizes clients ask for
    Word,       \* usize arithmetic is modulo Word
    Debug,      \* whether the build defines ELX_DEBUG
    NULL

ASSUME AllocatorAssumption ==
    /\ NULL \notin Allocator \cup Node \cup Buffer
    /\ Size \subseteq Nat
    /\ Word \in Nat \ {0}
    /\ Debug \in BOOLEAN
    /\ IsFiniteSet(Node)

VARIABLES
    node_end,     \* per allocator: the node allocated last, or NULL
    total_alloc,  \* per allocator: its byte counter
    parent,       \* per node: the node allocated before it
    child,        \* per node: the node allocated after it
    size,         \* per node: the size of its buffer
    buffer,       \* per node: the block handed to the client
    liveNode,     \* node addresses obtained from malloc and not freed
    liveBuf,      \* buffer addresses obtained from malloc and not freed
    call,         \* the call in progress, with its local variables
    status,       \* "run", "panic" (exit(1)) or "fault" (undefined behaviour)
    scopes,       \* the client: the scope handles it still holds
    owned,        \* history: the nodes of each allocator
    below         \* history: per node, the nodes its allocator had before it

heap  == <<parent, child, size, buffer, liveNode, liveBuf>>
ghost == <<owned, below>>
vars  == <<node_end, total_alloc, heap, call, status, scopes, ghost>>

OptNode == Node \cup {NULL}

Op == {"idle", "free", "realloc", "move", "free_scope", "deinit"}

Call == [op: Op, self: Allocator \cup {NULL}, ptr: Buffer \cup {NULL},
         node: OptNode, bytes: Size \cup {0}, scope: OptNode,
         dst: Allocator \cup {NULL}]

Idle == [op |-> "idle", self |-> NULL, ptr |-> NULL, node |-> NULL,
         bytes |-> 0, scope |-> NULL, dst |-> NULL]

TypeOK ==
    /\ node_end \in [Allocator -> OptNode]
    /\ total_alloc \in [Allocator -> 0 .. Word - 1]
    /\ parent \in [Node -> OptNode]
    /\ child \in [Node -> OptNode]
    /\ size \in [Node -> Size \cup {0}]
    /\ buffer \in [Node -> Buffer \cup {NULL}]
    /\ liveNode \in SUBSET Node
    /\ liveBuf \in SUBSET Buffer
    /\ call \in Call
    /\ status \in {"run", "panic", "fault"}
    /\ scopes \in [Allocator -> SUBSET OptNode]
    /\ owned \in [Allocator -> SUBSET Node]
    /\ below \in [Node -> SUBSET Node]

(* allocator_init on every allocator of the program.                       *)
Init ==
    /\ node_end = [a \in Allocator |-> NULL]
    /\ total_alloc = [a \in Allocator |-> 0]
    /\ parent = [n \in Node |-> NULL]
    /\ child = [n \in Node |-> NULL]
    /\ size = [n \in Node |-> 0]
    /\ buffer = [n \in Node |-> NULL]
    /\ liveNode = {}
    /\ liveBuf = {}
    /\ call = Idle
    /\ status = "run"
    /\ scopes = [a \in Allocator |-> {}]
    /\ owned = [a \in Allocator |-> {}]
    /\ below = [n \in Node |-> {}]

-----------------------------------------------------------------------------
(* Helpers                                                                  *)

Running == status = "run"
Ready   == Running /\ call = Idle

(* xmalloc without memory, xnotnull and the checks of find_node: exit(1).   *)
Panic ==
    /\ status' = "panic"
    /\ UNCHANGED <<node_end, total_alloc, heap, call, scopes, ghost>>

Fault ==
    /\ status' = "fault"
    /\ UNCHANGED <<node_end, total_alloc, heap, call, scopes, ghost>>

(* Mutant: the counter is kept by every build and does not wrap.            *)
CountedAlways(t, delta) == t + delta

(* The counter is kept only by a build with ELX_DEBUG.                      *)
Counted(t, delta) == IF Debug THEN (t + delta) % Word ELSE t

Forget(gone) ==
    /\ owned' = [a \in Allocator |-> owned[a] \ gone]
    /\ below' = [n \in Node |-> IF n \in gone THEN {} ELSE below[n] \ gone]

-----------------------------------------------------------------------------
(* allocator_alloc and copy                                                 *)

(* Mutant: the node before does not learn of its child.                     *)
AppendNodeUnlinked(a, n, b, sz) ==
    LET e == node_end[a] IN
    /\ liveNode' = liveNode \cup {n}
    /\ liveBuf' = liveBuf \cup {b}
    /\ parent' = [parent EXCEPT ![n] = e]
    /\ child' = [child EXCEPT ![n] = NULL]
    /\ size' = [size EXCEPT ![n] = sz]
    /\ buffer' = [buffer EXCEPT ![n] = b]
    /\ node_end' = [node_end EXCEPT ![a] = n]
    /\ total_alloc' = [total_alloc EXCEPT ![a] = Counted(@, sz)]
    /\ owned' = [owned EXCEPT ![a] = @ \cup {n}]
    /\ below' = [below EXCEPT ![n] = owned[a]]
    /\ UNCHANGED <<call, status, scopes>>

(* Mutant: node_end is assigned before parent is read from it.              *)
AppendNodeCyclic(a, n, b, sz) ==
    LET e == node_end[a] IN
    /\ liveNode' = liveNode \cup {n}
    /\ liveBuf' = liveBuf \cup {b}
    /\ parent' = [parent EXCEPT ![n] = n]
    /\ child' = [m \in Node |-> IF m = e THEN n
                                ELSE IF m = n THEN NULL ELSE child[m]]
    /\ size' = [size EXCEPT ![n] = sz]
    /\ buffer' = [buffer EXCEPT ![n] = b]
    /\ node_end' = [node_end EXCEPT ![a] = n]
    /\ total_alloc' = [total_alloc EXCEPT ![a] = Counted(@, sz)]
    /\ owned' = [owned EXCEPT ![a] = @ \cup {n}]
    /\ below' = [below EXCEPT ![n] = owned[a]]
    /\ UNCHANGED <<call, status, scopes>>

AppendNode(a, n, b, sz) ==
    LET e == node_end[a] IN
    /\ liveNode' = liveNode \cup {n}
    /\ liveBuf' = liveBuf \cup {b}
    /\ parent' = [parent EXCEPT ![n] = e]
    /\ child' = [m \in Node |-> IF m = e THEN n
                                ELSE IF m = n THEN NULL ELSE child[m]]
    /\ size' = [size EXCEPT ![n] = sz]
    /\ buffer' = [buffer EXCEPT ![n] = b]
    /\ node_end' = [node_end EXCEPT ![a] = n]
    /\ total_alloc' = [total_alloc EXCEPT ![a] = Counted(@, sz)]
    /\ owned' = [owned EXCEPT ![a] = @ \cup {n}]
    /\ below' = [below EXCEPT ![n] = owned[a]]
    /\ UNCHANGED <<call, status, scopes>>

Alloc(a, sz) ==
    /\ Ready
    /\ \/ \E n \in Node \ liveNode, b \in Buffer \ liveBuf :
             IF node_end[a] \in liveNode \cup {n, NULL}
             THEN AppendNode(a, n, b, sz)
             ELSE Fault
       \/ Panic

(* copy: a new block, then memcpy of sz bytes from the block of node src.   *)
Copy(a, src, sz) ==
    IF src \in liveNode /\ sz <= size[src]
    THEN Alloc(a, sz)
    ELSE Ready /\ Fault

-----------------------------------------------------------------------------
(* allocator_find_node, the start of free, realloc and move                 *)

Start(op, a, p, sz, d) ==
    /\ Ready
    /\ IF node_end[a] = NULL
       THEN Panic
       ELSE /\ call' = [op |-> op, self |-> a, ptr |-> p, node |-> node_end[a],
                        bytes |-> sz, scope |-> NULL, dst |-> d]
            /\ UNCHANGED <<node_end, total_alloc, heap, status, scopes, ghost>>

(* delete(NULL) returns at once; resize(NULL) panics in xnotnull.           *)
StartFree(a, p)        == p # NULL /\ Start("free", a, p, 0, NULL)
StartRealloc(a, p, sz) == IF p = NULL THEN Ready /\ Panic
                          ELSE Start("realloc", a, p, sz, NULL)

Finding == Running /\ call.op \in {"free", "realloc", "move"}

(* Mutant: the walk ends where it begins, at the block allocated last.      *)
FoundAtOnce == call.node \in liveNode

Found == call.node \in liveNode /\ buffer[call.node] = call.ptr

(* while (node->buffer != ptr) node = node->parent; a node that is NULL or  *)
(* freed cannot be read.                                                    *)
Walk ==
    /\ Finding
    /\ ~Found
    /\ IF call.node \in liveNode
       THEN /\ call' = [call EXCEPT !.node = parent[call.node]]
            /\ UNCHANGED <<node_end, total_alloc, heap, status, scopes, ghost>>
       ELSE Fault

-----------------------------------------------------------------------------
(* allocator_free, once its node is found                                   *)

(* Mutant: the child keeps its parent link.                                 *)
UnlinkKeepsParent(a, n) ==
    LET p == parent[n]
        c == child[n]
    IN
    /\ child' = [m \in Node |-> IF m = p THEN c ELSE child[m]]
    /\ node_end' = [node_end EXCEPT ![a] = IF n = @ THEN p ELSE @]
    /\ total_alloc' = [total_alloc EXCEPT ![a] = Counted(@, -size[n])]
    /\ liveNode' = liveNode \ {n}
    /\ liveBuf' = liveBuf \ {buffer[n]}
    /\ Forget({n})
    /\ call' = Idle
    /\ UNCHANGED <<parent, size, buffer, status, scopes>>

Unlink(a, n) ==
    LET p == parent[n]
        c == child[n]
    IN
    /\ child' = [m \in Node |-> IF m = p THEN c ELSE child[m]]
    /\ parent' = [m \in Node |-> IF m = c THEN p ELSE parent[m]]
    /\ node_end' = [node_end EXCEPT ![a] = IF n = @ THEN p ELSE @]
    /\ total_alloc' = [total_alloc EXCEPT ![a] = Counted(@, -size[n])]
    /\ liveNode' = liveNode \ {n}
    /\ liveBuf' = liveBuf \ {buffer[n]}
    /\ Forget({n})
    /\ call' = Idle
    /\ UNCHANGED <<size, buffer, status, scopes>>

Free ==
    /\ Finding /\ call.op = "free" /\ Found
    /\ IF {parent[call.node], child[call.node]} \subseteq liveNode \cup {NULL}
       THEN Unlink(call.self, call.node)
       ELSE Fault

-----------------------------------------------------------------------------
(* allocator_realloc, once its node is found.  memcpy copies the old size   *)
(* into the new buffer; the size is assigned before it is subtracted.       *)

(* Mutant: the old buffer is not freed.                                     *)
ReplaceLeaks(a, n, b, sz) ==
    /\ liveBuf' = liveBuf \cup {b}
    /\ buffer' = [buffer EXCEPT ![n] = b]
    /\ size' = [size EXCEPT ![n] = sz]
    /\ total_alloc' = [total_alloc EXCEPT ![a] =
                          Counted(Counted(@, -size'[n]), sz)]
    /\ call' = Idle
    /\ UNCHANGED <<node_end, parent, child, liveNode, status, scopes, ghost>>

Replace(a, n, b, sz) ==
    /\ liveBuf' = (liveBuf \ {buffer[n]}) \cup {b}
    /\ buffer' = [buffer EXCEPT ![n] = b]
    /\ size' = [size EXCEPT ![n] = sz]
    /\ total_alloc' = [total_alloc EXCEPT ![a] =
                          Counted(Counted(@, -size'[n]), sz)]
    /\ call' = Idle
    /\ UNCHANGED <<node_end, parent, child, liveNode, status, scopes, ghost>>

Realloc ==
    /\ Finding /\ call.op = "realloc" /\ Found
    /\ \/ \E b \in Buffer \ liveBuf :
             IF size[call.node] <= call.bytes
             THEN Replace(call.self, call.node, b, call.bytes)
             ELSE Fault
       \/ Panic

-----------------------------------------------------------------------------
(* allocator_new_scope, allocator_free_scope and allocator_deinit           *)

NewScope(a) ==
    /\ Ready
    /\ scopes' = [scopes EXCEPT ![a] = @ \cup {node_end[a]}]
    /\ UNCHANGED <<node_end, total_alloc, heap, call, status, ghost>>

(* What the client still holds once scope s is released: the handles of the *)
(* scopes around s.                                                         *)
Outer(a, s) ==
    IF s = NULL THEN {}
    ELSE {t \in scopes[a] : t = NULL \/ t \in below[s]}

StartRelease(op, a, s) ==
    /\ Ready
    /\ call' = [Idle EXCEPT !.op = op, !.self = a, !.scope = s]
    /\ scopes' = [scopes EXCEPT ![a] = Outer(a, s)]
    /\ UNCHANGED <<node_end, total_alloc, heap, status, ghost>>

(* Mutant: the node of the scope handle is freed as well.                   *)
StartFreeScopeInclusive(a, s) ==
    StartRelease("free_scope", a, IF s = NULL THEN NULL ELSE parent[s])

StartFreeScope(a, s) == StartRelease("free_scope", a, s)
StartDeinit(a)       == StartRelease("deinit", a, NULL)

Releasing == Running /\ call.op \in {"free_scope", "deinit"}

Pop(a, n) ==
    /\ node_end' = [node_end EXCEPT ![a] = parent[n]]
    /\ liveNode' = liveNode \ {n}
    /\ liveBuf' = liveBuf \ {buffer[n]}
    /\ Forget({n})
    /\ UNCHANGED <<total_alloc, parent, child, size, buffer, call, status, scopes>>

PopScope ==
    /\ Releasing
    /\ node_end[call.self] # call.scope
    /\ IF node_end[call.self] \in liveNode
       THEN Pop(call.self, node_end[call.self])
       ELSE Fault

(* Mutant: the first node of the chain is left.                             *)
EndScopeEarly ==
    /\ Releasing
    /\ \/ node_end[call.self] = call.scope
       \/ node_end[call.self] # NULL /\ parent[node_end[call.self]] = call.scope
    /\ total_alloc' = [total_alloc EXCEPT ![call.self] =
                          IF call.op = "deinit" THEN 0 ELSE @]
    /\ call' = Idle
    /\ UNCHANGED <<node_end, heap, status, scopes, ghost>>

EndScope ==
    /\ Releasing
    /\ node_end[call.self] = call.scope
    /\ total_alloc' = [total_alloc EXCEPT ![call.self] =
                          IF call.op = "deinit" THEN 0 ELSE @]
    /\ call' = Idle
    /\ UNCHANGED <<node_end, heap, status, scopes, ghost>>

Internal == Walk \/ Free \/ Realloc \/ PopScope \/ EndScope

-----------------------------------------------------------------------------
(* The client.  It passes pointers it holds; it never shrinks a block; it   *)
(* never moves one; it does not free the block its scope handle stands for  *)
(* while it holds the handle, nor, when it has just released that scope,    *)
(* before it allocates again (the child link of the block dangles then).    *)
(* The containers and the front end keep to this: they never call           *)
(* allocator_new_scope and allocator_move, and grow what they resize.       *)

Removable(a, n) ==
    /\ n \notin scopes[a]
    /\ child[n] # NULL => child[n] \in liveNode /\ parent[child[n]] = n

Client(a) ==
    \/ \E sz \in Size : Alloc(a, sz)
    \/ \E o \in Allocator, sz \in Size : \E n \in owned[o] :
          sz <= size[n] /\ Copy(a, n, sz)
    \/ \E n \in owned[a] : Removable(a, n) /\ StartFree(a, buffer[n])
    \/ \E n \in owned[a], sz \in Size :
          size[n] <= sz /\ StartRealloc(a, buffer[n], sz)
    \/ NewScope(a)
    \/ \E s \in scopes[a] : StartFreeScope(a, s)
    \/ StartDeinit(a)

Next == Internal \/ \E a \in Allocator : Client(a)

Spec == Init /\ [][Next]_vars

(* A call that was made runs: nothing else runs in the process.             *)
FairSpec == Spec /\ WF_vars(Internal)
-----------------------------------------------------------------------------
(* The invariant of the chain.  below and owned record what the client knows *)
(* of the order of its blocks; parent, child and node_end must agree.        *)

UpTo(n) == IF n = NULL THEN {} ELSE below[n] \cup {n}

EndInv == \A a \in Allocator :
    /\ node_end[a] \in owned[a] \cup {NULL}
    /\ owned[a] = UpTo(node_end[a])

ParentInv == \A a \in Allocator : \A n \in owned[a] :
    /\ parent[n] \in owned[a] \cup {NULL}
    /\ below[n] = UpTo(parent[n])
    /\ n \notin below[n]
    /\ below[n] \subseteq owned[a]
    /\ \A m \in below[n] : below[m] \subseteq below[n]

ChildInv == \A a \in Allocator : \A n \in owned[a] :
    /\ parent[n] # NULL => child[parent[n]] = n
    /\ n # node_end[a] => child[n] \in owned[a] /\ parent[child[n]] = n

OwnerInv ==
    /\ liveNode = UNION {owned[a] : a \in Allocator}
    /\ \A a, b \in Allocator : a # b => owned[a] \cap owned[b] = {}

BufferInv ==
    /\ liveBuf = {buffer[n] : n \in liveNode}
    /\ \A m, n \in liveNode : buffer[m] = buffer[n] => m = n

(* A handle the client holds stands for a node of the chain, or for the     *)
(* empty chain.                                                             *)
ScopeInv == \A a \in Allocator : scopes[a] \subseteq owned[a] \cup {NULL}

(* The node a call looks for is at the node it has reached or before it.    *)
Sought(t) ==
    /\ t \in owned[call.self] /\ buffer[t] = call.ptr
    /\ call.node \in owned[call.self] /\ t \in UpTo(call.node)

CallInv ==
    /\ call.op # "move"
    /\ call.op # "idle" => call.self \in Allocator
    /\ call.op = "free" => \E t \in Node : Sought(t) /\ Removable(call.self, t)
    /\ call.op = "realloc" => \E t \in Node : Sought(t) /\ size[t] <= call.bytes
    /\ call.op \in {"free_scope", "deinit"} =>
          /\ call.scope \in owned[call.self] \cup {NULL}
          /\ scopes[call.self] \subseteq UpTo(call.scope) \cup {NULL}
    /\ call.op = "deinit" => call.scope = NULL

(* Parent links lead through the blocks of one allocator in the order they  *)
(* were allocated, child links lead back, every live node and buffer is on   *)
(* exactly one chain: what free, realloc and free_scope rely on.             *)
ChainInv ==
    EndInv /\ ParentInv /\ ChildInv /\ OwnerInv /\ BufferInv /\ ScopeInv /\ CallInv

(* The nodes that parent links lead to from the end of a's chain: those of   *)
(* every set that has the end and, with a node, its parent.                  *)
Follows(S) == \A n \in S : parent[n] \in S \cup {NULL}
Reached(a) ==
    {n \in Node : \A S \in SUBSET Node :
                    node_end[a] \in S \cup {NULL} /\ Follows(S) => n \in S}

(* No leak: every node and buffer that was allocated and not freed can be    *)
(* reached from the end of a chain, so that allocator_deinit frees it.       *)
NoLeak == status = "run" =>
    /\ liveNode = UNION {Reached(a) : a \in Allocator}
    /\ liveBuf = {buffer[n] : n \in liveNode}

(* No call reads or writes a freed node or a null pointer, overruns a block  *)
(* or frees one twice: every walk of allocator_find_node meets its node.     *)
NoFault == status # "fault"

(* A step taken for one allocator leaves the chain, the sizes and the blocks *)
(* of the others as they are.                                                *)
Untouched(a) ==
    /\ UNCHANGED <<node_end[a], owned[a], scopes[a]>>
    /\ \A n \in owned[a] : UNCHANGED <<parent[n], child[n], size[n], buffer[n]>>

Isolation ==
    [][\E a \in Allocator : \A b \in Allocator \ {a} : Untouched(b)]_vars

(* allocator_deinit gives back every block of its allocator.                 *)
DeinitReleasesAll ==
    [][call.op = "deinit" /\ call'.op = "idle" =>
          owned'[call.self] = {} /\ node_end'[call.self] = NULL]_vars

(* Every turn of the loops of find_node and free_scope has fewer blocks      *)
(* before it than the one before: those at the node it has reached and below *)
(* it, or those of the allocator.  It is why calls return.                   *)
Before ==
    IF call.op \in {"free_scope", "deinit"} THEN owned[call.self] ELSE UpTo(call.node)
CallsDescend ==
    [][call.op # "idle" /\ call'.op # "idle" /\ status' = "run"
          => Cardinality(Before') < Cardinality(Before)]_vars

(* Every call returns, or the process exits in a panic.                      *)
CallsReturn == (call.op # "idle") ~> (call.op = "idle" \/ status # "run")
=============================================================================
