------------------------- MODULE AllocatorRefinement -------------------------
(***************************************************************************)
(* The chain of nodes implements the promise of AllocatorAbs.  A release    *)
(* takes effect when it is called: the nodes it has still to pop are        *)
(* no longer blocks of the client.  The request is the call in progress     *)
(* without the node its walk has reached.                                   *)
(***************************************************************************)
EXTENDS Allocator

HeldBy(a) ==
    IF call.op \in {"free_scope", "deinit"} /\ call.self = a
    THEN owned[a] \cap UpTo(call.scope)
    ELSE owned[a]

IsHeld(n) == \E a \in Allocator : n \in HeldBy(a)

AbsHeld == [a \in Allocator |-> HeldBy(a)]
AbsAddr == [n \in Node |-> IF IsHeld(n) THEN buffer[n] ELSE NULL]
AbsRoom == [n \in Node |-> IF IsHeld(n) THEN size[n] ELSE 0]
AbsKeep == [a \in Allocator |-> [h \in scopes[a] |-> UpTo(h)]]
AbsAsked == [op |-> call.op, self |-> call.self, ptr |-> call.ptr,
             bytes |-> call.bytes, scope |-> call.scope]

Abs == INSTANCE AllocatorAbs WITH
    Block <- Node, Addr <- Buffer, held <- AbsHeld, addr <- AbsAddr,
    room <- AbsRoom, keep <- AbsKeep, asked <- AbsAsked, outcome <- status

(* Every step of the code is a request, what it asks for, its return, or    *)
(* invisible.  A free releases the one block whose pointer was passed, a    *)
(* realloc moves that block and no other and gives it the size that was     *)
(* passed, and the end of a scope releases what was allocated since, in the *)
(* allocator that was passed and in whatever order blocks were freed        *)
(* before.                                                                  *)
RefinesAbs == Abs!AbsSpec
=============================================================================
