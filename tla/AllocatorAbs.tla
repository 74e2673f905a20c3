----------------------------- MODULE AllocatorAbs -----------------------------
(***************************************************************************)
(* What core/allocator.h promises its clients, without nodes or links: an  *)
(* allocator holds a set of blocks, each with an address of its own; a      *)
(* scope remembers the blocks that were there when it was opened, and       *)
(* releasing it gives back every block allocated since and no other.        *)
(* A call of free, realloc, free_scope or deinit is recorded when it is     *)
(* made, and only what was asked for may happen until it returns: a free    *)
(* releases the block at the pointer that was passed, a realloc moves that  *)
(* block and gives it the size that was passed, both in the allocator that  *)
(* was passed.                                                              *)
(***************************************************************************)
EXTENDS Integers

CONSTANTS Allocator, Block, Addr, Size, NULL

Handle == Block \cup {NULL}

VARIABLES
    held,  \* per allocator: its blocks
    addr,  \* per block: where it is, NULL when no allocator holds it
    room,  \* per block: its size
    keep,  \* per allocator: the scopes that are open, each with its blocks
    asked, \* the call in progress
    outcome \* "run", or "panic" once the process has exited

absVars == <<held, addr, room, keep, asked, outcome>>

AllHeld == UNION {held[a] : a \in Allocator}

Request(op, a, p, sz, h) == [op |-> op, self |-> a, ptr |-> p, bytes |-> sz, scope |-> h]
Nothing == Request("idle", NULL, NULL, 0, NULL)

AbsInit ==
    /\ held = [a \in Allocator |-> {}]
    /\ addr = [b \in Block |-> NULL]
    /\ room = [b \in Block |-> 0]
    /\ keep = [a \in Allocator |-> [h \in {} |-> {}]]
    /\ asked = Nothing
    /\ outcome = "run"

FreeAddr == Addr \ {addr[b] : b \in Block}

(* Blocks in gone are released: they leave the allocator and its scopes.    *)
Release(a, gone, open) ==
    /\ held' = [held EXCEPT ![a] = @ \ gone]
    /\ addr' = [b \in Block |-> IF b \in gone THEN NULL ELSE addr[b]]
    /\ room' = [b \in Block |-> IF b \in gone THEN 0 ELSE room[b]]
    /\ keep' = [keep EXCEPT ![a] = [h \in open |-> keep[a][h] \ gone]]

AbsAlloc(a) ==
    /\ asked = Nothing
    /\ \E b \in Block \ AllHeld, p \in FreeAddr, sz \in Size :
           /\ held' = [held EXCEPT ![a] = @ \cup {b}]
           /\ addr' = [addr EXCEPT ![b] = p]
           /\ room' = [room EXCEPT ![b] = sz]
           /\ UNCHANGED <<keep, asked>>

AbsNewScope(a) ==
    /\ asked = Nothing
    /\ \E h \in held[a] \cup {NULL} :
           /\ keep' = [keep EXCEPT ![a] =
                 [g \in DOMAIN keep[a] \cup {h} |->
                     IF g = h THEN held[a] ELSE keep[a][g]]]
           /\ UNCHANGED <<held, addr, room, asked>>

(* The client asks for a block it holds.  A block that stands for an open   *)
(* scope stays until the scope is released, and none shrinks.               *)
AbsAsk(a) ==
    /\ asked = Nothing
    /\ \E b \in held[a] :
           \/ b \notin DOMAIN keep[a] /\ asked' = Request("free", a, addr[b], 0, NULL)
           \/ \E sz \in Size : /\ room[b] <= sz
                               /\ asked' = Request("realloc", a, addr[b], sz, NULL)
    /\ UNCHANGED <<held, addr, room, keep>>

AbsFree(a) ==
    /\ asked.op = "free" /\ asked.self = a
    /\ \E b \in held[a] : addr[b] = asked.ptr /\ Release(a, {b}, DOMAIN keep[a])
    /\ asked' = Nothing

AbsRealloc(a) ==
    /\ asked.op = "realloc" /\ asked.self = a
    /\ \E b \in held[a], p \in FreeAddr :
           /\ addr[b] = asked.ptr
           /\ addr' = [addr EXCEPT ![b] = p]
           /\ room' = [room EXCEPT ![b] = asked.bytes]
    /\ asked' = Nothing
    /\ UNCHANGED <<held, keep>>

(* Inner scopes end with the one they were opened in.                       *)
AbsFreeScope(a) ==
    /\ asked = Nothing
    /\ \E h \in DOMAIN keep[a] :
           /\ asked' = Request("free_scope", a, NULL, 0, h)
           /\ Release(a, held[a] \ keep[a][h],
                      {g \in DOMAIN keep[a] : keep[a][g] \subseteq keep[a][h] \ {h}
                                              /\ g # h})

AbsDeinit(a) ==
    /\ asked = Nothing
    /\ asked' = Request("deinit", a, NULL, 0, NULL)
    /\ Release(a, held[a], {})

AbsReturn ==
    /\ asked.op \in {"free_scope", "deinit"}
    /\ asked' = Nothing
    /\ UNCHANGED <<held, addr, room, keep>>

AbsNext ==
    /\ outcome = "run"
    /\ \/ /\ \/ AbsReturn
             \/ \E a \in Allocator :
                   \/ AbsAlloc(a)     \/ AbsNewScope(a)  \/ AbsAsk(a)
                   \/ AbsFree(a)      \/ AbsRealloc(a)
                   \/ AbsFreeScope(a) \/ AbsDeinit(a)
          /\ UNCHANGED outcome
       \/ outcome' = "panic" /\ UNCHANGED <<held, addr, room, keep, asked>>

AbsSpec == AbsInit /\ [][AbsNext]_absVars
=============================================================================
