--------------------------- MODULE AllocatorMisuse ---------------------------
(***************************************************************************)
(* The allocator under clients that keep to what allocator.h documents but  *)
(* not to the unwritten rules of Allocator!Client: they shrink blocks, move *)
(* them, and free any block they hold, the one a scope handle stands for    *)
(* and those from before a scope that was released included.                *)
(***************************************************************************)
EXTENDS Allocator

(* allocator_move takes the zeroed buffer that allocator_alloc returns for  *)
(* an AllocatorNode and copies to the address it reads there: a read past   *)
(* the buffer, or a memcpy to NULL.                                         *)
StartMove(a, d, p) == a # d /\ p # NULL /\ Start("move", a, p, 0, d)

Move ==
    /\ Finding /\ call.op = "move" /\ Found
    /\ Fault \/ Panic

DocumentedClient(a) ==
    \/ Client(a)
    \/ \E n \in owned[a] : StartFree(a, buffer[n])
    \/ \E n \in owned[a], sz \in Size : StartRealloc(a, buffer[n], sz)
    \/ \E d \in Allocator, n \in owned[a] : StartMove(a, d, buffer[n])

DocumentedNext ==
    Internal \/ Move \/ \E a \in Allocator : DocumentedClient(a)

DocumentedSpec == Init /\ [][DocumentedNext]_vars

(* allocator.h:63-69, "Free a specific allocation from an allocator": a     *)
(* block the client holds can be freed.  Refuted: once its scope has been   *)
(* released, the child link of the block leads to freed memory.             *)
FreeTakesHeldBlock == ~(status = "fault" /\ call.op = "free")
=============================================================================
