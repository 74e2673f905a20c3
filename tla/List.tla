--------------------------------- MODULE List ---------------------------------
(***************************************************************************)
(* The doubly linked list of core/list.c: the buckets of the hash table    *)
(* and the sequences of the tree.  A node and the block of its item are    *)
(* allocated and freed together; both are one address here.  Addresses are  *)
(* only compared, so that any one that is not live stands for what malloc   *)
(* returns.  Following a link to memory that is not live, or to NULL, is    *)
(* undefined behaviour: status "fault".                                     *)
(*                                                                         *)
(* A call is one step, but for list_deinit, whose loop frees the node       *)
(* behind it in every turn.                                                 *)
(***************************************************************************)
EXTENDS Integers, FiniteSets, Sequences, ContainerBase

CONSTANT Node   \* the addresses of nodes

(* There are not as many nodes as there are bytes, which usize can count.   *)
ASSUME ListAssumption ==
    /\ IsFiniteSet(Node) /\ Cardinality(Node) < Word
    /\ NULL \notin Node /\ "no" \notin Node

VARIABLES
    head,       \* the first node, or NULL
    length,     \* the number of items, as the list counts them
    parent,     \* per node: the one before
    child,      \* per node: the one after
    item,       \* per node: its item
    liveNode,   \* the nodes that are allocated
    listIter,   \* the node an iterator of the client yields next
    deinit,     \* the node list_deinit has reached, "no" outside of it
    listReply,  \* what the call that returned last has answered
    listStatus, \* "run", "panic" or "fault"
    dropped,    \* history: nodes list_pop has given up
    miscounted  \* history: a call of list_remove found nothing to remove

links    == <<head, length, parent, child, item, liveNode, dropped, miscounted>>
listVars == <<links, listIter, deinit, listReply, listStatus>>

OptNode == Node \cup {NULL}

ListInit ==
    /\ head = NULL
    /\ length = 0
    /\ parent = [n \in Node |-> NULL]
    /\ child = [n \in Node |-> NULL]
    /\ item = [n \in Node |-> Zero]
    /\ liveNode = {}
    /\ listIter = NULL
    /\ deinit = "no"
    /\ listReply = NoAnswer
    /\ listStatus = "run"
    /\ dropped = {}
    /\ miscounted = FALSE

ListReady == listStatus = "run" /\ deinit = "no"

(* The process ends in a call.                                              *)
ListStop(call, how) ==
    /\ listStatus' = how
    /\ listReply' = Answer(call, NULL)
    /\ UNCHANGED <<links, listIter, deinit>>

Answers(question, value) ==
    /\ listReply' = Answer(question, value)
    /\ UNCHANGED <<links, deinit, listStatus>>

(* The calls that answer nothing.                                           *)
Returns(question) ==
    listReply' = Answer(question, NULL) /\ UNCHANGED <<deinit, listStatus>>

-----------------------------------------------------------------------------
(* The walk from the head along the child links: the nodes it visits.  It   *)
(* ends at NULL; a list whose links are wrong can lead it elsewhere.        *)
Step[k \in Nat] ==
    IF k = 0 THEN head
    ELSE LET n == Step[k - 1] IN IF n \in liveNode THEN child[n] ELSE n

Chain ==
    LET visited == {k \in 0 .. Cardinality(Node) : Step[k] \in liveNode}
    IN [k \in 1 .. Cardinality(visited) |-> Step[k - 1]]

Chained  == {Chain[k] : k \in DOMAIN Chain}

(* Mutant: the loop of list_get_tail makes no turn.                         *)
ListTailIsHead == head

ListTail == IF Chain = <<>> THEN NULL ELSE Chain[Len(Chain)]
Nth(idx) == IF Step[idx] \in liveNode THEN Step[idx] ELSE NULL
Ends     == Step[Cardinality(Node)] = NULL

(* What freed memory held is gone.                                          *)
Freed(n) ==
    /\ liveNode' = liveNode \ {n}
    /\ item' = [item EXCEPT ![n] = Zero]

(* Mutant: the node behind keeps its link to the one that is freed.         *)
FreeNodeOneSided(n) ==
    /\ Freed(n)
    /\ child' = [m \in Node |-> IF m = n THEN NULL
                                ELSE IF m = parent[n] THEN child[n] ELSE child[m]]
    /\ parent' = [parent EXCEPT ![n] = NULL]
    /\ head' = IF n = head THEN child[n] ELSE head

(* list_free_node: both neighbours and the head are put right.              *)
FreeNode(n) ==
    /\ Freed(n)
    /\ child' = [m \in Node |-> IF m = n THEN NULL
                                ELSE IF m = parent[n] THEN child[n] ELSE child[m]]
    /\ parent' = [m \in Node |-> IF m = n THEN NULL
                                ELSE IF m = child[n] THEN parent[n] ELSE parent[m]]
    /\ head' = IF n = head THEN child[n] ELSE head

-----------------------------------------------------------------------------
(* The calls                                                                *)

NewNode == CHOOSE n \in Node : n \notin liveNode

(* list_push: the tail is searched after the new node is allocated.         *)
ListPush(x) ==
    /\ ListReady
    /\ \/ LET tail == ListTail
              n == NewNode
          IN /\ liveNode # Node
             /\ liveNode' = liveNode \cup {n}
             /\ head' = IF head = NULL THEN n ELSE head
             /\ parent' = [parent EXCEPT ![n] = tail]
             /\ child' = [m \in Node |-> IF m = n THEN NULL
                                         ELSE IF m = tail THEN n ELSE child[m]]
             /\ item' = [item EXCEPT ![n] = x]
             /\ length' = (length + 1) % Word
             /\ Returns(<<"push", x>>)
             /\ UNCHANGED <<listIter, dropped, miscounted>>
       \/ ListStop(<<"push", x>>, "panic")

(* list_pop: only a tail with a node before it is copied and freed; the     *)
(* only node of a list is lost with its item.                               *)
ListPop ==
    /\ ListReady
    /\ LET tail == ListTail IN
       IF tail = NULL
       THEN Answers(<<"pop">>, NULL) /\ UNCHANGED listIter
       ELSE \/ /\ IF parent[tail] # NULL
                  THEN /\ FreeNode(tail)
                       /\ listReply' = Answer(<<"pop">>, item[tail])
                       /\ UNCHANGED dropped
                  ELSE /\ head' = IF tail = head THEN NULL ELSE head
                       /\ listReply' = Answer(<<"pop">>, NULL)
                       /\ dropped' = dropped \cup {tail}
                       /\ UNCHANGED <<parent, child, item, liveNode>>
               /\ length' = (length - 1) % Word
               /\ UNCHANGED <<listIter, deinit, listStatus, miscounted>>
            \/ parent[tail] # NULL /\ ListStop(<<"pop">>, "panic")

(* list_insert: at length nothing is inserted.  Below it the counter that   *)
(* bounds the loop grows inside of it, and the turn that is added reads     *)
(* the child of NULL; as does a turn for an item that is not there.         *)
ListInsert(idx, x) ==
    /\ ListReady
    /\ CASE idx > length -> ListStop(<<"insert", idx, x>>, "panic")
         [] idx = length /\ length <= Len(Chain) ->
                Returns(<<"insert", idx, x>>) /\ UNCHANGED <<links, listIter>>
         [] OTHER -> \/ ListStop(<<"insert", idx, x>>, "fault")
                     \/ idx < length /\ ListStop(<<"insert", idx, x>>, "panic")

(* list_remove counts down whether or not it found a node to remove, which  *)
(* it does not at length.                                                   *)
ListRemove(idx) ==
    /\ ListReady
    /\ IF idx > length
       THEN ListStop(<<"remove", idx>>, "panic")
       ELSE /\ IF Nth(idx) # NULL
               THEN FreeNode(Nth(idx)) /\ UNCHANGED miscounted
               ELSE /\ miscounted' = TRUE
                    /\ UNCHANGED <<head, parent, child, item, liveNode>>
            /\ length' = (length - 1) % Word
            /\ Returns(<<"remove", idx>>)
            /\ UNCHANGED <<listIter, dropped>>

ListFind(x) ==
    /\ ListReady
    /\ Answers(<<"find", x>>,
               IF x \in {item[n] : n \in Chained} THEN x ELSE NULL)
    /\ UNCHANGED listIter

ListGet(idx) ==
    /\ ListReady
    /\ IF idx > length
       THEN ListStop(<<"get", idx>>, "panic")
       ELSE /\ Answers(<<"get", idx>>,
                       IF Nth(idx) # NULL THEN item[Nth(idx)] ELSE NULL)
            /\ UNCHANGED listIter

(* list_item_init: every item is overwritten through an iterator.           *)
ListItemInit(x) ==
    /\ ListReady
    /\ item' = [n \in Node |-> IF n \in Chained THEN x ELSE item[n]]
    /\ Returns(<<"all", x>>)
    /\ UNCHANGED <<head, length, parent, child, liveNode, listIter>>
    /\ UNCHANGED <<dropped, miscounted>>

ListIterInit ==
    /\ ListReady
    /\ listIter' = head
    /\ Returns(<<"iter">>)
    /\ UNCHANGED links

ListIterNext ==
    /\ ListReady
    /\ IF listIter = NULL
       THEN Answers(<<"next">>, NULL) /\ UNCHANGED listIter
       ELSE IF listIter \in liveNode
       THEN /\ Answers(<<"next">>, item[listIter])
            /\ listIter' = child[listIter]
       ELSE ListStop(<<"next">>, "fault")

-----------------------------------------------------------------------------
(* list_deinit, and list_free, which frees the List itself after it; the    *)
(* client's iterator ends with the items.                                   *)

(* Mutant: the loop is entered for an empty list too.                       *)
ListDeinitUnchecked ==
    /\ ListReady
    /\ listIter' = NULL
    /\ listReply' = Answer(<<"deinit">>, NULL)
    /\ deinit' = head
    /\ UNCHANGED <<links, listStatus>>

ListDeinit ==
    /\ ListReady
    /\ listIter' = NULL
    /\ listReply' = Answer(<<"deinit">>, NULL)
    /\ IF head = NULL
       THEN length' = 0 /\ miscounted' = FALSE /\ UNCHANGED deinit
       ELSE deinit' = head /\ UNCHANGED <<length, miscounted>>
    /\ UNCHANGED <<head, parent, child, item, liveNode, listStatus, dropped>>

(* A turn of the loop: the node before is freed, then the walk goes on.     *)
ListDeinitTurn ==
    /\ listStatus = "run" /\ deinit # "no"
    /\ UNCHANGED <<listIter, listReply, dropped>>
    /\ IF ~ {deinit, parent[deinit]} \subseteq liveNode \cup {NULL}
       THEN /\ listStatus' = "fault"
            /\ UNCHANGED <<head, length, parent, child, item, liveNode>>
            /\ UNCHANGED <<deinit, miscounted>>
       ELSE /\ UNCHANGED listStatus
            /\ IF parent[deinit] # NULL
               THEN /\ FreeNode(parent[deinit])
                    /\ deinit' = IF child[deinit] # NULL
                                 THEN child[deinit] ELSE deinit
                    /\ UNCHANGED <<length, miscounted>>
               ELSE IF child[deinit] # NULL
               THEN /\ deinit' = child[deinit]
                    /\ UNCHANGED <<head, length, parent, child, item, liveNode>>
                    /\ UNCHANGED miscounted
               ELSE /\ FreeNode(deinit)
                    /\ length' = 0 /\ miscounted' = FALSE
                    /\ deinit' = "no"

(* A client does not have a node removed its iterator is at, and passes an  *)
(* index behind the last at most once before list_deinit.                   *)
IterSpared(n)  == listIter = NULL \/ listIter # n
OneSlip(idx)   == miscounted => idx < Len(Chain)

ListNext ==
    \/ \E x \in Item : ListPush(x) \/ ListFind(x) \/ ListItemInit(x)
    \/ \E idx \in Index : \/ \E x \in Item : ListInsert(idx, x)
                          \/ ListGet(idx)
                          \/ /\ IterSpared(Nth(idx)) /\ OneSlip(idx)
                             /\ ListRemove(idx)
    \/ IterSpared(ListTail) /\ ListPop
    \/ ListIterInit \/ ListIterNext \/ ListDeinit \/ ListDeinitTurn

ListSpec == ListInit /\ [][ListNext]_listVars

-----------------------------------------------------------------------------
(* Properties                                                               *)

(* The type of every variable.                                              *)
ListTypeOK ==
    /\ head \in OptNode
    /\ length \in 0 .. Word - 1
    /\ parent \in [Node -> OptNode]
    /\ child \in [Node -> OptNode]
    /\ item \in [Node -> Item]
    /\ liveNode \in SUBSET Node
    /\ listIter \in OptNode
    /\ deinit \in Node \cup {"no"}
    /\ listStatus \in {"run", "panic", "fault"}
    /\ dropped \in SUBSET Node
    /\ miscounted \in BOOLEAN

(* Whatever was pushed, popped and removed in whatever order: the walk from *)
(* the head ends, parent links lead back along it, length is the number of  *)
(* its nodes, every node that is allocated is on it or is one that list_pop *)
(* gave up, and an iterator is at one of its nodes.  list_deinit has        *)
(* freed every node it has left behind and no other.  Only length goes      *)
(* wrong when list_remove is called for the index behind the last.          *)
ListChain ==
    /\ Ends
    /\ \A k \in DOMAIN Chain :
          parent[Chain[k]] = IF k = 1 THEN NULL ELSE Chain[k - 1]
    /\ liveNode = Chained \cup dropped
    /\ Chained \cap dropped = {}
    /\ listIter \in Chained \cup {NULL}
    /\ deinit = "no" /\ ~miscounted => length = Len(Chain)
    /\ deinit # "no" => deinit \in Chained

(* The only call of the list that faults is list_insert: list.c:102 counts  *)
(* the new node in the bound of the loop, so that nothing is ever inserted; *)
(* and where length counts items that are not there, its loop passes them.  *)
ListFaults ==
    listStatus = "fault" =>
        \E idx \in Index, x \in Item :
            /\ listReply.question = <<"insert", idx, x>>
            /\ idx < length \/ miscounted

ListItems ==
    IF deinit # "no" THEN <<>> ELSE [k \in DOMAIN Chain |-> item[Chain[k]]]

ListCursor ==
    IF listIter = NULL THEN Len(ListItems) + 1
    ELSE CHOOSE k \in DOMAIN Chain : Chain[k] = listIter

ListAbs == INSTANCE SequenceAbs WITH
    items   <- ListItems,
    cursor  <- ListCursor,
    reply   <- listReply,
    outcome <- listStatus

(* Where list.c departs from list.h.  list.h:211 promises NULL of list_pop  *)
(* only for an empty list, and list.c:164 answers it for the only item      *)
(* too; list.h:230 promises NULL of list_get out of bounds, and list.c:197  *)
(* panics; list.h:178 promises of list_insert that "the item is copied",    *)
(* and the loop of list.c:86 never gets there or faults.                    *)
ListDeparts ==
    \/ ListAbs!PopLosesOnly
    \/ ListAbs!InsertAddsNone \/ ListAbs!InsertFaults
    \/ ListAbs!IndexIgnored \/ ListAbs!IndexPanics

(* The nodes implement the sequence that is asked for: every call does to   *)
(* the items what its own arguments say and to no other item, what was      *)
(* pushed comes back from find, get and the iterator in the order it was    *)
(* pushed, an iterator meets each item once while items before and behind   *)
(* it come and go; the departures named are the only ones.                  *)
ListRefines == ListAbs!AbsInit /\ [][ListAbs!AbsNext \/ ListDeparts]_(ListAbs!absVars)
=============================================================================
