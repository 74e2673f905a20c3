-------------------------------- MODULE Vector --------------------------------
(***************************************************************************)
(* The growing array of core/vector.c.  Its buffer has room slots, which   *)
(* the allocator knows and the vector does not: the vector keeps capacity.  *)
(* allocator_realloc copies all of the old buffer into the new one, so that *)
(* it overruns a new one that is smaller.  The callback that frees an item  *)
(* is left out: it has no state of the vector to change.                    *)
(***************************************************************************)
EXTENDS Integers, Sequences, ContainerBase

CONSTANTS
    MaxRoom,  \* no vector grows beyond: xmalloc panics
    Junk      \* what memory holds that was never written

ASSUME VectorAssumption == MaxRoom \in Nat /\ Junk \notin Item

VARIABLES
    data,      \* "none" before vector_init and after vector_deinit, else "live"
    room,      \* the slots of the buffer
    capacity,  \* the slots the vector counts on
    size,      \* the items, as the vector counts them
    slot,      \* the contents of the buffer
    vecIter,   \* the index of an iterator
    vecReply,  \* what the call that returned last has answered
    vecStatus, \* "run", "panic" or "fault"
    cleared    \* history: vector_clear was called and the buffer not replaced

buffer  == <<data, room, capacity, slot, cleared>>
vecVars == <<buffer, size, vecIter, vecReply, vecStatus>>

VectorEmpty ==
    /\ data = "none" /\ room = 0 /\ capacity = 0 /\ size = 0 /\ slot = <<>>
    /\ vecIter = 0 /\ vecReply = NoAnswer /\ vecStatus = "run" /\ cleared = FALSE

VectorReady == vecStatus = "run" /\ data = "live"

(* The process ends in a call.                                              *)
VectorStop(call, how) ==
    /\ vecStatus' = how
    /\ vecReply' = Answer(call, NULL)
    /\ UNCHANGED <<buffer, size, vecIter>>

VectorAnswers(question, value) ==
    /\ vecReply' = Answer(question, value)
    /\ UNCHANGED <<buffer, vecStatus>>

(* The calls that answer nothing.                                           *)
VectorReturns(question) ==
    vecReply' = Answer(question, NULL) /\ UNCHANGED vecStatus

(* Slots are numbered from 1 here, from 0 in the code.                      *)
Put(s, i, x) == [s EXCEPT ![i + 1] = x]

(* Mutant: the old buffer is not copied into the new one.                   *)
GrownEmpty(s, n) == [i \in 1 .. n |-> Junk]

(* The buffer after allocator_realloc to n slots.                           *)
Grown(s, n) == [i \in 1 .. n |-> IF i <= Len(s) THEN s[i] ELSE Junk]

-----------------------------------------------------------------------------
(* vector_init and vector_new: allocator_alloc zeroes the buffer.           *)
VectorInit(n) ==
    /\ vecStatus = "run" /\ data = "none"
    /\ \/ /\ n <= MaxRoom
          /\ data' = "live"
          /\ room' = n /\ capacity' = n /\ size' = 0
          /\ slot' = [i \in 1 .. n |-> Zero]
          /\ cleared' = FALSE
          /\ VectorReturns(<<"init", n>>)
          /\ UNCHANGED vecIter
       \/ VectorStop(<<"init", n>>, "panic")

(* Mutant: the vector grows when it is full but for one slot too late.      *)
VectorPushGrowsLate(x) ==
    /\ VectorReady
    /\ VectorReturns(<<"push", x>>)
    /\ size <= room
    /\ slot' = IF size < room THEN Put(slot, size, x) ELSE Append(slot, x)
    /\ size' = size + 1
    /\ UNCHANGED <<data, room, capacity, cleared, vecIter>>

(* Mutant: the vector grows to the items it has, not counting the new one.  *)
VectorPushOneShort(x) ==
    /\ VectorReady
    /\ IF size + 1 <= capacity
       THEN /\ slot' = Put(slot, size, x)
            /\ size' = size + 1
            /\ VectorReturns(<<"push", x>>)
            /\ UNCHANGED <<data, room, capacity, cleared, vecIter>>
       ELSE VectorStop(<<"push", x>>, "fault")

VectorPush(x) ==
    /\ VectorReady
    /\ IF size + 1 <= capacity
       THEN /\ slot' = Put(slot, size, x)
            /\ size' = size + 1
            /\ VectorReturns(<<"push", x>>)
            /\ UNCHANGED <<data, room, capacity, cleared, vecIter>>
       ELSE LET n == IF capacity = 0 THEN 1 ELSE 2 * capacity IN
            \/ /\ n < room
               /\ VectorStop(<<"push", x>>, "fault")
            \/ /\ room <= n /\ n <= MaxRoom
               /\ room' = n /\ capacity' = n
               /\ slot' = Put(Grown(slot, n), size, x)
               /\ size' = size + 1
               /\ cleared' = FALSE
               /\ VectorReturns(<<"push", x>>)
               /\ UNCHANGED <<data, vecIter>>
            \/ VectorStop(<<"push", x>>, "panic")

(* vector_pop: the caller reads the item in the buffer.                     *)
VectorPop ==
    /\ VectorReady
    /\ IF size = 0
       THEN VectorAnswers(<<"pop">>, NULL) /\ UNCHANGED size
       ELSE VectorAnswers(<<"pop">>, slot[size]) /\ size' = size - 1
    /\ UNCHANGED vecIter

(* vector_get admits the index behind the last item, which holds none.      *)
VectorGet(i) ==
    /\ VectorReady
    /\ IF i > size
       THEN VectorStop(<<"get", i>>, "panic")
       ELSE /\ VectorAnswers(<<"get", i>>,
                             IF i < size THEN slot[i + 1] ELSE NULL)
            /\ UNCHANGED <<size, vecIter>>

(* vector_insert overwrites, hence "set"; behind the last item it writes    *)
(* uncounted, and past the buffer if that is full.                          *)
VectorInsert(i, x) ==
    /\ VectorReady
    /\ IF i > size THEN VectorStop(<<"set", i, x>>, "panic")
       ELSE IF i >= room THEN VectorStop(<<"set", i, x>>, "fault")
       ELSE /\ slot' = Put(slot, i, x)
            /\ VectorReturns(<<"set", i, x>>)
            /\ UNCHANGED <<data, room, capacity, size, cleared, vecIter>>

(* Mutant: the items are still counted.                                     *)
VectorClearKeepsSize ==
    /\ VectorReady
    /\ capacity' = 0
    /\ cleared' = TRUE
    /\ VectorReturns(<<"clear">>)
    /\ UNCHANGED <<data, room, slot, size, vecIter>>

(* vector_clear keeps the buffer and forgets its capacity.                  *)
VectorClear ==
    /\ VectorReady
    /\ size' = 0
    /\ capacity' = 0
    /\ cleared' = TRUE
    /\ VectorReturns(<<"clear">>)
    /\ UNCHANGED <<data, room, slot, vecIter>>

(* vector_deinit and vector_free give the buffer back.                      *)
VectorDeinit ==
    /\ VectorReady
    /\ data' = "none"
    /\ room' = 0 /\ capacity' = 0 /\ size' = 0 /\ slot' = <<>>
    /\ cleared' = FALSE
    /\ VectorReturns(<<"deinit">>)
    /\ UNCHANGED vecIter

VectorZeroFill ==
    /\ VectorReady
    /\ slot' = [i \in 1 .. room |-> IF i <= capacity THEN Zero ELSE slot[i]]
    /\ size' = capacity
    /\ VectorReturns(<<"zero">>)
    /\ UNCHANGED <<data, room, capacity, cleared, vecIter>>

(* vector_reserve: its assertion aborts.                                    *)
VectorReserve(n) ==
    /\ VectorReady
    /\ IF n = 0 \/ n < size THEN VectorStop(<<"reserve", n>>, "panic")
       ELSE \/ /\ n < room
               /\ VectorStop(<<"reserve", n>>, "fault")
            \/ /\ room <= n /\ n <= MaxRoom
               /\ room' = n /\ capacity' = n
               /\ slot' = Grown(slot, n)
               /\ cleared' = FALSE
               /\ VectorReturns(<<"reserve", n>>)
               /\ UNCHANGED <<data, size, vecIter>>
            \/ VectorStop(<<"reserve", n>>, "panic")

(* vector_item_init: every item is overwritten through an iterator.         *)
VectorItemInit(x) ==
    /\ VectorReady
    /\ slot' = [i \in 1 .. room |-> IF i <= size THEN x ELSE slot[i]]
    /\ VectorReturns(<<"all", x>>)
    /\ UNCHANGED <<data, room, capacity, size, cleared, vecIter>>

VectorIterReset ==
    /\ VectorReady
    /\ vecIter' = 0
    /\ VectorReturns(<<"iter">>)
    /\ UNCHANGED <<buffer, size>>

VectorIterNext ==
    /\ VectorReady
    /\ IF vecIter < size
       THEN /\ VectorAnswers(<<"next">>, slot[vecIter + 1])
            /\ vecIter' = vecIter + 1
       ELSE VectorAnswers(<<"next">>, NULL) /\ UNCHANGED vecIter
    /\ UNCHANGED size

VectorNext ==
    \/ \E x \in Item : VectorPush(x) \/ VectorItemInit(x)
    \/ \E i \in Index : \/ VectorInit(i) \/ VectorGet(i) \/ VectorReserve(i)
                        \/ \E x \in Item : VectorInsert(i, x)
    \/ VectorPop \/ VectorClear \/ VectorDeinit \/ VectorZeroFill
    \/ VectorIterReset \/ VectorIterNext

VectorSpec == VectorEmpty /\ [][VectorNext]_vecVars

-----------------------------------------------------------------------------
(* Properties                                                               *)

(* The type of every variable.                                              *)
VectorTypeOK ==
    /\ data \in {"none", "live"}
    /\ room \in 0 .. MaxRoom /\ capacity \in 0 .. MaxRoom /\ size \in 0 .. MaxRoom
    /\ slot \in [1 .. room -> Item \cup {Junk}]
    /\ vecIter \in Nat
    /\ vecStatus \in {"run", "panic", "fault"}
    /\ cleared \in BOOLEAN

(* The vector counts on no more than the allocator gave it, and on exactly  *)
(* that unless it was cleared; every item it counts was written: no growth, *)
(* reserve or fill exposes memory that realloc left as it was.              *)
VectorBuffer ==
    /\ size <= capacity /\ capacity <= room
    /\ ~cleared => capacity = room
    /\ \A i \in 1 .. size : slot[i] \in Item

(* What it takes to overrun the buffer: a push or a reserve of a vector that *)
(* was cleared, a reserve of less than there is, or an insert behind the    *)
(* last item of a full vector.  A push to any other vector is safe.         *)
VectorFaults ==
    vecStatus = "fault" =>
        LET call == vecReply.question IN
        \/ cleared /\ \E x \in Item : call = <<"push", x>>
        \/ \E n \in Index : call = <<"reserve", n>> /\ n < room
        \/ size = room /\ \E x \in Item : call = <<"set", size, x>>

VectorItems == [i \in 1 .. size |-> slot[i]]

VectorAbs == INSTANCE SequenceAbs WITH
    items   <- VectorItems,
    cursor  <- (IF vecIter < size THEN vecIter ELSE size) + 1,
    reply   <- vecReply,
    outcome <- vecStatus

(* The sequence is that of list.h, vector.h says nothing; an index behind   *)
(* the last panics, or writes uncounted.                                    *)
VectorDeparts ==
    \/ VectorAbs!IndexIgnored \/ VectorAbs!IndexPanics
    \/ VectorAbs!GrowthFaults \/ VectorAbs!SetFaults

(* The buffer implements the sequence that is asked for: what is pushed is  *)
(* appended and nothing else changes, growing keeps every item and its      *)
(* place, pop returns the last, the iterator meets each item once.          *)
VectorRefines ==
    VectorAbs!AbsInit /\ [][VectorAbs!AbsNext \/ VectorDeparts]_(VectorAbs!absVars)
=============================================================================
