----------------------------- MODULE VectorProofs -----------------------------
(* Theorems about Vector, for every set of items, every bound of the memory *)
(* and every index.                                                         *)
EXTENDS Vector, TLAPS

(* The inductive invariant: the types, what the vector counts on, and what  *)
(* it takes to overrun the buffer.  A push finds room for its item because  *)
(* capacity is room unless the vector was cleared.                          *)
VectorInv == VectorTypeOK /\ VectorBuffer /\ VectorFaults

LEMMA EmptyBuffer == ASSUME NEW S PROVE <<>> \in [1 .. 0 -> S]
  OBVIOUS

LEMMA VectorInitially == VectorEmpty => VectorInv
  <1> SUFFICES ASSUME VectorEmpty PROVE VectorInv
    OBVIOUS
  <1>1. VectorTypeOK
    <2>1. slot \in [1 .. room -> Item \cup {Junk}]
      BY EmptyBuffer DEF VectorEmpty
    <2>2. room \in 0 .. MaxRoom /\ capacity \in 0 .. MaxRoom /\ size \in 0 .. MaxRoom
      BY VectorAssumption DEF VectorEmpty
    <2> QED
      BY <2>1, <2>2 DEF VectorEmpty, VectorTypeOK
  <1> QED
    BY <1>1 DEF VectorEmpty, VectorInv, VectorBuffer, VectorFaults

(* A call that ends the process leaves the vector as it is: what remains to *)
(* be shown is that it may fault there.                                     *)
LEMMA VectorStops ==
    ASSUME VectorInv, NEW call, NEW how \in {"panic", "fault"},
           VectorStop(call, how),
           how = "fault" =>
               \/ cleared /\ \E x \in Item : call = <<"push", x>>
               \/ \E n \in Index : call = <<"reserve", n>> /\ n < room
               \/ size = room /\ \E x \in Item : call = <<"set", size, x>>
    PROVE  VectorInv'
  BY DEF VectorInv, VectorTypeOK, VectorBuffer, VectorFaults, VectorStop,
         buffer, Answer

(* A call that only reads and answers.                                      *)
LEMMA VectorAnswersInv ==
    ASSUME VectorInv, vecStatus = "run", NEW question, NEW value,
           VectorAnswers(question, value), UNCHANGED size, vecIter' \in Nat
    PROVE  VectorInv'
  BY DEF VectorInv, VectorTypeOK, VectorBuffer, VectorFaults, VectorAnswers,
         buffer

(* What allocator_realloc leaves in the buffer.                             *)
LEMMA GrownBuffer ==
    ASSUME NEW m \in Nat, NEW n \in Nat, m <= n,
           NEW s \in [1 .. m -> Item \cup {Junk}]
    PROVE  /\ Grown(s, n) \in [1 .. n -> Item \cup {Junk}]
           /\ \A i \in 1 .. m : Grown(s, n)[i] = s[i]
  <1>1. s \in Seq(Item \cup {Junk}) /\ Len(s) = m
    OBVIOUS
  <1> QED
    BY <1>1 DEF Grown

LEMMA PushKeepsInv ==
    ASSUME VectorInv, NEW x \in Item, VectorPush(x)
    PROVE  VectorInv'
  <1> USE ContainerAssumption, VectorAssumption
  <1>1. VectorTypeOK /\ VectorBuffer /\ vecStatus = "run"
    BY DEF VectorInv, VectorPush, VectorReady
  <1>2. CASE size + 1 <= capacity
    BY <1>1, <1>2
       DEF VectorPush, VectorInv, VectorTypeOK, VectorBuffer, VectorFaults,
           VectorReturns, Put
  <1>3. CASE ~ (size + 1 <= capacity)
    <2> DEFINE n == IF capacity = 0 THEN 1 ELSE 2 * capacity
    <2>1. n \in Nat /\ size + 1 <= n /\ (~cleared => room <= n)
      BY <1>1, <1>3 DEF VectorTypeOK, VectorBuffer
    <2>2. CASE n < room /\ VectorStop(<<"push", x>>, "fault")
      BY <2>1, <2>2, <1>1, VectorStops DEF VectorTypeOK
    <2>3. CASE VectorStop(<<"push", x>>, "panic")
      BY <2>3, VectorStops
    <2>4. CASE /\ room <= n /\ n <= MaxRoom
               /\ room' = n /\ capacity' = n
               /\ slot' = Put(Grown(slot, n), size, x)
               /\ size' = size + 1
               /\ cleared' = FALSE
               /\ VectorReturns(<<"push", x>>)
               /\ UNCHANGED <<data, vecIter>>
      <3>1. /\ Grown(slot, n) \in [1 .. n -> Item \cup {Junk}]
            /\ \A i \in 1 .. room : Grown(slot, n)[i] = slot[i]
        <4>1. /\ room \in Nat /\ room <= n /\ n \in Nat
              /\ slot \in [1 .. room -> Item \cup {Junk}]
          BY <1>1, <2>1, <2>4 DEF VectorTypeOK
        <4> HIDE DEF n
        <4> QED BY <4>1, GrownBuffer
      <3>2. /\ slot' \in [1 .. n -> Item \cup {Junk}]
            /\ slot'[size + 1] = x
            /\ \A i \in 1 .. size : slot'[i] = slot[i]
        BY <1>1, <2>1, <2>4, <3>1 DEF Put, VectorTypeOK, VectorBuffer
      <3>3. VectorTypeOK'
        <4>1. size' \in 0 .. MaxRoom
          BY <1>1, <2>1, <2>4 DEF VectorTypeOK, VectorBuffer
        <4>2. room' \in 0 .. MaxRoom /\ capacity' \in 0 .. MaxRoom
          BY <2>1, <2>4
        <4>3. slot' \in [1 .. room' -> Item \cup {Junk}]
          BY <2>4, <3>2
        <4> QED
          BY <1>1, <2>4, <4>1, <4>2, <4>3 DEF VectorTypeOK, VectorReturns
      <3>4. VectorBuffer'
        BY <1>1, <2>1, <2>4, <3>2 DEF VectorTypeOK, VectorBuffer
      <3>5. VectorFaults'
        BY <1>1, <2>4 DEF VectorFaults, VectorReturns
      <3> QED BY <3>3, <3>4, <3>5 DEF VectorInv
    <2> QED
      BY <1>3, <2>2, <2>3, <2>4 DEF VectorPush
  <1> QED BY <1>2, <1>3

LEMMA ReserveKeepsInv ==
    ASSUME VectorInv, NEW n \in Index, VectorReserve(n)
    PROVE  VectorInv'
  <1> USE ContainerAssumption, VectorAssumption
  <1>1. VectorTypeOK /\ VectorBuffer /\ vecStatus = "run" /\ n \in Nat
    BY DEF VectorInv, VectorReserve, VectorReady
  <1>2. CASE VectorStop(<<"reserve", n>>, "panic")
    BY <1>2, VectorStops
  <1>3. CASE n < room /\ VectorStop(<<"reserve", n>>, "fault")
    BY <1>3, VectorStops
  <1>4. CASE /\ ~ (n = 0 \/ n < size)
             /\ room <= n /\ n <= MaxRoom
             /\ room' = n /\ capacity' = n
             /\ slot' = Grown(slot, n)
             /\ cleared' = FALSE
             /\ VectorReturns(<<"reserve", n>>)
             /\ UNCHANGED <<data, size, vecIter>>
    <2>1. /\ slot' \in [1 .. n -> Item \cup {Junk}]
          /\ \A i \in 1 .. room : slot'[i] = slot[i]
      <3>1. /\ room \in Nat /\ room <= n
            /\ slot \in [1 .. room -> Item \cup {Junk}]
        BY <1>1, <1>4 DEF VectorTypeOK
      <3>2. /\ Grown(slot, n) \in [1 .. n -> Item \cup {Junk}]
            /\ \A i \in 1 .. room : Grown(slot, n)[i] = slot[i]
        BY <1>1, <3>1, GrownBuffer
      <3> QED BY <1>4, <3>2
    <2>2. VectorTypeOK'
      <3>1. room' \in 0 .. MaxRoom /\ capacity' \in 0 .. MaxRoom
        BY <1>1, <1>4
      <3>2. slot' \in [1 .. room' -> Item \cup {Junk}]
        BY <1>4, <2>1
      <3> QED
        BY <1>1, <1>4, <3>1, <3>2 DEF VectorTypeOK, VectorReturns
    <2>3. VectorBuffer'
      BY <1>1, <1>4, <2>1 DEF VectorTypeOK, VectorBuffer
    <2>4. VectorFaults'
      BY <1>1, <1>4 DEF VectorFaults, VectorReturns
    <2> QED BY <2>2, <2>3, <2>4 DEF VectorInv
  <1> QED
    BY <1>2, <1>3, <1>4 DEF VectorReserve

LEMMA VectorStepKeepsInv == VectorInv /\ [VectorNext]_vecVars => VectorInv'
  <1> SUFFICES ASSUME VectorInv, [VectorNext]_vecVars PROVE VectorInv'
    OBVIOUS
  <1> USE ContainerAssumption, VectorAssumption
  <1>1. VectorTypeOK /\ VectorBuffer /\ VectorFaults
    BY DEF VectorInv
  <1>2. CASE \E x \in Item : VectorPush(x)
    BY <1>2, PushKeepsInv
  <1>3. CASE \E x \in Item : VectorItemInit(x)
    BY <1>1, <1>3
       DEF VectorItemInit, VectorReady, VectorReturns, VectorInv, VectorTypeOK,
           VectorBuffer, VectorFaults
  <1>4. CASE \E n \in Index : VectorInit(n)
    <2> PICK n \in Index : VectorInit(n)
      BY <1>4
    <2>1. CASE VectorStop(<<"init", n>>, "panic")
      BY <2>1, VectorStops
    <2>2. CASE ~ VectorStop(<<"init", n>>, "panic")
      <3>1. /\ n \in 0 .. MaxRoom
            /\ data' = "live" /\ room' = n /\ capacity' = n /\ size' = 0
            /\ slot' = [i \in 1 .. n |-> Zero]
            /\ cleared' = FALSE /\ UNCHANGED <<vecIter, vecStatus>>
            /\ vecStatus = "run"
        BY <2>2 DEF VectorInit, VectorReturns
      <3>2. slot' \in [1 .. room' -> Item \cup {Junk}]
        BY <3>1
      <3>3. /\ room' \in 0 .. MaxRoom /\ capacity' \in 0 .. MaxRoom
            /\ size' \in 0 .. MaxRoom
        BY <3>1
      <3>4. VectorTypeOK'
        BY <1>1, <3>1, <3>2, <3>3 DEF VectorTypeOK
      <3>5. VectorBuffer' /\ VectorFaults'
        BY <3>1, <3>3 DEF VectorBuffer, VectorFaults
      <3> QED BY <3>4, <3>5 DEF VectorInv
    <2> QED BY <2>1, <2>2
  <1>5. CASE \E n \in Index : VectorGet(n)
    <2> PICK n \in Index : VectorGet(n)
      BY <1>5
    <2>1. CASE VectorStop(<<"get", n>>, "panic")
      BY <2>1, VectorStops
    <2>2. CASE ~ VectorStop(<<"get", n>>, "panic")
      BY <1>1, <2>2, VectorAnswersInv DEF VectorGet, VectorReady, VectorTypeOK
    <2> QED BY <2>1, <2>2
  <1>6. CASE \E n \in Index : VectorReserve(n)
    BY <1>6, ReserveKeepsInv
  <1>7. CASE \E n \in Index, x \in Item : VectorInsert(n, x)
    <2> PICK n \in Index, x \in Item : VectorInsert(n, x)
      BY <1>7
    <2>1. CASE VectorStop(<<"set", n, x>>, "panic")
      BY <2>1, VectorStops
    <2>2. CASE VectorStop(<<"set", n, x>>, "fault") /\ ~ (n > size) /\ n >= room
      <3>1. n = size /\ size = room
        BY <1>1, <2>2 DEF VectorTypeOK, VectorBuffer
      <3> QED BY <2>2, <3>1, VectorStops
    <2>3. CASE ~ (n > size) /\ ~ (n >= room)
      BY <1>1, <2>3
         DEF VectorInsert, VectorReady, VectorReturns, VectorInv, VectorTypeOK,
             VectorBuffer, VectorFaults, Put
    <2> QED BY <2>1, <2>2, <2>3 DEF VectorInsert
  <1>8. CASE VectorPop
    <2>1. CASE size = 0
      BY <1>1, <1>8, <2>1, VectorAnswersInv DEF VectorPop, VectorReady, VectorTypeOK
    <2>2. CASE size # 0
      BY <1>1, <1>8, <2>2
         DEF VectorPop, VectorReady, VectorAnswers, VectorInv, VectorTypeOK,
             VectorBuffer, VectorFaults, buffer
    <2> QED BY <2>1, <2>2
  <1>9. CASE VectorClear
    BY <1>1, <1>9
       DEF VectorClear, VectorReady, VectorReturns, VectorInv, VectorTypeOK,
           VectorBuffer, VectorFaults
  <1>10. CASE VectorDeinit
    <2>1. slot' \in [1 .. room' -> Item \cup {Junk}]
      BY <1>10, EmptyBuffer DEF VectorDeinit
    <2>2. /\ room' \in 0 .. MaxRoom /\ capacity' \in 0 .. MaxRoom
          /\ size' \in 0 .. MaxRoom
      BY <1>10 DEF VectorDeinit
    <2>3. VectorTypeOK'
      BY <1>1, <1>10, <2>1, <2>2 DEF VectorDeinit, VectorReturns, VectorTypeOK
    <2>4. VectorBuffer' /\ VectorFaults'
      BY <1>10, <2>2
         DEF VectorDeinit, VectorReady, VectorReturns, VectorBuffer, VectorFaults
    <2> QED BY <2>3, <2>4 DEF VectorInv
  <1>11. CASE VectorZeroFill
    BY <1>1, <1>11
       DEF VectorZeroFill, VectorReady, VectorReturns, VectorInv, VectorTypeOK,
           VectorBuffer, VectorFaults
  <1>12. CASE VectorIterReset
    BY <1>1, <1>12
       DEF VectorIterReset, VectorReady, VectorReturns, VectorInv, VectorTypeOK,
           VectorBuffer, VectorFaults, buffer
  <1>13. CASE VectorIterNext
    <2>1. /\ vecStatus = "run" /\ vecIter' \in Nat /\ UNCHANGED size
          /\ \E question, value : VectorAnswers(question, value)
      BY <1>1, <1>13 DEF VectorIterNext, VectorReady, VectorTypeOK
    <2> QED BY <2>1, VectorAnswersInv
  <1>14. CASE UNCHANGED vecVars
    BY <1>1, <1>14
       DEF vecVars, buffer, VectorInv, VectorTypeOK, VectorBuffer, VectorFaults
  <1> QED
    BY <1>2, <1>3, <1>4, <1>5, <1>6, <1>7, <1>8, <1>9, <1>10, <1>11, <1>12,
       <1>13, <1>14 DEF VectorNext

(* The types of the vector's state.                                         *)
THEOREM VectorTypes == VectorSpec => []VectorTypeOK
  <1>1. VectorInv => VectorTypeOK
    BY DEF VectorInv
  <1> QED
    BY <1>1, VectorInitially, VectorStepKeepsInv, PTL DEF VectorSpec

(* Whatever is pushed, popped, reserved, filled, cleared and inserted: the  *)
(* vector counts on no more than the allocator gave it, and every item it   *)
(* counts was written.                                                      *)
THEOREM VectorBufferIsSound == VectorSpec => []VectorBuffer
  <1>1. VectorInv => VectorBuffer
    BY DEF VectorInv
  <1> QED
    BY <1>1, VectorInitially, VectorStepKeepsInv, PTL DEF VectorSpec

(* The calls named in VectorFaults are the only ones of vector.c that write *)
(* behind the buffer.                                                       *)
THEOREM VectorFaultsAreNamed == VectorSpec => []VectorFaults
  <1>1. VectorInv => VectorFaults
    BY DEF VectorInv
  <1> QED
    BY <1>1, VectorInitially, VectorStepKeepsInv, PTL DEF VectorSpec

-----------------------------------------------------------------------------
(* The refinement of SequenceAbs: the first size slots are the sequence.    *)

LEMMA ItemsAre ==
    ASSUME VectorInv
    PROVE  /\ VectorItems \in Seq(Item) /\ Len(VectorItems) = size /\ size \in Nat
           /\ DOMAIN VectorItems = 1 .. size /\ vecIter \in Nat
           /\ \A i \in 1 .. size : VectorItems[i] = slot[i]
  BY DEF VectorInv, VectorTypeOK, VectorBuffer, VectorItems

LEMMA ItemsWillBe ==
    ASSUME VectorInv'
    PROVE  /\ VectorItems' \in Seq(Item) /\ Len(VectorItems') = size' /\ size' \in Nat
           /\ VectorItems' = [i \in 1 .. size' |-> slot'[i]]
           /\ DOMAIN VectorItems' = 1 .. size' /\ vecIter' \in Nat
  BY DEF VectorInv, VectorTypeOK, VectorBuffer, VectorItems

(* The sequence and the place in it of a vector with n items.               *)
Place(at, n) == (IF at < n THEN at ELSE n) + 1

(* A step of the sequence, or a departure from it that is named.            *)
Mapped == VectorAbs!AbsNext \/ VectorDeparts

(* A call asks something.                                                   *)
LEMMA Words ==
    /\ \A a : <<a>> # <<>>
    /\ \A a, b : <<a, b>> # <<>>
    /\ \A a, b, c : <<a, b, c>> # <<>>
  <1>1. \A a : <<a>> # <<>>
    OBVIOUS
  <1>2. \A a, b : <<a, b>> # <<>>
    OBVIOUS
  <1>3. \A a, b, c : <<a, b, c>> # <<>>
    OBVIOUS
  <1> QED BY <1>1, <1>2, <1>3

LEMMA Asked ==
    ASSUME NEW q, NEW v, q # <<>>, vecReply' = Answer(q, v)
    PROVE  /\ vecReply'.question = q /\ vecReply'.value = v
           /\ vecReply'.question # <<>>
  BY DEF Answer

LEMMA CallMaps ==
    ASSUME vecStatus = "run", vecStatus' = vecStatus,
           vecReply'.question # <<>>, VectorAbs!AbsCall
    PROVE  Mapped
  BY DEF Mapped, VectorAbs!AbsNext, VectorAbs!Running

LEMMA StopAsked ==
    ASSUME NEW call, call # <<>>, NEW how, VectorStop(call, how)
    PROVE  /\ VectorAbs!AbsEnds(how)
           /\ vecReply'.question = call /\ vecReply'.value = NULL
           /\ vecReply'.question # <<>>
  <1>1. VectorItems' = VectorItems /\ vecIter' = vecIter /\ size' = size
    BY DEF VectorStop, buffer, VectorItems
  <1> QED BY <1>1 DEF VectorStop, Answer, VectorAbs!AbsEnds, VectorAbs!AbsKeep

(* There is no memory left.                                                 *)
LEMMA NoMemoryMaps ==
    ASSUME vecStatus = "run", NEW call, call # <<>>,
           VectorStop(call, "panic"), VectorAbs!Allocates(call)
    PROVE  Mapped
  BY StopAsked DEF Mapped, VectorAbs!AbsNext, VectorAbs!Running, VectorAbs!NoMemory

(* An index behind the last item.                                           *)
LEMMA PanicMaps ==
    ASSUME vecStatus = "run", NEW call, call # <<>>, VectorStop(call, "panic"),
           NEW n \in Index, n >= Len(VectorItems),
           \/ call = <<"get", n>>
           \/ \E x \in Item : call = <<"set", n, x>>
    PROVE  Mapped
  <1>1. VectorAbs!BehindLast(n)
    BY StopAsked DEF VectorAbs!BehindLast, VectorAbs!Replies
  <1> QED BY <1>1, StopAsked
          DEF Mapped, VectorDeparts, VectorAbs!IndexPanics, VectorAbs!Running

(* A shorter buffer is overrun.                                             *)
LEMMA GrowthFaultMaps ==
    ASSUME vecStatus = "run", NEW call, call # <<>>, VectorStop(call, "fault"),
           \/ \E x \in Item : call = <<"push", x>>
           \/ \E n \in Index : call = <<"reserve", n>>
    PROVE  Mapped
  BY StopAsked DEF Mapped, VectorDeparts, VectorAbs!GrowthFaults, VectorAbs!Running,
     VectorAbs!Replies

(* What the iterator does when an item joins, written x in the next slot.   *)
LEMMA PushedMaps ==
    ASSUME VectorInv, VectorInv', vecStatus = "run", NEW x \in Item,
           VectorReturns(<<"push", x>>), size' = size + 1, slot'[size + 1] = x,
           \A i \in 1 .. size : slot'[i] = slot[i],
           UNCHANGED vecIter
    PROVE  Mapped
  <1>1. VectorItems' = Append(VectorItems, x)
    BY ItemsAre, ItemsWillBe
  <1>2. Place(vecIter', size') \in
           {Place(vecIter, size)}
              \cup (IF Place(vecIter, size) = size + 1 THEN {Place(vecIter, size) + 1} ELSE {})
    BY ItemsAre DEF Place
  <1>3. /\ vecReply'.question = <<"push", x>> /\ vecReply'.value = NULL
        /\ vecReply'.question # <<>>
    BY Words, Asked DEF VectorReturns
  <1>4. VectorAbs!AbsPush(x)
    BY <1>1, <1>2, <1>3, ItemsAre
       DEF VectorAbs!AbsPush, VectorAbs!AtEnd, VectorAbs!Replies, Place
  <1> QED BY <1>3, <1>4, CallMaps DEF VectorAbs!AbsCall, VectorReturns

LEMMA PushMaps ==
    ASSUME VectorInv, VectorInv', NEW x \in Item, VectorPush(x)
    PROVE  Mapped
  <1>1. VectorTypeOK /\ VectorBuffer /\ vecStatus = "run"
    BY DEF VectorInv, VectorPush, VectorReady
  <1>2. CASE size + 1 <= capacity
    <2>1. /\ slot' = Put(slot, size, x) /\ size' = size + 1
          /\ VectorReturns(<<"push", x>>) /\ UNCHANGED vecIter
      BY <1>2 DEF VectorPush
    <2>2. slot'[size + 1] = x /\ \A i \in 1 .. size : slot'[i] = slot[i]
      BY <1>1, <1>2, <2>1 DEF VectorTypeOK, VectorBuffer, Put
    <2> QED BY <1>1, <2>1, <2>2, PushedMaps
  <1>3. CASE ~ (size + 1 <= capacity)
    <2> DEFINE n == IF capacity = 0 THEN 1 ELSE 2 * capacity
    <2>1. n \in Nat /\ size + 1 <= n
      BY <1>1, <1>3 DEF VectorTypeOK, VectorBuffer
    <2>2. CASE VectorStop(<<"push", x>>, "fault")
      BY <1>1, <2>2, Words, GrowthFaultMaps
    <2>4. CASE VectorStop(<<"push", x>>, "panic")
      <3>1. VectorAbs!Allocates(<<"push", x>>)
        BY DEF VectorAbs!Allocates
      <3> QED BY <1>1, <2>4, <3>1, Words, NoMemoryMaps
    <2>3. CASE /\ room <= n
               /\ slot' = Put(Grown(slot, n), size, x)
               /\ size' = size + 1
               /\ VectorReturns(<<"push", x>>)
               /\ UNCHANGED vecIter
      <3>1. /\ Grown(slot, n) \in [1 .. n -> Item \cup {Junk}]
            /\ \A i \in 1 .. room : Grown(slot, n)[i] = slot[i]
        <4>1. /\ room \in Nat /\ room <= n /\ n \in Nat
              /\ slot \in [1 .. room -> Item \cup {Junk}]
          BY <1>1, <2>1, <2>3 DEF VectorTypeOK
        <4> HIDE DEF n
        <4> QED BY <4>1, GrownBuffer
      <3>2. slot'[size + 1] = x /\ \A i \in 1 .. size : slot'[i] = slot[i]
        <4> HIDE DEF n
        <4> QED BY <1>1, <2>1, <2>3, <3>1 DEF Put, VectorTypeOK, VectorBuffer
      <3> QED BY <1>1, <2>3, <3>2, PushedMaps
    <2> QED BY <1>3, <2>2, <2>3, <2>4 DEF VectorPush
  <1> QED BY <1>2, <1>3

(* Nothing but the buffer behind the items changes.                         *)
LEMMA KeptMaps ==
    ASSUME \A i \in 1 .. size : slot'[i] = slot[i], UNCHANGED <<size, vecIter>>
    PROVE  VectorAbs!AbsKeep
  <1>1. VectorItems' = VectorItems
    BY DEF VectorItems
  <1> QED BY <1>1 DEF VectorAbs!AbsKeep

LEMMA ReserveMaps ==
    ASSUME VectorInv, VectorInv', NEW n \in Index, VectorReserve(n)
    PROVE  Mapped
  <1>1. VectorTypeOK /\ VectorBuffer /\ vecStatus = "run" /\ n \in Nat
    BY ContainerAssumption DEF VectorInv, VectorReserve, VectorReady
  <1>2. CASE VectorStop(<<"reserve", n>>, "fault")
    BY <1>1, <1>2, Words, GrowthFaultMaps
  <1>4. CASE VectorStop(<<"reserve", n>>, "panic")
    <2>1. VectorAbs!Allocates(<<"reserve", n>>)
      BY DEF VectorAbs!Allocates
    <2> QED BY <1>1, <1>4, <2>1, Words, NoMemoryMaps
  <1>3. CASE /\ room <= n /\ slot' = Grown(slot, n)
             /\ VectorReturns(<<"reserve", n>>) /\ UNCHANGED <<size, vecIter>>
    <2>1. room \in Nat /\ slot \in [1 .. room -> Item \cup {Junk}]
      BY <1>1 DEF VectorTypeOK
    <2>2. \A i \in 1 .. room : slot'[i] = slot[i]
      BY <1>1, <1>3, <2>1, GrownBuffer
    <2>3. \A i \in 1 .. size : slot'[i] = slot[i]
      BY <1>1, <2>2 DEF VectorTypeOK, VectorBuffer
    <2>4. VectorAbs!AbsKeep
      BY <1>3, <2>3, KeptMaps
    <2>5. /\ vecReply'.question = <<"reserve", n>> /\ vecReply'.value = NULL
          /\ vecReply'.question # <<>>
      BY <1>3, Words, Asked DEF VectorReturns
    <2>6. VectorAbs!AbsReserve(n)
      BY <2>4, <2>5 DEF VectorAbs!AbsReserve, VectorAbs!Replies
    <2> QED BY <1>1, <1>3, <2>5, <2>6, CallMaps DEF VectorAbs!AbsCall, VectorReturns
  <1> QED BY <1>2, <1>3, <1>4 DEF VectorReserve

LEMMA InsertMaps ==
    ASSUME VectorInv, VectorInv', NEW n \in Index, NEW x \in Item, VectorInsert(n, x)
    PROVE  Mapped
  <1>1. VectorTypeOK /\ VectorBuffer /\ vecStatus = "run" /\ n \in Nat
    BY ContainerAssumption DEF VectorInv, VectorInsert, VectorReady
  <1>q. <<"set", n, x>> # <<>>
    BY Words
  <1>2. CASE n > size
    <2>1. VectorStop(<<"set", n, x>>, "panic") /\ n >= Len(VectorItems)
      BY <1>1, <1>2, ItemsAre DEF VectorInsert
    <2> QED BY <1>1, <1>q, <2>1, PanicMaps
  <1>3. CASE ~ (n > size) /\ n >= room
    <2>1. VectorStop(<<"set", n, x>>, "fault")
      BY <1>3 DEF VectorInsert
    <2>2. n = Len(VectorItems)
      BY <1>1, <1>3, ItemsAre DEF VectorTypeOK, VectorBuffer
    <2>3. VectorAbs!SetFaults
      BY <1>1, <1>q, <2>1, <2>2, StopAsked
         DEF VectorAbs!SetFaults, VectorAbs!Running, VectorAbs!Replies
    <2> QED BY <2>3 DEF Mapped, VectorDeparts
  <1>4. CASE ~ (n > size) /\ ~ (n >= room)
    <2>1. /\ slot' = Put(slot, n, x) /\ VectorReturns(<<"set", n, x>>)
          /\ UNCHANGED <<size, vecIter>>
      BY <1>4 DEF VectorInsert
    <2>2. /\ vecReply'.question = <<"set", n, x>> /\ vecReply'.value = NULL
          /\ vecReply'.question # <<>>
      BY <1>q, <2>1, Asked DEF VectorReturns
    <2>3. CASE n = size
      <3>1. \A i \in 1 .. size : slot'[i] = slot[i]
        BY <1>1, <1>4, <2>1, <2>3 DEF VectorTypeOK, VectorBuffer, Put
      <3>2. VectorAbs!AbsKeep
        BY <2>1, <3>1, KeptMaps
      <3>3. VectorAbs!BehindLast(n)
        BY <1>1, <2>2, <2>3, ItemsAre DEF VectorAbs!BehindLast, VectorAbs!Replies
      <3>4. VectorAbs!IndexIgnored
        BY <1>1, <2>1, <2>2, <3>2, <3>3
           DEF VectorAbs!IndexIgnored, VectorAbs!Running, VectorReturns
      <3> QED BY <3>4 DEF Mapped, VectorDeparts
    <2>4. CASE n < size
      <3>1. n < Len(VectorItems)
        BY <2>4, ItemsAre
      <3>2. VectorItems' = [VectorItems EXCEPT ![n + 1] = x]
        BY <1>1, <1>4, <2>1, <2>4, ItemsAre, ItemsWillBe DEF Put, VectorTypeOK, VectorBuffer
      <3>3. VectorAbs!AbsSet(n, x)
        BY <2>1, <2>2, <3>1, <3>2 DEF VectorAbs!AbsSet, VectorAbs!Replies
      <3> QED BY <1>1, <2>1, <2>2, <3>3, CallMaps DEF VectorAbs!AbsCall, VectorReturns
    <2> QED BY <1>1, <1>4, <2>3, <2>4 DEF VectorTypeOK
  <1> QED BY <1>2, <1>3, <1>4

(* The vector is emptied, or made.                                          *)
LEMMA EmptiedMaps ==
    ASSUME VectorInv, VectorInv', vecStatus = "run", size' = 0,
           NEW q, q # <<>>, VectorReturns(q),
           \/ q = <<"clear">> \/ q = <<"deinit">>
           \/ \E n \in Index : q = <<"init", n>>
    PROVE  Mapped
  <1>1. VectorItems' = <<>> /\ Place(vecIter', size') = 1
    BY ItemsWillBe DEF Place
  <1>2. /\ vecReply'.question = q /\ vecReply'.value = NULL
        /\ vecReply'.question # <<>>
    BY Asked DEF VectorReturns
  <1>3. VectorAbs!AbsClear
    BY <1>1, <1>2 DEF VectorAbs!AbsClear, VectorAbs!Replies, Place
  <1> QED BY <1>2, <1>3, CallMaps DEF VectorAbs!AbsCall, VectorReturns

LEMMA ZeroFillMaps ==
    ASSUME VectorInv, VectorInv', VectorZeroFill
    PROVE  Mapped
  <1>1. /\ slot' = [i \in 1 .. room |-> IF i <= capacity THEN Zero ELSE slot[i]]
        /\ size' = capacity /\ VectorReturns(<<"zero">>) /\ UNCHANGED vecIter
        /\ vecStatus = "run" /\ size <= capacity /\ capacity <= room
        /\ capacity \in Nat /\ room \in Nat
    BY DEF VectorZeroFill, VectorReady, VectorInv, VectorTypeOK, VectorBuffer
  <1>2. VectorItems' = [i \in 1 .. size' |-> Zero]
    <2>1. \A i \in 1 .. size' : slot'[i] = Zero
      BY <1>1
    <2> QED BY <2>1 DEF VectorItems
  <1>3. Place(vecIter', size') \in
           IF Place(vecIter, size) = size + 1
           THEN Place(vecIter, size) .. size' + 1 ELSE {Place(vecIter, size)}
    BY <1>1, ItemsAre DEF Place
  <1>4. /\ vecReply'.question = <<"zero">> /\ vecReply'.value = NULL
        /\ vecReply'.question # <<>>
    BY <1>1, Words, Asked DEF VectorReturns
  <1>5. VectorAbs!AbsZeroFill
    BY <1>1, <1>2, <1>3, <1>4, ItemsAre, ItemsWillBe
       DEF VectorAbs!AbsZeroFill, VectorAbs!AtEnd, VectorAbs!Replies, Place
  <1> QED BY <1>1, <1>4, <1>5, CallMaps DEF VectorAbs!AbsCall, VectorReturns

LEMMA ItemInitMaps ==
    ASSUME VectorInv, VectorInv', NEW x \in Item, VectorItemInit(x)
    PROVE  Mapped
  <1>1. /\ slot' = [i \in 1 .. room |-> IF i <= size THEN x ELSE slot[i]]
        /\ VectorReturns(<<"all", x>>) /\ UNCHANGED <<size, vecIter>>
        /\ vecStatus = "run" /\ size <= room /\ size \in Nat /\ room \in Nat
    BY DEF VectorItemInit, VectorReady, VectorInv, VectorTypeOK, VectorBuffer
  <1>2. VectorItems' = [i \in 1 .. Len(VectorItems) |-> x]
    <2>1. \A i \in 1 .. size' : slot'[i] = x
      BY <1>1
    <2>2. Len(VectorItems) = size'
      BY <1>1, ItemsAre
    <2> QED BY <2>1, <2>2 DEF VectorItems
  <1>3. /\ vecReply'.question = <<"all", x>> /\ vecReply'.value = NULL
        /\ vecReply'.question # <<>>
    BY <1>1, Words, Asked DEF VectorReturns
  <1>4. VectorAbs!AbsFill(x)
    BY <1>1, <1>2, <1>3 DEF VectorAbs!AbsFill, VectorAbs!Replies
  <1> QED BY <1>1, <1>3, <1>4, CallMaps DEF VectorAbs!AbsCall, VectorReturns

(* The calls that answer.                                                   *)
LEMMA PopMaps ==
    ASSUME VectorInv, VectorInv', VectorPop
    PROVE  Mapped
  <1>1. vecStatus = "run" /\ UNCHANGED <<vecIter, slot, vecStatus>>
    BY DEF VectorPop, VectorReady, VectorAnswers, buffer
  <1>2. CASE size = 0
    <2>1. vecReply' = Answer(<<"pop">>, NULL) /\ UNCHANGED size
      BY <1>2 DEF VectorPop, VectorAnswers
    <2>2. VectorItems = <<>> /\ VectorItems' = VectorItems
      BY <1>1, <1>2, <2>1, ItemsAre DEF VectorItems
    <2>3. /\ vecReply'.question = <<"pop">> /\ vecReply'.value = NULL
          /\ vecReply'.question # <<>>
      BY <2>1, Words, Asked
    <2>4. VectorAbs!AbsPop
      BY <1>1, <2>1, <2>2, <2>3 DEF VectorAbs!AbsPop, VectorAbs!Replies, VectorAbs!AbsKeep
    <2> QED BY <1>1, <2>3, <2>4, CallMaps DEF VectorAbs!AbsCall
  <1>3. CASE size # 0
    <2>1. vecReply' = Answer(<<"pop">>, slot[size]) /\ size' = size - 1
      BY <1>3 DEF VectorPop, VectorAnswers
    <2>2. VectorItems # <<>> /\ Len(VectorItems) = size /\ VectorItems[size] = slot[size]
      BY <1>3, ItemsAre
    <2>3. VectorItems' = VectorAbs!Without(VectorItems, size)
      BY <1>1, <1>3, <2>1, ItemsAre, ItemsWillBe DEF VectorAbs!Without
    <2>4. Place(vecIter', size') =
             IF size < Place(vecIter, size) THEN Place(vecIter, size) - 1
             ELSE Place(vecIter, size)
      BY <1>1, <1>3, <2>1, ItemsAre DEF Place
    <2>5. VectorAbs!RemoveAt(size)
      BY <2>3, <2>4 DEF VectorAbs!RemoveAt, Place
    <2>6. /\ vecReply'.question = <<"pop">> /\ vecReply'.value = slot[size]
          /\ vecReply'.question # <<>>
      BY <2>1, Words, Asked
    <2>7. VectorAbs!AbsPop
      BY <2>2, <2>5, <2>6 DEF VectorAbs!AbsPop, VectorAbs!Replies
    <2> QED BY <1>1, <2>6, <2>7, CallMaps DEF VectorAbs!AbsCall
  <1> QED BY <1>2, <1>3

LEMMA GetMaps ==
    ASSUME VectorInv, VectorInv', NEW n \in Index, VectorGet(n)
    PROVE  Mapped
  <1>1. vecStatus = "run" /\ n \in Nat
    BY ContainerAssumption DEF VectorGet, VectorReady
  <1>2. CASE n > size
    <2>1. VectorStop(<<"get", n>>, "panic") /\ n >= Len(VectorItems)
      BY <1>1, <1>2, ItemsAre DEF VectorGet
    <2> QED BY <1>1, <2>1, Words, PanicMaps
  <1>3. CASE ~ (n > size)
    <2>1. /\ vecReply' = Answer(<<"get", n>>, IF n < size THEN slot[n + 1] ELSE NULL)
          /\ UNCHANGED <<vecIter, size, slot, vecStatus>>
      BY <1>3 DEF VectorGet, VectorAnswers, buffer
    <2>2. VectorItems' = VectorItems
      BY <2>1 DEF VectorItems
    <2>3. (IF n < size THEN slot[n + 1] ELSE NULL)
             = IF n < Len(VectorItems) THEN VectorItems[n + 1] ELSE NULL
      BY <1>1, ItemsAre
    <2>4. /\ vecReply'.question = <<"get", n>>
          /\ vecReply'.value = (IF n < size THEN slot[n + 1] ELSE NULL)
          /\ vecReply'.question # <<>>
      BY <2>1, Words, Asked
    <2>5. VectorAbs!AbsGet(n)
      BY <2>1, <2>2, <2>3, <2>4 DEF VectorAbs!AbsGet, VectorAbs!Replies, VectorAbs!AbsKeep
    <2> QED BY <1>1, <2>1, <2>4, <2>5, CallMaps DEF VectorAbs!AbsCall
  <1> QED BY <1>2, <1>3

LEMMA VecIterNextMaps ==
    ASSUME VectorInv, VectorInv', VectorIterNext
    PROVE  Mapped
  <1>1. vecStatus = "run" /\ UNCHANGED <<size, slot, vecStatus>>
    BY DEF VectorIterNext, VectorReady, VectorAnswers, buffer
  <1>2. VectorItems' = VectorItems
    BY <1>1 DEF VectorItems
  <1>3. CASE vecIter < size
    <2>1. vecReply' = Answer(<<"next">>, slot[vecIter + 1]) /\ vecIter' = vecIter + 1
      BY <1>3 DEF VectorIterNext, VectorAnswers
    <2>2. /\ Place(vecIter, size) = vecIter + 1 /\ Place(vecIter, size) # size + 1
          /\ Place(vecIter', size') = Place(vecIter, size) + 1
          /\ VectorItems[vecIter + 1] = slot[vecIter + 1]
      BY <1>1, <1>3, <2>1, ItemsAre DEF Place
    <2>3. /\ vecReply'.question = <<"next">> /\ vecReply'.value = slot[vecIter + 1]
          /\ vecReply'.question # <<>>
      BY <2>1, Words, Asked
    <2>4. VectorAbs!AbsIterNext
      BY <1>2, <2>2, <2>3, ItemsAre
         DEF VectorAbs!AbsIterNext, VectorAbs!AtEnd, VectorAbs!Replies, Place
    <2> QED BY <1>1, <2>3, <2>4, CallMaps DEF VectorAbs!AbsCall
  <1>4. CASE ~ (vecIter < size)
    <2>1. vecReply' = Answer(<<"next">>, NULL) /\ UNCHANGED vecIter
      BY <1>4 DEF VectorIterNext, VectorAnswers
    <2>2. Place(vecIter, size) = size + 1
      BY <1>4 DEF Place
    <2>3. /\ vecReply'.question = <<"next">> /\ vecReply'.value = NULL
          /\ vecReply'.question # <<>>
      BY <2>1, Words, Asked
    <2>4. VectorAbs!AbsIterNext
      BY <1>1, <1>2, <2>1, <2>2, <2>3, ItemsAre
         DEF VectorAbs!AbsIterNext, VectorAbs!AtEnd, VectorAbs!Replies, Place
    <2> QED BY <1>1, <2>3, <2>4, CallMaps DEF VectorAbs!AbsCall
  <1> QED BY <1>3, <1>4

LEMMA VectorBegins == VectorEmpty => VectorAbs!AbsInit
  BY DEF VectorEmpty, VectorAbs!AbsInit, VectorItems, NoAnswer, Answer,
         VectorAbs!NoAnswer, VectorAbs!Answer

LEMMA VectorMaps ==
    VectorInv /\ VectorInv' /\ [VectorNext]_vecVars =>
        [VectorAbs!AbsNext \/ VectorDeparts]_(VectorAbs!absVars)
  <1> SUFFICES ASSUME VectorInv, VectorInv', [VectorNext]_vecVars
               PROVE  Mapped \/ UNCHANGED VectorAbs!absVars
    BY DEF Mapped
  <1>1. CASE \E x \in Item : VectorPush(x) \/ VectorItemInit(x)
    BY <1>1, PushMaps, ItemInitMaps
  <1>2. ASSUME NEW n \in Index, VectorInit(n) PROVE Mapped
    <2>0. vecStatus = "run" /\ <<"init", n>> # <<>>
      BY <1>2, Words DEF VectorInit
    <2>1. CASE VectorStop(<<"init", n>>, "panic")
      <3>1. VectorAbs!Allocates(<<"init", n>>)
        BY DEF VectorAbs!Allocates
      <3> QED BY <2>0, <2>1, <3>1, NoMemoryMaps
    <2>2. CASE size' = 0 /\ VectorReturns(<<"init", n>>)
      BY <2>0, <2>2, EmptiedMaps
    <2> QED BY <1>2, <2>1, <2>2 DEF VectorInit
  <1>3. CASE VectorClear
    BY <1>3, Words, EmptiedMaps DEF VectorClear, VectorReady
  <1>6. CASE VectorDeinit
    BY <1>6, Words, EmptiedMaps DEF VectorDeinit, VectorReady
  <1>4. CASE VectorIterReset
    <2>1. /\ vecStatus = "run" /\ VectorReturns(<<"iter">>)
          /\ vecIter' = 0 /\ UNCHANGED <<size, slot>>
      BY <1>4 DEF VectorIterReset, VectorReady, buffer
    <2>2. VectorItems' = VectorItems /\ Place(vecIter', size') = 1
      BY <2>1, ItemsAre DEF VectorItems, Place
    <2>3. /\ vecReply'.question = <<"iter">> /\ vecReply'.value = NULL
          /\ vecReply'.question # <<>>
      BY <2>1, Words, Asked DEF VectorReturns
    <2>4. VectorAbs!AbsIterate
      BY <2>2, <2>3 DEF VectorAbs!AbsIterate, VectorAbs!Replies, Place
    <2> QED BY <2>1, <2>3, <2>4, CallMaps DEF VectorAbs!AbsCall, VectorReturns
  <1>5. CASE UNCHANGED vecVars
    BY <1>5 DEF vecVars, buffer, VectorAbs!absVars, VectorItems
  <1> QED
    BY <1>1, <1>2, <1>3, <1>4, <1>5, <1>6, GetMaps, ReserveMaps, InsertMaps, PopMaps,
       ZeroFillMaps, VecIterNextMaps DEF VectorNext

(* The vector is a sequence with an iterator: growing and reserving keep    *)
(* every item and its place, pop returns the last, and what the iterator    *)
(* has yielded is not yielded again.                                        *)
THEOREM VectorRefinement == VectorSpec => VectorRefines
  <1>1. VectorEmpty => VectorAbs!AbsInit
    BY VectorBegins
  <1>2. VectorInv /\ VectorInv' /\ [VectorNext]_vecVars =>
            [VectorAbs!AbsNext \/ VectorDeparts]_(VectorAbs!absVars)
    BY VectorMaps
  <1>3. VectorSpec => []VectorInv
    BY VectorInitially, VectorStepKeepsInv, PTL DEF VectorSpec
  <1> QED BY <1>1, <1>2, <1>3, PTL DEF VectorSpec, VectorRefines
=============================================================================
