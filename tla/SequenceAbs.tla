------------------------------ MODULE SequenceAbs ------------------------------
(***************************************************************************)
(* What list.h promises: the container is a sequence of items with one     *)
(* iterator on it.  Each call is one step and leaves its question in reply,  *)
(* arguments included, with the answer, NULL where it returns none; a step  *)
(* does what its own question asks for.  Indices are numbered from 0 in     *)
(* questions, the sequence from 1.                                          *)
(*                                                                         *)
(* AbsNext is the promise.  The departures from it, further down, are what  *)
(* the code does and list.h does not say: no step of AbsSpec, but each      *)
(* container names those that it needs.                                     *)
(***************************************************************************)
EXTENDS Integers, Sequences, ContainerBase

VARIABLES
    items,   \* the items, in order
    cursor,  \* the index of the item the iterator yields next
    reply,   \* the call that returned last, and its answer
    outcome  \* "run", or how the process ended

absVars == <<items, cursor, reply, outcome>>

AbsInit ==
    items = <<>> /\ cursor = 1 /\ reply = NoAnswer /\ outcome = "run"

Without(s, i)     == [j \in 1 .. Len(s) - 1 |-> IF j < i THEN s[j] ELSE s[j + 1]]
AtEnd             == cursor = Len(items) + 1
Replies(q, value) == reply'.question = q /\ reply'.value = value
AbsKeep           == UNCHANGED <<items, cursor>>

RemoveAt(i) ==
    /\ items' = Without(items, i)
    /\ cursor' = IF i < cursor THEN cursor - 1 ELSE cursor

Running == outcome = "run" /\ reply'.question # <<>>

-----------------------------------------------------------------------------
(* The calls                                                                *)

(* An iterator that is exhausted may or may not see what is added later.    *)
AbsPush(x) ==
    /\ Replies(<<"push", x>>, NULL)
    /\ items' = Append(items, x)
    /\ cursor' \in {cursor} \cup (IF AtEnd THEN {cursor + 1} ELSE {})

AbsPop ==
    IF items = <<>>
    THEN Replies(<<"pop">>, NULL) /\ AbsKeep
    ELSE Replies(<<"pop">>, items[Len(items)]) /\ RemoveAt(Len(items))

AbsInsert(i, x) ==
    /\ Replies(<<"insert", i, x>>, NULL)
    /\ i <= Len(items)
    /\ items' = [j \in 1 .. Len(items) + 1 |->
                    IF j <= i THEN items[j] ELSE IF j = i + 1 THEN x ELSE items[j - 1]]
    /\ cursor' = IF i + 1 < cursor THEN cursor + 1 ELSE cursor

AbsRemove(i) ==
    /\ Replies(<<"remove", i>>, NULL)
    /\ i < Len(items) /\ RemoveAt(i + 1)

AbsGet(i) ==
    /\ Replies(<<"get", i>>, IF i < Len(items) THEN items[i + 1] ELSE NULL)
    /\ AbsKeep

AbsFind(x) ==
    /\ Replies(<<"find", x>>, IF \E i \in DOMAIN items : items[i] = x
                              THEN x ELSE NULL)
    /\ AbsKeep

(* One item is overwritten, all of them, and every slot that there is.      *)
AbsSet(i, x) ==
    /\ Replies(<<"set", i, x>>, NULL)
    /\ i < Len(items) /\ items' = [items EXCEPT ![i + 1] = x]
    /\ UNCHANGED cursor

AbsFill(x) ==
    /\ Replies(<<"all", x>>, NULL)
    /\ items' = [i \in 1 .. Len(items) |-> x]
    /\ UNCHANGED cursor

AbsZeroFill ==
    /\ Replies(<<"zero">>, NULL)
    /\ items' = [i \in 1 .. Len(items') |-> Zero] /\ Len(items) <= Len(items')
    /\ cursor' \in IF AtEnd THEN cursor .. Len(items') + 1 ELSE {cursor}

(* The container is made, emptied or given back.                            *)
AbsClear ==
    /\ \/ Replies(<<"clear">>, NULL) \/ Replies(<<"deinit">>, NULL)
       \/ \E n \in Index : Replies(<<"init", n>>, NULL)
    /\ items' = <<>> /\ cursor' = 1

AbsReserve(n) == Replies(<<"reserve", n>>, NULL) /\ AbsKeep

AbsIterate ==
    /\ Replies(<<"iter">>, NULL)
    /\ cursor' = 1 /\ UNCHANGED items

AbsIterNext ==
    /\ UNCHANGED items
    /\ IF AtEnd
       THEN Replies(<<"next">>, NULL) /\ UNCHANGED cursor
       ELSE Replies(<<"next">>, items[cursor]) /\ cursor' = cursor + 1

AbsCall ==
    /\ UNCHANGED outcome
    /\ \/ \E x \in Item : AbsPush(x) \/ AbsFind(x) \/ AbsFill(x)
       \/ \E i \in Index : \/ AbsGet(i) \/ AbsRemove(i) \/ AbsReserve(i)
                           \/ \E x \in Item : AbsInsert(i, x) \/ AbsSet(i, x)
       \/ AbsPop \/ AbsZeroFill \/ AbsClear \/ AbsIterate \/ AbsIterNext

(* The calls that allocate may find no memory, which ends the process.      *)
Allocates(q) ==
    \/ q = <<"pop">>
    \/ \E x \in Item : q = <<"push", x>>
    \/ \E n \in Index : \/ q = <<"init", n>> \/ q = <<"reserve", n>>
                        \/ \E x \in Item : q = <<"insert", n, x>>

AbsEnds(how) == outcome' = how /\ AbsKeep

NoMemory == AbsEnds("panic") /\ Allocates(reply'.question)

AbsNext == Running /\ (AbsCall \/ NoMemory)

AbsSpec == AbsInit /\ [][AbsNext]_absVars

-----------------------------------------------------------------------------
(* Departures                                                               *)

(* The only item is removed and not returned.                               *)
PopLosesOnly ==
    /\ Running /\ UNCHANGED outcome
    /\ Replies(<<"pop">>, NULL)
    /\ Len(items) = 1 /\ RemoveAt(1)

InsertAddsNone ==
    /\ Running /\ UNCHANGED outcome
    /\ \E i \in Index, x \in Item : Replies(<<"insert", i, x>>, NULL)
    /\ AbsKeep

(* A call for an item behind the last: nothing happens.                     *)
BehindLast(i) ==
    /\ \/ Replies(<<"get", i>>, NULL) \/ Replies(<<"remove", i>>, NULL)
       \/ \E x \in Item : \/ Replies(<<"insert", i, x>>, NULL)
                          \/ Replies(<<"set", i, x>>, NULL)
    /\ i >= Len(items)

IndexIgnored ==
    /\ Running /\ UNCHANGED outcome
    /\ \E i \in Index : BehindLast(i)
    /\ AbsKeep

(* The same, and the process ends.                                          *)
IndexPanics ==
    /\ Running /\ AbsEnds("panic")
    /\ \E i \in Index : BehindLast(i)

(* Undefined behaviour in one of the calls named.                           *)
InsertFaults ==
    /\ Running /\ AbsEnds("fault")
    /\ \E i \in Index, x \in Item : Replies(<<"insert", i, x>>, NULL)

GrowthFaults ==
    /\ Running /\ AbsEnds("fault")
    /\ \/ \E x \in Item : Replies(<<"push", x>>, NULL)
       \/ \E n \in Index : Replies(<<"reserve", n>>, NULL)

SetFaults ==
    /\ Running /\ AbsEnds("fault")
    /\ \E x \in Item : Replies(<<"set", Len(items), x>>, NULL)
=============================================================================
