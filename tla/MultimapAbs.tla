------------------------------ MODULE MultimapAbs ------------------------------
(***************************************************************************)
(* What the callers of hashtable.h can count on: every key has a queue of   *)
(* values.  An insert joins the queue of its key, get answers with its      *)
(* front, remove takes the front away.  hashtable.h promises a map, which   *)
(* this is as long as no key is inserted twice.                             *)
(*                                                                         *)
(* reply is the call that returned last, with its arguments and its answer: *)
(* a step changes what its own call says and nothing else.  An insert for   *)
(* which the table grows is a step that says so, and the insert itself, of  *)
(* that key and value; what happens in between changes nothing.             *)
(***************************************************************************)
EXTENDS Integers, Sequences

CONSTANTS Key, Value, NULL

VARIABLES
    bindings, \* per key: its values
    reply,    \* the call that returned last, or the insert that waits
    outcome   \* "run", or how the process ended

absVars == <<bindings, reply, outcome>>

AbsInit ==
    /\ bindings = [k \in Key |-> <<>>]
    /\ reply = <<>>
    /\ outcome = "run"

(* An insert waits for its rehash.                                          *)
Waits == \E k \in Key, v \in Value : reply = <<"grow", k, v>>

AbsGrow(k, v) ==
    /\ reply' = <<"grow", k, v>>
    /\ ~Waits
    /\ UNCHANGED bindings

AbsInsert(k, v) ==
    /\ reply' = <<"insert", k, v>>
    /\ Waits => reply = <<"grow", k, v>>
    /\ bindings' = [bindings EXCEPT ![k] = Append(@, v)]

AbsRemove(k) ==
    /\ reply' = <<"remove", k>>
    /\ ~Waits
    /\ bindings' = [bindings EXCEPT ![k] = IF @ = <<>> THEN <<>> ELSE Tail(@)]

AbsGet(k) ==
    /\ reply' = <<"get", k, IF bindings[k] = <<>> THEN NULL ELSE Head(bindings[k])>>
    /\ ~Waits
    /\ UNCHANGED bindings

(* An iterator begins, or yields an entry.                                  *)
AbsIterate ==
    /\ reply' \in {<<"begin">>, <<"next">>}
    /\ ~Waits
    /\ UNCHANGED bindings

(* The process ends.  Only a call that allocates, and deinit, panics.       *)
AbsEnd ==
    /\ outcome' \in {"panic", "fault"}
    /\ outcome' = "panic" =>
          \/ \E k \in Key : reply' = <<"insert", k>>
          \/ reply' \in {<<"rehash">>, <<"deinit">>}
    /\ UNCHANGED bindings

AbsNext ==
    /\ outcome = "run"
    /\ \/ /\ UNCHANGED outcome
          /\ \/ AbsIterate
             \/ \E k \in Key : AbsRemove(k) \/ AbsGet(k)
             \/ \E k \in Key, v \in Value : AbsGrow(k, v) \/ AbsInsert(k, v)
       \/ AbsEnd

AbsSpec == AbsInit /\ [][AbsNext]_absVars
=============================================================================
