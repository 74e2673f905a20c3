-------------------------------- MODULE String --------------------------------
(***************************************************************************)
(* The growing strings of core/str.c, and str_copy of core/str_utils.c.     *)
(* Of the text only its length matters.  A string keeps its capacity and    *)
(* the allocator it gives its data back to; the allocator that has the      *)
(* data, and how many bytes, is known to the heap alone.                    *)
(***************************************************************************)
EXTENDS Integers

CONSTANTS
    Handle,          \* the String structures of the program
    Owner,           \* the allocators
    Lengths,         \* the lengths of the texts strings are made from
    MAX_STR_ALLOC,
    INITIAL_STR_ALLOC

ASSUME StringAssumption ==
    /\ Lengths \subseteq Nat
    /\ MAX_STR_ALLOC \in Nat
    /\ INITIAL_STR_ALLOC \in 1 .. MAX_STR_ALLOC

VARIABLES
    str,       \* per handle: the fields of its String, and its data
    strStatus, \* "run", "panic" or "fault"
    made,      \* history: how the string in a handle came to be
    culprit    \* history: the handle in whose call the process ended, if any

strVars == <<str, strStatus, made, culprit>>

(* data: "none" before a string is made and after it is given back, "NULL"  *)
(* after string_move.                                                       *)
String == [data : {"none", "NULL", "live"}, size : Nat, capacity : Nat,
           room : Nat, owner : Owner, alloc : Owner]

Fresh(n, capacity, room, owner, alloc) ==
    [data |-> "live", size |-> n, capacity |-> capacity, room |-> room,
     owner |-> owner, alloc |-> alloc]

Gone(s, how) ==
    [s EXCEPT !.data = how, !.size = 0, !.capacity = 0, !.room = 0]

StringNone ==
    /\ \E a \in Owner :
          str = [h \in Handle |-> Gone(Fresh(0, 0, 0, a, a), "none")]
    /\ strStatus = "run"
    /\ made = [h \in Handle |-> "here"]
    /\ culprit = {}

StringRuns  == strStatus = "run"
Usable(h)   == StringRuns /\ str[h].data # "none"
Unused(h)   == StringRuns /\ str[h].data = "none"
(* The process ends in a call for h.                                        *)
StringStop(h, how) ==
    strStatus' = how /\ culprit' = {h} /\ UNCHANGED <<str, made>>

Becomes(h, s, how) ==
    /\ str' = [str EXCEPT ![h] = s]
    /\ made' = [made EXCEPT ![h] = how]
    /\ UNCHANGED <<strStatus, culprit>>

-----------------------------------------------------------------------------
(* Mutant: the terminator is counted apart.                                 *)
EmptyAndTerminator(a) ==
    Fresh(0, INITIAL_STR_ALLOC + 1, INITIAL_STR_ALLOC, a, a)

(* string_init and string_new                                               *)
Empty(a) == Fresh(0, INITIAL_STR_ALLOC, INITIAL_STR_ALLOC, a, a)

StringInit(h, a) ==
    /\ Unused(h)
    /\ Becomes(h, Empty(a), "here") \/ StringStop(h, "panic")

(* Mutant: the copy has the length of the text.                             *)
StringFromCstrBare(h, n, a) ==
    /\ Unused(h)
    /\ Becomes(h, Fresh(n, n + 1, n, a, a), "here") \/ StringStop(h, "panic")

(* string_from_cstr and string_make: data, capacity and size are exact.     *)
StringFromCstr(h, n, a) ==
    /\ Unused(h)
    /\ Becomes(h, Fresh(n, n + 1, n + 1, a, a), "here") \/ StringStop(h, "panic")

(* Mutant: the terminator is not counted in the bytes that are needed.      *)
NeedsRoomForText(s) == s.size = s.capacity

NeedsRoom(s) == s.size + 1 = s.capacity

(* Mutant: the capacity is tested that was there before.                    *)
TooLongBefore(n) == n \div 2 > MAX_STR_ALLOC

TooLong(n) == n > MAX_STR_ALLOC

(* string_push: the reallocation panics on data that is NULL or not on the  *)
(* chain, or for want of memory.  The check of MAX_STR_ALLOC comes after it, *)
(* the two writes after both.                                               *)
StringPush(h) ==
    LET s == str[h]
        n == IF NeedsRoom(s) THEN 2 * s.capacity ELSE s.capacity
        t == IF NeedsRoom(s) THEN [s EXCEPT !.capacity = n, !.room = n] ELSE s
    IN
    /\ Usable(h)
    /\ \/ NeedsRoom(s) /\ StringStop(h, "panic")
       \/ /\ NeedsRoom(s) => s.data # "NULL"
          /\ CASE NeedsRoom(s) /\ (s.owner # s.alloc \/ n < s.room) -> StringStop(h, "fault")
               [] NeedsRoom(s) /\ TooLong(n)             -> StringStop(h, "panic")
               [] t.data = "NULL" \/ t.size + 2 > t.room -> StringStop(h, "fault")
               [] OTHER -> Becomes(h, [t EXCEPT !.size = @ + 1], made[h])

(* string_copy: the copy takes over capacity and allocator, and data of the *)
(* length of the text from the allocator that was passed.                   *)
StringCopy(h, d, a) ==
    /\ Usable(h) /\ Unused(d)
    /\ \/ Becomes(d, IF str[h].data = "NULL" THEN str[h]
                     ELSE Fresh(str[h].size, str[h].capacity,
                                str[h].size + 1, a, str[h].alloc), "copied")
       \/ str[h].data = "live" /\ StringStop(h, "panic")

(* string_move into a String that was initialised and given back: it keeps  *)
(* its own allocator.                                                       *)
StringMove(h, d) ==
    /\ Usable(h) /\ Unused(d)
    /\ str' = [str EXCEPT ![d] = [str[h] EXCEPT !.alloc = str[d].alloc],
                          ![h] = Gone(@, "NULL")]
    /\ made' = [made EXCEPT ![d] = IF str[h].owner = str[d].alloc
                                   THEN made[h] ELSE "moved",
                            ![h] = "moved"]
    /\ UNCHANGED <<strStatus, culprit>>

(* allocator_free, which looks for data on the chain of the allocator.      *)
GivesBack(s) == s.data = "NULL" \/ s.owner = s.alloc

(* string_deinit and string_free                                            *)
StringDeinit(h) ==
    /\ Usable(h)
    /\ IF GivesBack(str[h])
       THEN Becomes(h, Gone(str[h], "none"), "here")
       ELSE StringStop(h, "fault") \/ StringStop(h, "panic")

(* string_clear: string_deinit, then string_init with the same allocator.   *)
StringClear(h) ==
    /\ Usable(h)
    /\ IF GivesBack(str[h])
       THEN Becomes(h, Empty(str[h].alloc), "here") \/ StringStop(h, "panic")
       ELSE StringStop(h, "fault") \/ StringStop(h, "panic")

StringNext ==
    \E h \in Handle :
        \/ \E a \in Owner : \/ StringInit(h, a)
                            \/ \E n \in Lengths : StringFromCstr(h, n, a)
                            \/ \E d \in Handle : StringCopy(h, d, a)
        \/ \E d \in Handle : StringMove(h, d)
        \/ StringPush(h) \/ StringDeinit(h) \/ StringClear(h)

StringSpec == StringNone /\ [][StringNext]_strVars

-----------------------------------------------------------------------------
(* Properties                                                               *)

(* The type of every variable: no string grows beyond MAX_STR_ALLOC, though *)
(* one may be made from a longer text.                                      *)
StringTypeOK ==
    /\ str \in [Handle -> String]
    /\ \A h \in Handle : \/ str[h].capacity <= MAX_STR_ALLOC
                         \/ str[h].capacity - 1 \in Lengths
    /\ strStatus \in {"run", "panic", "fault"}
    /\ made \in [Handle -> {"here", "copied", "moved"}]
    /\ culprit \in SUBSET Handle

(* The terminator of a text always lies inside the data, through growth by  *)
(* doubling, copies whose capacity is not their own, moves and clearing.    *)
StringTerminated ==
    \A h \in Handle : str[h].data = "live" => str[h].size < str[h].room

(* Nothing faults but a push, a deinit or a clear of a string that came from *)
(* string_copy, or from string_move out of another allocator: the client    *)
(* that makes its own strings is safe at every length.                      *)
StringFaults ==
    strStatus = "fault" => \A h \in culprit : made[h] # "here"

(* A string that was made and grown in its place is what it says: its       *)
(* capacity is its bytes and its allocator has them, so that no push and no *)
(* deinit of it goes wrong.  What string_copy and string_move return is not *)
(* until it is cleared: the capacity of a copy is that of the original, the *)
(* allocator of a moved string that of its target.  The terminator lies     *)
(* inside the data in any case, and no other string faults.                 *)
StringSound ==
    /\ StringTerminated
    /\ StringFaults
    /\ \A h \in Handle : str[h].data = "live" /\ made[h] = "here" =>
          str[h].capacity = str[h].room /\ str[h].owner = str[h].alloc
    /\ \A h \in Handle : made[h] = "here" => str[h].data # "NULL"
=============================================================================
