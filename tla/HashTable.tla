------------------------------- MODULE HashTable -------------------------------
(***************************************************************************)
(* The hash table of core/hashtable.c: a vector of lists of entries, which  *)
(* is replaced by a longer one when it is too full.  A rehash inserts the   *)
(* entries of the old lists one by one and frees each old key and value     *)
(* after it: two steps per entry.                                           *)
(*                                                                         *)
(* callbacks says which of the copy and free callbacks a table was made     *)
(* with, for keys and values alike, so that one object stands for a key and *)
(* its value.  With "copy" an insert makes an object, without it the entry  *)
(* has the one it is given: a client gives an object that no entry has, a   *)
(* rehash the one of the old entry.  An object that is freed is not used    *)
(* again while an entry still points to it, so that what points to freed    *)
(* memory is always told.  The lists are the sequences that List implements.*)
(***************************************************************************)
EXTENDS Integers, SequencesExt

CONSTANTS
    Key, Value,
    Object,        \* the memory for keys and values
    NULL,
    HashFunc,      \* the hash of every key
    HashPrimes,    \* the numbers of buckets, in order
    Callbacks,     \* the sets of callbacks tables are made with
    MaxPopulation  \* clients keep no more entries

ASSUME TableAssumption ==
    /\ NULL \notin Value
    /\ HashFunc \in [Key -> Nat]
    /\ HashPrimes \in Seq(Nat \ {0}) /\ HashPrimes # <<>>
    /\ \A i \in 1 .. Len(HashPrimes) - 1 : HashPrimes[i] + 2 <= HashPrimes[i + 1]
    /\ Callbacks \subseteq SUBSET {"copy", "free"}
    /\ MaxPopulation \in Nat

VARIABLES
    callbacks,   \* which callbacks the table has
    live,        \* the objects that have not been freed
    primeIdx,    \* the number of buckets is HashPrimes[primeIdx]
    entries,     \* per bucket: its entries
    population,  \* the entries, as the table counts them
    rest,        \* per bucket of the vector the table had before: the
                 \* entries the rehash has not come to yet
    due,         \* the object that the rehash has inserted and frees next
    pending,     \* the insert that waits for the rehash, if any
    iter,        \* an iterator: its bucket, the entry it yields next, whether
                 \* that entry has been freed
    tableAnswer, \* the call that returned last and its answer, or the insert
                 \* that waits for a rehash
    tableStatus, \* "run", "panic" or "fault"
    walk         \* history: "whole", or "broken" by a rehash

contents  == <<live, primeIdx, entries, population, rest, due, pending>>
tableVars == <<callbacks, contents, iter, tableAnswer, tableStatus, walk>>

(* obj: where the key and the value are; mark: "due" if the entry was there *)
(* when the iterator began, "seen" when it was yielded, "new" otherwise.    *)
Entry == [key : Key, value : Value, obj : Object, mark : {"due", "seen", "new"}]

Size        == HashPrimes[primeIdx]
Buckets     == 0 .. Size - 1
KeyLoc(k)   == HashFunc[k] % Size
OldSize     == IF primeIdx = 1 THEN 0 ELSE HashPrimes[primeIdx - 1]
OldBuckets  == 0 .. OldSize - 1
Left        == {b \in OldBuckets : rest[b] # <<>>}

(* The objects that the entries of some lists point to.                     *)
Objects(lists) == UNION {{lists[b][i].obj : i \in DOMAIN lists[b]} : b \in DOMAIN lists}

(* The lists with every entry marked so.                                    *)
Marked(lists, m) ==
    [b \in DOMAIN lists |-> [i \in DOMAIN lists[b] |-> [lists[b][i] EXCEPT !.mark = m]]]

(* No iterator is there yet: one that is at the end.                        *)
TableInit ==
    /\ callbacks \in Callbacks
    /\ live = {}
    /\ primeIdx = 1
    /\ entries = [b \in 0 .. HashPrimes[1] - 1 |-> <<>>]
    /\ population = 0
    /\ rest = [b \in {} |-> <<>>]
    /\ due = {}
    /\ pending = <<>>
    /\ iter = [bucket |-> HashPrimes[1], next |-> 0, stale |-> FALSE]
    /\ tableAnswer = <<>>
    /\ tableStatus = "run"
    /\ walk = "whole"

TableReady == tableStatus = "run" /\ pending = <<>>

(* The process ends in a call.                                              *)
TableStop(call, how) ==
    /\ tableStatus' = how
    /\ tableAnswer' = call
    /\ UNCHANGED <<callbacks, contents, iter, walk>>

Returns(answer) ==
    tableAnswer' = answer /\ UNCHANGED <<callbacks, tableStatus>>

-----------------------------------------------------------------------------
(* hash_table_insert                                                        *)

(* The population is held against seven tenths of the number of buckets.    *)
Full == 10 * population >= 7 * Size

(* Mutant: the entry is stored where its hash was with the first size.      *)
PutAtFirstLoc(e) ==
    /\ entries' = [entries EXCEPT ![HashFunc[e.key] % HashPrimes[1]] = Append(@, e)]
    /\ population' = population + 1

(* The entry goes to the end of its list; an entry with that key may be     *)
(* there.                                                                   *)
Put(e) ==
    /\ entries' = [entries EXCEPT ![KeyLoc(e.key)] = Append(@, e)]
    /\ population' = population + 1

(* What can be allocated, or what a client that keeps its objects can give. *)
Spare ==
    Object \ (Objects(entries) \cup Objects(rest)
              \cup IF "copy" \in callbacks THEN live ELSE {})

(* Mutant: the entries of a rehash are not copied.                          *)
NeverCopied == {}

(* What an insert copies: all it is given.                                  *)
Copied == {"copy"} \cap callbacks

(* An entry that the client inserts: its own object, or a copy of it.       *)
PutNew(k, v) == \E o \in Spare :
    /\ o = CHOOSE p \in Spare : TRUE
    /\ Put([key |-> k, value |-> v, obj |-> o, mark |-> "new"])
    /\ live' = live \cup {o}

(* Mutant: an entry of a rehash whose key is there already is left out.     *)
PutOldOnce(old) ==
    LET list == entries[KeyLoc(old.key)] IN
    IF \E i \in DOMAIN list : list[i].key = old.key
    THEN UNCHANGED <<entries, population, live>>
    ELSE Put(old) /\ UNCHANGED live

(* An entry that a rehash inserts.                                          *)
PutOld(old) ==
    IF Copied = {} THEN Put(old) /\ UNCHANGED live
    ELSE \E o \in Spare :
            /\ o = CHOOSE p \in Spare : TRUE
            /\ Put([old EXCEPT !.obj = o])
            /\ live' = live \cup {o}

TableInsert(k, v) ==
    /\ TableReady
    /\ \/ /\ Full /\ primeIdx < Len(HashPrimes)
          /\ primeIdx' = primeIdx + 1
          /\ entries' = [b \in 0 .. HashPrimes[primeIdx + 1] - 1 |-> <<>>]
          /\ population' = 0
          /\ rest' = Marked(entries, "new")
          /\ pending' = <<k, v>>
          /\ iter' = [iter EXCEPT !.stale = @ \/ iter.next # 0]
          /\ walk' = "broken"
          /\ Returns(<<"grow", k, v>>)
          /\ UNCHANGED <<live, due>>
       \/ /\ ~ (Full /\ primeIdx < Len(HashPrimes))
          /\ PutNew(k, v)
          /\ Returns(<<"insert", k, v>>)
          /\ UNCHANGED <<primeIdx, rest, due, pending, iter, walk>>
       \/ TableStop(<<"insert", k>>, "panic")

(* A turn of hash_table_rehash, at the first entry of the lowest bucket     *)
(* that has one left: hash_table_insert, whose load check cannot hold, and  *)
(* which reads the old key to hash it.                                      *)
TableRehash == \E b \in Left :
    LET old == Head(rest[b]) IN
    /\ tableStatus = "run" /\ due = {}
    /\ \A c \in Left : b <= c
    /\ \/ /\ old.obj \in live
          /\ PutOld(old)
          /\ rest' = [rest EXCEPT ![b] = Tail(@)]
          /\ due' = {old.obj}
          /\ UNCHANGED <<callbacks, primeIdx, pending, iter, tableAnswer, tableStatus, walk>>
       \/ old.obj \notin live /\ TableStop(<<"rehash">>, "fault")
       \/ old.obj \in live /\ TableStop(<<"rehash">>, "panic")

(* hash_table_free_key_value, at the end of the turn.                       *)
RehashFree ==
    /\ tableStatus = "run" /\ due # {}
    /\ live' = IF "free" \in callbacks THEN live \ due ELSE live
    /\ due' = {}
    /\ UNCHANGED <<callbacks, primeIdx, entries, population, rest, pending, iter,
                   tableAnswer, tableStatus, walk>>

TableInsertEnd ==
    /\ tableStatus = "run" /\ pending # <<>> /\ Left = {} /\ due = {}
    /\ \/ /\ PutNew(pending[1], pending[2])
          /\ pending' = <<>>
          /\ Returns(<<"insert", pending[1], pending[2]>>)
          /\ UNCHANGED <<primeIdx, rest, due, iter, walk>>
       \/ TableStop(<<"insert", pending[1]>>, "panic")

-----------------------------------------------------------------------------
(* hash_table_find_entry: the keys of the list are compared up to the first *)
(* that is equal.                                                           *)
Bucket(k)    == entries[KeyLoc(k)]
Matches(k)   == {i \in DOMAIN Bucket(k) : Bucket(k)[i].key = k}

(* Mutant: the last entry with the key is taken.                            *)
FoundLast(k) ==
    IF Matches(k) = {} THEN 0 ELSE CHOOSE i \in Matches(k) : \A j \in Matches(k) : j <= i

Found(k) ==
    IF Matches(k) = {} THEN 0 ELSE CHOOSE i \in Matches(k) : \A j \in Matches(k) : i <= j

ReadsFreed(k) ==
    \E i \in DOMAIN Bucket(k) : Bucket(k)[i].obj \notin live /\ (Found(k) = 0 \/ i <= Found(k))

TableGet(k) ==
    /\ TableReady
    /\ IF ReadsFreed(k) THEN TableStop(<<"get", k>>, "fault")
       ELSE /\ Returns(<<"get", k, IF Found(k) = 0 THEN NULL
                                   ELSE Bucket(k)[Found(k)].value>>)
            /\ UNCHANGED <<contents, iter, walk>>

(* Mutant: NULL is not told from a node behind.                             *)
IterWithoutNull(b, i) ==
    IF iter.bucket # b THEN iter ELSE [iter EXCEPT !.next = @ - 1]

(* The iterator after the entry i of a bucket is freed.                     *)
IterWithout(b, i) ==
    IF iter.bucket # b \/ iter.stale \/ iter.next < i THEN iter
    ELSE IF iter.next = i THEN [iter EXCEPT !.stale = TRUE]
    ELSE [iter EXCEPT !.next = @ - 1]

TableRemove(k) ==
    /\ TableReady
    /\ IF ReadsFreed(k) THEN TableStop(<<"remove", k>>, "fault")
       ELSE IF Found(k) = 0
       THEN Returns(<<"remove", k>>) /\ UNCHANGED <<contents, iter, walk>>
       ELSE /\ entries' = [entries EXCEPT ![KeyLoc(k)] = RemoveAt(@, Found(k))]
            /\ population' = population - 1
            /\ iter' = IterWithout(KeyLoc(k), Found(k))
            /\ live' = IF "free" \in callbacks THEN live \ {Bucket(k)[Found(k)].obj} ELSE live
            /\ Returns(<<"remove", k>>)
            /\ UNCHANGED <<primeIdx, rest, due, pending, walk>>

(* hash_table_deinit and hash_table_free: the vector of buckets, which is a *)
(* member of the table, is given to vector_free.                            *)
TableDeinit ==
    /\ TableReady
    /\ TableStop(<<"deinit">>, "fault") \/ TableStop(<<"deinit">>, "panic")

-----------------------------------------------------------------------------
(* The iterator.  It holds the node of its next entry, or NULL: next is the *)
(* place of that node in the list, or 0.                                    *)

FirstOf(b) == IF entries[b] = <<>> THEN 0 ELSE 1

IterInit ==
    /\ TableReady
    /\ iter' = [bucket |-> 0, next |-> FirstOf(0), stale |-> FALSE]
    /\ entries' = Marked(entries, "due")
    /\ walk' = "whole"
    /\ Returns(<<"begin">>)
    /\ UNCHANGED <<live, primeIdx, population, rest, due, pending>>

(* Entry i of bucket b is yielded; one that is yielded again is marked so.  *)
Yield(b, i) ==
    /\ iter' = [iter EXCEPT !.bucket = b, !.next = IF i < Len(entries[b]) THEN i + 1 ELSE 0]
    /\ entries' = [entries EXCEPT ![b][i].mark = "seen"]

(* Mutant: the bucket number is counted up twice.                           *)
AheadOfNext == {b \in Buckets : b > iter.bucket + 1 /\ entries[b] # <<>>}

(* The buckets behind the iterator's that have entries.                     *)
Ahead == {b \in Buckets : b > iter.bucket /\ entries[b] # <<>>}

IterNext ==
    /\ TableReady
    /\ IF iter.bucket < Size /\ iter.next # 0 /\ iter.stale
       THEN TableStop(<<"next">>, "fault")
       ELSE /\ IF iter.bucket >= Size THEN UNCHANGED <<iter, entries>>
               ELSE IF iter.next # 0 THEN Yield(iter.bucket, iter.next)
               ELSE IF Ahead # {}
               THEN Yield(CHOOSE b \in Ahead : \A c \in Ahead : b <= c, 1)
               ELSE /\ iter' = [iter EXCEPT !.bucket = Size]
                    /\ UNCHANGED entries
            /\ Returns(<<"next">>)
            /\ UNCHANGED <<live, primeIdx, population, rest, due, pending, walk>>

TableNext ==
    \/ \E k \in Key :
          \/ \E v \in Value : population < MaxPopulation /\ TableInsert(k, v)
          \/ TableGet(k) \/ TableRemove(k)
    \/ TableRehash \/ RehashFree \/ TableInsertEnd \/ TableDeinit
    \/ IterInit \/ IterNext

TableSpec == TableInit /\ [][TableNext]_tableVars

-----------------------------------------------------------------------------
(* Properties                                                               *)

(* The type of every variable.                                              *)
TableTypeOK ==
    /\ callbacks \in Callbacks
    /\ live \subseteq Object /\ due \subseteq Object
    /\ primeIdx \in DOMAIN HashPrimes
    /\ entries \in [Buckets -> Seq(Entry)]
    /\ population \in Nat
    /\ rest \in [OldBuckets -> Seq(Entry)]
    /\ pending \in (Key \X Value) \cup {<<>>}
    /\ iter \in [bucket : Nat, next : Nat, stale : BOOLEAN]
    /\ tableStatus \in {"run", "panic", "fault"}
    /\ walk \in {"whole", "broken"}

(* The places of the entries: a bucket and a place in its list.             *)
Slots(lists) == UNION {{b} \X DOMAIN lists[b] : b \in DOMAIN lists}

(* Every entry is in the list its hash leads to, through every change of    *)
(* size; population counts them; the table is never fuller than seven       *)
(* tenths and one entry, unless it has the last size; and the inserts of a  *)
(* rehash never meet a full table, so that a rehash is never entered from a *)
(* rehash.                                                                  *)
TableInv ==
    /\ \A b \in Buckets : \A i \in DOMAIN entries[b] : KeyLoc(entries[b][i].key) = b
    /\ population = Cardinality(Slots(entries))
    /\ primeIdx < Len(HashPrimes) => 10 * (population - 1) < 7 * Size
    /\ Left # {} => ~Full /\ pending # <<>>

(* No two entries of some lists have one object.                            *)
Apart(lists) ==
    \A b, c \in DOMAIN lists : \A i \in DOMAIN lists[b], j \in DOMAIN lists[c] :
        lists[b][i].obj = lists[c][j].obj => b = c /\ i = j

(* A table that frees what it has not copied, and has grown: its entries    *)
(* point to what the rehash has freed.                                      *)
Dangles == callbacks = {"free"} /\ primeIdx # 1

(* The objects of a table and its copy and free callbacks.  No two entries  *)
(* ever have one object, those a rehash has still to move included, and     *)
(* what it frees next is live and no longer in the old lists.  Every        *)
(* entry's object is live, unless the table dangles.  With both callbacks   *)
(* the live objects are those of the entries and the one that is freed      *)
(* next: nothing is lost.                                                   *)
Owned ==
    /\ Apart(entries) /\ Apart(rest)
    /\ Objects(rest) \cap (Objects(entries) \cup due) = {}
    /\ due \subseteq live
    /\ ~Dangles => Objects(entries) \cup Objects(rest) \subseteq live
    /\ callbacks = {"copy", "free"} =>
          /\ due \cap Objects(entries) = {}
          /\ live = Objects(entries) \cup Objects(rest) \cup due

(* Objects are owned so through every insert, remove and turn of a rehash,  *)
(* and a call faults only for deinit, which always may, for an iterator     *)
(* whose next entry was removed or rehashed, and in a table that dangles.   *)
TableObjects ==
    /\ Owned
    /\ tableStatus = "fault" =>
          \/ tableAnswer = <<"deinit">>
          \/ tableAnswer = <<"next">> /\ iter.stale
          \/ Dangles

(* What an iterator has yielded lies behind it, and what was there when it  *)
(* began and still is lies before it, whatever was inserted and removed in  *)
(* between, until a rehash: it yields each of those entries once, and none  *)
(* is left when it ends.                                                    *)
IterComplete ==
    walk = "whole" /\ ~iter.stale =>
        \A b \in Buckets : \A i \in DOMAIN entries[b] :
            LET ahead == \/ b > iter.bucket
                         \/ b = iter.bucket /\ iter.next # 0 /\ i >= iter.next
            IN /\ entries[b][i].mark = "due"  => ahead
               /\ entries[b][i].mark = "seen" => ~ahead

(* The n-th of a set of positions, and the values of a key in a sequence of *)
(* entries, in its order.                                                   *)
Nth(M, n)       == CHOOSE p \in M : Cardinality({q \in M : q <= p}) = n
Positions(k, s) == {i \in DOMAIN s : s[i].key = k}
ValuesOf(k, s)  == LET M == Positions(k, s)
                   IN [n \in 1 .. Cardinality(M) |-> s[Nth(M, n)].value]

(* During a rehash a key has its values in its new list and then in what is *)
(* left of its old one.                                                     *)
OldBucket(k) == IF OldSize = 0 THEN <<>> ELSE rest[HashFunc[k] % OldSize]
Bindings     == [k \in Key |-> ValuesOf(k, Bucket(k) \o OldBucket(k))]

Table == INSTANCE MultimapAbs WITH
    bindings <- Bindings,
    reply    <- tableAnswer,
    outcome  <- tableStatus

(* The lists implement the queues of values: an insert adds the value it    *)
(* was given to the key it was given, a remove takes the first value of its *)
(* key and nothing else does; no step of a rehash changes a binding, so     *)
(* that no entry is dropped, doubled or overtaken on the way.               *)
TableRefines == Table!AbsSpec

(* hashtable.h:157: "If the key already exists, its value is replaced."     *)
(* What get answers for the key is then the new value.                      *)
ValueReplaced ==
    [][\A k \in Key, v \in Value :
          \/ TableInsert(k, v) /\ tableStatus' = "run" /\ pending' = <<>>
          \/ TableInsertEnd /\ tableStatus' = "run" /\ pending = <<k, v>>
          => Head(Bindings'[k]) = v]_tableVars
=============================================================================
