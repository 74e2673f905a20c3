---------------------------- MODULE HashTableProofs ----------------------------
(* Theorems about HashTable, for every set of keys and values, every hash   *)
(* function and every sequence of sizes that TableAssumption admits.        *)
EXTENDS HashTable, FiniteSetTheorems, SequenceTheorems, WellFoundedInduction, TLAPS

(* What a table counts on.  The hash of a key leads to its list, in the old *)
(* vector too.                                                              *)
Housed ==
    /\ \A b \in Buckets : \A i \in DOMAIN entries[b] : KeyLoc(entries[b][i].key) = b
    /\ \A b \in OldBuckets : \A i \in DOMAIN rest[b] :
          HashFunc[rest[b][i].key] % OldSize = b

Counted ==
    /\ IsFiniteSet(Slots(entries)) /\ IsFiniteSet(Slots(rest))
    /\ population = Cardinality(Slots(entries))

(* What waits for the rehash has room below the load that would begin       *)
(* another: the next size is larger by more than the entry one too many.    *)
Loaded ==
    /\ primeIdx < Len(HashPrimes) => 10 * (population - 1) < 7 * Size
    /\ pending # <<>> => 10 * (population + Cardinality(Slots(rest))) < 7 * Size

Rehashing ==
    /\ pending = <<>> => Left = {} /\ due = {}
    /\ pending # <<>> => walk = "broken" /\ primeIdx # 1

Blamed ==
    tableStatus = "fault" =>
        \/ tableAnswer = <<"deinit">>
        \/ tableAnswer = <<"next">> /\ iter.stale
        \/ Dangles

(* The node an iterator holds is in the list of its bucket, or was freed    *)
(* there.                                                                   *)
IterInside ==
    /\ iter.stale => iter.next # 0
    /\ ~iter.stale /\ iter.next # 0 =>
          iter.bucket \in Buckets /\ iter.next \in DOMAIN entries[iter.bucket]

(* The inductive invariant.                                                 *)
TableInd ==
    /\ TableTypeOK /\ Housed /\ Counted /\ Loaded /\ Rehashing
    /\ Owned /\ Blamed /\ IterInside /\ IterComplete

-----------------------------------------------------------------------------
(* Sizes                                                                    *)

LEMMA SizeNat ==
    ASSUME primeIdx \in DOMAIN HashPrimes
    PROVE  /\ Size \in Nat \ {0}
           /\ OldSize \in Nat
           /\ \A k \in Key : KeyLoc(k) \in Buckets
           /\ primeIdx < Len(HashPrimes) => HashPrimes[primeIdx + 1] >= Size + 2
           /\ primeIdx < Len(HashPrimes) => HashPrimes[primeIdx + 1] \in Nat \ {0}
  <1>1. \A i \in DOMAIN HashPrimes : HashPrimes[i] \in Nat \ {0}
    BY TableAssumption
  <1>2. DOMAIN HashPrimes = 1 .. Len(HashPrimes) /\ Len(HashPrimes) \in Nat
    BY TableAssumption
  <1>3. Size \in Nat \ {0}
    BY <1>1 DEF Size
  <1>4. OldSize \in Nat
    BY <1>1, <1>2 DEF OldSize
  <1>5. ASSUME NEW k \in Key PROVE KeyLoc(k) \in Buckets
    <2>1. HashFunc[k] \in Nat
      BY TableAssumption
    <2> QED BY <2>1, <1>3 DEF KeyLoc, Buckets
  <1>6. primeIdx < Len(HashPrimes) => HashPrimes[primeIdx + 1] >= Size + 2
    BY <1>1, <1>2, TableAssumption DEF Size
  <1>7. primeIdx < Len(HashPrimes) => HashPrimes[primeIdx + 1] \in Nat \ {0}
    BY <1>1, <1>2
  <1> QED BY <1>3, <1>4, <1>5, <1>6, <1>7

-----------------------------------------------------------------------------
(* Places of entries                                                        *)

LEMMA SlotsMember ==
    ASSUME NEW lists, NEW b, NEW i
    PROVE  <<b, i>> \in Slots(lists) <=> b \in DOMAIN lists /\ i \in DOMAIN lists[b]
  BY DEF Slots

LEMMA SlotsPair ==
    ASSUME NEW lists, NEW p \in Slots(lists)
    PROVE  p = <<p[1], p[2]>>
  BY DEF Slots

(* Lists of the same lengths have the same places.                          *)
LEMMA SlotsSame ==
    ASSUME NEW D, NEW s, NEW t, DOMAIN s = D, DOMAIN t = D,
           \A b \in D : DOMAIN s[b] = DOMAIN t[b]
    PROVE  Slots(s) = Slots(t)
  BY DEF Slots

LEMMA SlotsEmpty ==
    ASSUME NEW s, \A b \in DOMAIN s : s[b] = <<>>
    PROVE  Slots(s) = {}
  BY DEF Slots

(* t has one more place than s, at the end of its list b.                   *)
LongerAt(D, s, t, b) ==
    /\ Len(t[b]) = Len(s[b]) + 1
    /\ \A c \in D : c # b => Len(t[c]) = Len(s[c])

LEMMA SlotsLonger ==
    ASSUME NEW D, NEW s \in [D -> Seq(Entry)], NEW t \in [D -> Seq(Entry)],
           NEW b \in D, LongerAt(D, s, t, b), IsFiniteSet(Slots(s))
    PROVE  /\ IsFiniteSet(Slots(t))
           /\ Cardinality(Slots(t)) = Cardinality(Slots(s)) + 1
  <1> DEFINE p == <<b, Len(t[b])>>
  <1> USE DEF LongerAt
  <1>0. \A c \in D : /\ DOMAIN s[c] = 1 .. Len(s[c]) /\ Len(s[c]) \in Nat
                     /\ DOMAIN t[c] = 1 .. Len(t[c]) /\ Len(t[c]) \in Nat
    OBVIOUS
  <1>1. p \notin Slots(s)
    BY <1>0, SlotsMember
  <1>2. Slots(t) = Slots(s) \cup {p}
    <2>1. ASSUME NEW q \in Slots(t) PROVE q \in Slots(s) \cup {p}
      <3>1. q = <<q[1], q[2]>>
        BY SlotsPair
      <3>2. q[1] \in D /\ q[2] \in DOMAIN t[q[1]]
        BY <3>1, SlotsMember
      <3>3. q[2] \in DOMAIN s[q[1]] \/ (q[1] = b /\ q[2] = Len(t[b]))
        BY <3>2, <1>0
      <3> QED BY <3>1, <3>2, <3>3, SlotsMember
    <2>2. ASSUME NEW q \in Slots(s) PROVE q \in Slots(t)
      <3>1. q = <<q[1], q[2]>>
        BY SlotsPair
      <3>2. q[1] \in D /\ q[2] \in DOMAIN s[q[1]]
        BY <3>1, SlotsMember
      <3>3. Len(s[q[1]]) <= Len(t[q[1]])
        BY <3>2, <1>0
      <3>4. q[2] \in DOMAIN t[q[1]]
        BY <3>2, <3>3, <1>0
      <3> QED BY <3>1, <3>2, <3>4, SlotsMember
    <2>3. p \in Slots(t)
      <3>1. Len(t[b]) \in DOMAIN t[b]
        BY <1>0
      <3> QED BY <3>1, SlotsMember
    <2> QED BY <2>1, <2>2, <2>3
  <1> HIDE DEF p
  <1> QED BY <1>1, <1>2, FS_AddElement

-----------------------------------------------------------------------------
(* Objects of entries                                                       *)

LEMMA ObjectsMember ==
    ASSUME NEW lists, NEW o
    PROVE  o \in Objects(lists) <=>
              \E b \in DOMAIN lists : \E i \in DOMAIN lists[b] : lists[b][i].obj = o
  BY DEF Objects

LEMMA ObjectsSame ==
    ASSUME NEW D, NEW s, NEW t, DOMAIN s = D, DOMAIN t = D,
           \A b \in D : /\ DOMAIN t[b] = DOMAIN s[b]
                        /\ \A i \in DOMAIN s[b] : t[b][i].obj = s[b][i].obj
    PROVE  /\ Objects(t) = Objects(s)
           /\ Apart(s) => Apart(t)
  <1>1. \A o : o \in Objects(t) <=> o \in Objects(s)
    BY ObjectsMember
  <1>2. Objects(t) = Objects(s)
    BY <1>1
  <1>3. Apart(s) => Apart(t)
    BY DEF Apart
  <1> QED BY <1>2, <1>3

LEMMA ObjectsNone ==
    ASSUME NEW s, \A b \in DOMAIN s : s[b] = <<>>
    PROVE  Objects(s) = {} /\ Apart(s)
  <1>1. \A b \in DOMAIN s : DOMAIN s[b] = {}
    OBVIOUS
  <1>2. \A o : o \notin Objects(s)
    BY <1>1, ObjectsMember
  <1>3. Apart(s)
    BY <1>1 DEF Apart
  <1> QED BY <1>2, <1>3

(* t is s with the entry e more, at the end of the list at.                 *)
Joined(D, s, t, at, e) ==
    /\ t[at] = Append(s[at], e)
    /\ \A b \in D : b # at => t[b] = s[b]

LEMMA ObjectsLonger ==
    ASSUME NEW D, NEW s \in [D -> Seq(Entry)], NEW t \in [D -> Seq(Entry)],
           NEW at \in D, NEW e \in Entry, Joined(D, s, t, at, e)
    PROVE  /\ Objects(t) = Objects(s) \cup {e.obj}
           /\ Apart(s) /\ e.obj \notin Objects(s) => Apart(t)
  <1> USE DEF Joined
  <1> DEFINE n == Len(s[at]) + 1
  <1>1. /\ s[at] \in Seq(Entry) /\ Len(s[at]) \in Nat /\ DOMAIN s[at] = 1 .. Len(s[at])
        /\ DOMAIN s = D /\ DOMAIN t = D
    OBVIOUS
  <1>2. /\ DOMAIN t[at] = DOMAIN s[at] \cup {n} /\ n \notin DOMAIN s[at]
        /\ t[at][n] = e /\ \A i \in DOMAIN s[at] : t[at][i] = s[at][i]
    BY <1>1
  <1> HIDE DEF n
  <1>3. \A o : o \in Objects(t) <=> o \in Objects(s) \/ o = e.obj
    <2>1. ASSUME NEW o, o \in Objects(t) PROVE o \in Objects(s) \/ o = e.obj
      <3>1. PICK b \in D : \E i \in DOMAIN t[b] : t[b][i].obj = o
        BY <1>1, <2>1, ObjectsMember
      <3>2. PICK i \in DOMAIN t[b] : t[b][i].obj = o
        BY <3>1
      <3>3. (i \in DOMAIN s[b] /\ t[b][i] = s[b][i]) \/ t[b][i] = e
        BY <1>2
      <3> QED BY <1>1, <3>2, <3>3, ObjectsMember
    <2>2. ASSUME NEW o, o \in Objects(s) PROVE o \in Objects(t)
      <3>1. PICK b \in D : \E i \in DOMAIN s[b] : s[b][i].obj = o
        BY <1>1, <2>2, ObjectsMember
      <3>2. PICK i \in DOMAIN s[b] : s[b][i].obj = o
        BY <3>1
      <3>3. i \in DOMAIN t[b] /\ t[b][i].obj = o
        BY <3>2, <1>2
      <3> QED BY <1>1, <3>3, ObjectsMember
    <2>3. e.obj \in Objects(t)
      BY <1>1, <1>2, ObjectsMember
    <2> QED BY <2>1, <2>2, <2>3
  <1>4. ASSUME Apart(s), e.obj \notin Objects(s),
               NEW b \in D, NEW c \in D, NEW i \in DOMAIN t[b], NEW j \in DOMAIN t[c],
               t[b][i].obj = t[c][j].obj
        PROVE  b = c /\ i = j
    <2>1. \/ i \in DOMAIN s[b] /\ t[b][i] = s[b][i]
          \/ b = at /\ i = n /\ t[b][i] = e
      BY <1>2
    <2>2. \/ j \in DOMAIN s[c] /\ t[c][j] = s[c][j]
          \/ c = at /\ j = n /\ t[c][j] = e
      BY <1>2
    <2>3. \A d \in D : \A l \in DOMAIN s[d] : s[d][l].obj # e.obj
      BY <1>1, <1>4, ObjectsMember
    <2>4. CASE i \in DOMAIN s[b] /\ t[b][i] = s[b][i] /\ j \in DOMAIN s[c] /\ t[c][j] = s[c][j]
      BY <1>1, <1>4, <2>4 DEF Apart
    <2> QED BY <1>4, <2>1, <2>2, <2>3, <2>4
  <1>5. Apart(s) /\ e.obj \notin Objects(s) => Apart(t)
    BY <1>1, <1>4 DEF Apart
  <1>6. Objects(t) = Objects(s) \cup {e.obj}
    BY <1>3
  <1> QED BY <1>5, <1>6

(* t is s without the entry n of the list at.                               *)
Without(D, s, t, at, n) ==
    /\ DOMAIN t[at] = 1 .. Len(s[at]) - 1
    /\ \A i \in DOMAIN t[at] : t[at][i] = IF i < n THEN s[at][i] ELSE s[at][i + 1]
    /\ \A b \in D : b # at => t[b] = s[b]

LEMMA ObjectsShorter ==
    ASSUME NEW D, NEW s \in [D -> Seq(Entry)], NEW t \in [D -> Seq(Entry)],
           NEW at \in D, NEW n \in DOMAIN s[at], Without(D, s, t, at, n), Apart(s)
    PROVE  /\ Objects(t) = Objects(s) \ {s[at][n].obj}
           /\ Apart(t)
  <1>1. /\ Len(s[at]) \in Nat /\ DOMAIN s[at] = 1 .. Len(s[at]) /\ n \in 1 .. Len(s[at])
        /\ DOMAIN s = D /\ DOMAIN t = D
    <2>1. s[at] \in Seq(Entry)
      OBVIOUS
    <2> QED BY <2>1
  <1> USE DEF Without
  <1> DEFINE From(b, i) == IF b = at /\ ~ (i < n) THEN i + 1 ELSE i
  <1>2. ASSUME NEW b \in D, NEW i \in DOMAIN t[b]
        PROVE  /\ From(b, i) \in DOMAIN s[b] /\ t[b][i] = s[b][From(b, i)]
               /\ ~ (b = at /\ From(b, i) = n)
    <2>1. CASE b # at
      BY <2>1
    <2>2. CASE b = at
      <3>1. i \in 1 .. Len(s[at]) - 1 /\ i \in DOMAIN t[at]
        BY <2>2
      <3> QED BY <3>1, <2>2, <1>1
    <2> QED BY <2>1, <2>2
  <1>3. ASSUME NEW b \in D, NEW j \in DOMAIN s[b], ~ (b = at /\ j = n)
        PROVE  \E i \in DOMAIN t[b] : t[b][i] = s[b][j]
    <2>1. CASE b # at
      BY <2>1
    <2>2. CASE b = at /\ j < n
      <3>1. j \in DOMAIN t[at] /\ t[at][j] = s[at][j]
        BY <2>2, <1>1
      <3> QED BY <3>1, <2>2
    <2>3. CASE b = at /\ j > n
      <3>1. j - 1 \in DOMAIN t[at] /\ ~ (j - 1 < n) /\ (j - 1) + 1 = j
        BY <2>3, <1>1
      <3>2. t[at][j - 1] = s[at][j]
        BY <3>1
      <3> QED BY <3>1, <3>2, <2>3
    <2>4. b = at => j < n \/ j > n
      BY <1>1, <1>3
    <2> QED BY <2>1, <2>2, <2>3, <2>4
  <1>4. ASSUME NEW b \in D, NEW c \in D, NEW i \in DOMAIN t[b], NEW j \in DOMAIN t[c],
               t[b][i].obj = t[c][j].obj
        PROVE  b = c /\ i = j
    <2>1. b = c /\ From(b, i) = From(c, j)
      <3> HIDE DEF From
      <3> QED BY <1>1, <1>2, <1>4 DEF Apart
    <2>2. CASE b # at
      BY <2>1, <2>2
    <2>3. CASE b = at
      <3>1. i \in 1 .. Len(s[at]) - 1 /\ j \in 1 .. Len(s[at]) - 1
        BY <2>1, <2>3
      <3> QED BY <3>1, <2>1, <2>3, <1>1
    <2> QED BY <2>2, <2>3
  <1>5. ASSUME NEW o, o \in Objects(t) PROVE o \in Objects(s) /\ o # s[at][n].obj
    <2>1. PICK b \in D : \E i \in DOMAIN t[b] : t[b][i].obj = o
      BY <1>1, <1>5, ObjectsMember
    <2>2. PICK i \in DOMAIN t[b] : t[b][i].obj = o
      BY <2>1
    <2>3. PICK j \in DOMAIN s[b] : t[b][i] = s[b][j] /\ ~ (b = at /\ j = n)
      BY <1>2
    <2>4. s[b][j].obj = o
      BY <2>2, <2>3
    <2> QED BY <1>1, <2>3, <2>4, ObjectsMember DEF Apart
  <1>6. ASSUME NEW o, o \in Objects(s), o # s[at][n].obj PROVE o \in Objects(t)
    <2>1. PICK b \in D : \E j \in DOMAIN s[b] : s[b][j].obj = o
      BY <1>1, <1>6, ObjectsMember
    <2>2. PICK j \in DOMAIN s[b] : s[b][j].obj = o
      BY <2>1
    <2>3. PICK i \in DOMAIN t[b] : t[b][i] = s[b][j]
      BY <1>3, <1>6, <2>2
    <2> QED BY <1>1, <2>2, <2>3, ObjectsMember
  <1>7. Objects(t) = Objects(s) \ {s[at][n].obj}
    BY <1>5, <1>6
  <1>8. Apart(t)
    BY <1>1, <1>4 DEF Apart
  <1> QED BY <1>7, <1>8

(* The callbacks by name.                                                   *)
LEMMA Words ==
    ASSUME callbacks \in Callbacks
    PROVE  /\ callbacks = {"copy", "free"} <=> "copy" \in callbacks /\ "free" \in callbacks
           /\ callbacks = {"free"} <=> "copy" \notin callbacks /\ "free" \in callbacks
           /\ Copied = {} <=> "copy" \notin callbacks
  <1>1. callbacks \subseteq {"copy", "free"}
    BY TableAssumption
  <1>2. "copy" # "free"
    OBVIOUS
  <1> QED BY <1>1, <1>2 DEF Copied

-----------------------------------------------------------------------------
(* What an entry at the end of its list leaves of the rest.                 *)
LEMMA PutEntries ==
    ASSUME TableTypeOK, Housed, Counted, NEW k \in Key, NEW e \in Entry,
           e.key = k, Put(e), UNCHANGED primeIdx
    PROVE  /\ entries' \in [Buckets -> Seq(Entry)]
           /\ population' = population + 1
           /\ IsFiniteSet(Slots(entries')) /\ population' = Cardinality(Slots(entries'))
           /\ \A b \in Buckets :
                 /\ DOMAIN entries[b] \subseteq DOMAIN entries'[b]
                 /\ \A i \in DOMAIN entries[b] : entries'[b][i] = entries[b][i]
                 /\ \A i \in DOMAIN entries'[b] :
                       i \in DOMAIN entries[b] \/ (b = KeyLoc(k) /\ entries'[b][i] = e)
           /\ \A b \in Buckets : \A i \in DOMAIN entries'[b] :
                 KeyLoc(entries'[b][i].key) = b
           /\ Objects(entries') = Objects(entries) \cup {e.obj}
           /\ Apart(entries) /\ e.obj \notin Objects(entries) => Apart(entries')
  <1> DEFINE at == KeyLoc(k)
  <1>1. at \in Buckets /\ entries \in [Buckets -> Seq(Entry)] /\ population \in Nat
    BY SizeNat DEF TableTypeOK
  <1>2. /\ entries' = [entries EXCEPT ![at] = Append(@, e)]
        /\ population' = population + 1
    BY DEF Put
  <1> HIDE DEF at
  <1>3. /\ entries[at] \in Seq(Entry)
        /\ entries'[at] = Append(entries[at], e)
        /\ entries'[at] \in Seq(Entry)
        /\ \A b \in Buckets : b # at => entries'[b] = entries[b]
    BY <1>1, <1>2
  <1>4. entries' \in [Buckets -> Seq(Entry)]
    BY <1>1, <1>2, <1>3
  <1>5. IsFiniteSet(Slots(entries')) /\ Cardinality(Slots(entries')) = population + 1
    <2>1. LongerAt(Buckets, entries, entries', at)
      BY <1>3 DEF LongerAt
    <2>2. IsFiniteSet(Slots(entries)) /\ population = Cardinality(Slots(entries))
      BY DEF Counted
    <2> QED BY <2>1, <2>2, <1>1, <1>4, SlotsLonger
  <1>6. ASSUME NEW b \in Buckets
        PROVE  /\ DOMAIN entries[b] \subseteq DOMAIN entries'[b]
               /\ \A i \in DOMAIN entries[b] : entries'[b][i] = entries[b][i]
               /\ \A i \in DOMAIN entries'[b] :
                     i \in DOMAIN entries[b] \/ (b = at /\ entries'[b][i] = e)
    <2>1. CASE b # at
      BY <2>1, <1>3
    <2>2. CASE b = at
      BY <2>2, <1>3
    <2> QED BY <2>1, <2>2
  <1>7. ASSUME NEW b \in Buckets, NEW i \in DOMAIN entries'[b]
        PROVE  KeyLoc(entries'[b][i].key) = b
    BY <1>6 DEF Housed, at
  <1>8. /\ Objects(entries') = Objects(entries) \cup {e.obj}
        /\ Apart(entries) /\ e.obj \notin Objects(entries) => Apart(entries')
    <2>1. Joined(Buckets, entries, entries', at, e)
      BY <1>3 DEF Joined
    <2> QED BY ONLY <1>1, <1>4, <2>1, ObjectsLonger
  <1> QED BY <1>2, <1>4, <1>5, <1>6, <1>7, <1>8 DEF at

(* What one entry less leaves of the rest.                                  *)
LEMMA SlotsShorter ==
    ASSUME NEW D, NEW s \in [D -> Seq(Entry)], NEW t \in [D -> Seq(Entry)],
           NEW b \in D, LongerAt(D, t, s, b), IsFiniteSet(Slots(s))
    PROVE  /\ IsFiniteSet(Slots(t))
           /\ Cardinality(Slots(t)) = Cardinality(Slots(s)) - 1
  <1>1. Slots(t) \subseteq Slots(s)
    <2>1. \A c \in D : /\ DOMAIN s[c] = 1 .. Len(s[c]) /\ Len(s[c]) \in Nat
                       /\ DOMAIN t[c] = 1 .. Len(t[c]) /\ Len(t[c]) \in Nat
      OBVIOUS
    <2>2. \A c \in D : Len(t[c]) <= Len(s[c])
      BY <2>1 DEF LongerAt
    <2>3. \A c \in D : DOMAIN t[c] \subseteq DOMAIN s[c]
      BY <2>1, <2>2
    <2>4. ASSUME NEW q \in Slots(t) PROVE q \in Slots(s)
      <3>1. q = <<q[1], q[2]>>
        BY SlotsPair
      <3>2. q[1] \in D /\ q[2] \in DOMAIN s[q[1]]
        BY <3>1, <2>3, SlotsMember
      <3> QED BY <3>1, <3>2, SlotsMember
    <2> QED BY <2>4
  <1>2. IsFiniteSet(Slots(t))
    BY <1>1, FS_Subset
  <1>3. Cardinality(Slots(s)) = Cardinality(Slots(t)) + 1
    BY <1>2, SlotsLonger
  <1>4. Cardinality(Slots(t)) \in Nat
    BY <1>2, FS_CardinalityType
  <1> QED BY <1>2, <1>3, <1>4

(* A call that ends the process leaves the table as it is.                  *)
LEMMA TableStops ==
    ASSUME TableInd, NEW call, NEW how \in {"panic", "fault"}, TableStop(call, how),
           how = "fault" =>
               \/ call = <<"deinit">>
               \/ call = <<"next">> /\ iter.stale
               \/ Dangles
    PROVE  TableInd'
  <1> USE DEF TableStop, contents
  <1>1. TableTypeOK'
    BY DEF TableInd, TableTypeOK, Buckets, Size, OldBuckets, OldSize
  <1>2. Housed' /\ Counted' /\ Loaded' /\ Rehashing'
    BY DEF TableInd, Housed, Counted, Loaded, Rehashing, Buckets, Size, KeyLoc,
           OldBuckets, OldSize, Left, Slots
  <1>3. Blamed' /\ IterInside' /\ IterComplete'
    BY DEF TableInd, Blamed, Dangles, IterInside, IterComplete, Buckets, Size
  <1>4. Owned'
    <2>1. Owned /\ callbacks' = callbacks /\ primeIdx' = primeIdx /\ entries' = entries
          /\ rest' = rest /\ due' = due /\ live' = live
      BY DEF TableInd
    <2> QED BY ONLY <2>1 DEF Owned, Dangles
  <1> QED BY <1>1, <1>2, <1>3, <1>4 DEF TableInd

(* So does a call that only answers.                                        *)
LEMMA TableReturns ==
    ASSUME TableInd, TableReady, NEW answer, Returns(answer),
           UNCHANGED <<contents, iter, walk>>
    PROVE  TableInd'
  <1> USE DEF Returns, contents, TableReady
  <1>1. TableTypeOK'
    BY DEF TableInd, TableTypeOK, Buckets, Size, OldBuckets, OldSize
  <1>2. Housed' /\ Counted' /\ Loaded' /\ Rehashing'
    BY DEF TableInd, Housed, Counted, Loaded, Rehashing, Buckets, Size, KeyLoc,
           OldBuckets, OldSize, Left, Slots
  <1>3. Blamed' /\ IterInside' /\ IterComplete'
    BY DEF TableInd, Blamed, Dangles, IterInside, IterComplete, Buckets, Size
  <1>4. Owned'
    <2>1. Owned /\ callbacks' = callbacks /\ primeIdx' = primeIdx /\ entries' = entries
          /\ rest' = rest /\ due' = due /\ live' = live
      BY DEF TableInd
    <2> QED BY ONLY <2>1 DEF Owned, Dangles
  <1> QED BY <1>1, <1>2, <1>3, <1>4 DEF TableInd

-----------------------------------------------------------------------------
(* Inserts                                                                  *)

(* What an insert of the client puts: an entry with an object that no entry *)
(* has, and with copy callbacks one that nothing has.                       *)
LEMMA PutNewEntry ==
    ASSUME NEW k \in Key, NEW v \in Value, PutNew(k, v)
    PROVE  \E e \in Entry :
              /\ e.key = k /\ e.value = v /\ e.mark = "new"
              /\ Put(e) /\ live' = live \cup {e.obj} /\ e.obj \in Spare
  <1>1. PICK o \in Spare :
           /\ Put([key |-> k, value |-> v, obj |-> o, mark |-> "new"])
           /\ live' = live \cup {o}
    BY DEF PutNew
  <1>2. o \in Object
    BY DEF Spare
  <1>3. [key |-> k, value |-> v, obj |-> o, mark |-> "new"] \in Entry
    BY <1>2 DEF Entry
  <1> QED BY <1>1, <1>3

LEMMA SpareObject ==
    ASSUME NEW o \in Spare
    PROVE  /\ o \in Object /\ o \notin Objects(entries) /\ o \notin Objects(rest)
           /\ "copy" \in callbacks => o \notin live
  BY DEF Spare

(* The entry of an insert joins, with no rehash left to do.                 *)
LEMMA JoinKeepsInd ==
    ASSUME TableInd, tableStatus = "run", Left = {}, NEW k \in Key, NEW v \in Value,
           PutNew(k, v), due = {}, pending' = <<>>, NEW answer, Returns(answer),
           UNCHANGED <<primeIdx, rest, due, iter, walk>>,
           primeIdx < Len(HashPrimes) => 10 * population < 7 * Size
    PROVE  TableInd'
  <1>1. PICK e \in Entry : /\ e.key = k /\ e.mark = "new"
                           /\ Put(e) /\ live' = live \cup {e.obj} /\ e.obj \in Spare
    BY PutNewEntry
  <1>2. TableTypeOK /\ Housed /\ Counted /\ Owned /\ Put(e)
    BY <1>1 DEF TableInd
  <1>3. /\ entries' \in [Buckets -> Seq(Entry)]
        /\ population' = population + 1
        /\ IsFiniteSet(Slots(entries')) /\ population' = Cardinality(Slots(entries'))
        /\ \A b \in Buckets :
              /\ DOMAIN entries[b] \subseteq DOMAIN entries'[b]
              /\ \A i \in DOMAIN entries[b] : entries'[b][i] = entries[b][i]
              /\ \A i \in DOMAIN entries'[b] :
                    i \in DOMAIN entries[b] \/ (b = KeyLoc(k) /\ entries'[b][i] = e)
        /\ \A b \in Buckets : \A i \in DOMAIN entries'[b] :
              KeyLoc(entries'[b][i].key) = b
        /\ Objects(entries') = Objects(entries) \cup {e.obj}
        /\ Apart(entries) /\ e.obj \notin Objects(entries) => Apart(entries')
    BY <1>1, <1>2, PutEntries
  <1>4. /\ Buckets' = Buckets /\ OldBuckets' = OldBuckets
        /\ Size' = Size /\ OldSize' = OldSize
    BY DEF Buckets, Size, OldBuckets, OldSize
  <1>5. TableTypeOK'
    <2>1. entries' \in [Buckets' -> Seq(Entry)] /\ rest' \in [OldBuckets' -> Seq(Entry)]
      BY <1>2, <1>3, <1>4 DEF TableTypeOK
    <2>2. population' \in Nat
      BY <1>2, <1>3 DEF TableTypeOK
    <2>3. live' \subseteq Object
      BY <1>1, <1>2, SpareObject DEF TableTypeOK
    <2> QED BY <1>2, <2>1, <2>2, <2>3 DEF TableTypeOK, Returns
  <1>6. Housed'
    BY <1>2, <1>3, <1>4 DEF Housed, KeyLoc
  <1>7. Counted'
    BY <1>2, <1>3 DEF Counted
  <1>8. Loaded'
    BY <1>2, <1>3, <1>4 DEF TableTypeOK, Loaded
  <1>9. Rehashing'
    BY <1>4 DEF Left, Rehashing
  <1>10. Owned'
    <2> DEFINE A == Objects(entries)
               R == Objects(rest)
    <2>1. /\ e.obj \notin A /\ e.obj \notin R
          /\ "copy" \in callbacks => e.obj \notin live
      BY <1>1, SpareObject
    <2>2. Objects(entries') = A \cup {e.obj} /\ Apart(entries') /\ live' = live \cup {e.obj}
      BY <1>1, <1>2, <1>3, <2>1 DEF Owned
    <2>3. /\ R \cap A = {}
          /\ ~Dangles => A \cup R \subseteq live
          /\ callbacks = {"copy", "free"} => live = A \cup R
      BY <1>2 DEF Owned
    <2>4. Objects(rest') = R /\ Apart(rest') /\ due' = {}
      BY <1>2 DEF Owned
    <2>5. callbacks' = callbacks /\ (Dangles' <=> Dangles)
      BY DEF Returns, Dangles
    <2> HIDE DEF A, R
    <2>6. R \cap (Objects(entries') \cup due') = {}
      BY <2>1, <2>2, <2>3, <2>4
    <2>7. ~Dangles => Objects(entries') \cup R \subseteq live'
      BY <2>2, <2>3
    <2>8. callbacks = {"copy", "free"} => live' = Objects(entries') \cup R \cup due'
      BY <2>2, <2>3, <2>4
    <2> QED BY <2>2, <2>4, <2>5, <2>6, <2>7, <2>8 DEF Owned
  <1>11. Blamed' /\ IterInside'
    BY <1>3, <1>4 DEF TableInd, Blamed, Dangles, IterInside, Returns
  <1>12. IterComplete'
    <2> SUFFICES ASSUME walk = "whole" /\ ~iter.stale,
                        NEW b \in Buckets, NEW i \in DOMAIN entries'[b]
                 PROVE  LET ahead == \/ b > iter.bucket
                                     \/ b = iter.bucket /\ iter.next # 0 /\ i >= iter.next
                        IN /\ entries'[b][i].mark = "due"  => ahead
                           /\ entries'[b][i].mark = "seen" => ~ahead
      BY <1>4 DEF IterComplete
    <2>1. CASE i \in DOMAIN entries[b]
      BY <1>3, <2>1 DEF TableInd, IterComplete
    <2>2. CASE entries'[b][i] = e
      BY <2>2, <1>1
    <2> QED BY <1>3, <2>1, <2>2
  <1> QED
    BY <1>5, <1>6, <1>7, <1>8, <1>9, <1>10, <1>11, <1>12 DEF TableInd

LEMMA InsertEndKeepsInd ==
    ASSUME TableInd, TableInsertEnd
    PROVE  TableInd'
  <1>1. TableTypeOK /\ tableStatus = "run" /\ pending # <<>> /\ Left = {} /\ due = {}
    BY DEF TableInd, TableInsertEnd
  <1>2. CASE TableStop(<<"insert", pending[1]>>, "panic")
    BY <1>2, TableStops
  <1>3. CASE /\ PutNew(pending[1], pending[2])
             /\ pending' = <<>>
             /\ Returns(<<"insert", pending[1], pending[2]>>)
             /\ UNCHANGED <<primeIdx, rest, due, iter, walk>>
    <2>1. pending[1] \in Key /\ pending[2] \in Value
      BY <1>1 DEF TableTypeOK
    <2>2. 10 * population < 7 * Size
      <3>1. Cardinality(Slots(rest)) \in Nat
        BY FS_CardinalityType DEF TableInd, Counted
      <3>2. 10 * (population + Cardinality(Slots(rest))) < 7 * Size
        BY <1>1 DEF TableInd, Loaded
      <3> QED BY <3>1, <3>2, <1>1, SizeNat DEF TableTypeOK
    <2> QED BY <1>1, <1>3, <2>1, <2>2, JoinKeepsInd
  <1> QED BY <1>2, <1>3 DEF TableInsertEnd

LEMMA MarkedEntry ==
    ASSUME NEW e \in Entry, NEW m \in {"due", "seen", "new"},
           NEW f, f = [e EXCEPT !.mark = m]
    PROVE  /\ f \in Entry
           /\ f.key = e.key /\ f.value = e.value /\ f.obj = e.obj /\ f.mark = m
  BY DEF Entry

(* A longer vector of lists takes the place of the old one.                 *)
LEMMA MarkedLists ==
    ASSUME NEW D, NEW lists \in [D -> Seq(Entry)], NEW m \in {"due", "seen", "new"},
           NEW marked, marked = Marked(lists, m)
    PROVE  /\ marked \in [D -> Seq(Entry)]
           /\ \A b \in D :
                 /\ DOMAIN marked[b] = DOMAIN lists[b]
                 /\ \A i \in DOMAIN lists[b] :
                       /\ marked[b][i].key = lists[b][i].key
                       /\ marked[b][i].value = lists[b][i].value
                       /\ marked[b][i].obj = lists[b][i].obj
                       /\ marked[b][i].mark = m
           /\ Slots(marked) = Slots(lists)
           /\ Objects(marked) = Objects(lists) /\ (Apart(lists) => Apart(marked))
  <1>1. /\ DOMAIN marked = D
        /\ marked = [b \in D |-> marked[b]]
        /\ \A b \in D : marked[b] =
              [i \in DOMAIN lists[b] |-> [lists[b][i] EXCEPT !.mark = m]]
    BY DEF Marked
  <1>2. ASSUME NEW b \in D
        PROVE  /\ marked[b] \in Seq(Entry)
               /\ DOMAIN marked[b] = DOMAIN lists[b]
               /\ \A i \in DOMAIN lists[b] :
                     /\ marked[b][i].key = lists[b][i].key
                     /\ marked[b][i].value = lists[b][i].value
                     /\ marked[b][i].obj = lists[b][i].obj
                     /\ marked[b][i].mark = m
    <2> DEFINE s == lists[b]
               t == [i \in 1 .. Len(s) |-> [s[i] EXCEPT !.mark = m]]
    <2>1. s \in Seq(Entry) /\ Len(s) \in Nat /\ DOMAIN s = 1 .. Len(s)
      OBVIOUS
    <2>2. marked[b] = t
      BY <1>1, <2>1
    <2>3. ASSUME NEW i \in 1 .. Len(s)
          PROVE  /\ [s[i] EXCEPT !.mark = m] \in Entry
                 /\ t[i].key = s[i].key /\ t[i].value = s[i].value
                 /\ t[i].obj = s[i].obj /\ t[i].mark = m
      <3>1. s[i] \in Entry
        BY <2>1
      <3>2. t[i] = [s[i] EXCEPT !.mark = m]
        BY <2>1
      <3> HIDE DEF s, t
      <3> QED BY <3>1, <3>2, MarkedEntry
    <2>4. t \in Seq(Entry) /\ DOMAIN t = 1 .. Len(s)
      <3> HIDE DEF s
      <3> QED BY <2>1, <2>3, IsASeq
    <2> QED BY <2>1, <2>2, <2>3, <2>4
  <1>3. marked \in [D -> Seq(Entry)]
    BY <1>1, <1>2
  <1>4. Slots(marked) = Slots(lists)
    BY <1>1, <1>2, SlotsSame
  <1>5. Objects(marked) = Objects(lists) /\ (Apart(lists) => Apart(marked))
    <2>1. \A b \in D : /\ DOMAIN marked[b] = DOMAIN lists[b]
                       /\ \A i \in DOMAIN lists[b] : marked[b][i].obj = lists[b][i].obj
      BY <1>2
    <2>2. DOMAIN lists = D /\ DOMAIN marked = D
      BY <1>1
    <2> QED BY ONLY <2>1, <2>2, ObjectsSame
  <1> QED BY <1>2, <1>3, <1>4, <1>5

LEMMA GrowKeepsInd ==
    ASSUME TableInd, TableReady, NEW k \in Key, NEW v \in Value,
           Full, primeIdx < Len(HashPrimes),
           primeIdx' = primeIdx + 1,
           entries' = [b \in 0 .. HashPrimes[primeIdx + 1] - 1 |-> <<>>],
           population' = 0, rest' = Marked(entries, "new"), pending' = <<k, v>>,
           iter' = [iter EXCEPT !.stale = @ \/ iter.next # 0],
           walk' = "broken", NEW answer, Returns(answer), UNCHANGED <<live, due>>
    PROVE  TableInd'
  <1>1. /\ TableTypeOK /\ Housed /\ Counted /\ Loaded /\ Owned /\ due = {}
        /\ tableStatus = "run" /\ tableStatus' = "run" /\ callbacks' = callbacks
    BY DEF TableInd, TableReady, Rehashing, Returns
  <1>2. /\ Size \in Nat \ {0} /\ population \in Nat /\ entries \in [Buckets -> Seq(Entry)]
        /\ HashPrimes[primeIdx + 1] \in Nat \ {0}
        /\ HashPrimes[primeIdx + 1] >= Size + 2
        /\ primeIdx \in 1 .. Len(HashPrimes) /\ Len(HashPrimes) \in Nat
    <2>1. primeIdx \in 1 .. Len(HashPrimes) /\ Len(HashPrimes) \in Nat
      BY SMTT(30), <1>1, TableAssumption DEF TableTypeOK
    <2> QED BY <1>1, <2>1, SizeNat DEF TableTypeOK
  <1>3. /\ OldSize' = Size /\ OldBuckets' = Buckets
        /\ Size' = HashPrimes[primeIdx + 1]
        /\ Buckets' = 0 .. HashPrimes[primeIdx + 1] - 1
    BY <1>2 DEF OldSize, OldBuckets, Size, Buckets
  <1>4. /\ rest' \in [Buckets -> Seq(Entry)]
        /\ \A b \in Buckets :
              /\ DOMAIN rest'[b] = DOMAIN entries[b]
              /\ \A i \in DOMAIN entries[b] :
                    /\ rest'[b][i].key = entries[b][i].key
                    /\ rest'[b][i].obj = entries[b][i].obj
                    /\ rest'[b][i].mark = "new"
        /\ Slots(rest') = Slots(entries)
        /\ Objects(rest') = Objects(entries) /\ (Apart(entries) => Apart(rest'))
    BY <1>2, MarkedLists
  <1>5. /\ \A b \in Buckets' : entries'[b] = <<>> /\ DOMAIN entries'[b] = {}
        /\ DOMAIN entries' = Buckets' /\ entries' \in [Buckets' -> Seq(Entry)]
    BY <1>3
  <1>6. Slots(entries') = {}
    BY <1>5, SlotsEmpty
  <1>8. TableTypeOK'
    <2>1. primeIdx' \in DOMAIN HashPrimes
      BY <1>2, TableAssumption
    <2>2. iter' \in [bucket : Nat, next : Nat, stale : BOOLEAN]
      BY <1>1 DEF TableTypeOK
    <2>3. pending' \in (Key \X Value) \cup {<<>>}
      OBVIOUS
    <2>4. rest' \in [OldBuckets' -> Seq(Entry)]
      BY <1>3, <1>4
    <2> QED BY <1>1, <1>5, <2>1, <2>2, <2>3, <2>4 DEF TableTypeOK
  <1>9. Housed'
    <2>1. \A b \in Buckets : \A i \in DOMAIN entries[b] :
             HashFunc[entries[b][i].key] % Size = b
      BY <1>1 DEF Housed, KeyLoc
    <2>2. \A b \in Buckets : \A i \in DOMAIN rest'[b] :
             HashFunc[rest'[b][i].key] % Size = b
      <3>1. ASSUME NEW b \in Buckets, NEW i \in DOMAIN rest'[b]
            PROVE  HashFunc[rest'[b][i].key] % Size = b
        <4>1. i \in DOMAIN entries[b] /\ rest'[b][i].key = entries[b][i].key
          BY ONLY <1>4, <3>1
        <4> QED BY ONLY <2>1, <3>1, <4>1
      <3> QED BY ONLY <3>1
    <2> QED BY <2>2, <1>3, <1>5 DEF Housed
  <1>10. Counted'
    BY <1>1, <1>4, <1>6, FS_EmptySet DEF Counted
  <1>11. Loaded'
    <2>1. 10 * (population - 1) < 7 * Size
      BY <1>1 DEF Loaded
    <2>2. population = Cardinality(Slots(rest'))
      BY <1>1, <1>4 DEF Counted
    <2> QED BY SMTT(30), <1>2, <1>3, <2>1, <2>2 DEF Loaded
  <1>12. Rehashing' /\ Blamed'
    BY <1>1, <1>2 DEF TableInd, Rehashing, Blamed
  <1>14. Owned'
    <2>1. Objects(entries') = {} /\ Apart(entries')
      BY <1>5, ObjectsNone
    <2>2. Apart(rest') /\ Objects(rest') = Objects(entries)
      BY <1>1, <1>4 DEF Owned
    <2>3. ~Dangles' => ~Dangles
      BY <1>1, <1>2 DEF Dangles
    <2>4. Objects(rest) = {}
      <3>1. \A b \in DOMAIN rest : rest[b] = <<>>
        BY <1>1 DEF TableInd, Rehashing, TableReady, Left, TableTypeOK
      <3> QED BY <3>1, ObjectsNone
    <2>5. /\ ~Dangles => Objects(entries) \subseteq live
          /\ callbacks = {"copy", "free"} => live = Objects(entries)
      BY <1>1, <2>4 DEF Owned
    <2> QED BY <1>1, <2>1, <2>2, <2>3, <2>5 DEF Owned
  <1>13. IterInside' /\ IterComplete'
    BY <1>1 DEF TableInd, TableTypeOK, IterInside, IterComplete
  <1> QED BY <1>8, <1>9, <1>10, <1>11, <1>12, <1>13, <1>14 DEF TableInd

LEMMA InsertKeepsInd ==
    ASSUME TableInd, NEW k \in Key, NEW v \in Value, TableInsert(k, v)
    PROVE  TableInd'
  <1>1. /\ TableTypeOK /\ tableStatus = "run" /\ pending = <<>> /\ Left = {} /\ due = {}
        /\ TableReady
    BY DEF TableInd, TableInsert, TableReady, Rehashing
  <1>2. CASE TableStop(<<"insert", k>>, "panic")
    BY <1>2, TableStops
  <1>3. CASE /\ Full /\ primeIdx < Len(HashPrimes)
             /\ primeIdx' = primeIdx + 1
             /\ entries' = [b \in 0 .. HashPrimes[primeIdx + 1] - 1 |-> <<>>]
             /\ population' = 0
             /\ rest' = Marked(entries, "new")
             /\ pending' = <<k, v>>
             /\ iter' = [iter EXCEPT !.stale = @ \/ iter.next # 0]
             /\ walk' = "broken"
             /\ Returns(<<"grow", k, v>>)
             /\ UNCHANGED <<live, due>>
    BY <1>1, <1>3, GrowKeepsInd
  <1>4. CASE /\ ~ (Full /\ primeIdx < Len(HashPrimes))
             /\ PutNew(k, v)
             /\ Returns(<<"insert", k, v>>)
             /\ UNCHANGED <<primeIdx, rest, due, pending, iter, walk>>
    <2>1. primeIdx < Len(HashPrimes) => 10 * population < 7 * Size
      BY <1>1, <1>4, SizeNat DEF Full, TableTypeOK
    <2> QED BY <1>1, <1>4, <2>1, JoinKeepsInd
  <1> QED BY <1>2, <1>3, <1>4 DEF TableInsert

-----------------------------------------------------------------------------
(* A turn of the rehash: one entry less in the old lists, one more in the   *)
(* new ones.                                                                *)
LEMMA RestAfterTurn ==
    ASSUME TableTypeOK, Housed, IsFiniteSet(Slots(rest)), Apart(rest), NEW b \in Left,
           rest' = [rest EXCEPT ![b] = Tail(@)]
    PROVE  /\ b \in OldBuckets /\ 1 \in DOMAIN rest[b]
           /\ Head(rest[b]) = rest[b][1] /\ rest[b][1] \in Entry
           /\ rest' \in [OldBuckets -> Seq(Entry)]
           /\ IsFiniteSet(Slots(rest'))
           /\ Cardinality(Slots(rest')) = Cardinality(Slots(rest)) - 1
           /\ \A c \in OldBuckets : \A i \in DOMAIN rest'[c] :
                 \E j \in DOMAIN rest[c] : rest'[c][i] = rest[c][j]
           /\ Objects(rest') = Objects(rest) \ {rest[b][1].obj}
           /\ rest[b][1].obj \in Objects(rest) /\ Apart(rest')
  <1>1. b \in OldBuckets /\ rest[b] # <<>> /\ rest \in [OldBuckets -> Seq(Entry)]
    BY DEF Left, TableTypeOK
  <1>2. /\ rest[b] \in Seq(Entry) /\ rest'[b] = Tail(rest[b])
        /\ \A c \in OldBuckets : c # b => rest'[c] = rest[c]
    BY <1>1
  <1> DEFINE s == rest[b]
             t == rest'[b]
  <1>3. /\ Len(s) \in Nat \ {0} /\ DOMAIN s = 1 .. Len(s)
        /\ t \in Seq(Entry) /\ Len(t) = Len(s) - 1 /\ DOMAIN t = 1 .. Len(s) - 1
        /\ \A i \in 1 .. Len(s) - 1 : t[i] = s[i + 1]
        /\ Head(s) = s[1]
    <2>1. s \in Seq(Entry) /\ s # <<>> /\ t = Tail(s)
      BY <1>1, <1>2
    <2> HIDE DEF s, t
    <2> QED BY <2>1
  <1> HIDE DEF s, t
  <1>4. rest' \in [OldBuckets -> Seq(Entry)]
    BY <1>1, <1>3 DEF t
  <1>5. LongerAt(OldBuckets, rest', rest, b)
    <2>1. Len(s) = Len(t) + 1
      BY <1>3
    <2> QED BY <2>1, <1>2 DEF LongerAt, s, t
  <1>6. /\ IsFiniteSet(Slots(rest'))
        /\ Cardinality(Slots(rest')) = Cardinality(Slots(rest)) - 1
    <2>1. IsFiniteSet(Slots(rest))
      OBVIOUS
    <2> QED BY ONLY <2>1, <1>1, <1>4, <1>5, SlotsShorter
  <1>7. ASSUME NEW c \in OldBuckets, NEW i \in DOMAIN rest'[c]
        PROVE  \E j \in DOMAIN rest[c] : rest'[c][i] = rest[c][j]
    <2>1. CASE c # b
      BY <2>1, <1>2
    <2>2. CASE c = b
      <3>1. i \in 1 .. Len(s) - 1
        BY <2>2, <1>3 DEF t
      <3>2. i + 1 \in DOMAIN s /\ t[i] = s[i + 1]
        BY <3>1, <1>3
      <3> QED BY <3>2, <2>2 DEF s, t
    <2> QED BY <2>1, <2>2
  <1>8. 1 \in DOMAIN rest[b] /\ rest[b][1] \in Entry
    <2>1. 1 \in DOMAIN s
      BY <1>3
    <2> QED BY <2>1, <1>2 DEF s
  <1>9. Head(rest[b]) = rest[b][1]
    BY <1>3 DEF s
  <1>10. /\ Objects(rest') = Objects(rest) \ {rest[b][1].obj}
         /\ Apart(rest')
    <2>1. /\ DOMAIN rest'[b] = 1 .. Len(rest[b]) - 1
          /\ \A i \in DOMAIN rest'[b] :
                rest'[b][i] = IF i < 1 THEN rest[b][i] ELSE rest[b][i + 1]
      BY <1>3 DEF s, t
    <2>2. Without(OldBuckets, rest, rest', b, 1)
      BY <1>2, <2>1 DEF Without
    <2>3. Apart(rest) /\ 1 \in DOMAIN rest[b]
      BY <1>8
    <2> QED BY ONLY <1>1, <1>4, <2>2, <2>3, ObjectsShorter
  <1>11. rest[b][1].obj \in Objects(rest)
    BY <1>1, <1>8, ObjectsMember
  <1> QED BY <1>1, <1>4, <1>6, <1>7, <1>8, <1>9, <1>10, <1>11

(* The entry a rehash inserts: the old one, or with copy callbacks the old  *)
(* one with an object of its own.                                           *)
LEMMA PutOldEntry ==
    ASSUME TableTypeOK, NEW old \in Entry, PutOld(old)
    PROVE  \E e \in Entry :
              /\ e.key = old.key /\ e.value = old.value /\ e.mark = old.mark /\ Put(e)
              /\ "copy" \notin callbacks => e.obj = old.obj /\ live' = live
              /\ "copy" \in callbacks => e.obj \in Spare /\ live' = live \cup {e.obj}
  <1>1. Copied = {} <=> "copy" \notin callbacks
    BY Words DEF TableTypeOK
  <1>2. CASE Copied = {}
    BY <1>1, <1>2 DEF PutOld
  <1>3. CASE Copied # {}
    <2>1. PICK o \in Spare : Put([old EXCEPT !.obj = o]) /\ live' = live \cup {o}
      BY <1>3 DEF PutOld
    <2>2. o \in Object
      BY SpareObject
    <2> DEFINE e == [old EXCEPT !.obj = o]
    <2>3. /\ e \in Entry /\ e.key = old.key /\ e.value = old.value
          /\ e.mark = old.mark /\ e.obj = o
      BY <2>2 DEF Entry
    <2>4. Put(e)
      BY <2>1
    <2> HIDE DEF e
    <2> QED BY <1>1, <1>3, <2>1, <2>3, <2>4
  <1> QED BY <1>2, <1>3

(* A turn moves the object of the entry, or a copy of it, to the new lists. *)
LEMMA TurnOwns ==
    ASSUME TableTypeOK, Owned, due = {}, primeIdx # 1, NEW e \in Entry, NEW x \in live,
           "copy" \notin callbacks => e.obj = x /\ live' = live,
           "copy" \in callbacks => e.obj \in Spare /\ live' = live \cup {e.obj},
           x \in Objects(rest), Objects(rest') = Objects(rest) \ {x}, Apart(rest'),
           Objects(entries') = Objects(entries) \cup {e.obj},
           e.obj \notin Objects(entries) => Apart(entries'),
           due' = {x}, callbacks' = callbacks, primeIdx' = primeIdx
    PROVE  Owned'
  <1> DEFINE A == Objects(entries)
             R == Objects(rest)
             c == callbacks = {"copy", "free"}
             d == callbacks = {"free"}
             y == e.obj
             B == Objects(entries')
             S == Objects(rest')
             w == "copy" \in callbacks
  <1>1. /\ w => y \notin A /\ y \notin R /\ y \notin live /\ live' = live \cup {y}
        /\ ~w => y = x /\ live' = live
        /\ c => w
        /\ d => ~w
    BY SpareObject, Words DEF TableTypeOK
  <1>2. /\ R \cap A = {} /\ (~d => A \cup R \subseteq live) /\ (c => live = A \cup R)
    BY DEF Owned, Dangles
  <1>3. y \notin A
    BY <1>1, <1>2
  <1>4. Apart(entries') /\ Apart(rest')
    BY <1>3
  <1>5. S = R \ {x} /\ B = A \cup {y} /\ x \in R /\ x \in live /\ due' = {x}
    OBVIOUS
  <1> HIDE DEF A, R, c, d, y, B, S, w
  <1>6. S \cap (B \cup due') = {}
    BY <1>1, <1>2, <1>5
  <1>7. due' \subseteq live'
    BY <1>1, <1>5
  <1>8. ~d => B \cup S \subseteq live'
    BY <1>1, <1>2, <1>5
  <1>9. c => due' \cap B = {}
    BY <1>1, <1>2, <1>5
  <1>10. c => live' = B \cup S \cup due'
    <2>1. c => live' = (A \cup R) \cup {y}
      BY <1>1, <1>2
    <2> QED BY <2>1, <1>5
  <1> QED BY <1>4, <1>6, <1>7, <1>8, <1>9, <1>10 DEF Owned, Dangles, B, S, c, d

LEMMA RehashKeepsInd ==
    ASSUME TableInd, TableRehash
    PROVE  TableInd'
  <1>1. PICK b \in Left :
           LET old == Head(rest[b]) IN
           /\ tableStatus = "run" /\ due = {}
           /\ \/ /\ old.obj \in live
                 /\ PutOld(old)
                 /\ rest' = [rest EXCEPT ![b] = Tail(@)]
                 /\ due' = {old.obj}
                 /\ UNCHANGED <<callbacks, primeIdx, pending, iter, tableAnswer, tableStatus, walk>>
              \/ old.obj \notin live /\ TableStop(<<"rehash">>, "fault")
              \/ old.obj \in live /\ TableStop(<<"rehash">>, "panic")
    BY DEF TableRehash
  <1> DEFINE old == Head(rest[b])
  <1>2. /\ TableTypeOK /\ Housed /\ Counted /\ Owned /\ IsFiniteSet(Slots(rest)) /\ Apart(rest)
        /\ tableStatus = "run" /\ pending # <<>> /\ walk = "broken" /\ due = {}
        /\ primeIdx # 1
    BY <1>1 DEF TableInd, Rehashing, Counted, Owned
  <1>3. CASE old.obj \notin live /\ TableStop(<<"rehash">>, "fault")
    <2>1. b \in OldBuckets /\ 1 \in DOMAIN rest[b] /\ old = rest[b][1] /\ DOMAIN rest = OldBuckets
      BY <1>2 DEF Left, TableTypeOK
    <2>2. old.obj \in Objects(rest)
      BY <2>1, ObjectsMember
    <2>3. Dangles
      BY <1>2, <1>3, <2>2 DEF Owned
    <2> QED BY <1>3, <2>3, TableStops
  <1>4. CASE TableStop(<<"rehash">>, "panic")
    BY <1>4, TableStops
  <1>5. CASE /\ old.obj \in live
             /\ PutOld(old)
             /\ rest' = [rest EXCEPT ![b] = Tail(@)]
             /\ due' = {old.obj}
             /\ UNCHANGED <<callbacks, primeIdx, pending, iter, tableAnswer, tableStatus, walk>>
    <2>1. /\ b \in OldBuckets /\ 1 \in DOMAIN rest[b]
          /\ old = rest[b][1] /\ old \in Entry
          /\ rest' \in [OldBuckets -> Seq(Entry)]
          /\ IsFiniteSet(Slots(rest'))
          /\ Cardinality(Slots(rest')) = Cardinality(Slots(rest)) - 1
          /\ \A c \in OldBuckets : \A i \in DOMAIN rest'[c] :
                \E j \in DOMAIN rest[c] : rest'[c][i] = rest[c][j]
          /\ Objects(rest') = Objects(rest) \ {old.obj}
          /\ old.obj \in Objects(rest) /\ Apart(rest')
      BY <1>2, <1>5, RestAfterTurn
    <2> HIDE DEF old
    <2>0. PICK e \in Entry :
             /\ e.key = old.key /\ Put(e)
             /\ "copy" \notin callbacks => e.obj = old.obj /\ live' = live
             /\ "copy" \in callbacks => e.obj \in Spare /\ live' = live \cup {e.obj}
      BY <1>2, <1>5, <2>1, PutOldEntry
    <2>2. old.key \in Key /\ e.obj \in Object
      BY <2>1 DEF Entry
    <2>3. /\ entries' \in [Buckets -> Seq(Entry)]
          /\ population' = population + 1
          /\ IsFiniteSet(Slots(entries')) /\ population' = Cardinality(Slots(entries'))
          /\ \A c \in Buckets :
                /\ DOMAIN entries[c] \subseteq DOMAIN entries'[c]
                /\ \A i \in DOMAIN entries[c] : entries'[c][i] = entries[c][i]
                /\ \A i \in DOMAIN entries'[c] :
                      i \in DOMAIN entries[c] \/ (c = KeyLoc(old.key) /\ entries'[c][i] = e)
          /\ \A c \in Buckets : \A i \in DOMAIN entries'[c] :
                KeyLoc(entries'[c][i].key) = c
          /\ Objects(entries') = Objects(entries) \cup {e.obj}
          /\ Apart(entries) /\ e.obj \notin Objects(entries) => Apart(entries')
      BY <1>2, <1>5, <2>0, <2>2, PutEntries
    <2>4. /\ Buckets' = Buckets /\ OldBuckets' = OldBuckets
          /\ Size' = Size /\ OldSize' = OldSize
      BY <1>5 DEF Buckets, Size, OldBuckets, OldSize
    <2>5. TableTypeOK'
      <3>1. entries' \in [Buckets' -> Seq(Entry)] /\ rest' \in [OldBuckets' -> Seq(Entry)]
        BY <2>1, <2>3, <2>4
      <3>2. population' \in Nat
        BY <1>2, <2>3 DEF TableTypeOK
      <3>3. live' \subseteq Object /\ due' \subseteq Object
        <4>1. live \subseteq Object
          BY <1>2 DEF TableTypeOK
        <4>2. due' \subseteq Object
          BY <4>1, <1>5
        <4> QED BY <4>1, <4>2, <2>0, <2>2
      <3> QED BY <1>2, <1>5, <3>1, <3>2, <3>3 DEF TableTypeOK
    <2>6. Housed'
      <3>1. \A c \in Buckets' : \A i \in DOMAIN entries'[c] :
               HashFunc[entries'[c][i].key] % Size' = c
        BY <2>3, <2>4 DEF KeyLoc
      <3>2. \A c \in OldBuckets' : \A i \in DOMAIN rest'[c] :
               HashFunc[rest'[c][i].key] % OldSize' = c
        BY <1>2, <2>1, <2>4 DEF Housed
      <3> QED BY <3>1, <3>2 DEF Housed, KeyLoc
    <2>7. Counted'
      BY <2>1, <2>3 DEF Counted
    <2>8. Loaded'
      <3>1. Cardinality(Slots(rest)) \in Nat \ {0} /\ population \in Nat
        <4>1. <<b, 1>> \in Slots(rest)
          BY <1>2, <2>1, SlotsMember DEF TableTypeOK
        <4> QED BY <1>2, <4>1, FS_CardinalityType, FS_EmptySet DEF TableTypeOK
      <3>2. 10 * (population + Cardinality(Slots(rest))) < 7 * Size
        BY <1>2 DEF TableInd, Loaded
      <3>3. population' + Cardinality(Slots(rest')) = population + Cardinality(Slots(rest))
        <4>1. /\ population' = population + 1
              /\ Cardinality(Slots(rest')) = Cardinality(Slots(rest)) - 1
          BY <2>1, <2>3
        <4> QED BY ONLY <3>1, <4>1
      <3>4. Size \in Nat
        BY <1>2, SizeNat DEF TableTypeOK
      <3>5. 10 * (population' - 1) < 7 * Size'
        BY <3>1, <3>2, <3>4, <2>3, <2>4
      <3> QED BY <3>2, <3>3, <3>5, <2>4 DEF Loaded
    <2>9. Rehashing'
      BY <1>2, <1>5 DEF Rehashing
    <2>10. Owned'
      <3>1. old.obj \in live /\ due' = {old.obj} /\ callbacks' = callbacks /\ primeIdx' = primeIdx
        BY <1>5
      <3>2. e.obj \notin Objects(entries) => Apart(entries')
        BY <1>2, <2>3 DEF Owned
      <3>3. Objects(entries') = Objects(entries) \cup {e.obj}
        BY <2>3
      <3> QED BY <1>2, <2>0, <2>1, <3>1, <3>2, <3>3, TurnOwns
    <2>11. Blamed' /\ IterInside' /\ IterComplete'
      BY <1>2, <1>5, <2>3, <2>4 DEF TableInd, Blamed, Dangles, IterInside, IterComplete
    <2> QED
      BY <2>5, <2>6, <2>7, <2>8, <2>9, <2>10, <2>11 DEF TableInd
  <1> QED BY <1>1, <1>3, <1>4, <1>5

(* What a turn frees is no object of an entry, unless the table dangles.    *)
LEMMA FreeKeepsInd ==
    ASSUME TableInd, RehashFree
    PROVE  TableInd'
  <1>1. /\ TableTypeOK /\ Owned /\ Rehashing /\ tableStatus = "run" /\ due # {}
        /\ pending # <<>> /\ primeIdx # 1 /\ due' = {}
        /\ "free" \in callbacks => live' = live \ due
        /\ "free" \notin callbacks => live' = live
        /\ UNCHANGED <<callbacks, primeIdx, entries, population, rest, pending, iter,
                       tableAnswer, tableStatus, walk>>
    BY DEF TableInd, Rehashing, RehashFree
  <1>2. /\ Buckets' = Buckets /\ OldBuckets' = OldBuckets
        /\ Size' = Size /\ OldSize' = OldSize
    BY <1>1 DEF Buckets, Size, OldBuckets, OldSize
  <1>3. TableTypeOK'
    <2>1. live' \subseteq Object /\ due' \subseteq Object
      BY <1>1 DEF TableTypeOK
    <2> QED BY <1>1, <1>2, <2>1 DEF TableTypeOK
  <1>4. Housed' /\ Counted' /\ Loaded'
    BY <1>1, <1>2 DEF TableInd, Housed, KeyLoc, Counted, Loaded, Slots
  <1>5. Rehashing'
    BY <1>1 DEF Rehashing
  <1>6. Blamed' /\ IterInside' /\ IterComplete'
    BY <1>1, <1>2 DEF TableInd, Blamed, Dangles, IterInside, IterComplete
  <1>7. Owned'
    <2> DEFINE A == Objects(entries)
               R == Objects(rest)
               c == callbacks = {"copy", "free"}
               d == callbacks = {"free"}
               f == "free" \in callbacks
    <2>1. (c => f) /\ (~c /\ ~d => ~f)
      BY <1>1, Words DEF TableTypeOK
    <2>2. /\ R \cap (A \cup due) = {} /\ (~d => A \cup R \subseteq live)
          /\ c => live = A \cup R \cup due /\ due \cap A = {}
          /\ c => ~d
      BY <1>1, Words DEF Owned, Dangles, TableTypeOK
    <2>3. /\ Objects(entries') = A /\ Objects(rest') = R /\ Apart(entries') /\ Apart(rest')
      BY <1>1 DEF Owned
    <2>4. (f => live' = live \ due) /\ (~f => live' = live) /\ due' = {}
      BY <1>1
    <2> HIDE DEF A, R, c, d, f
    <2>5. c => live' = A \cup R
      <3>1. c => live' = (A \cup R \cup due) \ due
        BY <2>1, <2>2, <2>4
      <3> QED BY <3>1, <2>2
    <2>6. ~d => A \cup R \subseteq live'
      BY <2>1, <2>2, <2>4, <2>5
    <2> QED BY <1>1, <2>3, <2>4, <2>5, <2>6 DEF Owned, Dangles, c, d
  <1> QED BY <1>3, <1>4, <1>5, <1>6, <1>7 DEF TableInd

-----------------------------------------------------------------------------
(* Reads and removes                                                        *)

(* A set of natural numbers that is not empty has a least one.              *)
LEMMA LeastNat ==
    ASSUME NEW T, T \subseteq Nat, T # {}
    PROVE  \E n \in T : \A m \in T : n <= m
  <1> DEFINE R == OpToRel(<, Nat)
  <1>1. IsWellFoundedOn(R, Nat)
    BY NatLessThanWellFounded
  <1>2. PICK n \in T : \A m \in T : <<m, n>> \notin R
    <2> HIDE DEF R
    <2> QED BY <1>1, WFMin
  <1>3. \A m \in T : ~ (m < n)
    BY <1>2 DEF OpToRel
  <1> QED BY <1>3

LEMMA FoundFirst ==
    ASSUME TableTypeOK, NEW k \in Key
    PROVE  /\ Matches(k) = {} <=> Found(k) = 0
           /\ Found(k) # 0 => Found(k) \in Matches(k)
           /\ \A j \in Matches(k) : Found(k) <= j
  <1>1. Bucket(k) \in Seq(Entry)
    BY SizeNat DEF TableTypeOK, Bucket
  <1>2. Matches(k) \subseteq Nat \ {0}
    BY <1>1 DEF Matches
  <1>3. Matches(k) # {} =>
           \E i \in Matches(k) : \A j \in Matches(k) : i <= j
    BY <1>2, LeastNat
  <1> QED BY <1>2, <1>3 DEF Found

(* Only a table that dangles has freed objects to read.                     *)
LEMMA ReadsBlame ==
    ASSUME TableInd, NEW k \in Key, ReadsFreed(k)
    PROVE  Dangles
  <1>1. TableTypeOK /\ Owned
    BY DEF TableInd
  <1>2. KeyLoc(k) \in DOMAIN entries
    BY <1>1, SizeNat DEF TableTypeOK
  <1>3. PICK i \in DOMAIN entries[KeyLoc(k)] : entries[KeyLoc(k)][i].obj \notin live
    BY DEF ReadsFreed, Bucket
  <1>4. entries[KeyLoc(k)][i].obj \in Objects(entries)
    BY <1>2, ObjectsMember
  <1> QED BY <1>1, <1>3, <1>4 DEF Owned

LEMMA GetKeepsInd ==
    ASSUME TableInd, NEW k \in Key, TableGet(k)
    PROVE  TableInd'
  <1>1. CASE ReadsFreed(k)
    BY <1>1, ReadsBlame, TableStops DEF TableGet
  <1>2. CASE ~ReadsFreed(k)
    BY <1>2, TableReturns DEF TableGet
  <1> QED BY <1>1, <1>2

LEMMA WithoutEntry ==
    ASSUME NEW s \in Seq(Entry), NEW n \in DOMAIN s
    PROVE  /\ RemoveAt(s, n) \in Seq(Entry)
           /\ Len(s) = Len(RemoveAt(s, n)) + 1
           /\ DOMAIN RemoveAt(s, n) = 1 .. Len(s) - 1
           /\ \A i \in DOMAIN RemoveAt(s, n) :
                 RemoveAt(s, n)[i] = IF i < n THEN s[i] ELSE s[i + 1]
  <1>1. n \in 1 .. Len(s) /\ Len(s) \in Nat /\ DOMAIN s = 1 .. Len(s)
    OBVIOUS
  <1>2. /\ SubSeq(s, 1, n - 1) \in Seq(Entry) /\ Len(SubSeq(s, 1, n - 1)) = n - 1
        /\ \A i \in 1 .. n - 1 : SubSeq(s, 1, n - 1)[i] = s[i]
    BY <1>1
  <1>3. /\ SubSeq(s, n + 1, Len(s)) \in Seq(Entry)
        /\ Len(SubSeq(s, n + 1, Len(s))) = Len(s) - n
        /\ \A i \in 1 .. Len(s) - n : SubSeq(s, n + 1, Len(s))[i] = s[n + i]
    BY <1>1
  <1> DEFINE u == SubSeq(s, 1, n - 1)
             v == SubSeq(s, n + 1, Len(s))
  <1>4. RemoveAt(s, n) = u \o v
    BY DEF RemoveAt
  <1> HIDE DEF u, v
  <1>5. /\ u \o v \in Seq(Entry) /\ Len(u \o v) = Len(s) - 1
        /\ DOMAIN (u \o v) = 1 .. Len(s) - 1
    <2>1. u \in Seq(Entry) /\ v \in Seq(Entry) /\ Len(u) = n - 1 /\ Len(v) = Len(s) - n
      BY <1>2, <1>3 DEF u, v
    <2>2. u \o v \in Seq(Entry) /\ Len(u \o v) = Len(u) + Len(v)
      BY ONLY <2>1, ConcatProperties
    <2>3. Len(u \o v) = Len(s) - 1
      BY <1>1, <2>1, <2>2
    <2> QED BY <2>2, <2>3
  <1>6. ASSUME NEW i \in 1 .. Len(s) - 1
        PROVE  (u \o v)[i] = IF i < n THEN s[i] ELSE s[i + 1]
    <2>1. u \in Seq(Entry) /\ v \in Seq(Entry) /\ Len(u) = n - 1 /\ Len(v) = Len(s) - n
      BY <1>2, <1>3 DEF u, v
    <2>2. CASE i < n
      <3>1. (u \o v)[i] = u[i]
        BY <1>1, <2>1, <2>2
      <3> QED BY <3>1, <1>1, <1>2, <2>2 DEF u
    <2>3. CASE ~ (i < n)
      <3>1. (u \o v)[i] = v[i - (n - 1)]
        BY <1>1, <2>1, <2>3
      <3>2. v[i - (n - 1)] = s[n + (i - (n - 1))]
        BY SMTT(30), <1>1, <1>3, <2>3 DEF v
      <3>3. n + (i - (n - 1)) = i + 1
        BY <1>1
      <3> QED BY <3>1, <3>2, <3>3, <2>3
    <2> QED BY <2>2, <2>3
  <1>7. Len(s) = (Len(s) - 1) + 1
    BY <1>1
  <1> QED BY <1>4, <1>5, <1>6, <1>7

LEMMA RemoveKeepsInd ==
    ASSUME TableInd, NEW k \in Key, TableRemove(k)
    PROVE  TableInd'
  <1>1. CASE ReadsFreed(k)
    BY <1>1, ReadsBlame, TableStops DEF TableRemove
  <1>2. CASE ~ReadsFreed(k) /\ Found(k) = 0
    BY <1>2, TableReturns DEF TableRemove
  <1>3. CASE ~ReadsFreed(k) /\ Found(k) # 0
    <2> DEFINE at == KeyLoc(k)
               f  == Found(k)
    <2>1. /\ TableTypeOK /\ Housed /\ Counted /\ Owned /\ tableStatus = "run"
          /\ pending = <<>> /\ pending' = <<>> /\ Left = {} /\ due = {}
      BY <1>3 DEF TableInd, TableRemove, TableReady, Rehashing
    <2>2. /\ entries' = [entries EXCEPT ![at] = RemoveAt(@, f)]
          /\ population' = population - 1
          /\ iter' = IterWithout(at, f)
          /\ "free" \in callbacks => live' = live \ {entries[at][f].obj}
          /\ "free" \notin callbacks => live' = live
          /\ Returns(<<"remove", k>>)
          /\ UNCHANGED <<primeIdx, rest, due, walk>>
      BY <1>3 DEF TableRemove, Bucket
    <2>3. at \in Buckets /\ f \in DOMAIN entries[at] /\ entries[at] \in Seq(Entry)
      <3>1. at \in Buckets
        BY <2>1, SizeNat DEF TableTypeOK
      <3>2. f \in DOMAIN entries[at]
        BY <2>1, <1>3, FoundFirst DEF Matches, Bucket
      <3> QED BY <3>1, <3>2, <2>1 DEF TableTypeOK
    <2> HIDE DEF at, f
    <2>4. /\ entries'[at] \in Seq(Entry)
          /\ Len(entries[at]) = Len(entries'[at]) + 1
          /\ DOMAIN entries[at] = 1 .. Len(entries[at])
          /\ DOMAIN entries'[at] = 1 .. Len(entries[at]) - 1
          /\ \A i \in DOMAIN entries'[at] :
                entries'[at][i] = IF i < f THEN entries[at][i] ELSE entries[at][i + 1]
      <3>1. entries'[at] = RemoveAt(entries[at], f)
        BY <2>1, <2>2, <2>3 DEF TableTypeOK
      <3> QED BY SMTT(30), <3>1, <2>3, WithoutEntry
    <2>5. \A b \in Buckets : b # at => entries'[b] = entries[b]
      BY <2>1, <2>2, <2>3 DEF TableTypeOK
    <2>6. entries' \in [Buckets -> Seq(Entry)]
      <3>1. \A b \in Buckets : entries'[b] \in Seq(Entry)
        BY <2>1, <2>4, <2>5 DEF TableTypeOK
      <3>2. entries' = [b \in Buckets |-> entries'[b]]
        BY <2>1, <2>2 DEF TableTypeOK
      <3> QED BY <3>1, <3>2
    <2>7. IsFiniteSet(Slots(entries')) /\ Cardinality(Slots(entries')) = population - 1
      <3>1. LongerAt(Buckets, entries', entries, at)
        BY <2>4, <2>5 DEF LongerAt
      <3>2. /\ entries \in [Buckets -> Seq(Entry)] /\ IsFiniteSet(Slots(entries))
            /\ population = Cardinality(Slots(entries))
        BY <2>1 DEF TableTypeOK, Counted
      <3> QED BY ONLY <3>1, <3>2, <2>3, <2>6, SlotsShorter
    <2>8. population' \in Nat
      BY <2>2, <2>7, FS_CardinalityType
    (* Where an entry that stays comes from. *)
    <2>9. ASSUME NEW b \in Buckets, NEW i \in DOMAIN entries'[b]
          PROVE  /\ b # at => i \in DOMAIN entries[b] /\ entries'[b][i] = entries[b][i]
                 /\ b = at /\ i < f => i \in DOMAIN entries[b] /\ entries'[b][i] = entries[b][i]
                 /\ b = at /\ i >= f =>
                       i + 1 \in DOMAIN entries[b] /\ entries'[b][i] = entries[b][i + 1]
                 /\ b = at => i \in Nat /\ f \in Nat
      <3>1. CASE b # at
        BY <3>1, <2>5
      <3>2. CASE b = at
        <4>1. i \in 1 .. Len(entries[at]) - 1 /\ Len(entries[at]) \in Nat /\ f \in Nat
          BY <3>2, <2>3, <2>4
        <4> QED BY <3>2, <4>1, <2>4
      <3> QED BY <3>1, <3>2
    <2>10. ASSUME NEW b \in Buckets, NEW i \in DOMAIN entries'[b]
           PROVE  \E j \in DOMAIN entries[b] : entries'[b][i] = entries[b][j]
      BY <2>9
    <2>11. /\ Buckets' = Buckets /\ OldBuckets' = OldBuckets
           /\ Size' = Size /\ OldSize' = OldSize
      BY <2>2 DEF Buckets, Size, OldBuckets, OldSize
    <2>12. TableTypeOK'
      <3>1. iter' \in [bucket : Nat, next : Nat, stale : BOOLEAN]
        <4>1. iter \in [bucket : Nat, next : Nat, stale : BOOLEAN] /\ f \in Nat
          BY <2>1, <2>3 DEF TableTypeOK
        <4>2. iter.next < f \/ iter.next = f \/ iter.next - 1 \in Nat
          BY <4>1
        <4> QED BY <4>1, <4>2, <2>2 DEF IterWithout
      <3>2. entries' \in [Buckets' -> Seq(Entry)] /\ rest' \in [OldBuckets' -> Seq(Entry)]
        BY <2>1, <2>2, <2>6, <2>11 DEF TableTypeOK
      <3>3. live' \subseteq Object
        BY <2>1, <2>2 DEF TableTypeOK
      <3> QED BY <2>1, <2>2, <2>8, <3>1, <3>2, <3>3 DEF TableTypeOK, Returns
    <2>13. Housed'
      <3>1. \A b \in Buckets' : \A i \in DOMAIN entries'[b] :
               HashFunc[entries'[b][i].key] % Size' = b
        BY <2>1, <2>10, <2>11 DEF Housed, KeyLoc
      <3> QED BY <3>1, <2>1, <2>2, <2>11 DEF Housed, KeyLoc
    <2>14. Counted'
      BY <2>1, <2>2, <2>7 DEF Counted
    <2>15. Loaded'
      BY <2>1, <2>2, <2>11, SizeNat DEF TableInd, Loaded, TableTypeOK
    <2>16. Rehashing'
      BY <2>1, <2>2, <2>11 DEF Rehashing, Left
    <2>21. Owned'
      <3> DEFINE x == entries[at][f].obj
      <3>1. Objects(entries') = Objects(entries) \ {x} /\ Apart(entries')
        <4>1. entries \in [Buckets -> Seq(Entry)] /\ Apart(entries)
          BY <2>1 DEF TableTypeOK, Owned
        <4>2. Without(Buckets, entries, entries', at, f)
          BY <2>4, <2>5 DEF Without
        <4> QED BY ONLY <2>3, <2>6, <4>1, <4>2, ObjectsShorter
      <3>2. Objects(rest) = {}
        <4>1. \A b \in DOMAIN rest : rest[b] = <<>>
          BY <2>1 DEF Left, TableTypeOK
        <4> QED BY <4>1, ObjectsNone
      <3>3. callbacks' = callbacks /\ rest' = rest /\ due' = {} /\ primeIdx' = primeIdx
        BY <2>1, <2>2 DEF Returns
      <3> DEFINE A == Objects(entries)
                 c == callbacks = {"copy", "free"}
                 d == Dangles
                 w == "free" \in callbacks
      <3>4. c => w
        BY <2>1, Words DEF TableTypeOK
      <3>5. (~d => A \subseteq live) /\ (c => live = A)
        BY <2>1, <3>2 DEF Owned
      <3>6. (w => live' = live \ {x}) /\ (~w => live' = live)
        BY <2>2
      <3>7. Objects(entries') = A \ {x}
        BY <3>1
      <3> HIDE DEF A, c, d, w, x
      <3>8. ~d => Objects(entries') \subseteq live'
        BY <3>5, <3>6, <3>7
      <3>9. c => live' = Objects(entries')
        BY <3>4, <3>5, <3>6, <3>7
      <3>10. Objects(rest') = {} /\ Apart(rest')
        BY <2>1, <3>2, <3>3 DEF Owned
      <3> QED BY <3>1, <3>3, <3>8, <3>9, <3>10 DEF Owned, Dangles, c, d
    <2>17. Blamed'
      BY <2>1, <2>2 DEF Blamed, Returns
    <2>18. /\ iter.stale => iter' = iter
           /\ iter'.stale /\ ~iter.stale => iter'.next # 0
           /\ iter.bucket # at => iter' = iter
           /\ ~iter'.stale /\ iter.bucket = at =>
                 /\ iter'.bucket = at
                 /\ \/ iter.next < f /\ iter'.next = iter.next
                    \/ iter.next > f /\ iter'.next = iter.next - 1
           /\ iter.next \in Nat /\ iter.bucket \in Nat /\ f \in Nat \ {0}
      <3>1. iter \in [bucket : Nat, next : Nat, stale : BOOLEAN] /\ f \in Nat \ {0}
        BY <2>1, <2>3, <2>4 DEF TableTypeOK
      <3> QED BY <3>1, <2>2 DEF IterWithout
    <2>19. IterInside'
      <3> SUFFICES ASSUME ~iter'.stale, iter'.next # 0
                   PROVE  iter'.bucket \in Buckets /\ iter'.next \in DOMAIN entries'[iter'.bucket]
        BY <2>11, <2>18 DEF TableInd, IterInside
      <3>1. CASE iter.bucket # at
        BY <3>1, <2>5, <2>18 DEF TableInd, IterInside
      <3>2. CASE iter.bucket = at
        <4>1. iter.next # 0 /\ ~iter.stale
          BY <3>2, <2>18
        <4>2. iter.next \in 1 .. Len(entries[at]) /\ Len(entries[at]) \in Nat
          BY <3>2, <4>1, <2>3, <2>4 DEF TableInd, IterInside
        <4>3. f \in 1 .. Len(entries[at])
          BY <2>3, <2>4
        <4> QED BY <3>2, <4>2, <4>3, <2>3, <2>4, <2>18
      <3> QED BY <3>1, <3>2
    <2>20. IterComplete'
      <3> DEFINE Ahd(b, i) == \/ b > iter.bucket
                              \/ b = iter.bucket /\ iter.next # 0 /\ i >= iter.next
                 Ahdd(b, i) == \/ b > iter'.bucket
                               \/ b = iter'.bucket /\ iter'.next # 0 /\ i >= iter'.next
      <3> SUFFICES ASSUME walk = "whole" /\ ~iter'.stale,
                          NEW b \in Buckets, NEW i \in DOMAIN entries'[b]
                   PROVE  /\ entries'[b][i].mark = "due"  => Ahdd(b, i)
                          /\ entries'[b][i].mark = "seen" => ~Ahdd(b, i)
        BY <2>2, <2>11 DEF IterComplete
      <3>1. ~iter.stale
        BY <2>18
      <3>2. \A j \in DOMAIN entries[b] :
               /\ entries[b][j].mark = "due"  => Ahd(b, j)
               /\ entries[b][j].mark = "seen" => ~Ahd(b, j)
        BY <3>1 DEF TableInd, IterComplete
      <3>3. CASE b # at
        <4>1. Ahdd(b, i) <=> Ahd(b, i)
          BY <3>3, <2>18
        <4> QED BY <3>2, <3>3, <4>1, <2>9
      <3>4. CASE b = at /\ iter.bucket # at
        <4>1. \A j : (Ahdd(b, j) <=> b > iter.bucket) /\ (Ahd(b, j) <=> b > iter.bucket)
          BY <3>4, <2>18
        <4> QED BY <3>2, <4>1, <2>10
      <3>5. CASE b = at /\ iter.bucket = at /\ i < f
        <4>1. Ahdd(b, i) <=> Ahd(b, i)
          BY <3>5, <2>9, <2>18
        <4> QED BY <3>2, <3>5, <4>1, <2>9
      <3>6. CASE b = at /\ iter.bucket = at /\ i >= f
        <4>1. Ahdd(b, i) <=> Ahd(b, i + 1)
          BY <3>6, <2>9, <2>18
        <4> QED BY <3>2, <3>6, <4>1, <2>9
      <3>7. b = at => i < f \/ i >= f
        BY <2>9
      <3> QED BY <3>3, <3>4, <3>5, <3>6, <3>7
    <2> QED
      BY <2>12, <2>13, <2>14, <2>15, <2>16, <2>17, <2>19, <2>20,
         <2>21 DEF TableInd
  <1> QED BY <1>1, <1>2, <1>3

-----------------------------------------------------------------------------
(* Iterators                                                                *)

(* What changes no more than marks and the iterator leaves the rest as it   *)
(* is.                                                                      *)
LEMMA MarksKeepInd ==
    ASSUME TableInd, TableReady, NEW answer, Returns(answer),
           UNCHANGED <<live, primeIdx, population, rest, due, pending>>,
           entries' \in [Buckets -> Seq(Entry)],
           \A b \in Buckets :
              /\ DOMAIN entries'[b] = DOMAIN entries[b]
              /\ \A i \in DOMAIN entries[b] :
                    /\ entries'[b][i].key = entries[b][i].key
                    /\ entries'[b][i].obj = entries[b][i].obj,
           iter' \in [bucket : Nat, next : Nat, stale : BOOLEAN],
           walk' \in {"whole", "broken"},
           IterInside', IterComplete'
    PROVE  TableInd'
  <1>1. TableTypeOK /\ Housed /\ Counted /\ Owned /\ Rehashing /\ Loaded
        /\ tableStatus = "run" /\ pending = <<>>
    BY DEF TableInd, TableReady
  <1>2. /\ Buckets' = Buckets /\ OldBuckets' = OldBuckets
        /\ Size' = Size /\ OldSize' = OldSize
    BY DEF Buckets, Size, OldBuckets, OldSize
  <1>3. Slots(entries') = Slots(entries)
    BY <1>1, SlotsSame DEF TableTypeOK
  <1>4. TableTypeOK'
    BY <1>1, <1>2 DEF TableTypeOK, Returns
  <1>5. Housed'
    <2>1. \A b \in Buckets' : \A i \in DOMAIN entries'[b] :
             HashFunc[entries'[b][i].key] % Size' = b
      BY <1>1, <1>2 DEF Housed, KeyLoc
    <2> QED BY <2>1, <1>1, <1>2 DEF Housed, KeyLoc
  <1>6. Counted' /\ Loaded' /\ Rehashing'
    BY <1>1, <1>2, <1>3 DEF Counted, Loaded, Rehashing, Left
  <1>7. Blamed'
    BY <1>1, <1>2 DEF Blamed, Returns
  <1>8. Owned'
    <2>1. DOMAIN entries = Buckets /\ DOMAIN entries' = Buckets
      BY <1>1 DEF TableTypeOK
    <2>2. Objects(entries') = Objects(entries) /\ (Apart(entries) => Apart(entries'))
      BY <2>1, ObjectsSame
    <2> QED BY <1>1, <2>2 DEF Owned, Dangles, Returns
  <1> QED BY <1>4, <1>5, <1>6, <1>7, <1>8 DEF TableInd

LEMMA IterInitKeepsInd ==
    ASSUME TableInd, IterInit
    PROVE  TableInd'
  <1>1. /\ TableTypeOK /\ TableReady
        /\ iter' = [bucket |-> 0, next |-> FirstOf(0), stale |-> FALSE]
        /\ entries' = Marked(entries, "due")
        /\ walk' = "whole" /\ Returns(<<"begin">>)
        /\ UNCHANGED <<live, primeIdx, population, rest, due, pending>>
    BY DEF TableInd, IterInit
  <1>2. entries \in [Buckets -> Seq(Entry)] /\ 0 \in Buckets /\ Buckets \subseteq Nat
    BY <1>1, SizeNat DEF TableTypeOK, Buckets
  <1>3. /\ entries' \in [Buckets -> Seq(Entry)]
        /\ \A b \in Buckets :
              /\ DOMAIN entries'[b] = DOMAIN entries[b]
              /\ \A i \in DOMAIN entries[b] :
                    /\ entries'[b][i].key = entries[b][i].key
                    /\ entries'[b][i].value = entries[b][i].value
                    /\ entries'[b][i].obj = entries[b][i].obj
                    /\ entries'[b][i].mark = "due"
        /\ Slots(entries') = Slots(entries)
    <2>1. entries' = Marked(entries, "due") /\ "due" \in {"due", "seen", "new"}
      BY <1>1
    <2>2. entries \in [Buckets -> Seq(Entry)]
      BY <1>2
    <2>3. entries' \in [Buckets -> Seq(Entry)] /\ Slots(entries') = Slots(entries)
      BY ONLY <2>1, <2>2, MarkedLists
    <2>4. ASSUME NEW b \in Buckets
          PROVE  /\ DOMAIN entries'[b] = DOMAIN entries[b]
                 /\ \A i \in DOMAIN entries[b] :
                       /\ entries'[b][i].key = entries[b][i].key
                       /\ entries'[b][i].value = entries[b][i].value
                       /\ entries'[b][i].obj = entries[b][i].obj
                       /\ entries'[b][i].mark = "due"
      BY ONLY <2>1, <2>2, MarkedLists
    <2> QED BY <2>3, <2>4
  <1>5. /\ iter'.bucket = 0 /\ iter'.stale = FALSE
        /\ iter'.next = FirstOf(0) /\ FirstOf(0) \in {0, 1}
        /\ iter' \in [bucket : Nat, next : Nat, stale : BOOLEAN]
    BY <1>1 DEF FirstOf
  <1>6. \A b \in Buckets : DOMAIN entries[b] = 1 .. Len(entries[b]) /\ Len(entries[b]) \in Nat
    BY <1>2
  <1>7. FirstOf(0) = 0 => DOMAIN entries[0] = {}
    BY <1>2 DEF FirstOf
  <1>8. FirstOf(0) # 0 => FirstOf(0) = 1 /\ 1 \in DOMAIN entries[0]
    <2>1. entries[0] # <<>> => Len(entries[0]) # 0
      BY <1>2
    <2> QED BY <2>1, <1>2, <1>6 DEF FirstOf
  <1>9. Buckets' = Buckets
    BY <1>1 DEF Buckets, Size
  <1>10. IterInside'
    BY <1>2, <1>3, <1>5, <1>8, <1>9 DEF IterInside
  <1>11. IterComplete'
    <2>1. ASSUME NEW b \in Buckets, NEW i \in DOMAIN entries'[b]
          PROVE  /\ b > 0 \/ (b = 0 /\ FirstOf(0) # 0 /\ i >= FirstOf(0))
                 /\ entries'[b][i].mark = "due"
      <3>1. b \in Nat /\ i \in DOMAIN entries[b] /\ i >= 1
        BY <1>2, <1>3, <1>6
      <3> QED BY <3>1, <1>3, <1>7, <1>8
    <2> QED BY <2>1, <1>5, <1>9 DEF IterComplete
  <1> QED BY <1>1, <1>3, <1>5, <1>10, <1>11, MarksKeepInd

(* A yield moves the iterator behind the entry it marks.                    *)
LEMMA YieldKeepsInd ==
    ASSUME TableInd, TableReady, NEW answer, Returns(answer),
           UNCHANGED <<live, primeIdx, population, rest, due, pending, walk>>,
           ~iter.stale, NEW b \in Buckets, NEW i \in DOMAIN entries[b], Yield(b, i),
           \/ b = iter.bucket /\ i = iter.next
           \/ /\ b > iter.bucket /\ iter.next = 0 /\ i = 1
              /\ \A c \in Buckets : c > iter.bucket /\ c < b => entries[c] = <<>>
    PROVE  TableInd'
  <1>1. /\ TableTypeOK /\ entries \in [Buckets -> Seq(Entry)]
        /\ iter \in [bucket : Nat, next : Nat, stale : BOOLEAN]
    BY DEF TableInd, TableTypeOK
  <1>2. \A c \in Buckets : DOMAIN entries[c] = 1 .. Len(entries[c]) /\ Len(entries[c]) \in Nat
    BY <1>1
  <1>3. Buckets \subseteq Nat /\ Buckets' = Buckets
    BY <1>1, SizeNat DEF TableTypeOK, Buckets, Size
  <1>4. entries' = [entries EXCEPT ![b][i].mark = "seen"]
    BY DEF Yield
  <1> DEFINE e == [entries[b][i] EXCEPT !.mark = "seen"]
  <1>5. entries[b][i] \in Entry /\ entries[b] \in Seq(Entry)
    BY <1>1
  <1>6. e \in Entry /\ e.key = entries[b][i].key /\ e.obj = entries[b][i].obj
        /\ e.mark = "seen"
    BY <1>5, MarkedEntry
  <1>7. entries' = [entries EXCEPT ![b] = [entries[b] EXCEPT ![i] = e]]
    BY <1>1, <1>4, <1>5
  <1> HIDE DEF e
  <1>8. /\ entries'[b] = [entries[b] EXCEPT ![i] = e]
        /\ \A c \in Buckets : c # b => entries'[c] = entries[c]
    BY <1>1, <1>7
  <1>9. entries'[b] \in Seq(Entry) /\ DOMAIN entries'[b] = DOMAIN entries[b]
        /\ entries'[b][i] = e /\ \A j \in DOMAIN entries[b] : j # i => entries'[b][j] = entries[b][j]
    BY <1>5, <1>6, <1>8
  <1>10. entries' \in [Buckets -> Seq(Entry)]
    BY <1>1, <1>7, <1>8, <1>9
  <1>11. \A c \in Buckets :
            /\ DOMAIN entries'[c] = DOMAIN entries[c]
            /\ \A j \in DOMAIN entries[c] :
                  /\ entries'[c][j].key = entries[c][j].key
                  /\ entries'[c][j].obj = entries[c][j].obj
    BY <1>6, <1>8, <1>9
  <1>12. /\ iter'.bucket = b /\ iter'.stale = FALSE
         /\ iter'.next = IF i < Len(entries[b]) THEN i + 1 ELSE 0
         /\ i \in 1 .. Len(entries[b]) /\ Len(entries[b]) \in Nat
         /\ iter' \in [bucket : Nat, next : Nat, stale : BOOLEAN]
    <2>1. i \in 1 .. Len(entries[b]) /\ Len(entries[b]) \in Nat /\ b \in Nat
      BY <1>2, <1>3
    <2> DEFINE n == IF i < Len(entries[b]) THEN i + 1 ELSE 0
    <2>2. n \in Nat
      BY <2>1
    <2>3. iter' = [iter EXCEPT !.bucket = b, !.next = n]
      BY DEF Yield
    <2> HIDE DEF n
    <2>4. /\ iter'.bucket = b /\ iter'.stale = FALSE /\ iter'.next = n
          /\ iter' \in [bucket : Nat, next : Nat, stale : BOOLEAN]
      BY <1>1, <2>1, <2>2, <2>3
    <2> QED BY <2>1, <2>4 DEF n
  <1>13. IterInside'
    <2>1. iter'.next # 0 => iter'.next \in DOMAIN entries'[b]
      BY <1>2, <1>9, <1>12
    <2> QED BY <2>1, <1>3, <1>12 DEF IterInside
  <1>14. IterComplete'
    <2> DEFINE Ahd(c, j) == \/ c > iter.bucket
                            \/ c = iter.bucket /\ iter.next # 0 /\ j >= iter.next
               Ahdd(c, j) == \/ c > iter'.bucket
                             \/ c = iter'.bucket /\ iter'.next # 0 /\ j >= iter'.next
    <2> SUFFICES ASSUME walk = "whole",
                        NEW c \in Buckets, NEW j \in DOMAIN entries'[c]
                 PROVE  /\ entries'[c][j].mark = "due"  => Ahdd(c, j)
                        /\ entries'[c][j].mark = "seen" => ~Ahdd(c, j)
      BY <1>3, <1>12 DEF IterComplete
    <2>1. /\ j \in DOMAIN entries[c] /\ j \in Nat /\ j >= 1 /\ c \in Nat /\ b \in Nat
          /\ j <= Len(entries[c]) /\ i \in Nat /\ i >= 1
          /\ iter.bucket \in Nat /\ iter.next \in Nat
      BY <1>1, <1>2, <1>3, <1>11
    <2>2. /\ entries[c][j].mark = "due"  => Ahd(c, j)
          /\ entries[c][j].mark = "seen" => ~Ahd(c, j)
      BY <2>1 DEF TableInd, IterComplete
    <2>3. CASE c = b /\ j = i
      <3>1. ~Ahdd(c, j)
        BY <2>3, <1>12
      <3> QED BY <2>3, <3>1, <1>6, <1>9
    <2>4. CASE ~ (c = b /\ j = i)
      <3>1. entries'[c][j] = entries[c][j]
        BY <2>1, <2>4, <1>8, <1>9
      <3>2. Ahdd(c, j) <=> Ahd(c, j)
        <4>1. CASE b = iter.bucket /\ i = iter.next
          BY <2>1, <2>4, <4>1, <1>12
        <4>2. CASE /\ b > iter.bucket /\ iter.next = 0 /\ i = 1
                   /\ \A d \in Buckets : d > iter.bucket /\ d < b => entries[d] = <<>>
          <5>1. ~ (c > iter.bucket /\ c < b)
            BY <2>1, <4>2
          <5>2. c = b => j > i /\ j >= i + 1 /\ i < Len(entries[b])
            BY <2>1, <2>4, <4>2, <1>12
          <5> QED BY <2>1, <4>2, <5>1, <5>2, <1>12
        <4> QED BY <4>1, <4>2
      <3> QED BY <3>1, <3>2, <2>2
    <2> QED BY <2>3, <2>4
  <1> QED BY <1>10, <1>11, <1>12, <1>13, <1>14, MarksKeepInd DEF TableInd, TableTypeOK

LEMMA IterNextKeepsInd ==
    ASSUME TableInd, IterNext
    PROVE  TableInd'
  <1>1. /\ TableTypeOK /\ TableReady /\ Size \in Nat /\ Buckets \subseteq Nat
        /\ iter.bucket \in Nat /\ iter.next \in Nat /\ iter.stale \in BOOLEAN
        /\ entries \in [Buckets -> Seq(Entry)]
    BY SizeNat DEF TableInd, TableTypeOK, IterNext, Buckets
  <1>2. CASE iter.bucket < Size /\ iter.next # 0 /\ iter.stale
    BY <1>2, TableStops DEF IterNext
  <1>3. CASE ~ (iter.bucket < Size /\ iter.next # 0 /\ iter.stale)
    <2>1. /\ Returns(<<"next">>)
          /\ UNCHANGED <<live, primeIdx, population, rest, due, pending, walk>>
      BY <1>3 DEF IterNext
    <2>2. CASE iter.bucket >= Size
      <3>1. UNCHANGED <<iter, entries>>
        BY <1>3, <2>2 DEF IterNext
      <3> QED BY <1>1, <2>1, <3>1, TableReturns DEF contents
    <2>3. CASE ~ (iter.bucket >= Size) /\ iter.next # 0
      <3>1. Yield(iter.bucket, iter.next) /\ ~iter.stale /\ iter.bucket < Size
        BY <1>1, <1>3, <2>3 DEF IterNext
      <3>2. iter.bucket \in Buckets /\ iter.next \in DOMAIN entries[iter.bucket]
        BY <2>3, <3>1 DEF TableInd, IterInside
      <3> QED BY <1>1, <2>1, <3>1, <3>2, YieldKeepsInd
    <2>4. CASE ~ (iter.bucket >= Size) /\ iter.next = 0 /\ Ahead # {}
      <3> DEFINE b == CHOOSE c \in Ahead : \A d \in Ahead : c <= d
      <3>1. \E c \in Ahead : \A d \in Ahead : c <= d
        BY <1>1, <2>4, LeastNat DEF Ahead
      <3>2. b \in Ahead /\ \A d \in Ahead : b <= d
        BY <3>1
      <3>3. Yield(b, 1)
        BY <1>3, <2>4 DEF IterNext
      <3> HIDE DEF b
      <3>4. b \in Buckets /\ b > iter.bucket /\ entries[b] # <<>>
        BY <3>2 DEF Ahead
      <3>5. 1 \in DOMAIN entries[b]
        BY <1>1, <3>4
      <3>6. \A c \in Buckets : c > iter.bucket /\ c < b => entries[c] = <<>>
        BY <1>1, <3>2, <3>4 DEF Ahead
      <3>7. ~iter.stale
        BY <2>4 DEF TableInd, IterInside
      <3> QED BY <1>1, <2>1, <2>4, <3>3, <3>4, <3>5, <3>6, <3>7, YieldKeepsInd
    <2>5. CASE ~ (iter.bucket >= Size) /\ iter.next = 0 /\ Ahead = {}
      <3>1. iter' = [iter EXCEPT !.bucket = Size] /\ UNCHANGED entries
        BY <1>3, <2>5 DEF IterNext
      <3>2. /\ iter' \in [bucket : Nat, next : Nat, stale : BOOLEAN]
            /\ iter'.next = 0 /\ iter'.bucket = Size /\ iter'.stale = iter.stale
        BY <1>1, <2>5, <3>1 DEF TableTypeOK
      <3>3. IterInside'
        BY <2>5, <3>2 DEF TableInd, IterInside
      <3>4. \A b \in Buckets : b < Size
        BY <1>1 DEF Buckets
      <3>5. \A b \in Buckets : b > iter.bucket => DOMAIN entries[b] = {}
        BY <1>1, <2>5 DEF Ahead
      <3>6. Buckets' = Buckets
        BY <2>1 DEF Buckets, Size
      <3>7. IterComplete'
        <4> SUFFICES ASSUME walk = "whole", ~iter.stale,
                            NEW b \in Buckets, NEW i \in DOMAIN entries[b]
                     PROVE  entries[b][i].mark # "due" /\ ~ (b > Size)
          BY <2>1, <3>1, <3>2, <3>4, <3>6 DEF IterComplete
        <4>1. ~ (b > iter.bucket)
          BY <3>5
        <4> QED BY <1>1, <2>5, <4>1, <3>4 DEF TableInd, IterComplete
      <3>8. walk' \in {"whole", "broken"}
        BY <1>1, <2>1 DEF TableTypeOK
      <3> QED BY <1>1, <2>1, <3>1, <3>2, <3>3, <3>7, <3>8, MarksKeepInd
    <2> QED BY <2>2, <2>3, <2>4, <2>5
  <1> QED BY <1>2, <1>3

-----------------------------------------------------------------------------

LEMMA TableInitially == TableInit => TableInd
  <1> SUFFICES ASSUME TableInit PROVE TableInd
    OBVIOUS
  <1> USE DEF TableInit
  <1>1. 1 \in DOMAIN HashPrimes /\ primeIdx = 1
    BY TableAssumption
  <1>2. /\ Size \in Nat \ {0} /\ Size = HashPrimes[1]
        /\ Buckets = 0 .. HashPrimes[1] - 1 /\ OldBuckets = {}
    BY <1>1, SizeNat DEF Size, Buckets, OldBuckets, OldSize
  <1>3. /\ DOMAIN entries = Buckets
        /\ \A b \in Buckets : entries[b] = <<>> /\ DOMAIN entries[b] = {}
    BY <1>2
  <1>4. entries \in [Buckets -> Seq(Entry)] /\ rest \in [OldBuckets -> Seq(Entry)]
    BY <1>2, <1>3
  <1>5. TableTypeOK
    BY <1>1, <1>2, <1>4 DEF TableTypeOK
  <1>6. Slots(entries) = {} /\ Slots(rest) = {}
    BY <1>3, SlotsEmpty
  <1>7. Counted
    BY <1>6, FS_EmptySet DEF Counted
  <1>8. Housed /\ Loaded /\ Rehashing
    BY <1>2, <1>3 DEF Housed, Loaded, Rehashing, Left
  <1>9. Blamed /\ IterInside /\ IterComplete
    BY <1>2, <1>3 DEF Blamed, IterInside, IterComplete
  <1>10. Owned
    <2>1. Objects(entries) = {} /\ Objects(rest) = {} /\ Apart(entries) /\ Apart(rest)
      BY <1>3, ObjectsNone
    <2> QED BY <2>1 DEF Owned
  <1> QED BY <1>5, <1>7, <1>8, <1>9, <1>10 DEF TableInd

LEMMA TableStep == TableInd /\ [TableNext]_tableVars => TableInd'
  <1> SUFFICES ASSUME TableInd, [TableNext]_tableVars PROVE TableInd'
    OBVIOUS
  <1>1. ASSUME NEW k \in Key, NEW v \in Value, TableInsert(k, v) PROVE TableInd'
    BY <1>1, InsertKeepsInd
  <1>2. ASSUME NEW k \in Key, TableGet(k) PROVE TableInd'
    BY <1>2, GetKeepsInd
  <1>3. ASSUME NEW k \in Key, TableRemove(k) PROVE TableInd'
    BY <1>3, RemoveKeepsInd
  <1>4. CASE TableDeinit
    BY <1>4, TableStops DEF TableDeinit
  <1>5. CASE UNCHANGED tableVars
    <2> USE <1>5 DEF tableVars, contents
    <2>1. TableTypeOK' /\ Housed' /\ Counted' /\ Loaded' /\ Rehashing'
      BY DEF TableInd, TableTypeOK, Housed, Counted, Loaded, Rehashing, Buckets,
             Size, KeyLoc, OldBuckets, OldSize, Left, Slots
    <2>2. Blamed' /\ IterInside' /\ IterComplete'
      BY DEF TableInd, Blamed, Dangles, IterInside, IterComplete, Buckets, Size
    <2>3. Owned'
      <3>1. Owned /\ callbacks' = callbacks /\ primeIdx' = primeIdx /\ entries' = entries
            /\ rest' = rest /\ due' = due /\ live' = live
        BY DEF TableInd
      <3> QED BY ONLY <3>1 DEF Owned, Dangles
    <2> QED BY <2>1, <2>2, <2>3 DEF TableInd
  <1> QED
    BY <1>1, <1>2, <1>3, <1>4, <1>5, RehashKeepsInd, FreeKeepsInd,
       InsertEndKeepsInd, IterInitKeepsInd, IterNextKeepsInd DEF TableNext

THEOREM TableInvariant == TableSpec => []TableInd
  BY TableInitially, TableStep, PTL DEF TableSpec

(* Every variable keeps its type: no call leaves a bucket, a list or an     *)
(* iterator that is not one.                                                *)
THEOREM TableTyped == TableSpec => []TableTypeOK
  <1>1. TableInd => TableTypeOK
    BY DEF TableInd
  <1> QED BY <1>1, TableInvariant, PTL

(* Entries are where their hash leads, population counts them, and the      *)
(* inserts of hash_table_rehash never meet a full table.                    *)
THEOREM TableSound == TableSpec => []TableInv
  <1>1. TableInd => TableInv
    <2> SUFFICES ASSUME TableInd PROVE TableInv
      OBVIOUS
    <2>1. pending # <<>> => ~Full
      <3> SUFFICES ASSUME pending # <<>> PROVE ~Full
        OBVIOUS
      <3>1. Cardinality(Slots(rest)) \in Nat /\ population \in Nat
        BY FS_CardinalityType DEF TableInd, Counted, TableTypeOK
      <3>2. 10 * (population + Cardinality(Slots(rest))) < 7 * Size
        BY DEF TableInd, Loaded
      <3>3. Size \in Nat
        BY SizeNat DEF TableInd, TableTypeOK
      <3> QED BY <3>1, <3>2, <3>3 DEF Full
    <2> QED
      BY <2>1 DEF TableInd, TableInv, Housed, Counted, Loaded, Rehashing
  <1> QED BY <1>1, TableInvariant, PTL

(* Every object a table holds has one owner at each of the two steps of a   *)
(* turn of hash_table_rehash, as between calls: what it frees is what no    *)
(* entry has, what it copies it frees, and no call reads what is freed,     *)
(* unless the table frees what it has not copied and has grown.             *)
THEOREM TableSafe == TableSpec => []TableObjects
  <1>1. TableInd => TableObjects
    BY DEF TableInd, Blamed, TableObjects
  <1> QED BY <1>1, TableInvariant, PTL

(* An iterator yields what it should, through every insert and remove.      *)
THEOREM TableIterates == TableSpec => []IterComplete
  <1>1. TableInd => IterComplete
    BY DEF TableInd
  <1> QED BY <1>1, TableInvariant, PTL

-----------------------------------------------------------------------------
(* The call that a reply names.                                             *)

LEMMA Replies ==
    /\ \A k, v, j, w : <<"insert", k, v>> # <<"grow", j, w>>
    /\ \A k, v, j, w : <<"get", k, v>> # <<"grow", j, w>>
    /\ \A k, j, w : <<"remove", k>> # <<"grow", j, w>>
    /\ \A j, w : <<"begin">> # <<"grow", j, w>> /\ <<"next">> # <<"grow", j, w>>
    /\ \A j, w : <<>> # <<"grow", j, w>>
  OBVIOUS

LEMMA SameReply ==
    ASSUME NEW k, NEW v, NEW j, NEW w, <<"grow", k, v>> = <<"grow", j, w>>
    PROVE  k = j /\ v = w
  OBVIOUS

(* The reply is an insert that waits where the table has one, and nowhere   *)
(* else.                                                                    *)
Asked ==
    tableStatus = "run" =>
        /\ pending = <<>> => ~Table!Waits
        /\ pending # <<>> => tableAnswer = <<"grow", pending[1], pending[2]>>

LEMMA AskedStep ==
    ASSUME TableTypeOK, Asked, [TableNext]_tableVars
    PROVE  Asked'
  <1>1. ASSUME NEW call, NEW how \in {"panic", "fault"}, TableStop(call, how) PROVE Asked'
    BY <1>1 DEF TableStop, Asked
  <1>2. ASSUME NEW a, Returns(a), \A j \in Key, w \in Value : a # <<"grow", j, w>>,
               pending' = <<>>
        PROVE  Asked'
    BY <1>2 DEF Returns, Asked, Table!Waits
  <1>3. ASSUME UNCHANGED <<tableStatus, tableAnswer, pending>> PROVE Asked'
    BY <1>3 DEF Asked, Table!Waits
  <1>4. ASSUME NEW k \in Key, NEW v \in Value, TableInsert(k, v) PROVE Asked'
    <2>1. CASE pending' = <<k, v>> /\ Returns(<<"grow", k, v>>)
      <3>1. <<k, v>> # <<>> /\ <<k, v>>[1] = k /\ <<k, v>>[2] = v
        OBVIOUS
      <3> QED BY <2>1, <3>1 DEF Asked, Returns
    <2>2. CASE UNCHANGED pending /\ Returns(<<"insert", k, v>>)
      BY <1>2, <1>4, <2>2, Replies DEF TableInsert, TableReady
    <2> QED BY <1>1, <1>4, <2>1, <2>2 DEF TableInsert
  <1>5. ASSUME NEW k \in Key, TableGet(k) PROVE Asked'
    BY <1>1, <1>2, <1>5, Replies DEF TableGet, TableReady, contents
  <1>6. ASSUME NEW k \in Key, TableRemove(k) PROVE Asked'
    BY <1>1, <1>2, <1>6, Replies DEF TableRemove, TableReady, contents
  <1>7. CASE TableRehash
    BY <1>1, <1>3, <1>7 DEF TableRehash
  <1>8. CASE RehashFree
    BY <1>3, <1>8 DEF RehashFree
  <1>9. CASE TableInsertEnd
    BY <1>1, <1>2, <1>9, Replies DEF TableInsertEnd
  <1>10. CASE TableDeinit
    BY <1>1, <1>10 DEF TableDeinit
  <1>11. CASE IterInit
    BY <1>2, <1>11, Replies DEF IterInit, TableReady
  <1>12. CASE IterNext
    BY <1>1, <1>2, <1>12, Replies DEF IterNext, TableReady
  <1>13. CASE UNCHANGED tableVars
    BY <1>3, <1>13 DEF tableVars, contents
  <1> QED
    BY <1>4, <1>5, <1>6, <1>7, <1>8, <1>9, <1>10, <1>11, <1>12, <1>13 DEF TableNext

LEMMA TableAsks == TableSpec => []Asked
  <1>1. TableInit => Asked
    BY Replies DEF TableInit, Asked, Table!Waits
  <1>2. TableTypeOK /\ Asked /\ [TableNext]_tableVars => Asked'
    BY AskedStep
  <1> QED BY <1>1, <1>2, TableTyped, PTL DEF TableSpec

-----------------------------------------------------------------------------
(* The refinement of MultimapAbs: what a call does to the values of a key.  *)

(* f lists the members of M, in order.                                      *)
Lists(f, n, M) ==
    /\ f \in [1 .. n -> M]
    /\ \A i, j \in 1 .. n : i < j => f[i] < f[j]
    /\ \A p \in M : \E i \in 1 .. n : f[i] = p

(* There is one list of a set, the one Nth goes through.                    *)
LEMMA ListsNth ==
    ASSUME NEW M, M \subseteq Nat, NEW n \in Nat, NEW f, Lists(f, n, M)
    PROVE  /\ IsFiniteSet(M) /\ Cardinality(M) = n
           /\ \A i \in 1 .. n : Nth(M, i) = f[i]
  <1>1. /\ f \in [1 .. n -> M]
        /\ \A i, j \in 1 .. n : i < j => f[i] < f[j]
        /\ \A p \in M : \E i \in 1 .. n : f[i] = p
        /\ \A i \in 1 .. n : f[i] \in Nat
    BY DEF Lists
  <1>2. \A i, j \in 1 .. n : f[i] = f[j] => i = j
    <2> SUFFICES ASSUME NEW i \in 1 .. n, NEW j \in 1 .. n, f[i] = f[j], i # j
                 PROVE  FALSE
      OBVIOUS
    <2>1. i < j \/ j < i
      OBVIOUS
    <2> QED BY <2>1, <1>1
  <1>3. IsFiniteSet(M) /\ Cardinality(M) = n
    <2>1. f \in Bijection(1 .. n, M)
      BY <1>1, <1>2 DEF Bijection, Injection, Surjection, IsInjective
    <2>2. ExistsBijection(1 .. n, M)
      BY <2>1 DEF ExistsBijection
    <2> QED BY <2>2, FS_NatBijection, FS_CountingElements
  <1>4. ASSUME NEW i \in 1 .. n
        PROVE  Cardinality({q \in M : q <= f[i]}) = i
    <2> DEFINE g == [j \in 1 .. i |-> f[j]]
               T == {q \in M : q <= f[i]}
    <2>1. \A j \in 1 .. i : j \in 1 .. n /\ f[j] \in M /\ f[j] <= f[i]
      BY <1>1
    <2>2. g \in [1 .. i -> T]
      BY <2>1
    <2>3. \A j, k \in 1 .. i : g[j] = g[k] => j = k
      BY <2>1, <1>2
    <2>4. ASSUME NEW q \in T PROVE \E j \in 1 .. i : g[j] = q
      <3>1. PICK j \in 1 .. n : f[j] = q
        BY <1>1
      <3>2. ~ (i < j)
        <4>1. f[j] <= f[i]
          BY <3>1
        <4> QED BY <4>1, <1>1
      <3>3. j \in 1 .. i
        BY <3>2
      <3> QED BY <3>1, <3>3
    <2>5. g \in Bijection(1 .. i, T)
      <3> HIDE DEF g, T
      <3> QED BY <2>2, <2>3, <2>4 DEF Bijection, Injection, Surjection, IsInjective
    <2>6. ExistsBijection(1 .. i, T)
      BY <2>5 DEF ExistsBijection
    <2> HIDE DEF T
    <2>7. Cardinality(T) = i
      BY <2>6, FS_CountingElements
    <2> QED BY <2>7 DEF T
  <1>5. ASSUME NEW i \in 1 .. n PROVE Nth(M, i) = f[i]
    <2>1. ASSUME NEW p \in M, Cardinality({q \in M : q <= p}) = i PROVE p = f[i]
      <3>1. PICK j \in 1 .. n : f[j] = p
        BY <1>1
      <3>2. Cardinality({q \in M : q <= f[j]}) = j
        BY <1>4
      <3> QED BY <2>1, <3>1, <3>2
    <2>2. f[i] \in M /\ Cardinality({q \in M : q <= f[i]}) = i
      BY <1>1, <1>4
    <2> QED BY <2>1, <2>2 DEF Nth
  <1> QED BY <1>3, <1>5

(* And there is one.                                                        *)
LEMMA NthLists ==
    ASSUME NEW M, M \subseteq Nat, IsFiniteSet(M)
    PROVE  /\ Cardinality(M) \in Nat
           /\ Lists([i \in 1 .. Cardinality(M) |-> Nth(M, i)], Cardinality(M), M)
  <1> DEFINE n == Cardinality(M)
             Upto(p) == {q \in M : q <= p}
             g == [p \in M |-> Cardinality(Upto(p))]
             f == [i \in 1 .. n |-> Nth(M, i)]
  <1>1. n \in Nat
    BY FS_CardinalityType
  <1>2. \A p \in M : IsFiniteSet(Upto(p)) /\ Cardinality(Upto(p)) \in 1 .. n
    <2> SUFFICES ASSUME NEW p \in M
                 PROVE  IsFiniteSet(Upto(p)) /\ Cardinality(Upto(p)) \in 1 .. n
      OBVIOUS
    <2>1. Upto(p) \in SUBSET M /\ p \in Upto(p)
      OBVIOUS
    <2> HIDE DEF Upto
    <2>2. IsFiniteSet(Upto(p)) /\ Cardinality(Upto(p)) <= n
      BY <2>1, FS_Subset
    <2>3. Cardinality(Upto(p)) \in Nat /\ Cardinality(Upto(p)) # 0
      BY <2>1, <2>2, FS_CardinalityType, FS_EmptySet
    <2> QED BY <1>1, <2>2, <2>3
  <1>3. \A p, q \in M : p < q => Cardinality(Upto(p)) < Cardinality(Upto(q))
    <2> SUFFICES ASSUME NEW p \in M, NEW q \in M, p < q
                 PROVE  Cardinality(Upto(p)) < Cardinality(Upto(q))
      OBVIOUS
    <2> p \in Nat /\ q \in Nat
      OBVIOUS
    <2>1. Upto(p) \in SUBSET Upto(q) /\ q \in Upto(q) /\ q \notin Upto(p)
      <3>1. ASSUME NEW r \in M, r <= p PROVE r <= q
        <4>1. r \in Nat
          OBVIOUS
        <4> QED BY <4>1, <3>1
      <3>2. q <= q /\ ~ (q <= p)
        OBVIOUS
      <3> QED BY <3>1, <3>2
    <2>2. /\ IsFiniteSet(Upto(q)) /\ Cardinality(Upto(p)) \in Nat
          /\ Cardinality(Upto(q)) \in Nat
      BY <1>2
    <2> HIDE DEF Upto
    <2>3. Cardinality(Upto(p)) <= Cardinality(Upto(q)) /\ Cardinality(Upto(p)) # Cardinality(Upto(q))
      BY <2>1, <2>2, FS_Subset
    <2> QED BY <2>2, <2>3
  <1> HIDE DEF Upto
  <1>4. g \in Injection(M, 1 .. n)
    <2>1. g \in [M -> 1 .. n]
      BY <1>2
    <2>2. \A p, q \in M : g[p] = g[q] => p = q
      <3> SUFFICES ASSUME NEW p \in M, NEW q \in M, g[p] = g[q], p # q
                   PROVE  FALSE
        OBVIOUS
      <3>1. p < q \/ q < p
        OBVIOUS
      <3>2. Cardinality(Upto(p)) = Cardinality(Upto(q)) /\ Cardinality(Upto(p)) \in 1 .. n
        BY <1>2
      <3> QED BY <1>3, <3>1, <3>2
    <2> QED BY <2>1, <2>2 DEF Injection, IsInjective
  <1> HIDE DEF n
  <1>5. IsFiniteSet(1 .. n) /\ Cardinality(1 .. n) = n
    BY <1>1, FS_Interval
  <1>6. g \in Surjection(M, 1 .. n)
    <2> HIDE DEF g
    <2> QED BY <1>4, <1>5, FS_Injection DEF n
  <1>7. \A i \in 1 .. n : \E p \in M : Cardinality(Upto(p)) = i
    BY <1>6 DEF Surjection
  <1>8. \A i \in 1 .. n : Nth(M, i) \in M /\ Cardinality(Upto(Nth(M, i))) = i
    BY <1>7 DEF Nth, Upto
  <1>9. \A i, j \in 1 .. n : i < j => Nth(M, i) < Nth(M, j)
    <2> SUFFICES ASSUME NEW i \in 1 .. n, NEW j \in 1 .. n, i < j, ~ (Nth(M, i) < Nth(M, j))
                 PROVE  FALSE
      OBVIOUS
    <2>1. Nth(M, i) \in M /\ Nth(M, j) \in M /\ Nth(M, i) \in Nat /\ Nth(M, j) \in Nat
      BY <1>8
    <2>2. Nth(M, j) < Nth(M, i) \/ Nth(M, j) = Nth(M, i)
      BY <2>1
    <2>3. Cardinality(Upto(Nth(M, i))) = i /\ Cardinality(Upto(Nth(M, j))) = j
      BY <1>8
    <2>4. CASE Nth(M, j) < Nth(M, i)
      <3>1. j < i
        BY <1>3, <2>1, <2>3, <2>4
      <3> QED BY <3>1
    <2>5. CASE Nth(M, j) = Nth(M, i)
      BY <2>3, <2>5
    <2> QED BY <2>2, <2>4, <2>5
  <1>10. \A p \in M : \E i \in 1 .. n : Nth(M, i) = p
    <2> SUFFICES ASSUME NEW p \in M PROVE \E i \in 1 .. n : Nth(M, i) = p
      OBVIOUS
    <2> DEFINE i == Cardinality(Upto(p))
    <2>1. i \in 1 .. n /\ i \in Nat
      BY <1>2
    <2>2. Nth(M, i) \in M /\ Cardinality(Upto(Nth(M, i))) = i
      BY <1>8, <2>1
    <2>3. Cardinality(Upto(p)) = i
      OBVIOUS
    <2> HIDE DEF i
    <2> p \in Nat /\ Nth(M, i) \in Nat
      BY <2>2
    <2>4. ~ (Nth(M, i) < p)
      BY <1>3, <2>1, <2>2, <2>3
    <2>5. ~ (p < Nth(M, i))
      BY <1>3, <2>1, <2>2, <2>3
    <2>6. Nth(M, i) = p
      BY <2>3, <2>4, <2>5
    <2> QED BY <2>1, <2>6
  <1>11. Lists(f, n, M)
    BY <1>8, <1>9, <1>10 DEF Lists
  <1> QED BY <1>1, <1>11 DEF n, f

(* What ValuesOf yields, by any list of the positions.                      *)
LEMMA ValuesByList ==
    ASSUME NEW k, NEW s \in Seq(Entry), NEW n \in Nat, NEW f, Lists(f, n, Positions(k, s))
    PROVE  ValuesOf(k, s) = [i \in 1 .. n |-> s[f[i]].value]
  <1>1. Positions(k, s) \subseteq Nat
    BY DEF Positions
  <1>2. Cardinality(Positions(k, s)) = n /\ \A i \in 1 .. n : Nth(Positions(k, s), i) = f[i]
    BY <1>1, ListsNth
  <1> QED BY <1>2 DEF ValuesOf

LEMMA PositionsListed ==
    ASSUME NEW k, NEW s \in Seq(Entry)
    PROVE  \E n \in Nat : \E f : Lists(f, n, Positions(k, s))
  <1>1. Positions(k, s) \subseteq Nat /\ Positions(k, s) \in SUBSET (1 .. Len(s))
    BY DEF Positions
  <1>2. IsFiniteSet(1 .. Len(s))
    BY FS_Interval
  <1>3. IsFiniteSet(Positions(k, s))
    BY <1>1, <1>2, FS_Subset
  <1> QED BY <1>1, <1>3, NthLists

LEMMA ValuesType ==
    ASSUME NEW k, NEW s \in Seq(Entry)
    PROVE  ValuesOf(k, s) \in Seq(Value)
  <1>1. PICK n \in Nat : \E f : Lists(f, n, Positions(k, s))
    BY PositionsListed
  <1>2. PICK f : Lists(f, n, Positions(k, s))
    BY <1>1
  <1>3. ASSUME NEW i \in 1 .. n PROVE s[f[i]].value \in Value
    <2>1. f[i] \in DOMAIN s
      BY <1>2 DEF Lists, Positions
    <2>2. s[f[i]] \in Entry
      BY <2>1
    <2> QED BY <2>2 DEF Entry
  <1>4. [i \in 1 .. n |-> s[f[i]].value] \in Seq(Value)
    BY <1>3, IsASeq
  <1> QED BY <1>2, <1>4, ValuesByList

(* Entries that differ in marks and freed objects have the same values.     *)
LEMMA ValuesSame ==
    ASSUME NEW k, NEW s \in Seq(Entry), NEW t \in Seq(Entry), Len(s) = Len(t),
           \A i \in 1 .. Len(s) : s[i].key = t[i].key /\ s[i].value = t[i].value
    PROVE  ValuesOf(k, s) = ValuesOf(k, t)
  <1>1. DOMAIN s = 1 .. Len(s) /\ DOMAIN t = 1 .. Len(s)
    OBVIOUS
  <1>2. Positions(k, s) = Positions(k, t) /\ Positions(k, s) \subseteq 1 .. Len(s)
    BY <1>1 DEF Positions
  <1>3. PICK n \in Nat : \E f : Lists(f, n, Positions(k, s))
    BY PositionsListed
  <1>4. PICK f : Lists(f, n, Positions(k, s))
    BY <1>3
  <1>5. /\ ValuesOf(k, s) = [i \in 1 .. n |-> s[f[i]].value]
        /\ ValuesOf(k, t) = [i \in 1 .. n |-> t[f[i]].value]
    BY <1>2, <1>4, ValuesByList
  <1>6. \A i \in 1 .. n : f[i] \in 1 .. Len(s)
    BY <1>2, <1>4 DEF Lists
  <1> QED BY <1>5, <1>6

(* t is s without the entry at d.                                           *)
Shorter(t, s, d) ==
    /\ d \in 1 .. Len(s) /\ Len(t) = Len(s) - 1
    /\ \A i \in 1 .. Len(s) - 1 : t[i] = IF i < d THEN s[i] ELSE s[i + 1]

(* An entry with another key does not count.                                *)
LEMMA ValuesSkip ==
    ASSUME NEW k, NEW s \in Seq(Entry), NEW t \in Seq(Entry), NEW d \in Nat,
           Shorter(t, s, d), s[d].key # k
    PROVE  ValuesOf(k, t) = ValuesOf(k, s)
  <1>1. PICK n \in Nat : \E f : Lists(f, n, Positions(k, s))
    BY PositionsListed
  <1>2. PICK f : Lists(f, n, Positions(k, s))
    BY <1>1
  <1> DEFINE g == [i \in 1 .. n |-> IF f[i] < d THEN f[i] ELSE f[i] - 1]
  <1>3. /\ Len(s) \in Nat /\ d \in 1 .. Len(s) /\ Len(t) = Len(s) - 1
        /\ DOMAIN s = 1 .. Len(s) /\ DOMAIN t = 1 .. Len(s) - 1
        /\ \A i \in 1 .. Len(s) - 1 : t[i] = IF i < d THEN s[i] ELSE s[i + 1]
    BY DEF Shorter
  <1>4. /\ \A i \in 1 .. n : f[i] \in 1 .. Len(s) /\ s[f[i]].key = k /\ f[i] # d
        /\ \A i, j \in 1 .. n : i < j => f[i] < f[j]
        /\ \A p \in 1 .. Len(s) : s[p].key = k => \E i \in 1 .. n : f[i] = p
    <2>1. \A i \in 1 .. n : f[i] \in Positions(k, s)
      BY <1>2 DEF Lists
    <2>2. \A i \in 1 .. n : f[i] \in 1 .. Len(s) /\ s[f[i]].key = k
      BY <1>3, <2>1 DEF Positions
    <2>3. \A p \in 1 .. Len(s) : s[p].key = k => p \in Positions(k, s)
      BY <1>3 DEF Positions
    <2>4. \A p \in Positions(k, s) : \E i \in 1 .. n : f[i] = p
      BY <1>2 DEF Lists
    <2>5. \A i, j \in 1 .. n : i < j => f[i] < f[j]
      BY <1>2 DEF Lists
    <2>6. \A i \in 1 .. n : f[i] # d
      BY <2>2
    <2> QED BY <2>2, <2>3, <2>4, <2>5, <2>6
  <1>5. \A i \in 1 .. n : g[i] \in 1 .. Len(s) - 1 /\ t[g[i]] = s[f[i]]
    <2> SUFFICES ASSUME NEW i \in 1 .. n
                 PROVE  g[i] \in 1 .. Len(s) - 1 /\ t[g[i]] = s[f[i]]
      OBVIOUS
    <2>1. CASE f[i] < d
      <3>1. g[i] = f[i] /\ g[i] \in 1 .. Len(s) - 1
        BY <2>1, <1>3, <1>4
      <3> QED BY <3>1, <2>1, <1>3
    <2>2. CASE ~ (f[i] < d)
      <3>1. g[i] = f[i] - 1 /\ g[i] \in 1 .. Len(s) - 1 /\ ~ (g[i] < d) /\ g[i] + 1 = f[i]
        BY <2>2, <1>3, <1>4
      <3> HIDE DEF g
      <3> QED BY <3>1, <1>3
    <2> QED BY <2>1, <2>2
  <1>6. \A i, j \in 1 .. n : i < j => g[i] < g[j]
    BY <1>3, <1>4
  <1>7. \A p \in 1 .. Len(s) - 1 : t[p].key = k => \E i \in 1 .. n : g[i] = p
    <2> SUFFICES ASSUME NEW p \in 1 .. Len(s) - 1, t[p].key = k
                 PROVE  \E i \in 1 .. n : g[i] = p
      OBVIOUS
    <2>1. CASE p < d
      <3>1. PICK i \in 1 .. n : f[i] = p
        BY <2>1, <1>3, <1>4
      <3> QED BY <2>1, <3>1
    <2>2. CASE ~ (p < d)
      <3>1. PICK i \in 1 .. n : f[i] = p + 1
        BY <2>2, <1>3, <1>4
      <3>2. ~ (f[i] < d) /\ f[i] - 1 = p
        BY <2>2, <3>1, <1>3
      <3>3. g[i] = p
        BY <3>2
      <3> QED BY <3>3
    <2> QED BY <2>1, <2>2
  <1>8. Lists(g, n, Positions(k, t))
    <2>1. \A i \in 1 .. n : g[i] \in Positions(k, t)
      BY <1>3, <1>4, <1>5 DEF Positions
    <2>2. g \in [1 .. n -> Positions(k, t)]
      BY <2>1
    <2>3. \A p \in Positions(k, t) : \E i \in 1 .. n : g[i] = p
      BY <1>3, <1>7 DEF Positions
    <2> HIDE DEF g
    <2> QED BY <1>6, <2>2, <2>3 DEF Lists
  <1>9. /\ ValuesOf(k, s) = [i \in 1 .. n |-> s[f[i]].value]
        /\ ValuesOf(k, t) = [i \in 1 .. n |-> t[g[i]].value]
    <2> HIDE DEF g
    <2>1. ValuesOf(k, s) = [i \in 1 .. n |-> s[f[i]].value]
      BY <1>2, ValuesByList
    <2>2. ValuesOf(k, t) = [i \in 1 .. n |-> t[g[i]].value]
      BY <1>8, ValuesByList
    <2> QED BY <2>1, <2>2
  <1> HIDE DEF g
  <1> QED BY <1>5, <1>9

(* An entry with the key joins at the end.                                  *)
LEMMA ValuesJoin ==
    ASSUME NEW k, NEW s \in Seq(Entry), NEW e \in Entry, e.key = k
    PROVE  ValuesOf(k, Append(s, e)) = Append(ValuesOf(k, s), e.value)
  <1> DEFINE t == Append(s, e)
  <1>1. PICK n \in Nat : \E f : Lists(f, n, Positions(k, s))
    BY PositionsListed
  <1>2. PICK f : Lists(f, n, Positions(k, s))
    BY <1>1
  <1> DEFINE g == [i \in 1 .. n + 1 |-> IF i = n + 1 THEN Len(s) + 1 ELSE f[i]]
  <1>3. /\ t \in Seq(Entry) /\ Len(s) \in Nat /\ DOMAIN s = 1 .. Len(s)
        /\ DOMAIN t = 1 .. Len(s) + 1 /\ t[Len(s) + 1] = e
        /\ \A i \in 1 .. Len(s) : t[i] = s[i]
    OBVIOUS
  <1> HIDE DEF t
  <1>4. /\ \A i \in 1 .. n : f[i] \in 1 .. Len(s) /\ s[f[i]].key = k
        /\ \A i, j \in 1 .. n : i < j => f[i] < f[j]
        /\ \A p \in 1 .. Len(s) : s[p].key = k => \E i \in 1 .. n : f[i] = p
    <2>1. \A i \in 1 .. n : f[i] \in Positions(k, s)
      BY <1>2 DEF Lists
    <2>2. \A i \in 1 .. n : f[i] \in 1 .. Len(s) /\ s[f[i]].key = k
      BY <1>3, <2>1 DEF Positions
    <2>3. \A p \in 1 .. Len(s) : s[p].key = k => p \in Positions(k, s)
      BY <1>3 DEF Positions
    <2>4. \A p \in Positions(k, s) : \E i \in 1 .. n : f[i] = p
      BY <1>2 DEF Lists
    <2>5. \A i, j \in 1 .. n : i < j => f[i] < f[j]
      BY <1>2 DEF Lists
    <2> QED BY <2>2, <2>3, <2>4, <2>5
  <1>5. /\ g[n + 1] = Len(s) + 1
        /\ \A i \in 1 .. n : g[i] = f[i] /\ g[i] \in 1 .. Len(s)
    BY <1>4
  <1>14. g = [i \in 1 .. n + 1 |-> g[i]]
    OBVIOUS
  <1> HIDE DEF g
  <1>6. /\ \A i \in 1 .. n + 1 : i = n + 1 \/ i \in 1 .. n
        /\ \A i \in 1 .. n : i \in 1 .. n + 1
        /\ n + 1 \in 1 .. n + 1
    OBVIOUS
  <1>7. Lists(g, n + 1, Positions(k, t))
    <2>1. \A i \in 1 .. n + 1 : g[i] \in Positions(k, t)
      <3>1. g[n + 1] \in Positions(k, t)
        BY <1>3, <1>5 DEF Positions
      <3>2. \A i \in 1 .. n : g[i] \in Positions(k, t)
        <4> SUFFICES ASSUME NEW i \in 1 .. n PROVE g[i] \in Positions(k, t)
          OBVIOUS
        <4>1. g[i] \in DOMAIN t /\ t[g[i]] = s[f[i]]
          BY <1>3, <1>5
        <4> QED BY <4>1, <1>4 DEF Positions
      <3> QED BY <3>1, <3>2, <1>6
    <2>2. g \in [1 .. n + 1 -> Positions(k, t)]
      BY <1>14, <2>1
    <2>3. \A i, j \in 1 .. n + 1 : i < j => g[i] < g[j]
      <3> SUFFICES ASSUME NEW i \in 1 .. n + 1, NEW j \in 1 .. n + 1, i < j
                   PROVE  g[i] < g[j]
        OBVIOUS
      <3>1. i \in 1 .. n
        OBVIOUS
      <3>2. CASE j = n + 1
        <4>1. g[i] \in 1 .. Len(s) /\ g[j] = Len(s) + 1
          BY <3>1, <3>2, <1>5
        <4> QED BY <4>1, <1>3
      <3>3. CASE j \in 1 .. n
        <4>1. g[i] = f[i] /\ g[j] = f[j]
          BY <3>1, <3>3, <1>5
        <4>2. f[i] < f[j]
          BY <3>1, <3>3, <1>4
        <4> QED BY <4>1, <4>2
      <3> QED BY <3>2, <3>3, <1>6
    <2>4. \A p \in Positions(k, t) : \E i \in 1 .. n + 1 : g[i] = p
      <3> SUFFICES ASSUME NEW p \in Positions(k, t)
                   PROVE  \E i \in 1 .. n + 1 : g[i] = p
        OBVIOUS
      <3>1. p \in 1 .. Len(s) + 1 /\ t[p].key = k
        BY <1>3 DEF Positions
      <3>2. CASE p = Len(s) + 1
        BY <3>2, <1>5, <1>6
      <3>3. CASE p \in 1 .. Len(s)
        <4>1. PICK i \in 1 .. n : f[i] = p
          BY <3>1, <3>3, <1>3, <1>4
        <4>2. g[i] = p /\ i \in 1 .. n + 1
          BY <4>1, <1>5, <1>6
        <4> QED BY <4>2
      <3>4. p = Len(s) + 1 \/ p \in 1 .. Len(s)
        BY <3>1, <1>3
      <3> QED BY <3>2, <3>3, <3>4
    <2> QED BY <2>2, <2>3, <2>4 DEF Lists
  <1>8. ValuesOf(k, s) = [i \in 1 .. n |-> s[f[i]].value]
    BY <1>2, ValuesByList
  <1>9. ValuesOf(k, t) = [i \in 1 .. n + 1 |-> t[g[i]].value]
    <2>1. n + 1 \in Nat
      OBVIOUS
    <2> QED BY <2>1, <1>3, <1>7, ValuesByList
  <1> DEFINE v == ValuesOf(k, s)
             w == ValuesOf(k, t)
  <1>10. v \in Seq(Value) /\ w \in Seq(Value) /\ e.value \in Value
    BY <1>3, ValuesType DEF Entry
  <1>11. /\ DOMAIN v = 1 .. n /\ DOMAIN w = 1 .. n + 1 /\ w[n + 1] = e.value
         /\ \A i \in 1 .. n : w[i] = v[i]
    <2>1. \A i \in 1 .. n : t[g[i]] = s[f[i]]
      BY <1>3, <1>5
    <2>2. t[g[n + 1]] = e
      BY <1>3, <1>5
    <2> QED BY <1>6, <1>8, <1>9, <2>1, <2>2
  <1> HIDE DEF v, w
  <1>12. Len(v) = n /\ Len(w) = n + 1
    BY <1>10, <1>11
  <1>13. w = Append(v, e.value)
    <2>1. /\ Append(v, e.value) \in Seq(Value) /\ Len(Append(v, e.value)) = n + 1
          /\ Append(v, e.value)[n + 1] = e.value
          /\ \A i \in 1 .. n : Append(v, e.value)[i] = v[i]
      BY <1>10, <1>12
    <2>2. \A i \in 1 .. n + 1 : w[i] = Append(v, e.value)[i]
      BY <2>1, <1>6, <1>11
    <2> QED BY <1>10, <1>12, <2>1, <2>2, SeqEqual
  <1> QED BY <1>13 DEF v, w, t

(* The first entry with the key goes.                                       *)
LEMMA ValuesDropFirst ==
    ASSUME NEW k, NEW s \in Seq(Entry), NEW t \in Seq(Entry),
           NEW d \in Positions(k, s), \A p \in Positions(k, s) : d <= p,
           Shorter(t, s, d)
    PROVE  /\ ValuesOf(k, s) # <<>>
           /\ Head(ValuesOf(k, s)) = s[d].value
           /\ ValuesOf(k, t) = Tail(ValuesOf(k, s))
  <1>1. PICK n \in Nat : \E f : Lists(f, n, Positions(k, s))
    BY PositionsListed
  <1>2. PICK f : Lists(f, n, Positions(k, s))
    BY <1>1
  <1>3. /\ Len(s) \in Nat /\ d \in 1 .. Len(s) /\ Len(t) = Len(s) - 1
        /\ DOMAIN s = 1 .. Len(s) /\ DOMAIN t = 1 .. Len(s) - 1
        /\ \A i \in 1 .. Len(s) - 1 : t[i] = IF i < d THEN s[i] ELSE s[i + 1]
    BY SMTT(30) DEF Shorter
  <1>4. /\ \A i \in 1 .. n : f[i] \in d .. Len(s) /\ s[f[i]].key = k
        /\ \A i, j \in 1 .. n : i < j => f[i] < f[j]
        /\ \A p \in 1 .. Len(s) : s[p].key = k => \E i \in 1 .. n : f[i] = p
    <2>1. \A i \in 1 .. n : f[i] \in Positions(k, s)
      BY <1>2 DEF Lists
    <2>2. \A i \in 1 .. n : f[i] \in d .. Len(s) /\ s[f[i]].key = k
      <3>1. \A i \in 1 .. n : f[i] \in 1 .. Len(s) /\ s[f[i]].key = k
        BY <1>3, <2>1 DEF Positions
      <3>2. \A i \in 1 .. n : d <= f[i]
        BY <2>1
      <3> QED BY <3>1, <3>2, <1>3
    <2>3. \A p \in 1 .. Len(s) : s[p].key = k => p \in Positions(k, s)
      BY <1>3 DEF Positions
    <2>4. \A p \in Positions(k, s) : \E i \in 1 .. n : f[i] = p
      BY <1>2 DEF Lists
    <2>5. \A i, j \in 1 .. n : i < j => f[i] < f[j]
      BY <1>2 DEF Lists
    <2> QED BY <2>2, <2>3, <2>4, <2>5
  <1>5. n >= 1 /\ f[1] = d
    <2>1. PICK i \in 1 .. n : f[i] = d
      BY <1>2 DEF Lists
    <2>2. ~ (1 < i)
      <3>1. 1 \in 1 .. n
        BY <2>1
      <3>2. f[1] \in d .. Len(s)
        BY <1>4, <3>1
      <3> QED BY <2>1, <3>1, <3>2, <1>3, <1>4
    <2> QED BY <2>1, <2>2
  <1>6. \A i \in 1 .. n : i > 1 => f[i] > d
    BY <1>4, <1>5
  <1> DEFINE m == n - 1
             g == [i \in 1 .. m |-> f[i + 1] - 1]
  <1>7. m \in Nat /\ n = m + 1 /\ \A i \in 1 .. m : i \in 1 .. n /\ i + 1 \in 1 .. n /\ i + 1 > 1
    BY <1>5
  <1>8. \A i \in 1 .. m : /\ g[i] = f[i + 1] - 1 /\ g[i] \in d .. Len(s) - 1
                          /\ t[g[i]] = s[f[i + 1]]
    <2> SUFFICES ASSUME NEW i \in 1 .. m
                 PROVE  /\ g[i] = f[i + 1] - 1 /\ g[i] \in d .. Len(s) - 1
                        /\ t[g[i]] = s[f[i + 1]]
      OBVIOUS
    <2>1. g[i] = f[i + 1] - 1
      OBVIOUS
    <2> HIDE DEF g, m
    <2>2. f[i + 1] \in d .. Len(s) /\ f[i + 1] > d
      BY <1>4, <1>6, <1>7
    <2>3. /\ g[i] \in d .. Len(s) - 1 /\ g[i] + 1 = f[i + 1] /\ ~ (g[i] < d)
          /\ g[i] \in 1 .. Len(s) - 1
      BY <1>3, <2>1, <2>2
    <2> QED BY <2>1, <2>3, <1>3
  <1>9. g = [i \in 1 .. m |-> g[i]]
    OBVIOUS
  <1> HIDE DEF g, m
  <1>10. Lists(g, m, Positions(k, t))
    <2>1. \A i \in 1 .. m : g[i] \in Positions(k, t)
      <3> SUFFICES ASSUME NEW i \in 1 .. m PROVE g[i] \in Positions(k, t)
        OBVIOUS
      <3>1. g[i] \in DOMAIN t /\ t[g[i]].key = k
        BY <1>3, <1>4, <1>7, <1>8
      <3> QED BY <3>1 DEF Positions
    <2>2. g \in [1 .. m -> Positions(k, t)]
      BY <1>9, <2>1
    <2>3. \A i, j \in 1 .. m : i < j => g[i] < g[j]
      <3> SUFFICES ASSUME NEW i \in 1 .. m, NEW j \in 1 .. m, i < j
                   PROVE  g[i] < g[j]
        OBVIOUS
      <3>1. f[i + 1] < f[j + 1] /\ f[i + 1] \in Nat /\ f[j + 1] \in Nat
        BY <1>3, <1>4, <1>7
      <3> QED BY SMTT(30), <3>1, <1>8
    <2>4. \A p \in Positions(k, t) : \E i \in 1 .. m : g[i] = p
      <3> SUFFICES ASSUME NEW p \in Positions(k, t)
                   PROVE  \E i \in 1 .. m : g[i] = p
        OBVIOUS
      <3>1. p \in 1 .. Len(s) - 1 /\ t[p].key = k
        BY <1>3 DEF Positions
      <3>2. CASE p < d
        <4>1. s[p].key = k /\ p \in 1 .. Len(s)
          BY <3>1, <3>2, <1>3
        <4>2. PICK i \in 1 .. n : f[i] = p
          BY <4>1, <1>4
        <4> QED BY <4>2, <3>2, <1>3, <1>4
      <3>3. CASE ~ (p < d)
        <4>1. s[p + 1].key = k /\ p + 1 \in 1 .. Len(s) /\ p + 1 # d
          BY <3>1, <3>3, <1>3
        <4>2. PICK i \in 1 .. n : f[i] = p + 1
          BY <4>1, <1>4
        <4>3. i # 1
          BY <4>1, <4>2, <1>5
        <4>4. i - 1 \in 1 .. m /\ (i - 1) + 1 = i
          BY <4>3, <1>7
        <4>5. g[i - 1] = p
          BY <4>2, <4>4, <1>8, <3>1
        <4> QED BY <4>4, <4>5
      <3> QED BY <3>2, <3>3
    <2> QED BY <2>2, <2>3, <2>4 DEF Lists
  <1> DEFINE v == ValuesOf(k, s)
             w == ValuesOf(k, t)
  <1>11. v = [i \in 1 .. n |-> s[f[i]].value]
    BY <1>2, ValuesByList
  <1>12. w = [i \in 1 .. m |-> t[g[i]].value]
    BY <1>7, <1>10, ValuesByList
  <1>13. v \in Seq(Value) /\ w \in Seq(Value)
    BY ValuesType
  <1> HIDE DEF v, w
  <1>14. /\ DOMAIN v = 1 .. n /\ DOMAIN w = 1 .. m /\ v[1] = s[d].value
         /\ \A i \in 1 .. m : w[i] = v[i + 1]
    BY <1>5, <1>7, <1>8, <1>11, <1>12
  <1>15. Len(v) = n /\ Len(w) = m
    BY <1>7, <1>13, <1>14
  <1>16. /\ v # <<>> /\ Head(v) = v[1] /\ Tail(v) \in Seq(Value) /\ Len(Tail(v)) = m
         /\ \A i \in 1 .. m : Tail(v)[i] = v[i + 1]
    BY <1>5, <1>7, <1>13, <1>15
  <1>17. w = Tail(v)
    BY <1>13, <1>14, <1>15, <1>16, SeqEqual
  <1> QED BY <1>14, <1>16, <1>17 DEF v, w

(* An entry with another key may come between or go.                        *)
LEMMA ValuesAppendOther ==
    ASSUME NEW k, NEW s \in Seq(Entry), NEW u \in Seq(Entry), NEW e \in Entry, e.key # k
    PROVE  ValuesOf(k, Append(s, e) \o u) = ValuesOf(k, s \o u)
  <1> DEFINE a == Append(s, e) \o u
             b == s \o u
             d == Len(s) + 1
  <1>1. /\ Append(s, e) \in Seq(Entry) /\ Len(Append(s, e)) = d /\ Append(s, e)[d] = e
        /\ \A i \in 1 .. Len(s) : Append(s, e)[i] = s[i]
        /\ Len(s) \in Nat /\ Len(u) \in Nat /\ d \in Nat
    OBVIOUS
  <1>2. /\ a \in Seq(Entry) /\ Len(a) = d + Len(u)
        /\ \A i \in 1 .. d + Len(u) : a[i] = IF i <= d THEN Append(s, e)[i] ELSE u[i - d]
    <2> HIDE DEF d
    <2> QED BY <1>1, ConcatProperties
  <1>3. /\ b \in Seq(Entry) /\ Len(b) = Len(s) + Len(u)
        /\ \A i \in 1 .. Len(s) + Len(u) : b[i] = IF i <= Len(s) THEN s[i] ELSE u[i - Len(s)]
    BY ConcatProperties
  <1> HIDE DEF a, b
  <1>4. d \in 1 .. Len(a) /\ Len(b) = Len(a) - 1 /\ a[d] = e
    BY <1>1, <1>2, <1>3
  <1>5. ASSUME NEW i \in 1 .. Len(a) - 1 PROVE b[i] = IF i < d THEN a[i] ELSE a[i + 1]
    <2>1. CASE i < d
      <3>1. i \in 1 .. Len(s) /\ i \in 1 .. Len(s) + Len(u) /\ i \in 1 .. d + Len(u) /\ i <= d
        BY <1>1, <1>2, <2>1
      <3> QED BY <3>1, <2>1, <1>1, <1>2, <1>3
    <2>2. CASE ~ (i < d)
      <3>1. /\ i \in 1 .. Len(s) + Len(u) /\ ~ (i <= Len(s))
            /\ i + 1 \in 1 .. d + Len(u) /\ ~ (i + 1 <= d) /\ i - Len(s) = (i + 1) - d
        BY <1>1, <1>2, <2>2
      <3>2. b[i] = u[i - Len(s)] /\ a[i + 1] = u[(i + 1) - d]
        BY <3>1, <1>2, <1>3
      <3> QED BY <3>1, <3>2, <2>2
    <2> QED BY <2>1, <2>2
  <1>6. Shorter(b, a, d)
    BY <1>4, <1>5 DEF Shorter
  <1> HIDE DEF d
  <1>7. ValuesOf(k, b) = ValuesOf(k, a)
    BY <1>1, <1>2, <1>3, <1>4, <1>6, ValuesSkip
  <1> QED BY <1>7 DEF a, b

LEMMA TailSplit ==
    ASSUME NEW w \in Seq(Entry), w # <<>>
    PROVE  /\ w = <<w[1]>> \o Tail(w)
           /\ w[1] \in Entry /\ Head(w) = w[1] /\ Tail(w) \in Seq(Entry)
  OBVIOUS

LEMMA MoveSplit ==
    ASSUME NEW s \in Seq(Entry), NEW w \in Seq(Entry), w # <<>>
    PROVE  s \o w = Append(s, w[1]) \o Tail(w)
  <1>1. /\ w = <<w[1]>> \o Tail(w) /\ w[1] \in Entry /\ Tail(w) \in Seq(Entry)
        /\ <<w[1]>> \in Seq(Entry)
    BY TailSplit
  <1>2. Append(s, w[1]) = s \o <<w[1]>>
    BY <1>1, AppendIsConcat
  <1>3. s \o (<<w[1]>> \o Tail(w)) = (s \o <<w[1]>>) \o Tail(w)
    BY <1>1, ConcatAssociative
  <1> QED BY <1>1, <1>2, <1>3

LEMMA ValuesTailOther ==
    ASSUME NEW k, NEW s \in Seq(Entry), NEW w \in Seq(Entry), w # <<>>, Head(w).key # k
    PROVE  ValuesOf(k, s \o Tail(w)) = ValuesOf(k, s \o w)
  <1>1. w[1] \in Entry /\ Head(w) = w[1] /\ Tail(w) \in Seq(Entry)
    BY TailSplit
  <1>2. s \o w = Append(s, w[1]) \o Tail(w)
    BY MoveSplit
  <1>3. ValuesOf(k, Append(s, w[1]) \o Tail(w)) = ValuesOf(k, s \o Tail(w))
    BY ZenonT(60), <1>1, ValuesAppendOther
  <1> QED BY <1>2, <1>3

(* The entry that a turn of the rehash moves stays where it was among the   *)
(* entries of its key.                                                      *)
LEMMA ValuesMove ==
    ASSUME NEW k, NEW s \in Seq(Entry), NEW w \in Seq(Entry), w # <<>>,
           NEW e \in Entry, e.key = Head(w).key, e.value = Head(w).value
    PROVE  ValuesOf(k, Append(s, e) \o Tail(w)) = ValuesOf(k, s \o w)
  <1> DEFINE a == Append(s, e) \o Tail(w)
             b == Append(s, w[1]) \o Tail(w)
             d == Len(s) + 1
  <1>1. w[1] \in Entry /\ Head(w) = w[1] /\ Tail(w) \in Seq(Entry)
    BY TailSplit
  <1>2. \A x \in Entry :
           /\ Append(s, x) \in Seq(Entry) /\ Len(Append(s, x)) = d /\ Append(s, x)[d] = x
           /\ \A i \in 1 .. Len(s) : Append(s, x)[i] = s[i]
    OBVIOUS
  <1>3. d \in Nat /\ Len(s) \in Nat /\ Len(Tail(w)) \in Nat
    BY <1>1
  <1>4. /\ a \in Seq(Entry) /\ Len(a) = d + Len(Tail(w))
        /\ \A i \in 1 .. d + Len(Tail(w)) :
              a[i] = IF i <= d THEN Append(s, e)[i] ELSE Tail(w)[i - d]
    <2> HIDE DEF d
    <2> QED BY <1>1, <1>2, ConcatProperties
  <1>5. /\ b \in Seq(Entry) /\ Len(b) = d + Len(Tail(w))
        /\ \A i \in 1 .. d + Len(Tail(w)) :
              b[i] = IF i <= d THEN Append(s, w[1])[i] ELSE Tail(w)[i - d]
    <2> HIDE DEF d
    <2> QED BY <1>1, <1>2, ConcatProperties
  <1> HIDE DEF a, b
  <1>6. ASSUME NEW i \in 1 .. Len(a) PROVE a[i].key = b[i].key /\ a[i].value = b[i].value
    <2>0. i \in 1 .. d + Len(Tail(w))
      BY <1>4
    <2>1. CASE ~ (i <= d)
      BY <2>0, <2>1, <1>4, <1>5
    <2>2. CASE i <= d /\ i # d
      <3>1. i \in 1 .. Len(s)
        BY <2>2, <1>3
      <3>2. Append(s, e)[i] = s[i] /\ Append(s, w[1])[i] = s[i]
        BY <3>1, <1>1, <1>2
      <3> QED BY <3>2, <2>0, <2>2, <1>4, <1>5
    <2>3. CASE i = d
      <3>1. Append(s, e)[i] = e /\ Append(s, w[1])[i] = w[1] /\ i <= d
        BY <2>3, <1>1, <1>2, <1>3
      <3>2. a[i] = e /\ b[i] = w[1]
        BY <3>1, <2>0, <1>4, <1>5
      <3> QED BY <3>2, <1>1
    <2> QED BY <2>1, <2>2, <2>3
  <1>7. Len(a) = Len(b)
    BY <1>4, <1>5
  <1>8. ValuesOf(k, a) = ValuesOf(k, b)
    BY <1>4, <1>5, <1>6, <1>7, ValuesSame
  <1>9. b = s \o w
    BY MoveSplit DEF b
  <1> QED BY <1>8, <1>9 DEF a

-----------------------------------------------------------------------------
(* Every step is a step of MultimapAbs, or none.                            *)

LEMMA BindingOf ==
    ASSUME TableTypeOK, NEW k \in Key
    PROVE  /\ KeyLoc(k) \in Buckets /\ Bucket(k) \in Seq(Entry)
           /\ OldSize # 0 => HashFunc[k] % OldSize \in OldBuckets
           /\ OldBucket(k) \in Seq(Entry)
           /\ Bindings[k] = ValuesOf(k, Bucket(k) \o OldBucket(k))
           /\ Left = {} => OldBucket(k) = <<>>
           /\ Left = {} => Bindings[k] = ValuesOf(k, Bucket(k))
  <1>1. KeyLoc(k) \in Buckets /\ Bucket(k) \in Seq(Entry)
    BY SizeNat DEF TableTypeOK, Bucket
  <1>2. OldSize # 0 => HashFunc[k] % OldSize \in OldBuckets
    <2>1. OldSize \in Nat /\ HashFunc[k] \in Nat
      BY SizeNat, TableAssumption DEF TableTypeOK
    <2> QED BY <2>1 DEF OldBuckets
  <1>3. OldBucket(k) \in Seq(Entry)
    BY <1>2 DEF OldBucket, TableTypeOK
  <1>4. Left = {} => OldBucket(k) = <<>>
    BY <1>2 DEF OldBucket, Left
  <1>5. Bindings[k] = ValuesOf(k, Bucket(k) \o OldBucket(k))
    BY DEF Bindings
  <1>6. Left = {} => Bindings[k] = ValuesOf(k, Bucket(k))
    BY <1>1, <1>4, <1>5, ConcatEmptySeq
  <1> QED BY <1>1, <1>2, <1>3, <1>4, <1>5, <1>6

LEMMA BindingAfter ==
    ASSUME TableTypeOK', NEW k \in Key
    PROVE  /\ KeyLoc(k)' \in Buckets' /\ Bucket(k)' \in Seq(Entry)
           /\ OldBucket(k)' \in Seq(Entry)
           /\ Bindings'[k] = ValuesOf(k, Bucket(k)' \o OldBucket(k)')
           /\ Left' = {} => Bindings'[k] = ValuesOf(k, Bucket(k)')
  <1>1. primeIdx' \in DOMAIN HashPrimes /\ HashFunc[k] \in Nat
    BY TableAssumption DEF TableTypeOK
  <1>2. /\ HashPrimes[primeIdx'] \in Nat \ {0}
        /\ primeIdx' # 1 => HashPrimes[primeIdx' - 1] \in Nat \ {0}
    <2>1. DOMAIN HashPrimes = 1 .. Len(HashPrimes) /\ Len(HashPrimes) \in Nat
          /\ \A i \in DOMAIN HashPrimes : HashPrimes[i] \in Nat \ {0}
      BY TableAssumption
    <2>2. primeIdx' # 1 => primeIdx' - 1 \in DOMAIN HashPrimes
      BY <1>1, <2>1
    <2> QED BY <1>1, <2>1, <2>2
  <1>3. KeyLoc(k)' \in Buckets'
    BY <1>1, <1>2 DEF KeyLoc, Size, Buckets
  <1>4. Bucket(k)' \in Seq(Entry)
    BY <1>3 DEF Bucket, TableTypeOK
  <1>5. OldSize' # 0 => HashFunc[k] % OldSize' \in OldBuckets'
    BY <1>1, <1>2 DEF OldSize, OldBuckets
  <1>6. OldBucket(k)' \in Seq(Entry)
    BY <1>5 DEF OldBucket, TableTypeOK
  <1>7. Bindings'[k] = ValuesOf(k, Bucket(k)' \o OldBucket(k)')
    BY DEF Bindings
  <1>8. Left' = {} => OldBucket(k)' = <<>>
    BY <1>5 DEF OldBucket, Left
  <1>9. Left' = {} => Bindings'[k] = ValuesOf(k, Bucket(k)')
    BY <1>4, <1>7, <1>8, ConcatEmptySeq
  <1> QED BY <1>3, <1>4, <1>6, <1>7, <1>9

LEMMA BindingsKept ==
    ASSUME \A k \in Key : Bindings'[k] = Bindings[k]
    PROVE  Bindings' = Bindings
  BY DEF Bindings

(* A turn of an iterator.                                                   *)
LEMMA MapIterate ==
    ASSUME tableStatus = "run", ~Table!Waits, NEW a \in {<<"begin">>, <<"next">>},
           Returns(a), Bindings' = Bindings
    PROVE  Table!AbsNext
  <1>1. Table!AbsIterate
    BY DEF Table!AbsIterate, Returns
  <1> QED BY <1>1 DEF Table!AbsNext, Returns

LEMMA MapStop ==
    ASSUME tableStatus = "run", NEW call, NEW how \in {"panic", "fault"},
           TableStop(call, how),
           how = "panic" => \/ \E k \in Key : call = <<"insert", k>>
                            \/ call \in {<<"rehash">>, <<"deinit">>}
    PROVE  Table!AbsNext
  <1>1. Bindings' = Bindings
    BY DEF TableStop, contents, Bindings, Bucket, OldBucket, KeyLoc, Size, OldSize
  <1>2. Table!AbsEnd
    BY <1>1 DEF TableStop, Table!AbsEnd
  <1> QED BY <1>2 DEF Table!AbsNext

LEMMA JoinMaps ==
    ASSUME TableTypeOK, TableTypeOK', tableStatus = "run", Left = {},
           NEW k \in Key, NEW v \in Value, PutNew(k, v),
           Table!Waits => tableAnswer = <<"grow", k, v>>,
           Returns(<<"insert", k, v>>), UNCHANGED <<primeIdx, rest>>
    PROVE  Table!AbsNext
  <1>1. PICK e \in Entry : e.key = k /\ e.value = v /\ Put(e)
    BY PutNewEntry
  <1>2. Left' = {} /\ \A j \in Key : KeyLoc(j)' = KeyLoc(j)
    BY DEF Left, OldBuckets, OldSize, KeyLoc, Size
  <1>3. \A j \in Key : /\ KeyLoc(j) \in Buckets /\ Bucket(j) \in Seq(Entry)
                       /\ Bindings[j] = ValuesOf(j, Bucket(j))
    BY BindingOf
  <1>4. \A j \in Key : Bindings'[j] = ValuesOf(j, Bucket(j)')
    BY <1>2, BindingAfter
  <1>5. entries' = [entries EXCEPT ![KeyLoc(k)] = Append(@, e)]
    BY <1>1 DEF Put
  <1>6. \A j \in Key : Bucket(j)' = IF KeyLoc(j) = KeyLoc(k) THEN Append(Bucket(j), e) ELSE Bucket(j)
    BY <1>2, <1>3, <1>5 DEF Bucket, TableTypeOK
  <1>7. Bindings'[k] = Append(Bindings[k], v)
    <2>1. Bucket(k)' = Append(Bucket(k), e)
      BY <1>6
    <2>2. ValuesOf(k, Append(Bucket(k), e)) = Append(ValuesOf(k, Bucket(k)), e.value)
      BY <1>1, <1>3, ValuesJoin
    <2> QED BY <2>1, <2>2, <1>1, <1>3, <1>4
  <1>8. ASSUME NEW j \in Key, j # k PROVE Bindings'[j] = Bindings[j]
    <2>1. CASE KeyLoc(j) = KeyLoc(k)
      <3>1. Bucket(j)' = Append(Bucket(j), e)
        BY <1>6, <2>1
      <3>2. <<>> \in Seq(Entry)
        OBVIOUS
      <3>3. ValuesOf(j, Append(Bucket(j), e) \o <<>>) = ValuesOf(j, Bucket(j) \o <<>>)
        BY ZenonT(30), <1>1, <1>3, <1>8, <3>2, ValuesAppendOther
      <3>4. /\ Append(Bucket(j), e) \o <<>> = Append(Bucket(j), e)
            /\ Bucket(j) \o <<>> = Bucket(j)
        <4>1. Append(Bucket(j), e) \in Seq(Entry)
          BY <1>1, <1>3
        <4> QED BY <4>1, <1>3, ConcatEmptySeq
      <3> QED BY <3>1, <3>3, <3>4, <1>3, <1>4
    <2>2. CASE KeyLoc(j) # KeyLoc(k)
      BY <2>2, <1>3, <1>4, <1>6
    <2> QED BY <2>1, <2>2
  <1>9. Bindings' = [Bindings EXCEPT ![k] = Append(@, v)]
    <2>1. DOMAIN Bindings' = Key /\ DOMAIN Bindings = Key
          /\ Bindings' = [j \in Key |-> Bindings'[j]] /\ Bindings = [j \in Key |-> Bindings[j]]
      BY DEF Bindings
    <2> QED BY <2>1, <1>7, <1>8
  <1>10. Table!AbsInsert(k, v)
    BY <1>9 DEF Table!AbsInsert, Returns
  <1> QED BY <1>10 DEF Table!AbsNext, Returns

(* Nothing is bound differently where only marks change.                    *)
LEMMA MarksBind ==
    ASSUME TableTypeOK, UNCHANGED <<primeIdx, rest>>,
           entries' \in [Buckets -> Seq(Entry)],
           \A b \in Buckets :
              /\ DOMAIN entries'[b] = DOMAIN entries[b]
              /\ \A i \in DOMAIN entries[b] :
                    /\ entries'[b][i].key = entries[b][i].key
                    /\ entries'[b][i].value = entries[b][i].value
    PROVE  Bindings' = Bindings
  <1>1. ASSUME NEW k \in Key PROVE Bindings'[k] = Bindings[k]
    <2> DEFINE s == Bucket(k) \o OldBucket(k)
               t == Bucket(k)' \o OldBucket(k)
    <2>1. /\ KeyLoc(k) \in Buckets /\ Bucket(k) \in Seq(Entry) /\ OldBucket(k) \in Seq(Entry)
          /\ Bindings[k] = ValuesOf(k, s)
      BY BindingOf
    <2>2. Bucket(k)' = entries'[KeyLoc(k)] /\ OldBucket(k)' = OldBucket(k)
      BY DEF Bucket, KeyLoc, Size, OldBucket, OldSize
    <2>3. Bindings'[k] = ValuesOf(k, t)
      BY <2>2 DEF Bindings
    <2>4. /\ Bucket(k)' \in Seq(Entry)
          /\ DOMAIN Bucket(k)' = DOMAIN Bucket(k)
          /\ \A i \in DOMAIN Bucket(k) :
                /\ Bucket(k)'[i].key = Bucket(k)[i].key
                /\ Bucket(k)'[i].value = Bucket(k)[i].value
      BY <2>1, <2>2 DEF Bucket
    <2>5. Len(Bucket(k)') = Len(Bucket(k)) /\ DOMAIN Bucket(k) = 1 .. Len(Bucket(k))
      BY <2>1, <2>4
    <2>6. /\ s \in Seq(Entry) /\ Len(s) = Len(Bucket(k)) + Len(OldBucket(k))
          /\ \A i \in 1 .. Len(Bucket(k)) + Len(OldBucket(k)) :
                s[i] = IF i <= Len(Bucket(k)) THEN Bucket(k)[i]
                       ELSE OldBucket(k)[i - Len(Bucket(k))]
      BY <2>1, ConcatProperties
    <2>7. /\ t \in Seq(Entry) /\ Len(t) = Len(Bucket(k)') + Len(OldBucket(k))
          /\ \A i \in 1 .. Len(Bucket(k)') + Len(OldBucket(k)) :
                t[i] = IF i <= Len(Bucket(k)') THEN Bucket(k)'[i]
                       ELSE OldBucket(k)[i - Len(Bucket(k)')]
      BY <2>1, <2>4, ConcatProperties
    <2> HIDE DEF s, t
    <2>8. Len(Bucket(k)) \in Nat /\ Len(OldBucket(k)) \in Nat
      BY <2>1
    <2>9. ASSUME NEW i \in 1 .. Len(s) PROVE s[i].key = t[i].key /\ s[i].value = t[i].value
      <3>1. CASE i <= Len(Bucket(k))
        <4>1. i \in DOMAIN Bucket(k)
          BY <3>1, <2>5, <2>6, <2>8
        <4>2. s[i] = Bucket(k)[i] /\ t[i] = Bucket(k)'[i]
          BY <3>1, <2>5, <2>6, <2>7
        <4> QED BY <4>1, <4>2, <2>4
      <3>2. CASE ~ (i <= Len(Bucket(k)))
        BY SMTT(30), <3>2, <2>5, <2>6, <2>7
      <3> QED BY <3>1, <3>2
    <2>10. Len(s) = Len(t)
      BY <2>5, <2>6, <2>7
    <2>11. ValuesOf(k, s) = ValuesOf(k, t)
      BY <2>6, <2>7, <2>9, <2>10, ValuesSame
    <2> QED BY <2>1, <2>3, <2>11
  <1> QED BY <1>1, BindingsKept

(* The old lists hold what the table held.                                  *)
LEMMA GrowBinds ==
    ASSUME TableTypeOK, TableTypeOK', Left = {},
           primeIdx < Len(HashPrimes), primeIdx' = primeIdx + 1,
           entries' = [b \in 0 .. HashPrimes[primeIdx + 1] - 1 |-> <<>>],
           rest' = Marked(entries, "new")
    PROVE  Bindings' = Bindings
  <1>1. /\ OldSize' = Size /\ Size \in Nat \ {0} /\ primeIdx \in Nat
        /\ Buckets' = 0 .. HashPrimes[primeIdx + 1] - 1
    <2>1. primeIdx \in 1 .. Len(HashPrimes)
      BY TableAssumption DEF TableTypeOK
    <2>2. Size \in Nat \ {0}
      BY SizeNat DEF TableTypeOK
    <2>3. primeIdx' # 1 /\ primeIdx' - 1 = primeIdx
      BY <2>1
    <2> QED BY <2>1, <2>2, <2>3 DEF OldSize, Size, Buckets
  <1>2. ASSUME NEW b \in Buckets
        PROVE  /\ rest'[b] \in Seq(Entry)
               /\ DOMAIN rest'[b] = DOMAIN entries[b]
               /\ \A i \in DOMAIN entries[b] :
                     /\ rest'[b][i].key = entries[b][i].key
                     /\ rest'[b][i].value = entries[b][i].value
    <2>1. rest' = Marked(entries, "new") /\ "new" \in {"due", "seen", "new"}
      OBVIOUS
    <2>2. entries \in [Buckets -> Seq(Entry)]
      BY DEF TableTypeOK
    <2>3. rest' \in [Buckets -> Seq(Entry)]
      BY ONLY <2>1, <2>2, MarkedLists
    <2>4. /\ DOMAIN rest'[b] = DOMAIN entries[b]
          /\ \A i \in DOMAIN entries[b] :
                /\ rest'[b][i].key = entries[b][i].key
                /\ rest'[b][i].value = entries[b][i].value
      BY ONLY <2>1, <2>2, MarkedLists
    <2> QED BY <2>3, <2>4
  <1>3. ASSUME NEW k \in Key PROVE Bindings'[k] = Bindings[k]
    <2>1. /\ KeyLoc(k) \in Buckets /\ Bucket(k) \in Seq(Entry)
          /\ Bindings[k] = ValuesOf(k, Bucket(k))
      BY BindingOf
    <2>2. /\ KeyLoc(k)' \in Buckets' /\ OldBucket(k)' \in Seq(Entry)
          /\ Bindings'[k] = ValuesOf(k, Bucket(k)' \o OldBucket(k)')
      BY BindingAfter
    <2>3. Bucket(k)' = <<>>
      <3>1. Bucket(k)' = entries'[KeyLoc(k)']
        BY DEF Bucket
      <3> QED BY <3>1, <2>2, <1>1
    <2>4. OldBucket(k)' = rest'[KeyLoc(k)]
      BY <1>1 DEF OldBucket, KeyLoc
    <2>5. Bindings'[k] = ValuesOf(k, OldBucket(k)')
      BY <2>2, <2>3, ConcatEmptySeq
    <2> DEFINE t == OldBucket(k)'
    <2>6. /\ t \in Seq(Entry) /\ DOMAIN t = DOMAIN Bucket(k)
          /\ \A i \in DOMAIN Bucket(k) :
                t[i].key = Bucket(k)[i].key /\ t[i].value = Bucket(k)[i].value
      BY <1>2, <2>1, <2>4 DEF Bucket
    <2> HIDE DEF t
    <2>7. Len(Bucket(k)) = Len(t) /\ DOMAIN Bucket(k) = 1 .. Len(Bucket(k))
      BY <2>1, <2>6
    <2>8. \A i \in 1 .. Len(Bucket(k)) :
             Bucket(k)[i].key = t[i].key /\ Bucket(k)[i].value = t[i].value
      BY <2>6, <2>7
    <2>9. ValuesOf(k, Bucket(k)) = ValuesOf(k, t)
      BY <2>1, <2>6, <2>7, <2>8, ValuesSame
    <2> QED BY <2>1, <2>5, <2>9 DEF t
  <1> QED BY <1>3, BindingsKept

(* A turn of the rehash changes no queue: the entry that moves joins the    *)
(* new list of its key and leaves the front of the old one.                 *)
LEMMA TurnBinds ==
    ASSUME TableTypeOK, TableTypeOK', Housed,
           NEW b \in Left, NEW old \in Entry, old = Head(rest[b]), PutOld(old),
           rest' = [rest EXCEPT ![b] = Tail(@)], UNCHANGED primeIdx
    PROVE  Bindings' = Bindings
  <1>1. /\ b \in OldBuckets /\ rest[b] \in Seq(Entry) /\ rest[b] # <<>>
        /\ 1 \in DOMAIN rest[b] /\ rest[b][1] = old /\ old \in Entry
        /\ OldSize # 0 /\ HashFunc[old.key] % OldSize = b
    <2>1. b \in OldBuckets /\ rest[b] \in Seq(Entry) /\ rest[b] # <<>>
      BY DEF Left, TableTypeOK
    <2>2. rest[b][1] \in Entry /\ Head(rest[b]) = rest[b][1] /\ 1 \in DOMAIN rest[b]
      BY <2>1, TailSplit
    <2>3. OldSize # 0
      BY <2>1 DEF OldBuckets
    <2>4. HashFunc[old.key] % OldSize = b
      BY <2>1, <2>2 DEF Housed
    <2> QED BY <2>1, <2>2, <2>3, <2>4
  <1>0. PICK e \in Entry : e.key = old.key /\ e.value = old.value /\ Put(e)
    BY PutOldEntry
  <1>2. e \in Entry /\ e.key = old.key /\ e.value = old.value /\ old.key \in Key
    BY <1>0, <1>1 DEF Entry
  <1>3. \A j \in Key : KeyLoc(j)' = KeyLoc(j)
    BY DEF KeyLoc, Size
  <1>4. /\ entries' = [entries EXCEPT ![KeyLoc(old.key)] = Append(@, e)]
        /\ entries \in [Buckets -> Seq(Entry)] /\ rest \in [OldBuckets -> Seq(Entry)]
    BY <1>0 DEF Put, TableTypeOK
  <1>5. ASSUME NEW j \in Key PROVE Bindings'[j] = Bindings[j]
    <2> DEFINE s == Bucket(j)
               w == OldBucket(j)
               t == Bucket(j)'
               u == OldBucket(j)'
    <2>1. /\ KeyLoc(j) \in Buckets /\ s \in Seq(Entry) /\ w \in Seq(Entry)
          /\ HashFunc[j] % OldSize \in OldBuckets /\ Bindings[j] = ValuesOf(j, s \o w)
      BY <1>1, BindingOf
    <2>2. t \in Seq(Entry) /\ u \in Seq(Entry) /\ Bindings'[j] = ValuesOf(j, t \o u)
      BY BindingAfter
    <2>3. t = IF KeyLoc(j) = KeyLoc(old.key) THEN Append(s, e) ELSE s
      BY <1>3, <1>4, <2>1 DEF Bucket
    <2>4. w = rest[HashFunc[j] % OldSize] /\ u = rest'[HashFunc[j] % OldSize]
      BY <1>1 DEF OldBucket, OldSize
    <2>5. /\ HashFunc[j] % OldSize = b => u = Tail(w) /\ w # <<>> /\ Head(w) = old
          /\ HashFunc[j] % OldSize # b => u = w
      BY <1>1, <1>4, <2>1, <2>4
    <2> HIDE DEF s, w, t, u
    <2>6. CASE j = old.key
      <3>1. t = Append(s, e) /\ u = Tail(w) /\ w # <<>> /\ Head(w) = old
        BY <1>1, <2>3, <2>5, <2>6
      <3>2. ValuesOf(j, Append(s, e) \o Tail(w)) = ValuesOf(j, s \o w)
        <4>1. e \in Entry /\ e.key = Head(w).key /\ e.value = Head(w).value
          BY <1>2, <3>1
        <4>2. s \in Seq(Entry) /\ w \in Seq(Entry) /\ w # <<>>
          BY <2>1, <3>1
        <4> QED BY ONLY <4>1, <4>2, ValuesMove
      <3> QED BY <2>1, <2>2, <3>1, <3>2
    <2>7. CASE j # old.key
      <3>1. ValuesOf(j, t \o u) = ValuesOf(j, s \o u)
        <4>1. ValuesOf(j, Append(s, e) \o u) = ValuesOf(j, s \o u)
          BY ZenonT(30), <1>2, <2>1, <2>2, <2>7, ValuesAppendOther
        <4> QED BY <2>3, <4>1
      <3>2. ValuesOf(j, s \o u) = ValuesOf(j, s \o w)
        <4>1. CASE HashFunc[j] % OldSize = b
          <5>1. w # <<>> /\ Head(w).key # j /\ u = Tail(w)
            BY <2>5, <2>7, <4>1
          <5>2. ValuesOf(j, s \o Tail(w)) = ValuesOf(j, s \o w)
            BY <2>1, <5>1, ValuesTailOther
          <5> QED BY <5>1, <5>2
        <4>2. CASE HashFunc[j] % OldSize # b
          BY <2>5, <4>2
        <4> QED BY <4>1, <4>2
      <3> QED BY <2>1, <2>2, <3>1, <3>2
    <2> QED BY <2>6, <2>7
  <1> QED BY <1>5, BindingsKept

LEMMA InsertMaps ==
    ASSUME TableInd, Asked, TableTypeOK', NEW k \in Key, NEW v \in Value, TableInsert(k, v)
    PROVE  Table!AbsNext
  <1>1. TableTypeOK /\ tableStatus = "run" /\ Left = {} /\ ~Table!Waits
    BY DEF TableInd, TableInsert, TableReady, Rehashing, Asked
  <1>2. CASE TableStop(<<"insert", k>>, "panic")
    BY <1>1, <1>2, MapStop
  <1>3. CASE /\ Full /\ primeIdx < Len(HashPrimes)
             /\ primeIdx' = primeIdx + 1
             /\ entries' = [b \in 0 .. HashPrimes[primeIdx + 1] - 1 |-> <<>>]
             /\ rest' = Marked(entries, "new")
             /\ Returns(<<"grow", k, v>>)
    <2>1. Bindings' = Bindings
      BY <1>1, <1>3, GrowBinds
    <2>2. Table!AbsGrow(k, v)
      BY <1>1, <1>3, <2>1 DEF Table!AbsGrow, Returns
    <2> QED BY <1>1, <1>3, <2>2 DEF Table!AbsNext, Returns
  <1>4. CASE /\ PutNew(k, v)
             /\ Returns(<<"insert", k, v>>)
             /\ UNCHANGED <<primeIdx, rest>>
    BY <1>1, <1>4, JoinMaps
  <1> QED BY <1>2, <1>3, <1>4 DEF TableInsert

(* The turns of a rehash, and what they free, are no steps of the queues.   *)
LEMMA RehashMaps ==
    ASSUME TableInd, TableTypeOK', TableRehash
    PROVE  Table!AbsNext \/ UNCHANGED Table!absVars
  <1>1. TableTypeOK /\ Housed
    BY DEF TableInd
  <1>2. PICK b \in Left :
           LET old == Head(rest[b]) IN
           /\ tableStatus = "run"
           /\ \/ /\ PutOld(old)
                 /\ rest' = [rest EXCEPT ![b] = Tail(@)]
                 /\ UNCHANGED <<primeIdx, tableAnswer, tableStatus>>
              \/ TableStop(<<"rehash">>, "fault")
              \/ TableStop(<<"rehash">>, "panic")
    BY DEF TableRehash
  <1>3. CASE \E how \in {"fault", "panic"} : TableStop(<<"rehash">>, how)
    BY <1>2, <1>3, MapStop
  <1>4. CASE /\ PutOld(Head(rest[b]))
             /\ rest' = [rest EXCEPT ![b] = Tail(@)]
             /\ UNCHANGED <<primeIdx, tableAnswer, tableStatus>>
    <2>1. Head(rest[b]) \in Entry
      <3>1. rest[b] \in Seq(Entry) /\ rest[b] # <<>>
        BY <1>1, <1>2 DEF Left, TableTypeOK
      <3> QED BY <3>1
    <2>2. Bindings' = Bindings
      BY <1>1, <1>2, <1>4, <2>1, TurnBinds
    <2> QED BY <1>4, <2>2 DEF Table!absVars
  <1> QED BY <1>2, <1>3, <1>4

LEMMA FreeMaps ==
    ASSUME RehashFree
    PROVE  UNCHANGED Table!absVars
  <1>1. Bindings' = Bindings
    BY DEF RehashFree, Bindings, Bucket, OldBucket, KeyLoc, Size, OldSize
  <1> QED BY <1>1 DEF RehashFree, Table!absVars

LEMMA InsertEndMaps ==
    ASSUME TableTypeOK, Asked, TableTypeOK', TableInsertEnd
    PROVE  Table!AbsNext
  <1>1. /\ tableStatus = "run" /\ Left = {} /\ pending[1] \in Key /\ pending[2] \in Value
        /\ tableAnswer = <<"grow", pending[1], pending[2]>>
    BY DEF TableInsertEnd, TableTypeOK, Asked
  <1>2. CASE TableStop(<<"insert", pending[1]>>, "panic")
    BY <1>1, <1>2, MapStop
  <1>3. CASE /\ PutNew(pending[1], pending[2])
             /\ Returns(<<"insert", pending[1], pending[2]>>)
             /\ UNCHANGED <<primeIdx, rest>>
    BY <1>1, <1>3, JoinMaps
  <1> QED BY <1>2, <1>3 DEF TableInsertEnd

(* The entry that hash_table_find_entry finds is the front of its queue.    *)
LEMMA FrontFound ==
    ASSUME TableTypeOK, NEW k \in Key, Left = {}
    PROVE  /\ Found(k) = 0 => Bindings[k] = <<>>
           /\ Found(k) # 0 =>
                 /\ Found(k) \in DOMAIN Bucket(k) /\ Bucket(k)[Found(k)].key = k
                 /\ Shorter(RemoveAt(Bucket(k), Found(k)), Bucket(k), Found(k))
                 /\ Bindings[k] # <<>>
                 /\ Head(Bindings[k]) = Bucket(k)[Found(k)].value
                 /\ ValuesOf(k, RemoveAt(Bucket(k), Found(k))) = Tail(Bindings[k])
  <1> DEFINE s == Bucket(k)
             d == Found(k)
             t == RemoveAt(s, d)
  <1>1. s \in Seq(Entry) /\ Bindings[k] = ValuesOf(k, s)
    BY BindingOf
  <1>2. Positions(k, s) = Matches(k)
    BY DEF Positions, Matches
  <1>3. /\ d = 0 => Positions(k, s) = {}
        /\ d # 0 => d \in Positions(k, s) /\ \A p \in Positions(k, s) : d <= p
    BY <1>2, FoundFirst
  <1>4. CASE d = 0
    <2>1. Cardinality(Positions(k, s)) = 0
      BY <1>3, <1>4, FS_EmptySet
    <2>2. ValuesOf(k, s) = <<>>
      BY <2>1 DEF ValuesOf
    <2> QED BY <1>1, <1>4, <2>2
  <1>5. CASE d # 0
    <2>1. d \in DOMAIN s /\ s[d].key = k
      BY <1>3, <1>5 DEF Positions
    <2> HIDE DEF s, d
    <2>2. /\ t \in Seq(Entry) /\ Len(s) = Len(t) + 1 /\ DOMAIN t = 1 .. Len(s) - 1
          /\ \A i \in DOMAIN t : t[i] = IF i < d THEN s[i] ELSE s[i + 1]
      BY <1>1, <2>1, WithoutEntry
    <2> HIDE DEF t
    <2>3. Shorter(t, s, d)
      BY <1>1, <2>1, <2>2 DEF Shorter
    <2>4. /\ ValuesOf(k, s) # <<>>
          /\ Head(ValuesOf(k, s)) = s[d].value
          /\ ValuesOf(k, t) = Tail(ValuesOf(k, s))
      BY <1>1, <1>3, <1>5, <2>2, <2>3, ValuesDropFirst
    <2> QED BY <1>1, <1>5, <2>1, <2>3, <2>4 DEF s, d, t
  <1> QED BY <1>4, <1>5

LEMMA GetMaps ==
    ASSUME TableInd, Asked, NEW k \in Key, TableGet(k)
    PROVE  Table!AbsNext
  <1>1. TableTypeOK /\ tableStatus = "run" /\ Left = {} /\ ~Table!Waits
    BY DEF TableInd, TableGet, TableReady, Rehashing, Asked
  <1>2. CASE ReadsFreed(k)
    BY <1>1, <1>2, MapStop DEF TableGet
  <1>3. CASE ~ReadsFreed(k)
    <2>1. /\ Returns(<<"get", k, IF Found(k) = 0 THEN NULL ELSE Bucket(k)[Found(k)].value>>)
          /\ UNCHANGED <<contents, iter, walk>>
      BY <1>3 DEF TableGet
    <2>2. Bindings' = Bindings
      BY <2>1 DEF contents, Bindings, Bucket, OldBucket, KeyLoc, Size, OldSize
    <2>3. (IF Bindings[k] = <<>> THEN NULL ELSE Head(Bindings[k]))
             = IF Found(k) = 0 THEN NULL ELSE Bucket(k)[Found(k)].value
      BY <1>1, FrontFound
    <2>4. Table!AbsGet(k)
      BY <1>1, <2>1, <2>2, <2>3 DEF Table!AbsGet, Returns
    <2> QED BY <1>1, <2>1, <2>4 DEF Table!AbsNext, Returns
  <1> QED BY <1>2, <1>3

LEMMA RemoveMaps ==
    ASSUME TableInd, Asked, TableTypeOK', NEW k \in Key, TableRemove(k)
    PROVE  Table!AbsNext
  <1>1. TableTypeOK /\ tableStatus = "run" /\ Left = {} /\ ~Table!Waits
    BY DEF TableInd, TableRemove, TableReady, Rehashing, Asked
  <1>2. CASE ReadsFreed(k)
    BY <1>1, <1>2, MapStop DEF TableRemove
  <1>3. CASE ~ReadsFreed(k) /\ Found(k) = 0
    <2>1. Returns(<<"remove", k>>) /\ UNCHANGED contents
      BY <1>3 DEF TableRemove
    <2>2. Bindings' = Bindings
      BY <2>1 DEF contents, Bindings, Bucket, OldBucket, KeyLoc, Size, OldSize
    <2>3. Bindings[k] = <<>>
      BY <1>1, <1>3, FrontFound
    <2>4. Bindings' = [Bindings EXCEPT ![k] = IF @ = <<>> THEN <<>> ELSE Tail(@)]
      BY <2>2, <2>3 DEF Bindings
    <2>5. Table!AbsRemove(k)
      BY <1>1, <2>1, <2>4 DEF Table!AbsRemove, Returns
    <2> QED BY <1>1, <2>1, <2>5 DEF Table!AbsNext, Returns
  <1>4. CASE ~ReadsFreed(k) /\ Found(k) # 0
    <2> DEFINE d == Found(k)
               t == RemoveAt(Bucket(k), d)
    <2>1. /\ entries' = [entries EXCEPT ![KeyLoc(k)] = RemoveAt(@, d)]
          /\ Returns(<<"remove", k>>) /\ UNCHANGED <<primeIdx, rest>>
      BY <1>4 DEF TableRemove
    <2>2. /\ d \in DOMAIN Bucket(k) /\ Bucket(k)[d].key = k
          /\ Shorter(t, Bucket(k), d) /\ Bindings[k] # <<>>
          /\ ValuesOf(k, t) = Tail(Bindings[k])
      BY <1>1, <1>4, FrontFound
    <2>3. Bucket(k) \in Seq(Entry)
      BY <1>1, BindingOf
    <2> HIDE DEF d
    <2>4. t \in Seq(Entry)
      BY <2>2, <2>3, WithoutEntry
    <2>5. \A j \in Key : KeyLoc(j)' = KeyLoc(j)
      BY <2>1 DEF KeyLoc, Size
    <2>6. Left' = {}
      BY <1>1, <2>1 DEF Left, OldBuckets, OldSize
    <2>7. ASSUME NEW j \in Key
          PROVE  /\ Bindings[j] = ValuesOf(j, Bucket(j)) /\ Bucket(j) \in Seq(Entry)
                 /\ Bindings'[j] = ValuesOf(j, Bucket(j)')
                 /\ Bucket(j)' = IF KeyLoc(j) = KeyLoc(k) THEN t ELSE Bucket(j)
      <3>1. KeyLoc(j) \in Buckets /\ KeyLoc(k) \in Buckets /\ entries \in [Buckets -> Seq(Entry)]
        BY <1>1, BindingOf DEF TableTypeOK
      <3>2. Bucket(j)' = IF KeyLoc(j) = KeyLoc(k) THEN t ELSE Bucket(j)
        BY <2>1, <2>5, <3>1 DEF Bucket
      <3>3. Bindings[j] = ValuesOf(j, Bucket(j)) /\ Bucket(j) \in Seq(Entry)
        BY <1>1, BindingOf
      <3>4. Bindings'[j] = ValuesOf(j, Bucket(j)')
        BY <2>6, BindingAfter
      <3> QED BY <3>2, <3>3, <3>4
    <2> HIDE DEF t
    <2>8. Bindings'[k] = Tail(Bindings[k])
      BY <2>2, <2>7
    <2>9. ASSUME NEW j \in Key, j # k PROVE Bindings'[j] = Bindings[j]
      <3>1. CASE KeyLoc(j) = KeyLoc(k)
        <4>1. Bucket(j) = Bucket(k) /\ Bucket(j)[d].key # j
          BY <2>2, <2>9, <3>1 DEF Bucket
        <4>2. d \in Nat /\ Shorter(t, Bucket(j), d)
          BY <2>2, <2>3, <4>1
        <4>3. Bucket(j) \in Seq(Entry)
          BY <2>7
        <4>4. ValuesOf(j, t) = ValuesOf(j, Bucket(j))
          BY ONLY <2>4, <4>1, <4>2, <4>3, ValuesSkip
        <4> QED BY <2>7, <3>1, <4>4
      <3>2. CASE KeyLoc(j) # KeyLoc(k)
        BY <2>7, <3>2
      <3> QED BY <3>1, <3>2
    <2>10. Bindings' = [Bindings EXCEPT ![k] = IF @ = <<>> THEN <<>> ELSE Tail(@)]
      <3>1. /\ DOMAIN Bindings' = Key /\ DOMAIN Bindings = Key
            /\ Bindings' = [j \in Key |-> Bindings'[j]] /\ Bindings = [j \in Key |-> Bindings[j]]
        BY DEF Bindings
      <3> QED BY <3>1, <2>2, <2>8, <2>9
    <2>11. Table!AbsRemove(k)
      BY <1>1, <2>1, <2>10 DEF Table!AbsRemove, Returns
    <2> QED BY <1>1, <2>1, <2>11 DEF Table!AbsNext, Returns
  <1> QED BY <1>2, <1>3, <1>4

LEMMA IterInitMaps ==
    ASSUME TableTypeOK, Asked, IterInit
    PROVE  Table!AbsNext
  <1>1. /\ tableStatus = "run" /\ Returns(<<"begin">>) /\ ~Table!Waits
        /\ entries' = Marked(entries, "due") /\ "due" \in {"due", "seen", "new"}
        /\ UNCHANGED <<primeIdx, rest>>
    BY DEF IterInit, TableReady, Asked
  <1>2. entries \in [Buckets -> Seq(Entry)]
    BY DEF TableTypeOK
  <1>3. entries' \in [Buckets -> Seq(Entry)]
    BY ONLY <1>1, <1>2, MarkedLists
  <1>4. ASSUME NEW b \in Buckets
        PROVE  /\ DOMAIN entries'[b] = DOMAIN entries[b]
               /\ \A i \in DOMAIN entries[b] :
                     /\ entries'[b][i].key = entries[b][i].key
                     /\ entries'[b][i].value = entries[b][i].value
    BY ONLY <1>1, <1>2, MarkedLists
  <1>5. Bindings' = Bindings
    BY <1>1, <1>3, <1>4, MarksBind
  <1> QED BY <1>1, <1>5, MapIterate

LEMMA YieldBinds ==
    ASSUME TableTypeOK, UNCHANGED <<primeIdx, rest>>,
           NEW b \in Buckets, NEW i \in DOMAIN entries[b], Yield(b, i)
    PROVE  Bindings' = Bindings
  <1>1. entries \in [Buckets -> Seq(Entry)] /\ entries[b] \in Seq(Entry) /\ entries[b][i] \in Entry
    BY DEF TableTypeOK
  <1> DEFINE e == [entries[b][i] EXCEPT !.mark = "seen"]
  <1>2. e \in Entry /\ e.key = entries[b][i].key /\ e.value = entries[b][i].value
    BY <1>1, MarkedEntry
  <1>3. entries' = [entries EXCEPT ![b] = [entries[b] EXCEPT ![i] = e]]
    BY <1>1 DEF Yield
  <1> HIDE DEF e
  <1>4. /\ entries'[b] = [entries[b] EXCEPT ![i] = e]
        /\ \A c \in Buckets : c # b => entries'[c] = entries[c]
    BY <1>1, <1>3
  <1>5. /\ entries'[b] \in Seq(Entry) /\ DOMAIN entries'[b] = DOMAIN entries[b]
        /\ entries'[b][i] = e /\ \A j \in DOMAIN entries[b] : j # i => entries'[b][j] = entries[b][j]
    BY <1>1, <1>2, <1>4
  <1>6. entries' \in [Buckets -> Seq(Entry)]
    BY <1>1, <1>3, <1>4, <1>5
  <1>7. \A c \in Buckets :
           /\ DOMAIN entries'[c] = DOMAIN entries[c]
           /\ \A j \in DOMAIN entries[c] :
                 /\ entries'[c][j].key = entries[c][j].key
                 /\ entries'[c][j].value = entries[c][j].value
    BY <1>2, <1>4, <1>5
  <1> QED BY <1>6, <1>7, MarksBind

LEMMA IterNextMaps ==
    ASSUME TableInd, Asked, IterNext
    PROVE  Table!AbsNext
  <1>1. /\ TableTypeOK /\ tableStatus = "run" /\ Buckets \subseteq Nat /\ ~Table!Waits
        /\ entries \in [Buckets -> Seq(Entry)]
    BY SizeNat DEF TableInd, TableTypeOK, IterNext, TableReady, Buckets, Asked
  <1>2. CASE iter.bucket < Size /\ iter.next # 0 /\ iter.stale
    BY <1>1, <1>2, MapStop DEF IterNext
  <1>3. CASE ~ (iter.bucket < Size /\ iter.next # 0 /\ iter.stale)
    <2>1. Returns(<<"next">>) /\ UNCHANGED <<primeIdx, rest>>
      BY <1>3 DEF IterNext
    <2>6. ASSUME Bindings' = Bindings PROVE Table!AbsNext
      BY <1>1, <2>1, <2>6, MapIterate
    <2>2. CASE UNCHANGED entries
      <3>1. Bindings' = Bindings
        BY <2>1, <2>2 DEF Bindings, Bucket, OldBucket, KeyLoc, Size, OldSize
      <3> QED BY <2>6, <3>1
    <2>3. CASE ~ (iter.bucket >= Size) /\ iter.next # 0
      <3>1. iter.bucket \in Nat /\ Size \in Nat
        BY <1>1, SizeNat DEF TableTypeOK
      <3>2. Yield(iter.bucket, iter.next) /\ ~iter.stale
        BY <1>3, <2>3, <3>1 DEF IterNext, TableTypeOK
      <3>3. iter.bucket \in Buckets /\ iter.next \in DOMAIN entries[iter.bucket]
        BY <2>3, <3>2 DEF TableInd, IterInside
      <3> QED BY <1>1, <2>1, <2>6, <3>2, <3>3, YieldBinds
    <2>4. CASE ~ (iter.bucket >= Size) /\ iter.next = 0 /\ Ahead # {}
      <3> DEFINE b == CHOOSE c \in Ahead : \A d \in Ahead : c <= d
      <3>1. \E c \in Ahead : \A d \in Ahead : c <= d
        BY <1>1, <2>4, LeastNat DEF Ahead
      <3>2. b \in Ahead
        BY <3>1
      <3>3. Yield(b, 1)
        BY <1>3, <2>4 DEF IterNext
      <3> HIDE DEF b
      <3>4. b \in Buckets /\ 1 \in DOMAIN entries[b]
        BY <1>1, <3>2 DEF Ahead
      <3> QED BY <1>1, <2>1, <2>6, <3>3, <3>4, YieldBinds
    <2>5. CASE iter.bucket >= Size \/ (iter.next = 0 /\ Ahead = {})
      <3>1. UNCHANGED entries
        BY <1>3, <2>5 DEF IterNext
      <3> QED BY <3>1, <2>2
    <2> QED BY <2>3, <2>4, <2>5
  <1> QED BY <1>2, <1>3

LEMMA TableBegins == TableInit => Table!AbsInit
  <1> SUFFICES ASSUME TableInit PROVE Table!AbsInit
    OBVIOUS
  <1>1. TableInd
    BY TableInitially
  <1>2. TableTypeOK /\ Left = {}
    BY <1>1 DEF TableInd, TableInit, Rehashing
  <1>3. ASSUME NEW k \in Key PROVE Bindings[k] = <<>>
    <2>1. KeyLoc(k) \in Buckets /\ Bindings[k] = ValuesOf(k, Bucket(k))
      BY <1>2, BindingOf
    <2>2. Bucket(k) = <<>>
      BY <2>1 DEF TableInit, Bucket, Buckets, Size
    <2>3. Positions(k, Bucket(k)) = {}
      BY <2>2 DEF Positions
    <2>4. Cardinality(Positions(k, Bucket(k))) = 0
      BY <2>3, FS_EmptySet
    <2>5. ValuesOf(k, Bucket(k)) = <<>>
      BY <2>4 DEF ValuesOf
    <2> QED BY <2>1, <2>5
  <1>4. Bindings = [k \in Key |-> <<>>]
    BY <1>3 DEF Bindings
  <1> QED BY <1>4 DEF Table!AbsInit, TableInit

LEMMA TableMaps ==
    TableInd /\ Asked /\ TableTypeOK' /\ [TableNext]_tableVars
        => [Table!AbsNext]_(Table!absVars)
  <1> SUFFICES ASSUME TableInd, Asked, TableTypeOK', [TableNext]_tableVars
               PROVE  Table!AbsNext \/ UNCHANGED Table!absVars
    OBVIOUS
  <1>1. ASSUME NEW k \in Key, NEW v \in Value, TableInsert(k, v) PROVE Table!AbsNext
    BY <1>1, InsertMaps
  <1>2. ASSUME NEW k \in Key, TableGet(k) PROVE Table!AbsNext
    BY <1>2, GetMaps
  <1>3. ASSUME NEW k \in Key, TableRemove(k) PROVE Table!AbsNext
    BY <1>3, RemoveMaps
  <1>4. CASE TableDeinit
    BY <1>4, MapStop DEF TableDeinit, TableReady
  <1>5. CASE UNCHANGED tableVars
    BY <1>5 DEF tableVars, contents, Table!absVars, Bindings, Bucket, OldBucket,
                KeyLoc, Size, OldSize
  <1>6. CASE IterInit
    BY <1>6, IterInitMaps DEF TableInd
  <1>7. CASE TableInsertEnd
    BY <1>7, InsertEndMaps DEF TableInd
  <1> QED
    BY <1>1, <1>2, <1>3, <1>4, <1>5, <1>6, <1>7, RehashMaps, FreeMaps, IterNextMaps
       DEF TableNext

(* The lists implement a queue of values per key: an insert adds the value  *)
(* it was given to the end of the queue of the key it was given, remove     *)
(* takes away the front of the one it was given, get answers with that      *)
(* front, and no call changes another queue.  Neither the vector's growth   *)
(* nor a turn of the rehash changes any.                                    *)
THEOREM TableRefinement == TableSpec => TableRefines
  <1>1. TableInit => Table!AbsInit
    BY TableBegins
  <1>2. TableInd /\ Asked /\ TableTypeOK' /\ [TableNext]_tableVars
            => [Table!AbsNext]_(Table!absVars)
    BY TableMaps
  <1>3. TableSpec => []TableInd
    BY TableInvariant
  <1>4. TableSpec => []TableTypeOK
    BY TableTyped
  <1>5. TableSpec => []Asked
    BY TableAsks
  <1> QED BY <1>1, <1>2, <1>3, <1>4, <1>5, PTL DEF TableSpec, TableRefines, Table!AbsSpec
=============================================================================
