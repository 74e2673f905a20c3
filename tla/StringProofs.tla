----------------------------- MODULE StringProofs -----------------------------
(* Theorems about String, for every set of handles, allocators and lengths. *)
EXTENDS String, TLAPS

(* The inductive invariant.  A push of a sound string has room because its  *)
(* capacity is its bytes and more than its text.                            *)
StringInv == StringTypeOK /\ StringSound

(* What a string has to be like that a call leaves in a handle.             *)
Sane(s, how) ==
    /\ s \in String
    /\ s.capacity <= MAX_STR_ALLOC \/ s.capacity - 1 \in Lengths
    /\ s.data = "live" => s.size < s.room
    /\ how = "here" => s.data # "NULL"
    /\ how = "here" /\ s.data = "live" => s.capacity = s.room /\ s.owner = s.alloc

LEMMA StringBecomes ==
    ASSUME StringInv, strStatus = "run",
           NEW h \in Handle, NEW s, NEW how \in {"here", "copied", "moved"},
           Becomes(h, s, how), Sane(s, how)
    PROVE  StringInv'
  <1>1. StringTypeOK'
    BY DEF StringInv, StringTypeOK, Becomes, Sane
  <1>2. /\ str' = [str EXCEPT ![h] = s] /\ made' = [made EXCEPT ![h] = how]
        /\ str \in [Handle -> String]
        /\ made \in [Handle -> {"here", "copied", "moved"}]
        /\ strStatus' = "run"
    BY DEF StringInv, StringTypeOK, Becomes
  <1>3. StringTerminated'
    BY <1>2 DEF StringInv, StringSound, StringTerminated, Sane
  <1>4. StringFaults'
    BY <1>2 DEF StringFaults
  <1>5. StringSound'
    BY <1>2, <1>3, <1>4 DEF StringInv, StringSound, Sane
  <1> QED BY <1>1, <1>5 DEF StringInv

(* A call that ends the process leaves every string as it is.               *)
LEMMA StringStops ==
    ASSUME StringInv, NEW h \in Handle, NEW how \in {"panic", "fault"},
           StringStop(h, how), how = "fault" => made[h] # "here"
    PROVE  StringInv'
  BY DEF StringInv, StringTypeOK, StringTerminated, StringSound, StringFaults,
         StringStop

(* What the invariant says of one string.                                   *)
LEMMA StringIsSane ==
    ASSUME StringInv, NEW h \in Handle
    PROVE  Sane(str[h], made[h]) /\ made[h] \in {"here", "copied", "moved"}
  BY DEF StringInv, StringTypeOK, StringTerminated, StringSound, Sane

LEMMA FreshIsSane ==
    ASSUME NEW n \in Nat, NEW capacity \in Nat, NEW room \in Nat,
           NEW owner \in Owner, NEW alloc \in Owner,
           NEW how,
           capacity <= MAX_STR_ALLOC \/ capacity - 1 \in Lengths,
           n < room,
           how = "here" => capacity = room /\ owner = alloc
    PROVE  Sane(Fresh(n, capacity, room, owner, alloc), how)
  BY DEF Sane, Fresh, String

LEMMA GoneIsSane ==
    ASSUME NEW s \in String, NEW data \in {"none", "NULL"}, NEW how,
           how = "here" => data = "none"
    PROVE  Sane(Gone(s, data), how)
  <1>1. /\ Gone(s, data) \in String
        /\ Gone(s, data).data = data /\ Gone(s, data).capacity = 0
    BY DEF Gone, String
  <1>2. 0 <= MAX_STR_ALLOC
    BY StringAssumption
  <1> QED BY <1>1, <1>2 DEF Sane

LEMMA StringInitially == StringNone => StringInv
  <1> SUFFICES ASSUME StringNone PROVE StringInv
    OBVIOUS
  <1> PICK a \in Owner :
         str = [h \in Handle |-> Gone(Fresh(0, 0, 0, a, a), "none")]
    BY DEF StringNone
  <1>1. Fresh(0, 0, 0, a, a) \in String
    BY DEF Fresh, String
  <1>2. Sane(Gone(Fresh(0, 0, 0, a, a), "none"), "here")
    BY <1>1, GoneIsSane
  <1>3. \A h \in Handle : Sane(str[h], "here") /\ made[h] = "here"
    BY <1>2 DEF StringNone
  <1> QED
    BY <1>3 DEF StringNone, StringInv, StringTypeOK, StringTerminated,
                StringSound, StringFaults, Sane

LEMMA PushKeepsStringInv ==
    ASSUME StringInv, NEW h \in Handle, StringPush(h)
    PROVE  StringInv'
  <1> DEFINE s == str[h]
             n == IF NeedsRoom(s) THEN 2 * s.capacity ELSE s.capacity
             t == IF NeedsRoom(s) THEN [s EXCEPT !.capacity = n, !.room = n] ELSE s
  <1>1. /\ strStatus = "run" /\ s.data # "none"
        /\ Sane(s, made[h]) /\ made[h] \in {"here", "copied", "moved"}
    BY StringIsSane DEF StringPush, Usable, StringRuns
  <1>2. CASE StringStop(h, "panic")
    BY <1>2, StringStops
  <1>3. CASE StringStop(h, "fault")
    <2>1. /\ s.size \in Nat /\ s.capacity \in Nat /\ s.room \in Nat
          /\ s.data \in {"NULL", "live"}
      BY <1>1 DEF Sane, String
    <2>2. made[h] # "here"
      BY <1>1, <1>3, <2>1
         DEF StringPush, StringStop, Becomes, NeedsRoom, TooLong, Sane, String
    <2> QED BY <1>3, <2>2, StringStops
  <1>4. CASE /\ ~ (NeedsRoom(s) /\ TooLong(n))
             /\ ~ (t.data = "NULL" \/ t.size + 2 > t.room)
             /\ Becomes(h, [t EXCEPT !.size = @ + 1], made[h])
    <2>1. Sane([t EXCEPT !.size = @ + 1], made[h])
      <3>1. CASE ~NeedsRoom(s)
        BY <1>1, <1>4, <3>1 DEF Sane, String, NeedsRoom
      <3>2. CASE NeedsRoom(s)
        <4>1. /\ s \in String /\ n \in Nat /\ n <= MAX_STR_ALLOC
              /\ t = [s EXCEPT !.capacity = n, !.room = n]
          BY <1>1, <1>4, <3>2, StringAssumption DEF Sane, String, TooLong
        <4> DEFINE u == [t EXCEPT !.size = t.size + 1]
        <4> HIDE DEF s, n, t
        <4>2. /\ u \in String /\ u.data = s.data /\ u.size = s.size + 1
              /\ u.capacity = n /\ u.room = n
              /\ u.owner = s.owner /\ u.alloc = s.alloc
          <5>1. /\ t \in String /\ t.data = s.data /\ t.size = s.size
                /\ t.capacity = n /\ t.room = n
                /\ t.owner = s.owner /\ t.alloc = s.alloc
            BY <4>1 DEF String
          <5>2. t.size + 1 \in Nat
            BY <5>1 DEF String
          <5> QED BY <5>1, <5>2 DEF String
        <4>3. u.size < u.room /\ u.data # "NULL"
          BY <1>4, <4>1, <4>2 DEF String
        <4> QED
          BY <1>1, <4>1, <4>2, <4>3 DEF Sane
      <3> QED BY <3>1, <3>2
    <2> QED BY <1>1, <1>4, <2>1, StringBecomes
  <1> QED
    BY <1>2, <1>3, <1>4 DEF StringPush

LEMMA MoveKeepsStringInv ==
    ASSUME StringInv, NEW h \in Handle, NEW d \in Handle, StringMove(h, d)
    PROVE  StringInv'
  <1> DEFINE into == [str[h] EXCEPT !.alloc = str[d].alloc]
             how  == IF str[h].owner = str[d].alloc THEN made[h] ELSE "moved"
  <1>1. /\ strStatus' = "run" /\ d # h
        /\ str' = [str EXCEPT ![d] = into, ![h] = Gone(str[h], "NULL")]
        /\ made' = [made EXCEPT ![d] = how, ![h] = "moved"]
        /\ culprit' = culprit
    BY DEF StringMove, Usable, Unused, StringRuns, StringInv, StringTypeOK
  <1>2. /\ Sane(str[h], made[h]) /\ Sane(str[d], made[d])
        /\ made[h] \in {"here", "copied", "moved"}
    BY StringIsSane
  <1>3. Sane(into, how)
    BY <1>2 DEF Sane, String
  <1>4. Sane(Gone(str[h], "NULL"), "moved")
    BY <1>2, GoneIsSane DEF Sane
  <1>5. \A g \in Handle : Sane(str'[g], made'[g])
    BY <1>1, <1>3, <1>4, StringIsSane DEF StringInv, StringTypeOK
  <1>6. /\ made' \in [Handle -> {"here", "copied", "moved"}]
        /\ str' \in [Handle -> String]
    BY <1>1, <1>2, <1>3, <1>4 DEF StringInv, StringTypeOK, Sane
  <1> QED
    BY <1>1, <1>5, <1>6
       DEF StringInv, StringTypeOK, StringTerminated, StringSound, StringFaults, Sane

LEMMA StringStepKeepsInv == StringInv /\ [StringNext]_strVars => StringInv'
  <1> SUFFICES ASSUME StringInv, [StringNext]_strVars PROVE StringInv'
    OBVIOUS
  <1> USE StringAssumption
  <1>1. ASSUME NEW h \in Handle, NEW a \in Owner, StringInit(h, a)
        PROVE  StringInv'
    <2>1. Sane(Empty(a), "here")
      BY FreshIsSane DEF Empty
    <2> QED
      BY <1>1, <2>1, StringBecomes, StringStops
         DEF StringInit, Unused, StringRuns
  <1>2. ASSUME NEW h \in Handle, NEW a \in Owner, NEW n \in Lengths,
               StringFromCstr(h, n, a)
        PROVE  StringInv'
    <2>1. Sane(Fresh(n, n + 1, n + 1, a, a), "here")
      <3>1. n \in Nat /\ n + 1 \in Nat /\ (n + 1) - 1 \in Lengths /\ n < n + 1
        OBVIOUS
      <3> QED BY <3>1, FreshIsSane
    <2> QED
      BY <1>2, <2>1, StringBecomes, StringStops
         DEF StringFromCstr, Unused, StringRuns
  <1>3. ASSUME NEW h \in Handle, NEW d \in Handle, NEW a \in Owner,
               StringCopy(h, d, a)
        PROVE  StringInv'
    <2>1. Sane(str[h], made[h])
      BY StringIsSane
    <2>2. Sane(str[h], "copied") /\ "copied" # "here"
      BY <2>1 DEF Sane
    <2>3. Sane(Fresh(str[h].size, str[h].capacity, str[h].size + 1, a, str[h].alloc),
               "copied")
      <3>1. /\ str[h].size \in Nat /\ str[h].capacity \in Nat
            /\ str[h].size + 1 \in Nat /\ str[h].size < str[h].size + 1
            /\ str[h].alloc \in Owner
            /\ \/ str[h].capacity <= MAX_STR_ALLOC
               \/ str[h].capacity - 1 \in Lengths
        BY <2>1 DEF Sane, String
      <3> QED BY <3>1, FreshIsSane
    <2>4. CASE StringStop(h, "panic")
      BY <2>4, StringStops
    <2>5. CASE Becomes(d, IF str[h].data = "NULL" THEN str[h]
                          ELSE Fresh(str[h].size, str[h].capacity,
                                     str[h].size + 1, a, str[h].alloc), "copied")
      BY <1>3, <2>2, <2>3, <2>5, StringBecomes DEF StringCopy, Usable, StringRuns
    <2> QED BY <1>3, <2>4, <2>5 DEF StringCopy
  <1>4. ASSUME NEW h \in Handle, NEW d \in Handle, StringMove(h, d)
        PROVE  StringInv'
    BY <1>4, MoveKeepsStringInv
  <1>5. ASSUME NEW h \in Handle, StringPush(h)
        PROVE  StringInv'
    BY <1>5, PushKeepsStringInv
  <1>6. ASSUME NEW h \in Handle, Usable(h), ~GivesBack(str[h])
        PROVE  made[h] # "here"
    BY <1>6, StringIsSane DEF Usable, GivesBack, Sane, String
  <1>7. ASSUME NEW h \in Handle, StringDeinit(h)
        PROVE  StringInv'
    <2>1. Sane(Gone(str[h], "none"), "here")
      BY StringIsSane, GoneIsSane DEF Sane
    <2> QED
      BY <1>6, <1>7, <2>1, StringBecomes, StringStops
         DEF StringDeinit, Usable, StringRuns
  <1>8. ASSUME NEW h \in Handle, StringClear(h)
        PROVE  StringInv'
    <2>1. str[h].alloc \in Owner
      BY StringIsSane DEF Sane, String
    <2>2. Sane(Empty(str[h].alloc), "here")
      BY <2>1, FreshIsSane DEF Empty
    <2> QED
      BY <1>6, <1>8, <2>2, StringBecomes, StringStops
         DEF StringClear, Usable, StringRuns
  <1>9. CASE UNCHANGED strVars
    BY <1>9 DEF strVars, StringInv, StringTypeOK, StringTerminated, StringSound,
                StringFaults
  <1> QED
    BY <1>1, <1>2, <1>3, <1>4, <1>5, <1>7, <1>8, <1>9 DEF StringNext

(* The types of the strings' state: none grows beyond MAX_STR_ALLOC.        *)
THEOREM StringTypes == StringSpec => []StringTypeOK
  <1>1. StringInv => StringTypeOK
    BY DEF StringInv
  <1> QED
    BY <1>1, StringInitially, StringStepKeepsInv, PTL DEF StringSpec

(* The terminator that string_push writes behind the text is in the data,   *)
(* and strings that are made and grown in place know their data and         *)
(* allocator: only what string_copy and string_move return can be pushed to *)
(* or given back wrongly.                                                   *)
THEOREM StringsAreSound == StringSpec => []StringSound
  <1>1. StringInv => StringSound
    BY DEF StringInv
  <1> QED
    BY <1>1, StringInitially, StringStepKeepsInv, PTL DEF StringSpec
=============================================================================
