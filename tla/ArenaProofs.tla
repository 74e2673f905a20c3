------------------------------ MODULE ArenaProofs ------------------------------
(* Theorems about Arena, for every number of arenas, blocks and chunks and   *)
(* every size that ArenaAssumption admits.                                  *)
EXTENDS Arena, WellFoundedInduction, TLAPS

ChunkRec == [real : Nat, used : 0 .. SizeMod - 1]

(* What the chunks of an open arena are, m being what its clients did.  A   *)
(* chunk that is used beyond its size is the last one, for the difference   *)
(* that arena_alloc compares wraps, and everything fits there: this is why  *)
(* arena_init, which begins at self->chunks, empties it.                    *)
Sound(cs, m) ==
    \A k \in DOMAIN cs :
        /\ cs[k].used <= MaxUsed
        /\ cs[k].used > ARENA_DEFAULT_SIZE => k = Len(cs)
        /\ "oversize" \notin m => cs[k].used <= ARENA_DEFAULT_SIZE
        /\ "short" \notin m => cs[k].real >= ARENA_DEFAULT_SIZE

(* What a block r of an arena with the chunks cs is: its chunk counts it,   *)
(* unless the arena was misused.                                            *)
Fine(r, cs, m) ==
    /\ r.chunk \in DOMAIN cs
    /\ "oversize" \notin m => r.lo + r.len <= ARENA_DEFAULT_SIZE
    /\ m \cap {"grown", "moved"} = {} => r.lo + r.len <= cs[r.chunk].used

ArenaTyped ==
    /\ chunks \in [Arena -> Seq(ChunkRec)]
    /\ first \in [Arena -> Int]
    /\ \A a \in Arena : first[a] \in -1 .. Len(chunks[a])
    /\ blocks \in [Block -> BlockRec \cup {NoBlock}]
    /\ arenaStatus \in {"run", "panic"}
    /\ misuse \in [Arena -> SUBSET {"short", "oversize", "grown", "moved"}]
    /\ cut \in SUBSET Arena

ChunksSound ==
    \A a \in Arena : /\ first[a] = 0 => chunks[a] = <<>> /\ misuse[a] = {}
                     /\ first[a] >= 0 => Sound(chunks[a], misuse[a])

BlocksFine ==
    \A b \in Held : LET a == blocks[b].arena IN
        first[a] > 0 /\ Fine(blocks[b], chunks[a], misuse[a])

(* The inductive invariant.                                                 *)
ArenaInd ==
    ArenaTyped /\ ChunksSound /\ BlocksFine /\ BlocksDisjoint /\ DataKept

-----------------------------------------------------------------------------
(* usize differences                                                        *)

LEMMA ModOfNat ==
    ASSUME NEW m \in Nat \ {0}, NEW x \in 0 .. m - 1
    PROVE  x % m = x
  OBVIOUS

LEMMA ModOfNegative ==
    ASSUME NEW m \in Nat \ {0}, NEW x \in Int, -m <= x, x < 0
    PROVE  x % m = x + m
  OBVIOUS

LEMMA Sizes ==
    /\ ARENA_DEFAULT_SIZE \in Nat \ {0} /\ SizeMod \in Nat \ {0} /\ MaxUsed \in Nat
    /\ ARENA_DEFAULT_SIZE < SizeMod /\ 2 * MaxUsed < SizeMod /\ MaxUsed < SizeMod
    /\ Padding \in Nat
  BY ArenaAssumption

(* Behind a place within the size of its chunk there is what is left of it; *)
(* behind a place beyond, nearly all there can be.                          *)
LEMMA LeftOver ==
    ASSUME NEW u \in 0 .. MaxUsed
    PROVE  /\ u <= ARENA_DEFAULT_SIZE =>
                 (ARENA_DEFAULT_SIZE - u) % SizeMod = ARENA_DEFAULT_SIZE - u
           /\ u > ARENA_DEFAULT_SIZE =>
                 (ARENA_DEFAULT_SIZE - u) % SizeMod = ARENA_DEFAULT_SIZE - u + SizeMod
  <1> DEFINE x == ARENA_DEFAULT_SIZE - u
  <1>1. u <= ARENA_DEFAULT_SIZE => x \in 0 .. SizeMod - 1
    BY Sizes
  <1>2. u > ARENA_DEFAULT_SIZE => x \in Int /\ -SizeMod <= x /\ x < 0
    BY Sizes
  <1> HIDE DEF x
  <1>3. u <= ARENA_DEFAULT_SIZE => x % SizeMod = x
    BY <1>1, Sizes, ModOfNat
  <1>4. u > ARENA_DEFAULT_SIZE => x % SizeMod = x + SizeMod
    BY <1>2, Sizes, ModOfNegative
  <1> QED BY <1>3, <1>4 DEF x

LEMMA FitsWithin ==
    ASSUME NEW c \in ChunkRec, c.used <= MaxUsed, c.used <= ARENA_DEFAULT_SIZE,
           NEW sz \in Nat, Fits(c, sz)
    PROVE  c.used + sz <= ARENA_DEFAULT_SIZE
  <1>1. c.used \in 0 .. MaxUsed
    BY Sizes DEF ChunkRec
  <1>2. (ARENA_DEFAULT_SIZE - c.used) % SizeMod = ARENA_DEFAULT_SIZE - c.used
    BY <1>1, LeftOver
  <1> QED BY <1>1, <1>2, Sizes DEF Fits

LEMMA FitsBeyond ==
    ASSUME NEW c \in ChunkRec, c.used <= MaxUsed, c.used > ARENA_DEFAULT_SIZE,
           NEW sz \in Nat, sz <= MaxUsed
    PROVE  Fits(c, sz)
  <1>1. c.used \in 0 .. MaxUsed
    BY Sizes DEF ChunkRec
  <1>2. (ARENA_DEFAULT_SIZE - c.used) % SizeMod = ARENA_DEFAULT_SIZE - c.used + SizeMod
    BY <1>1, LeftOver
  <1> QED BY <1>1, <1>2, Sizes DEF Fits

-----------------------------------------------------------------------------
(* arena_alloc                                                              *)

(* A set of natural numbers that is not empty has a least one.              *)
LEMMA LeastNat ==
    ASSUME NEW T, T \subseteq Nat, T # {}
    PROVE  \E n \in T : \A m \in T : n <= m
  <1> DEFINE R == OpToRel(<, Nat)
  <1>1. IsWellFoundedOn(R, Nat)
    BY NatLessThanWellFounded
  <1>2. PICK n \in T : \A m \in T : <<m, n>> \notin R
    <2> HIDE DEF R
    <2> QED BY <1>1, WFMin
  <1>3. \A m \in T : ~ (m < n)
    BY <1>2 DEF OpToRel
  <1> QED BY <1>3

LEMMA ChosenIs ==
    ASSUME NEW a, chunks[a] \in Seq(ChunkRec), NEW sz \in Nat
    PROVE  /\ Chosen(a, sz) \in 1 .. Len(chunks[a]) + 1
           /\ Chosen(a, sz) \in DOMAIN chunks[a] => Fits(chunks[a][Chosen(a, sz)], sz)
           /\ Chosen(a, sz) = Len(chunks[a]) + 1 =>
                 \A k \in DOMAIN chunks[a] : ~Fits(chunks[a][k], sz)
  <1> DEFINE cs  == chunks[a]
             fit == {k \in DOMAIN cs : Fits(cs[k], sz)}
  <1>1. fit \subseteq Nat /\ DOMAIN cs = 1 .. Len(cs) /\ Len(cs) \in Nat
    OBVIOUS
  <1>2. Chosen(a, sz) = IF fit = {} THEN Len(cs) + 1
                        ELSE CHOOSE k \in fit : \A j \in fit : k <= j
    BY DEF Chosen
  <1>3. fit # {} => \E k \in fit : \A j \in fit : k <= j
    BY <1>1, LeastNat
  <1>4. fit # {} => Chosen(a, sz) \in fit
    BY <1>2, <1>3
  <1>5. CASE fit = {}
    <2>1. Chosen(a, sz) = Len(cs) + 1
      BY <1>2, <1>5
    <2>2. \A k \in DOMAIN cs : ~Fits(cs[k], sz)
      BY <1>5
    <2>3. Len(cs) + 1 \notin DOMAIN cs /\ Len(cs) + 1 \in 1 .. Len(cs) + 1
      BY <1>1
    <2> QED BY <2>1, <2>2, <2>3
  <1>6. CASE fit # {}
    <2>1. Chosen(a, sz) \in 1 .. Len(cs) /\ Fits(cs[Chosen(a, sz)], sz)
      BY <1>1, <1>4, <1>6
    <2> HIDE DEF cs, fit
    <2>2. Chosen(a, sz) \in 1 .. Len(cs) + 1 /\ Chosen(a, sz) # Len(cs) + 1
      BY <1>1, <2>1
    <2> QED BY <2>1, <2>2 DEF cs
  <1> QED BY <1>5, <1>6

(* What arena_alloc does to the chunks, and what it returns.                *)
LEMMA AllocGives ==
    ASSUME NEW a \in Arena, chunks[a] \in Seq(ChunkRec), NEW m,
           Sound(chunks[a], m), NEW sz \in Nat, HasRoom(a, sz),
           NEW cs, cs = chunks[a], NEW ds, ds = WithAlloc(a, sz),
           NEW r, r = NewBlock(a, sz), NEW m2, m2 = m \cup Oversize(sz)
    PROVE  /\ ds \in Seq(ChunkRec) /\ Len(cs) <= Len(ds)
           /\ \A j \in DOMAIN cs : j \in DOMAIN ds /\ cs[j].used <= ds[j].used
           /\ r \in BlockRec /\ r.arena = a
           /\ r.chunk \in DOMAIN cs => r.lo = cs[r.chunk].used
           /\ Sound(ds, m2)
           /\ Fine(r, ds, m2)
  <1> DEFINE k == Chosen(a, sz)
             es == IF k > Len(cs) THEN Append(cs, Chunk(ARENA_DEFAULT_SIZE)) ELSE cs
  <1>0. cs \in Seq(ChunkRec) /\ DOMAIN cs = 1 .. Len(cs) /\ Len(cs) \in Nat
    OBVIOUS
  <1>1. /\ k \in 1 .. Len(cs) + 1
        /\ k \in DOMAIN cs => Fits(cs[k], sz)
        /\ k = Len(cs) + 1 => \A j \in DOMAIN cs : ~Fits(cs[j], sz)
    BY ChosenIs
  <1>2. /\ r.arena = a /\ r.chunk = k /\ r.len = sz
        /\ r.lo = (IF k > Len(cs) THEN 0 ELSE cs[k].used)
        /\ r.lo + sz <= MaxUsed
    BY DEF NewBlock, HasRoom
  <1> HIDE DEF k
  <1>3. /\ Chunk(ARENA_DEFAULT_SIZE) \in ChunkRec /\ Chunk(ARENA_DEFAULT_SIZE).used = 0
        /\ Chunk(ARENA_DEFAULT_SIZE).real >= ARENA_DEFAULT_SIZE
    BY Sizes DEF Chunk, ChunkRec
  <1>4. \A j \in DOMAIN cs : /\ cs[j] \in ChunkRec /\ cs[j].used \in Nat
                             /\ cs[j].used <= MaxUsed
    <2> SUFFICES ASSUME NEW j \in DOMAIN cs
                 PROVE  cs[j] \in ChunkRec /\ cs[j].used \in Nat /\ cs[j].used <= MaxUsed
      OBVIOUS
    <2>1. cs[j] \in ChunkRec
      BY ONLY <1>0, j \in DOMAIN cs
    <2>2. cs[j].used \in Nat
      BY <2>1, Sizes DEF ChunkRec
    <2>3. cs[j].used <= MaxUsed
      BY DEF Sound
    <2> QED BY <2>1, <2>2, <2>3
  <1>5. es \in Seq(ChunkRec) /\ DOMAIN es = 1 .. Len(es) /\ k \in DOMAIN es
    BY <1>0, <1>1, <1>3
  <1>6. \A j \in DOMAIN cs : es[j] = cs[j] /\ j \in DOMAIN es
    BY <1>0, <1>1, <1>3
  <1>7. /\ k \in DOMAIN cs => Len(es) = Len(cs)
        /\ k \notin DOMAIN cs => /\ k = Len(cs) + 1 /\ Len(es) = Len(cs) + 1
                                 /\ es[k] = Chunk(ARENA_DEFAULT_SIZE)
    BY <1>0, <1>1, <1>3
  <1>8. ds = [es EXCEPT ![k].used = (@ + sz) % SizeMod]
    BY DEF WithAlloc, k
  <1> HIDE DEF es
  <1>9. es[k] \in ChunkRec
    BY ONLY <1>5
  <1>10. /\ k \in DOMAIN cs => r.lo = cs[k].used
         /\ k \notin DOMAIN cs => r.lo = 0
    BY ONLY <1>0, <1>1, <1>2
  <1>11. es[k].used = r.lo
    BY ONLY <1>3, <1>6, <1>7, <1>10
  <1>12. r.lo \in Nat /\ r.lo + sz \in 0 .. SizeMod - 1 /\ sz <= MaxUsed
    <2>1. r.lo \in Nat
      BY ONLY <1>9, <1>11, Sizes DEF ChunkRec
    <2> QED BY <2>1, <1>2, Sizes
  <1>13. (r.lo + sz) % SizeMod = r.lo + sz
    BY ONLY <1>12, Sizes, ModOfNat
  <1>14. ds = [es EXCEPT ![k] = [es[k] EXCEPT !.used = r.lo + sz]]
    BY ONLY <1>5, <1>8, <1>11, <1>13
  <1>15. [es[k] EXCEPT !.used = r.lo + sz] \in ChunkRec
    BY ONLY <1>9, <1>12 DEF ChunkRec
  <1>16. ds \in Seq(ChunkRec) /\ Len(ds) = Len(es) /\ DOMAIN ds = DOMAIN es
    BY ONLY <1>5, <1>14, <1>15
  <1>17. ds[k].used = r.lo + sz /\ ds[k].real = es[k].real
    BY ONLY <1>5, <1>9, <1>14 DEF ChunkRec
  <1>18. \A j \in DOMAIN es : j # k => ds[j] = es[j]
    BY ONLY <1>5, <1>14
  <1>19. \A j \in DOMAIN cs : j \in DOMAIN ds /\ cs[j].used <= ds[j].used
    <2> SUFFICES ASSUME NEW j \in DOMAIN cs PROVE j \in DOMAIN ds /\ cs[j].used <= ds[j].used
      OBVIOUS
    <2>1. j \in DOMAIN ds /\ es[j] = cs[j] /\ cs[j].used \in Nat
      BY <1>4, <1>6, <1>16
    <2>2. CASE j = k
      <3>1. r.lo = cs[j].used
        BY <2>1, <2>2, <1>11
      <3> QED BY ONLY <2>1, <2>2, <3>1, <1>12, <1>17, sz \in Nat
    <2>3. CASE j # k
      <3>1. ds[j] = cs[j]
        BY <2>1, <2>3, <1>6, <1>18
      <3> QED BY ONLY <2>1, <3>1
    <2> QED BY <2>2, <2>3
  <1>20. /\ "oversize" \notin m2 => "oversize" \notin m /\ sz <= ARENA_DEFAULT_SIZE
         /\ "short" \notin m2 => "short" \notin m
    BY Sizes DEF Oversize, Reason
  (* The bytes within the size of the chunk, but for an oversized block. *)
  <1>21. r.lo <= ARENA_DEFAULT_SIZE /\ sz <= ARENA_DEFAULT_SIZE => r.lo + sz <= ARENA_DEFAULT_SIZE
    <2>1. CASE k \in DOMAIN cs
      <3>1. cs[k] \in ChunkRec /\ cs[k].used = r.lo /\ cs[k].used <= MaxUsed
        BY <2>1, <1>4, <1>10
      <3>2. Fits(cs[k], sz)
        BY <2>1, <1>1
      <3> QED BY <3>1, <3>2, FitsWithin
    <2>2. CASE k \notin DOMAIN cs
      BY <2>2, <1>10
    <2> QED BY <2>1, <2>2
  (* A chunk is added behind none that is used beyond its size. *)
  <1>22. ASSUME k \notin DOMAIN cs, NEW j \in DOMAIN cs
         PROVE  cs[j].used <= ARENA_DEFAULT_SIZE
    <2>1. cs[j] \in ChunkRec /\ cs[j].used <= MaxUsed /\ cs[j].used \in Nat
      BY <1>4
    <2>2. ~Fits(cs[j], sz)
      BY <1>1, <1>7, <1>22
    <2>3. ~ (cs[j].used > ARENA_DEFAULT_SIZE)
      BY <2>1, <2>2, <1>12, FitsBeyond
    <2> QED BY <2>1, <2>3, Sizes
  (* Nor is a chunk used beyond its size that has one behind it. *)
  <1>23. k # Len(es) => r.lo + sz <= ARENA_DEFAULT_SIZE
    <2> SUFFICES ASSUME k # Len(es) PROVE r.lo + sz <= ARENA_DEFAULT_SIZE
      OBVIOUS
    <2>1. k \in DOMAIN cs /\ k # Len(cs)
      BY <1>7
    <2>2. cs[k] \in ChunkRec /\ cs[k].used = r.lo /\ cs[k].used <= MaxUsed
          /\ cs[k].used \in Nat
      BY <2>1, <1>4, <1>10
    <2>3. cs[k].used <= ARENA_DEFAULT_SIZE
      BY <2>1, <2>2, Sizes DEF Sound
    <2>4. Fits(cs[k], sz)
      BY <2>1, <1>1
    <2>5. cs[k].used + sz <= ARENA_DEFAULT_SIZE
      BY <2>2, <2>3, <2>4, FitsWithin
    <2> QED BY <2>2, <2>5
  <1>24. "oversize" \notin m2 => r.lo + sz <= ARENA_DEFAULT_SIZE
    <2>1. "oversize" \notin m2 => r.lo <= ARENA_DEFAULT_SIZE
      BY <1>10, <1>20, Sizes DEF Sound
    <2> QED BY <2>1, <1>20, <1>21
  <1>25. Sound(ds, m2)
    <2> SUFFICES ASSUME NEW j \in DOMAIN ds
                 PROVE  /\ ds[j].used <= MaxUsed
                        /\ ds[j].used > ARENA_DEFAULT_SIZE => j = Len(ds)
                        /\ "oversize" \notin m2 => ds[j].used <= ARENA_DEFAULT_SIZE
                        /\ "short" \notin m2 => ds[j].real >= ARENA_DEFAULT_SIZE
      BY DEF Sound
    <2>1. CASE j # k
      <3>1. j \in DOMAIN cs
        <4>1. j \in 1 .. Len(es)
          BY <1>5, <1>16
        <4> QED BY ONLY <4>1, <2>1, <1>0, <1>7
      <3>2. ds[j] = cs[j]
        BY <2>1, <3>1, <1>6, <1>18
      <3>3. cs[j].used > ARENA_DEFAULT_SIZE => Len(ds) = Len(cs)
        <4>1. k \notin DOMAIN cs => ~ (cs[j].used > ARENA_DEFAULT_SIZE)
          BY <3>1, <1>4, <1>22, Sizes
        <4> QED BY <4>1, <1>7, <1>16
      <3> QED BY <3>1, <3>2, <3>3, <1>20 DEF Sound
    <2>2. CASE j = k
      <3>1. ds[j].used <= MaxUsed
        BY <2>2, <1>2, <1>17
      <3>2. ds[j].used > ARENA_DEFAULT_SIZE => j = Len(ds)
        BY <2>2, <1>12, <1>16, <1>17, <1>23, Sizes
      <3>3. "oversize" \notin m2 => ds[j].used <= ARENA_DEFAULT_SIZE
        BY <2>2, <1>17, <1>24
      <3>4. "short" \notin m2 => ds[j].real >= ARENA_DEFAULT_SIZE
        <4>1. ds[j].real = es[k].real
          BY <2>2, <1>17
        <4>2. CASE k \in DOMAIN cs
          BY <4>1, <4>2, <1>6, <1>20 DEF Sound
        <4>3. CASE k \notin DOMAIN cs
          BY <4>1, <4>3, <1>3, <1>7
        <4> QED BY <4>2, <4>3
      <3> QED BY <3>1, <3>2, <3>3, <3>4
    <2> QED BY <2>1, <2>2
  <1>26. Fine(r, ds, m2)
    <2>1. r.chunk \in DOMAIN ds /\ ds[r.chunk].used = r.lo + sz /\ r.len = sz
      BY <1>2, <1>5, <1>16, <1>17
    <2> QED BY <2>1, <1>12, <1>24 DEF Fine
  <1>27. r \in BlockRec
    <2>1. r = [arena |-> a, chunk |-> k, len |-> sz, lo |-> r.lo]
      BY DEF NewBlock, k
    <2>2. k \in Nat
      BY <1>1, <1>0
    <2> QED BY <2>1, <2>2, <1>12 DEF BlockRec
  <1>28. r.chunk \in DOMAIN cs => r.lo = cs[r.chunk].used
    BY <1>2, <1>10
  <1>29. Len(cs) <= Len(ds)
    <2>1. Len(es) = Len(cs) \/ Len(es) = Len(cs) + 1
      BY <1>7
    <2>2. Len(cs) \in Nat /\ Len(ds) = Len(es)
      BY <1>0, <1>16
    <2> QED BY ONLY <2>1, <2>2
  <1> QED BY <1>2, <1>16, <1>19, <1>25, <1>26, <1>27, <1>28, <1>29

-----------------------------------------------------------------------------
(* What the steps have in common                                            *)

LEMMA HeldBlock ==
    ASSUME ArenaInd, NEW b \in Held
    PROVE  /\ blocks[b] \in BlockRec
           /\ blocks[b].arena \in Arena /\ blocks[b].chunk \in Nat
           /\ blocks[b].lo \in Nat /\ blocks[b].len \in Nat
           /\ first[blocks[b].arena] > 0
           /\ Fine(blocks[b], chunks[blocks[b].arena], misuse[blocks[b].arena])
  <1>1. blocks[b] \in BlockRec
    BY DEF ArenaInd, ArenaTyped, Held
  <1>2. first[blocks[b].arena] > 0
        /\ Fine(blocks[b], chunks[blocks[b].arena], misuse[blocks[b].arena])
    BY DEF ArenaInd, BlocksFine
  <1> QED BY <1>1, <1>2 DEF BlockRec

(* A block stays fine while its arena is misused more and its chunks are    *)
(* used more.                                                               *)
LEMMA FineStays ==
    ASSUME NEW r \in BlockRec, NEW cs, NEW ds, NEW m, NEW m2, m \subseteq m2,
           \A j \in DOMAIN cs : /\ j \in DOMAIN ds /\ cs[j].used <= ds[j].used
                                /\ cs[j].used \in Nat /\ ds[j].used \in Nat,
           Fine(r, cs, m)
    PROVE  Fine(r, ds, m2)
  <1>1. r.lo \in Nat /\ r.len \in Nat
    BY DEF BlockRec
  <1>2. r.chunk \in DOMAIN cs
    BY DEF Fine
  <1>3. m2 \cap {"grown", "moved"} = {} => r.lo + r.len <= ds[r.chunk].used
    BY <1>1, <1>2 DEF Fine
  <1> QED BY <1>2, <1>3 DEF Fine

LEMMA UsedNat ==
    ASSUME NEW cs \in Seq(ChunkRec)
    PROVE  \A j \in DOMAIN cs : cs[j] \in ChunkRec /\ cs[j].used \in Nat /\ cs[j].real \in Nat
  <1>1. \A j \in DOMAIN cs : cs[j] \in ChunkRec
    OBVIOUS
  <1> QED BY <1>1, Sizes DEF ChunkRec

LEMMA ArenaStops ==
    ASSUME ArenaInd, NEW how \in {"run", "panic"}, ArenaStop(how)
    PROVE  ArenaInd'
  <1> USE DEF ArenaStop
  <1>1. ArenaTyped' /\ ChunksSound'
    BY DEF ArenaInd, ArenaTyped, ChunksSound
  <1>2. Held' = Held
    BY DEF Held
  <1>3. BlocksFine' /\ BlocksDisjoint' /\ DataKept'
    BY <1>2 DEF ArenaInd, BlocksFine, BlocksDisjoint, DataKept, Overlap
  <1> QED BY <1>1, <1>3 DEF ArenaInd

(* arena_alloc and an arena_realloc that moves: the client holds the new    *)
(* block under the name b, whatever it held under it before.                *)
LEMMA CutKeepsInd ==
    ASSUME ArenaInd, NEW a \in Arena, NEW b \in Block, NEW sz \in Nat,
           ArenaOpen(a), HasRoom(a, sz),
           chunks' = [chunks EXCEPT ![a] = WithAlloc(a, sz)],
           blocks' = [blocks EXCEPT ![b] = NewBlock(a, sz)],
           misuse' = [misuse EXCEPT ![a] = @ \cup Oversize(sz)],
           cut' \in SUBSET Arena, DataKept',
           UNCHANGED <<first, arenaStatus>>
    PROVE  ArenaInd'
  <1> DEFINE cs == chunks[a]
             m  == misuse[a]
             ds == WithAlloc(a, sz)
             r  == NewBlock(a, sz)
             m2 == m \cup Oversize(sz)
  <1>1. /\ chunks \in [Arena -> Seq(ChunkRec)] /\ first \in [Arena -> Int]
        /\ first[a] > 0 /\ cs \in Seq(ChunkRec) /\ Sound(cs, m)
        /\ m \subseteq {"short", "oversize", "grown", "moved"}
        /\ misuse \in [Arena -> SUBSET {"short", "oversize", "grown", "moved"}]
        /\ blocks \in [Block -> BlockRec \cup {NoBlock}]
        /\ first[a] <= Len(cs)
    BY DEF ArenaInd, ArenaTyped, ChunksSound, ArenaOpen, HasRoom
  <1> HIDE DEF cs, m, ds, r, m2
  <1>2. /\ ds \in Seq(ChunkRec) /\ Len(cs) <= Len(ds)
        /\ \A j \in DOMAIN cs : j \in DOMAIN ds /\ cs[j].used <= ds[j].used
        /\ r \in BlockRec /\ r.arena = a
        /\ r.chunk \in DOMAIN cs => r.lo = cs[r.chunk].used
        /\ Sound(ds, m2)
        /\ Fine(r, ds, m2)
    BY ZenonT(30), <1>1, AllocGives DEF cs, m, ds, r, m2
  <1>3. /\ chunks'[a] = ds /\ misuse'[a] = m2 /\ blocks'[b] = r
        /\ \A d \in Arena : d # a => chunks'[d] = chunks[d] /\ misuse'[d] = misuse[d]
        /\ \A c \in Block : c # b => blocks'[c] = blocks[c]
    BY <1>1 DEF ds, m2, r, m
  <1>4. m \subseteq m2 /\ m2 \in SUBSET {"short", "oversize", "grown", "moved"}
        /\ (m2 \cap {"grown", "moved"} = {} => m \cap {"grown", "moved"} = {})
    BY <1>1 DEF m2, Oversize, Reason
  <1>5. \A d \in Arena : misuse[d] \subseteq misuse'[d]
    BY <1>3, <1>4 DEF m
  <1>6. ArenaTyped'
    <2>1. chunks' \in [Arena -> Seq(ChunkRec)]
      BY <1>1, <1>2 DEF ds
    <2>2. misuse' \in [Arena -> SUBSET {"short", "oversize", "grown", "moved"}]
      BY <1>1, <1>4 DEF m, m2
    <2>3. blocks' \in [Block -> BlockRec \cup {NoBlock}]
      BY <1>1, <1>2 DEF r
    <2>4. ASSUME NEW d \in Arena PROVE first'[d] \in -1 .. Len(chunks'[d])
      <3>1. CASE d # a
        BY <3>1, <1>3 DEF ArenaInd, ArenaTyped
      <3>2. CASE d = a
        <4>1. Len(ds) \in Nat /\ Len(cs) \in Nat /\ first[a] \in Int
          BY <1>1, <1>2
        <4> QED BY <4>1, <3>2, <1>1, <1>2, <1>3
      <3> QED BY <3>1, <3>2
    <2> QED BY <2>1, <2>2, <2>3, <2>4 DEF ArenaInd, ArenaTyped
  <1>7. ChunksSound'
    <2> SUFFICES ASSUME NEW d \in Arena
                 PROVE  /\ first[d] = 0 => chunks'[d] = <<>> /\ misuse'[d] = {}
                        /\ first[d] >= 0 => Sound(chunks'[d], misuse'[d])
      BY DEF ChunksSound, Sound
    <2>1. CASE d # a
      BY <2>1, <1>3 DEF ArenaInd, ChunksSound
    <2>2. CASE d = a
      <3>1. first[d] # 0
        BY <2>2, <1>1
      <3>2. Sound(chunks'[d], misuse'[d])
        BY <2>2, <1>2, <1>3
      <3> QED BY <3>1, <3>2
    <2> QED BY <2>1, <2>2
  <1>8. Held' = Held \cup {b} /\ b \in Held'
    BY SMTT(30), <1>1, <1>2, <1>3, ArenaAssumption DEF Held, BlockRec
  <1>9. ASSUME NEW c \in Held, c # b
        PROVE  /\ first[blocks[c].arena] > 0
               /\ Fine(blocks[c], chunks'[blocks[c].arena], misuse'[blocks[c].arena])
    <2>1. /\ blocks[c] \in BlockRec /\ blocks[c].arena \in Arena
          /\ first[blocks[c].arena] > 0
          /\ Fine(blocks[c], chunks[blocks[c].arena], misuse[blocks[c].arena])
      BY HeldBlock
    <2>2. CASE blocks[c].arena # a
      BY <2>1, <2>2, <1>3
    <2>3. CASE blocks[c].arena = a
      <3>1. Fine(blocks[c], cs, m)
        BY <2>1, <2>3 DEF cs, m
      <3>2. \A j \in DOMAIN cs : /\ j \in DOMAIN ds /\ cs[j].used <= ds[j].used
                                 /\ cs[j].used \in Nat /\ ds[j].used \in Nat
        BY <1>1, <1>2, UsedNat
      <3>3. Fine(blocks[c], ds, m2)
        BY <2>1, <3>1, <3>2, <1>4, FineStays
      <3> QED BY <2>1, <2>3, <3>3, <1>3
    <2> QED BY <2>2, <2>3
  <1>10. BlocksFine'
    <2> SUFFICES ASSUME NEW c \in Held'
                 PROVE  /\ first[blocks'[c].arena] > 0
                        /\ Fine(blocks'[c], chunks'[blocks'[c].arena], misuse'[blocks'[c].arena])
      BY DEF BlocksFine, Fine
    <2>1. CASE c = b
      BY <2>1, <1>1, <1>2, <1>3
    <2>2. CASE c # b
      <3>1. c \in Held /\ blocks'[c] = blocks[c]
        BY <2>2, <1>3, <1>8 DEF Held
      <3> QED BY <2>2, <3>1, <1>9
    <2> QED BY <2>1, <2>2
  (* The new block begins behind all that the chunk counts. *)
  <1>11. ASSUME NEW c \in Held, c # b, m2 \cap {"grown", "moved"} = {}
         PROVE  ~Overlap(r, blocks[c]) /\ ~Overlap(blocks[c], r)
    <2>1. /\ blocks[c] \in BlockRec /\ blocks[c].lo \in Nat /\ blocks[c].len \in Nat
          /\ Fine(blocks[c], chunks[blocks[c].arena], misuse[blocks[c].arena])
      BY HeldBlock
    <2>2. CASE blocks[c].arena = a /\ blocks[c].chunk = r.chunk
      <3>1. Fine(blocks[c], cs, m)
        BY <2>1, <2>2 DEF cs, m
      <3>2. blocks[c].lo + blocks[c].len <= r.lo
        BY <3>1, <2>2, <1>2, <1>4, <1>11 DEF Fine
      <3>3. r.lo \in Nat
        BY <1>2 DEF BlockRec
      <3> QED BY <2>1, <3>2, <3>3 DEF Overlap
    <2>3. CASE ~ (blocks[c].arena = a /\ blocks[c].chunk = r.chunk)
      BY <2>3, <1>2 DEF Overlap
    <2> QED BY <2>2, <2>3
  <1>12. BlocksDisjoint'
    <2> SUFFICES ASSUME NEW c \in Held', NEW d \in Held', c # d,
                        misuse'[blocks'[c].arena] \cap {"grown", "moved"} = {},
                        Overlap(blocks'[c], blocks'[d])
                 PROVE  FALSE
      BY DEF BlocksDisjoint, Overlap
    <2>1. blocks'[c].arena = blocks'[d].arena
      BY DEF Overlap
    <2>2. CASE c # b /\ d # b
      <3>1. c \in Held /\ d \in Held /\ blocks'[c] = blocks[c] /\ blocks'[d] = blocks[d]
        BY <2>2, <1>3, <1>8 DEF Held
      <3>2. misuse[blocks[c].arena] \cap {"grown", "moved"} # {}
        BY <3>1 DEF ArenaInd, BlocksDisjoint
      <3>3. blocks[c].arena \in Arena
        BY <3>1, HeldBlock
      <3> QED BY <3>1, <3>2, <3>3, <1>5
    <2>3. CASE c = b
      <3>1. d \in Held /\ blocks'[d] = blocks[d] /\ d # b
        BY <2>3, <1>3, <1>8 DEF Held
      <3> QED BY <2>3, <3>1, <1>2, <1>3, <1>11
    <2>4. CASE d = b
      <3>1. c \in Held /\ blocks'[c] = blocks[c] /\ c # b
        BY <2>4, <1>3, <1>8 DEF Held
      <3> QED BY <2>1, <2>4, <3>1, <1>2, <1>3, <1>11
    <2> QED BY <2>2, <2>3, <2>4
  <1> QED BY <1>6, <1>7, <1>10, <1>12 DEF ArenaInd

(* The blocks that remain as they were are as disjoint as they were.        *)
LEMMA RemainDisjoint ==
    ASSUME ArenaInd,
           \A c \in Held' : /\ c \in Held /\ blocks'[c] = blocks[c]
                            /\ misuse[blocks[c].arena] \subseteq misuse'[blocks[c].arena]
    PROVE  BlocksDisjoint'
  <1> SUFFICES ASSUME NEW c \in Held', NEW d \in Held', c # d,
                      Overlap(blocks'[c], blocks'[d])
               PROVE  misuse'[blocks'[c].arena] \cap {"grown", "moved"} # {}
    BY DEF BlocksDisjoint, Overlap
  <1>1. c \in Held /\ d \in Held /\ blocks'[c] = blocks[c] /\ blocks'[d] = blocks[d]
    OBVIOUS
  <1>2. misuse[blocks[c].arena] \cap {"grown", "moved"} # {}
    BY <1>1 DEF ArenaInd, BlocksDisjoint
  <1> QED BY <1>1, <1>2

LEMMA FreeKeepsInd ==
    ASSUME ArenaInd, NEW a \in Arena, NEW b \in Block, ArenaFree(a, b)
    PROVE  ArenaInd'
  <1> USE DEF ArenaFree
  <1>1. ArenaTyped' /\ ChunksSound' /\ DataKept'
    <2>1. blocks' \in [Block -> BlockRec \cup {NoBlock}]
      BY DEF ArenaInd, ArenaTyped
    <2>2. ArenaTyped'
      BY <2>1 DEF ArenaInd, ArenaTyped
    <2> QED BY <2>2 DEF ArenaInd, ChunksSound, Sound, DataKept
  <1>2. \A c \in Held' : c \in Held /\ blocks'[c] = blocks[c]
    BY DEF ArenaInd, ArenaTyped, Held
  <1>3. BlocksDisjoint'
    BY <1>2, RemainDisjoint
  <1>4. BlocksFine'
    BY <1>2 DEF ArenaInd, BlocksFine, Fine
  <1> QED BY <1>1, <1>3, <1>4 DEF ArenaInd

(* A block is given another length where it is.                             *)
LEMMA ResizeKeepsInd ==
    ASSUME ArenaInd, NEW a \in Arena, NEW b \in Block, Ours(a, b), NEW n \in Nat,
           "oversize" \notin misuse[a] => blocks[b].lo + n <= ARENA_DEFAULT_SIZE,
           blocks' = [blocks EXCEPT ![b].len = n],
           misuse' = [misuse EXCEPT ![a] = @ \cup Reason(n > blocks[b].len, "grown")],
           UNCHANGED <<chunks, first, arenaStatus, cut>>
    PROVE  ArenaInd'
  <1> DEFINE old == blocks[b]
             r   == [old EXCEPT !.len = n]
             m2  == misuse[a] \cup Reason(n > old.len, "grown")
  <1>1. /\ b \in Held /\ old.arena = a /\ old \in BlockRec
        /\ old.lo \in Nat /\ old.len \in Nat /\ first[a] > 0
        /\ Fine(old, chunks[a], misuse[a])
    BY HeldBlock DEF Ours
  <1>2. /\ r \in BlockRec /\ r.arena = a /\ r.chunk = old.chunk
        /\ r.lo = old.lo /\ r.len = n
    BY <1>1 DEF BlockRec
  <1>3. /\ blocks \in [Block -> BlockRec \cup {NoBlock}]
        /\ misuse \in [Arena -> SUBSET {"short", "oversize", "grown", "moved"}]
    BY DEF ArenaInd, ArenaTyped
  <1>4. /\ misuse'[a] = m2 /\ blocks'[b] = r
        /\ \A d \in Arena : d # a => misuse'[d] = misuse[d]
        /\ \A c \in Block : c # b => blocks'[c] = blocks[c]
    BY <1>3
  <1>5. /\ misuse[a] \subseteq m2 /\ m2 \in SUBSET {"short", "oversize", "grown", "moved"}
        /\ "grown" \notin m2 => n <= old.len
        /\ "oversize" \in m2 => "oversize" \in misuse[a]
        /\ "short" \in m2 => "short" \in misuse[a]
    BY <1>1, <1>3 DEF Reason
  <1>6. ArenaTyped'
    <2>1. misuse' \in [Arena -> SUBSET {"short", "oversize", "grown", "moved"}]
      BY <1>3, <1>5
    <2>2. blocks' \in [Block -> BlockRec \cup {NoBlock}]
      BY <1>2, <1>3
    <2> QED BY <2>1, <2>2 DEF ArenaInd, ArenaTyped
  <1> HIDE DEF r, m2, old
  <1>7. ChunksSound'
    <2> SUFFICES ASSUME NEW d \in Arena
                 PROVE  /\ first[d] = 0 => chunks[d] = <<>> /\ misuse'[d] = {}
                        /\ first[d] >= 0 => Sound(chunks[d], misuse'[d])
      BY DEF ChunksSound, Sound
    <2>1. CASE d # a
      BY <2>1, <1>4 DEF ArenaInd, ChunksSound
    <2>2. CASE d = a
      <3>1. first[d] # 0 /\ Sound(chunks[d], misuse[d])
        BY <2>2, <1>1 DEF ArenaInd, ArenaTyped, ChunksSound
      <3>2. Sound(chunks[d], m2)
        BY <2>2, <3>1, <1>5 DEF Sound
      <3> QED BY <2>2, <3>1, <3>2, <1>4
    <2> QED BY <2>1, <2>2
  <1>8. Held' = Held
    BY <1>1, <1>2, <1>4, ArenaAssumption DEF Held, BlockRec
  <1>9. \A d \in Arena : misuse[d] \subseteq misuse'[d]
    BY <1>4, <1>5
  <1>10. BlocksFine'
    <2> SUFFICES ASSUME NEW c \in Held
                 PROVE  /\ first[blocks'[c].arena] > 0
                        /\ Fine(blocks'[c], chunks[blocks'[c].arena], misuse'[blocks'[c].arena])
      BY <1>8 DEF BlocksFine, Fine
    <2>1. CASE c = b
      <3>1. Fine(r, chunks[a], m2)
        <4>1. r.chunk \in DOMAIN chunks[a]
          BY <1>1, <1>2 DEF Fine
        <4>2. "oversize" \notin m2 => r.lo + r.len <= ARENA_DEFAULT_SIZE
          BY <1>2, <1>5 DEF old
        <4>3. m2 \cap {"grown", "moved"} = {} => r.lo + r.len <= chunks[a][r.chunk].used
          <5> SUFFICES ASSUME m2 \cap {"grown", "moved"} = {}
                       PROVE  r.lo + r.len <= chunks[a][r.chunk].used
            OBVIOUS
          <5>1. n <= old.len /\ misuse[a] \cap {"grown", "moved"} = {}
            BY <1>5
          <5>2. old.lo + old.len <= chunks[a][old.chunk].used
            BY <1>1, <5>1 DEF Fine
          <5>3. chunks[a][old.chunk].used \in Nat
            <6>1. chunks[a] \in Seq(ChunkRec) /\ old.chunk \in DOMAIN chunks[a]
              BY <1>1 DEF ArenaInd, ArenaTyped, Fine
            <6> QED BY <6>1, UsedNat
          <5> QED BY <1>1, <1>2, <5>1, <5>2, <5>3
        <4> QED BY <4>1, <4>2, <4>3 DEF Fine
      <3> QED BY <2>1, <3>1, <1>1, <1>2, <1>4
    <2>2. CASE c # b
      <3>1. /\ blocks[c] \in BlockRec /\ blocks[c].arena \in Arena
            /\ first[blocks[c].arena] > 0
            /\ Fine(blocks[c], chunks[blocks[c].arena], misuse[blocks[c].arena])
        BY HeldBlock
      <3>2. blocks'[c] = blocks[c]
        BY <2>2, <1>4 DEF Held
      <3>3. misuse[blocks[c].arena] \subseteq misuse'[blocks[c].arena]
        BY <3>1, <1>9
      <3>4. Fine(blocks[c], chunks[blocks[c].arena], misuse'[blocks[c].arena])
        BY ONLY <3>1, <3>3 DEF Fine
      <3> QED BY <3>1, <3>2, <3>4
    <2> QED BY <2>1, <2>2
  (* A block that was not grown covers no more than it did. *)
  <1>11. ASSUME NEW c \in Held, NEW d \in Held, Overlap(blocks'[c], blocks'[d]),
                misuse'[blocks'[c].arena] \cap {"grown", "moved"} = {}
         PROVE  Overlap(blocks[c], blocks[d])
    <2>1. blocks'[c].arena = blocks'[d].arena
      BY <1>11 DEF Overlap
    <2>2. ASSUME NEW x \in Held, misuse'[blocks'[x].arena] \cap {"grown", "moved"} = {}
          PROVE  /\ blocks'[x].arena = blocks[x].arena /\ blocks'[x].chunk = blocks[x].chunk
                 /\ blocks'[x].lo = blocks[x].lo /\ blocks'[x].lo \in Nat
                 /\ blocks'[x].len \in Nat /\ blocks[x].len \in Nat
                 /\ blocks'[x].len <= blocks[x].len
      <3>1. blocks[x] \in BlockRec /\ blocks[x].lo \in Nat /\ blocks[x].len \in Nat
        BY HeldBlock
      <3>2. CASE x = b
        <4>1. "grown" \notin m2
          BY <2>2, <3>2, <1>2, <1>4
        <4>2. n <= old.len
          BY <4>1, <1>5
        <4>3. blocks[x] = old /\ blocks'[x] = r
          BY <3>2, <1>4 DEF old
        <4>4. /\ r.arena = old.arena /\ r.chunk = old.chunk /\ r.lo = old.lo
              /\ r.lo \in Nat /\ r.len \in Nat /\ old.len \in Nat /\ r.len <= old.len
          BY <4>2, <1>1, <1>2
        <4> QED BY ONLY <4>3, <4>4
      <3>3. CASE x # b
        <4>1. blocks'[x] = blocks[x]
          BY <3>3, <1>4 DEF Held
        <4> QED BY ONLY <4>1, <3>1
      <3> QED BY <3>2, <3>3
    <2> QED BY <1>11, <2>1, <2>2 DEF Overlap
  <1>12. BlocksDisjoint'
    <2> SUFFICES ASSUME NEW c \in Held, NEW d \in Held, c # d, Overlap(blocks'[c], blocks'[d]),
                        misuse'[blocks'[c].arena] \cap {"grown", "moved"} = {}
                 PROVE  FALSE
      BY <1>8 DEF BlocksDisjoint, Overlap
    <2>1. Overlap(blocks[c], blocks[d])
      BY <1>11
    <2>2. misuse[blocks[c].arena] \cap {"grown", "moved"} # {}
      BY <2>1 DEF ArenaInd, BlocksDisjoint
    <2>3. blocks'[c].arena = blocks[c].arena /\ blocks[c].arena \in Arena
      <3>1. CASE c = b
        BY <3>1, <1>1, <1>2, <1>4 DEF old
      <3>2. CASE c # b
        BY <3>2, <1>4, HeldBlock DEF Held
      <3> QED BY <3>1, <3>2
    <2> QED BY <2>2, <2>3, <1>9
  <1>13. DataKept'
    <2> SUFFICES ASSUME NEW d \in cut PROVE misuse'[d] \cap {"grown", "moved"} # {}
      BY DEF DataKept
    <2> QED BY <1>9 DEF ArenaInd, ArenaTyped, DataKept
  <1> QED BY <1>6, <1>7, <1>10, <1>12, <1>13 DEF ArenaInd

LEMMA ReallocNothingKeepsInd ==
    ASSUME ArenaInd, NEW a \in Arena, NEW b \in Block, ArenaReallocNothing(a, b)
    PROVE  ArenaInd'
  <1>1. Ours(a, b)
    BY DEF ArenaReallocNothing
  <1>2. CASE ArenaStop("panic")
    BY <1>2, ArenaStops
  <1>3. CASE /\ blocks' = [blocks EXCEPT ![b].len = 0]
             /\ UNCHANGED <<chunks, first, arenaStatus, misuse, cut>>
    <2>1. /\ blocks[b].arena = a /\ blocks[b].lo \in Nat /\ blocks[b].len \in Nat
          /\ Fine(blocks[b], chunks[a], misuse[a])
      BY <1>1, HeldBlock DEF Ours
    <2>2. misuse' = [misuse EXCEPT ![a] = @ \cup Reason(0 > blocks[b].len, "grown")]
      <3>1. Reason(0 > blocks[b].len, "grown") = {}
        BY <2>1 DEF Reason
      <3> QED BY <3>1, <1>3 DEF ArenaInd, ArenaTyped
    <2>3. "oversize" \notin misuse[a] => blocks[b].lo + 0 <= ARENA_DEFAULT_SIZE
      BY <2>1, Sizes DEF Fine
    <2> QED BY <1>1, <1>3, <2>2, <2>3, ResizeKeepsInd
  <1> QED BY <1>2, <1>3 DEF ArenaReallocNothing

LEMMA ReallocKeepsInd ==
    ASSUME ArenaInd, NEW a \in Arena, NEW b \in Block, NEW sz \in Request,
           ArenaRealloc(a, b, sz)
    PROVE  ArenaInd'
  <1> DEFINE old == blocks[b]
             c   == chunks[a][old.chunk]
  <1>1. /\ Ours(a, b) /\ sz \in Nat /\ ArenaOpen(a)
        /\ old.arena = a /\ old.lo \in Nat /\ old.len \in Nat
        /\ Fine(old, chunks[a], misuse[a])
    BY HeldBlock, ArenaAssumption DEF ArenaRealloc, Ours
  <1>2. /\ chunks[a] \in Seq(ChunkRec) /\ old.chunk \in DOMAIN chunks[a]
        /\ Sound(chunks[a], misuse[a])
    BY <1>1 DEF ArenaInd, ArenaTyped, ChunksSound, ArenaOpen, Fine
  <1>3. /\ c.used \in Nat /\ c.used <= MaxUsed
        /\ "oversize" \notin misuse[a] => c.used <= ARENA_DEFAULT_SIZE
    BY <1>2, UsedNat DEF Sound
  <1>4. CASE ArenaStop("panic")
    BY <1>4, ArenaStops
  <1>5. CASE /\ Found(a, b) /\ (ARENA_DEFAULT_SIZE - old.lo) % SizeMod >= sz
             /\ blocks' = [blocks EXCEPT ![b].len = sz]
             /\ misuse' = [misuse EXCEPT ![a] = @ \cup Reason(sz > old.len, "grown")]
             /\ UNCHANGED <<chunks, first, arenaStatus, cut>>
    <2>1. old.lo < c.used
      BY <1>5 DEF Found
    <2>2. old.lo \in 0 .. MaxUsed
      BY <1>1, <1>3, <2>1, Sizes
    <2>3. "oversize" \notin misuse[a] => old.lo <= ARENA_DEFAULT_SIZE
      BY <1>1, <1>3, <2>1, Sizes
    <2>4. "oversize" \notin misuse[a] => old.lo + sz <= ARENA_DEFAULT_SIZE
      <3> SUFFICES ASSUME "oversize" \notin misuse[a]
                   PROVE  old.lo + sz <= ARENA_DEFAULT_SIZE
        OBVIOUS
      <3>1. (ARENA_DEFAULT_SIZE - old.lo) % SizeMod = ARENA_DEFAULT_SIZE - old.lo
        BY <2>2, <2>3, LeftOver
      <3>2. ARENA_DEFAULT_SIZE - old.lo >= sz
        BY <3>1, <1>5
      <3> QED BY ONLY <3>2, <1>1, Sizes
    <2> HIDE DEF old
    <2>5. /\ "oversize" \notin misuse[a] => blocks[b].lo + sz <= ARENA_DEFAULT_SIZE
          /\ misuse' = [misuse EXCEPT ![a] = @ \cup Reason(sz > blocks[b].len, "grown")]
      BY <1>5, <2>4 DEF old
    <2> QED BY <1>1, <1>5, <2>5, ResizeKeepsInd
  <1>6. CASE /\ HasRoom(a, sz)
             /\ chunks' = [chunks EXCEPT ![a] = WithAlloc(a, sz)]
             /\ blocks' = [blocks EXCEPT ![b] = NewBlock(a, sz)]
             /\ cut' = (IF c.used - old.lo < old.len THEN cut \cup {a} ELSE cut)
             /\ misuse' = [misuse EXCEPT ![a] = @ \cup Oversize(sz)]
             /\ UNCHANGED <<first, arenaStatus>>
    <2>1. \A d \in Arena : misuse[d] \subseteq misuse'[d]
      BY <1>6 DEF ArenaInd, ArenaTyped
    <2>2. c.used - old.lo < old.len => misuse[a] \cap {"grown", "moved"} # {}
      <3> SUFFICES ASSUME misuse[a] \cap {"grown", "moved"} = {}
                   PROVE  ~ (c.used - old.lo < old.len)
        OBVIOUS
      <3>1. old.lo + old.len <= c.used
        BY <1>1 DEF Fine
      <3> QED BY ONLY <3>1, <1>1, <1>3
    <2>3. cut \subseteq Arena /\ \A d \in cut : misuse[d] \cap {"grown", "moved"} # {}
      BY DEF ArenaInd, ArenaTyped, DataKept
    <2>4. cut' \in SUBSET Arena
      BY <1>6, <2>3
    <2>5. DataKept'
      <3> SUFFICES ASSUME NEW d \in cut' PROVE misuse'[d] \cap {"grown", "moved"} # {}
        BY DEF DataKept
      <3>1. d \in Arena /\ misuse[d] \cap {"grown", "moved"} # {}
        BY <1>6, <2>2, <2>3
      <3> QED BY <3>1, <2>1
    <2> QED BY <1>1, <1>6, <2>4, <2>5, CutKeepsInd
  <1> QED BY <1>4, <1>5, <1>6 DEF ArenaRealloc

LEMMA AllocKeepsInd ==
    ASSUME ArenaInd, NEW a \in Arena, NEW b \in Block, NEW sz \in Request,
           ArenaAlloc(a, b, sz)
    PROVE  ArenaInd'
  <1>1. sz \in Nat /\ ArenaOpen(a)
    BY ArenaAssumption DEF ArenaAlloc
  <1>2. CASE ArenaStop("panic")
    BY <1>2, ArenaStops
  <1>3. CASE /\ HasRoom(a, sz)
             /\ chunks' = [chunks EXCEPT ![a] = WithAlloc(a, sz)]
             /\ blocks' = [blocks EXCEPT ![b] = NewBlock(a, sz)]
             /\ misuse' = [misuse EXCEPT ![a] = @ \cup Oversize(sz)]
             /\ UNCHANGED <<first, arenaStatus, cut>>
    <2>1. \A d \in Arena : misuse[d] \subseteq misuse'[d]
      BY <1>3 DEF ArenaInd, ArenaTyped
    <2>2. cut' \in SUBSET Arena /\ DataKept'
      BY <1>3, <2>1 DEF ArenaInd, ArenaTyped, DataKept
    <2> QED BY <1>1, <1>3, <2>2, CutKeepsInd
  <1> QED BY <1>2, <1>3 DEF ArenaAlloc

(* Chunks that are used less are no less sound.                              *)
LEMMA UsedLessSound ==
    ASSUME NEW cs \in Seq(ChunkRec), NEW ds \in Seq(ChunkRec), Len(ds) = Len(cs),
           \A j \in DOMAIN cs : ds[j].used <= cs[j].used /\ ds[j].real = cs[j].real,
           NEW m, Sound(cs, m)
    PROVE  Sound(ds, m)
  <1>1. DOMAIN ds = DOMAIN cs
    OBVIOUS
  <1> SUFFICES ASSUME NEW j \in DOMAIN cs
               PROVE  /\ ds[j].used <= MaxUsed
                      /\ ds[j].used > ARENA_DEFAULT_SIZE => j = Len(cs)
                      /\ "oversize" \notin m => ds[j].used <= ARENA_DEFAULT_SIZE
                      /\ "short" \notin m => ds[j].real >= ARENA_DEFAULT_SIZE
    BY <1>1 DEF Sound
  <1>2. /\ cs[j].used <= MaxUsed
        /\ cs[j].used > ARENA_DEFAULT_SIZE => j = Len(cs)
        /\ "oversize" \notin m => cs[j].used <= ARENA_DEFAULT_SIZE
        /\ "short" \notin m => cs[j].real >= ARENA_DEFAULT_SIZE
    BY DEF Sound
  <1>3. /\ ds[j].used <= cs[j].used /\ ds[j].real = cs[j].real
        /\ ds[j].used \in Nat /\ cs[j].used \in Nat
    BY <1>1, UsedNat
  <1> QED BY ONLY <1>2, <1>3, Sizes

LEMMA MoveKeepsInd ==
    ASSUME ArenaInd, NEW a \in Arena, NEW d \in Arena, NEW b \in Block,
           ArenaMove(a, d, b)
    PROVE  ArenaInd'
  <1> DEFINE old == blocks[b]
             k   == old.chunk
             n   == chunks[a][k].used - old.lo
             us  == [chunks[a] EXCEPT ![k].used = old.lo]
             ds  == WithAlloc(d, n)
             ma  == misuse[a] \cup {"moved"}
             md  == misuse[d] \cup Oversize(n)
  <1>1. CASE ArenaStop("panic")
    BY <1>1, ArenaStops
  <1>2. CASE /\ a # d /\ Ours(a, b) /\ ArenaOpen(d) /\ Found(a, b) /\ HasRoom(d, n)
             /\ chunks' = [chunks EXCEPT ![a][k].used = old.lo, ![d] = ds]
             /\ first' = [first EXCEPT ![a] = k]
             /\ blocks' = [blocks EXCEPT ![b] = NoBlock]
             /\ misuse' = [misuse EXCEPT ![a] = ma, ![d] = md]
             /\ UNCHANGED <<arenaStatus, cut>>
    <2>1. /\ chunks \in [Arena -> Seq(ChunkRec)] /\ first \in [Arena -> Int]
          /\ misuse \in [Arena -> SUBSET {"short", "oversize", "grown", "moved"}]
          /\ blocks \in [Block -> BlockRec \cup {NoBlock}]
          /\ cut \in SUBSET Arena
          /\ \A e \in Arena : first[e] \in -1 .. Len(chunks[e])
      BY DEF ArenaInd, ArenaTyped
    <2>2. /\ old.arena = a /\ k \in Nat /\ old.lo \in Nat /\ first[a] > 0
          /\ Fine(old, chunks[a], misuse[a])
      BY <1>2, HeldBlock DEF Ours
    <2>3. k \in DOMAIN chunks[a] /\ old.lo < chunks[a][k].used /\ k >= first[a]
      BY <1>2, <2>2 DEF Found, Fine
    <2>4. chunks[a] \in Seq(ChunkRec) /\ Sound(chunks[a], misuse[a])
      BY <2>1, <2>2 DEF ArenaInd, ChunksSound
    <2>5. chunks[d] \in Seq(ChunkRec) /\ Sound(chunks[d], misuse[d]) /\ first[d] > 0
      BY <1>2, <2>1 DEF ArenaInd, ChunksSound, ArenaOpen, HasRoom
    <2>6. n \in Nat /\ old.lo <= chunks[a][k].used /\ k \in 1 .. Len(chunks[a])
      <3>1. chunks[a][k].used \in Nat
        BY <2>3, <2>4, UsedNat
      <3> QED BY <2>2, <2>3, <2>4, <3>1
    <2> DEFINE r == NewBlock(d, n)
    <2> HIDE DEF n, k, old, us, ds, md, r
    <2>a. us = [chunks[a] EXCEPT ![k].used = old.lo]
      BY DEF us
    <2>h. HasRoom(d, n)
      BY <1>2
    <2>7. /\ us \in Seq(ChunkRec) /\ Len(us) = Len(chunks[a])
          /\ DOMAIN us = DOMAIN chunks[a] /\ Sound(us, misuse[a])
      <3>1. \A j \in DOMAIN chunks[a] :
               chunks[a][j] \in ChunkRec /\ chunks[a][j].used \in Nat
        BY <2>4, UsedNat
      <3>2. /\ chunks[a][k] \in ChunkRec
            /\ chunks[a][k].used \in 0 .. SizeMod - 1 /\ chunks[a][k].used \in Nat
        BY <2>3, <3>1 DEF ChunkRec
      <3>3. old.lo \in 0 .. SizeMod - 1
        BY ONLY <3>2, <2>2, <2>6, Sizes
      <3> DEFINE c == [chunks[a][k] EXCEPT !.used = old.lo]
      <3>4. c \in ChunkRec /\ c.used = old.lo /\ c.real = chunks[a][k].real
        BY <3>2, <3>3 DEF ChunkRec
      <3>5. us = [chunks[a] EXCEPT ![k] = c]
        BY <2>a
      <3> HIDE DEF c
      <3>6. us \in Seq(ChunkRec) /\ Len(us) = Len(chunks[a]) /\ DOMAIN us = DOMAIN chunks[a]
        BY ONLY <3>4, <3>5, <2>3, <2>4
      <3>7. us[k] = c /\ \A j \in DOMAIN chunks[a] : j # k => us[j] = chunks[a][j]
        BY ONLY <3>5, <2>3, <2>4
      <3>8. ASSUME NEW j \in DOMAIN chunks[a]
            PROVE  us[j].used <= chunks[a][j].used /\ us[j].real = chunks[a][j].real
        <4>1. CASE j = k
          BY ONLY <4>1, <3>4, <3>7, <2>6
        <4>2. CASE j # k
          BY <4>2, <3>1, <3>7
        <4> QED BY <4>1, <4>2
      <3>9. Sound(us, misuse[a])
        BY <3>6, <3>8, <2>4, UsedLessSound
      <3> QED BY <3>6, <3>9
    <2>8. /\ ds \in Seq(ChunkRec) /\ Len(chunks[d]) <= Len(ds)
          /\ \A j \in DOMAIN chunks[d] :
                j \in DOMAIN ds /\ chunks[d][j].used <= ds[j].used
          /\ Sound(ds, md)
      <3>1. /\ d \in Arena /\ chunks[d] \in Seq(ChunkRec) /\ n \in Nat
            /\ Sound(chunks[d], misuse[d]) /\ HasRoom(d, n)
        BY <2>5, <2>6, <2>h
      <3>2. /\ ds \in Seq(ChunkRec) /\ Len(chunks[d]) <= Len(ds)
            /\ \A j \in DOMAIN chunks[d] :
                  j \in DOMAIN ds /\ chunks[d][j].used <= ds[j].used
            /\ r \in BlockRec /\ r.arena = d
            /\ r.chunk \in DOMAIN chunks[d] => r.lo = chunks[d][r.chunk].used
            /\ Sound(ds, md)
            /\ Fine(r, ds, md)
        BY ONLY ZenonT(30), <3>1, AllocGives DEF ds, md, r
      <3> QED BY ONLY <3>2
    <2>9. /\ chunks' = [chunks EXCEPT ![a] = us, ![d] = ds]
          /\ chunks'[a] = us /\ chunks'[d] = ds
          /\ misuse'[a] = ma /\ misuse'[d] = md /\ first'[a] = k
          /\ \A e \in Arena : e # a /\ e # d => chunks'[e] = chunks[e] /\ misuse'[e] = misuse[e]
          /\ \A e \in Arena : e # a => first'[e] = first[e]
      BY <1>2, <2>1 DEF us
    <2>10. /\ ma \in SUBSET {"short", "oversize", "grown", "moved"}
           /\ md \in SUBSET {"short", "oversize", "grown", "moved"}
           /\ misuse[a] \subseteq ma /\ misuse[d] \subseteq md
      BY <2>1 DEF Oversize, Reason, md
    <2> HIDE DEF ma
    <2>11. \A e \in Arena : misuse[e] \subseteq misuse'[e]
      BY <2>9, <2>10
    <2>12. ArenaTyped'
      <3>1. chunks' \in [Arena -> Seq(ChunkRec)]
        BY ONLY <2>1, <2>7, <2>8, <2>9
      <3>2. misuse' \in [Arena -> SUBSET {"short", "oversize", "grown", "moved"}]
        BY ONLY <1>2, <2>1, <2>10
      <3>3. blocks' \in [Block -> BlockRec \cup {NoBlock}]
        BY ONLY <1>2, <2>1
      <3>4. first' \in [Arena -> Int]
        BY ONLY <1>2, <2>1, <2>6
      <3>5. ASSUME NEW e \in Arena PROVE first'[e] \in -1 .. Len(chunks'[e])
        <4>1. CASE e = a
          <5>1. first'[e] = k /\ chunks'[e] = us
            BY ONLY <4>1, <2>9
          <5>2. Len(us) = Len(chunks[a]) /\ Len(chunks[a]) \in Nat
            BY <2>4, <2>7
          <5> QED BY ONLY <5>1, <5>2, <2>6
        <4>2. CASE e = d
          <5>1. first'[e] = first[d] /\ Len(chunks'[e]) = Len(ds) /\ first[d] \in -1 .. Len(chunks[d])
            BY <4>2, <1>2, <2>1, <2>9
          <5>2. Len(ds) \in Nat /\ Len(chunks[d]) \in Nat
            BY <2>5, <2>8
          <5> QED BY ONLY <5>1, <5>2, <2>8
        <4>3. CASE e # a /\ e # d
          BY <4>3, <2>1, <2>9
        <4> QED BY <4>1, <4>2, <4>3
      <3> QED BY <3>1, <3>2, <3>3, <3>4, <3>5, <1>2 DEF ArenaInd, ArenaTyped
    <2>13. ChunksSound'
      <3> SUFFICES ASSUME NEW e \in Arena
                   PROVE  /\ first'[e] = 0 => chunks'[e] = <<>> /\ misuse'[e] = {}
                          /\ first'[e] >= 0 => Sound(chunks'[e], misuse'[e])
        BY DEF ChunksSound, Sound
      <3>1. CASE e = a
        <4>1. Sound(us, ma)
          BY <2>7 DEF Sound, ma
        <4>2. k # 0
          BY <2>6
        <4> QED BY ONLY <3>1, <4>1, <4>2, <2>9
      <3>2. CASE e = d
        <4>1. first'[e] # 0 /\ Sound(chunks'[e], misuse'[e])
          BY <3>2, <1>2, <2>5, <2>8, <2>9, <2>1
        <4> QED BY <4>1
      <3>3. CASE e # a /\ e # d
        BY <3>3, <2>9 DEF ArenaInd, ChunksSound
      <3> QED BY <3>1, <3>2, <3>3
    <2>14. \A c \in Held' : c \in Held /\ blocks'[c] = blocks[c]
      BY <1>2, <2>1 DEF Held
    <2>15. BlocksDisjoint'
      <3>1. \A c \in Held' : blocks[c].arena \in Arena
        BY <2>14, HeldBlock
      <3> QED BY <3>1, <2>11, <2>14, RemainDisjoint
    <2>16. BlocksFine'
      <3> SUFFICES ASSUME NEW c \in Held'
                   PROVE  /\ first'[blocks[c].arena] > 0
                          /\ Fine(blocks[c], chunks'[blocks[c].arena], misuse'[blocks[c].arena])
        BY <2>14 DEF BlocksFine, Fine
      <3>1. /\ blocks[c] \in BlockRec /\ blocks[c].arena \in Arena
            /\ first[blocks[c].arena] > 0
            /\ Fine(blocks[c], chunks[blocks[c].arena], misuse[blocks[c].arena])
        BY <2>14, HeldBlock
      <3>2. CASE blocks[c].arena = a
        <4>1. k > 0
          BY <2>6
        <4>2. Fine(blocks[c], us, ma)
          BY <3>1, <3>2, <2>7 DEF Fine, ma
        <4> QED BY ONLY <3>2, <4>1, <4>2, <2>9
      <3>3. CASE blocks[c].arena = d
        <4>1. \A j \in DOMAIN chunks[d] :
                 /\ j \in DOMAIN ds /\ chunks[d][j].used <= ds[j].used
                 /\ chunks[d][j].used \in Nat /\ ds[j].used \in Nat
          BY <2>5, <2>8, UsedNat
        <4>2. Fine(blocks[c], chunks[d], misuse[d])
          BY <3>1, <3>3
        <4>3. Fine(blocks[c], ds, md)
          BY ONLY <4>1, <4>2, <3>1, <2>10, FineStays
        <4> QED BY <3>1, <3>3, <4>3, <1>2, <2>9
      <3>4. CASE blocks[c].arena # a /\ blocks[c].arena # d
        BY <3>1, <3>4, <2>9
      <3> QED BY <3>2, <3>3, <3>4
    <2>17. DataKept'
      <3> SUFFICES ASSUME NEW e \in cut PROVE misuse'[e] \cap {"grown", "moved"} # {}
        BY <1>2 DEF DataKept
      <3> QED BY <2>1, <2>11 DEF ArenaInd, DataKept
    <2> QED BY <2>12, <2>13, <2>15, <2>16, <2>17 DEF ArenaInd
  <1>3. ArenaStop("panic") \/
        /\ a # d /\ Ours(a, b) /\ ArenaOpen(d) /\ Found(a, b) /\ HasRoom(d, n)
        /\ chunks' = [chunks EXCEPT ![a][k].used = old.lo, ![d] = ds]
        /\ first' = [first EXCEPT ![a] = k]
        /\ blocks' = [blocks EXCEPT ![b] = NoBlock]
        /\ misuse' = [misuse EXCEPT ![a] = ma, ![d] = md]
        /\ UNCHANGED <<arenaStatus, cut>>
    <2>1. a # d
      BY DEF ArenaMove
    <2>2. [misuse EXCEPT ![a] = @ \cup {"moved"}, ![d] = @ \cup Oversize(n)]
          = [misuse EXCEPT ![a] = ma, ![d] = md]
      BY <2>1 DEF ArenaInd, ArenaTyped
    <2> QED BY <2>1, <2>2 DEF ArenaMove
  <1> QED BY <1>1, <1>2, <1>3

(* An arena whose blocks are all void: what is left to show is that its     *)
(* chunks are typed and sound.                                              *)
LEMMA VoidKeepsInd ==
    ASSUME ArenaInd, NEW a \in Arena,
           \A c \in Held' : /\ c \in Held /\ blocks'[c] = blocks[c]
                            /\ blocks[c].arena # a,
           \A e \in Arena : e # a => /\ chunks'[e] = chunks[e] /\ first'[e] = first[e]
                                     /\ misuse'[e] = misuse[e],
           ArenaTyped', cut' \subseteq cut, a \notin cut',
           first'[a] = 0 => chunks'[a] = <<>> /\ misuse'[a] = {},
           first'[a] >= 0 => Sound(chunks'[a], misuse'[a])
    PROVE  ArenaInd'
  <1>1. ChunksSound'
    <2> SUFFICES ASSUME NEW e \in Arena
                 PROVE  /\ first'[e] = 0 => chunks'[e] = <<>> /\ misuse'[e] = {}
                        /\ first'[e] >= 0 => Sound(chunks'[e], misuse'[e])
      BY DEF ChunksSound, Sound
    <2>1. CASE e # a
      BY <2>1 DEF ArenaInd, ChunksSound
    <2> QED BY <2>1
  <1>2. \A c \in Held' : blocks[c].arena \in Arena
    BY HeldBlock
  <1>3. BlocksDisjoint'
    BY <1>2, RemainDisjoint
  <1>4. BlocksFine'
    <2> SUFFICES ASSUME NEW c \in Held'
                 PROVE  /\ first'[blocks[c].arena] > 0
                        /\ Fine(blocks[c], chunks'[blocks[c].arena], misuse'[blocks[c].arena])
      BY DEF BlocksFine, Fine
    <2>1. /\ first[blocks[c].arena] > 0
          /\ Fine(blocks[c], chunks[blocks[c].arena], misuse[blocks[c].arena])
      BY HeldBlock
    <2> QED BY <2>1, <1>2
  <1>5. DataKept'
    <2> SUFFICES ASSUME NEW e \in cut' PROVE misuse'[e] \cap {"grown", "moved"} # {}
      BY DEF DataKept
    <2> QED BY DEF ArenaInd, ArenaTyped, DataKept
  <1> QED BY <1>1, <1>3, <1>4, <1>5 DEF ArenaInd

(* What arena_init leaves of the chunks it empties from p on.                *)
LEMMA EmptiedSound ==
    ASSUME NEW cs \in Seq(ChunkRec), NEW m, Sound(cs, m),
           NEW p \in Int, p > 0, p <= Len(cs),
           NEW ds, ds = [k \in DOMAIN cs |->
                           IF k >= p THEN [cs[k] EXCEPT !.used = 0] ELSE cs[k]]
    PROVE  ds \in Seq(ChunkRec) /\ Len(ds) = Len(cs) /\ Sound(ds, m \cap {"short"})
  <1>1. \A j \in DOMAIN cs : cs[j] \in ChunkRec /\ cs[j].used \in Nat /\ cs[j].real \in Nat
    BY UsedNat
  <1>2. \A j \in DOMAIN cs : /\ [cs[j] EXCEPT !.used = 0] \in ChunkRec
                             /\ [cs[j] EXCEPT !.used = 0].used = 0
                             /\ [cs[j] EXCEPT !.used = 0].real = cs[j].real
    <2> SUFFICES ASSUME NEW j \in DOMAIN cs, NEW c, c = [cs[j] EXCEPT !.used = 0]
                 PROVE  c \in ChunkRec /\ c.used = 0 /\ c.real = cs[j].real
      OBVIOUS
    <2>1. cs[j] \in ChunkRec
      BY <1>1
    <2>2. 0 \in 0 .. SizeMod - 1
      BY Sizes
    <2> QED BY ONLY <2>1, <2>2, c = [cs[j] EXCEPT !.used = 0] DEF ChunkRec
  <1>3. DOMAIN cs = 1 .. Len(cs) /\ Len(cs) \in Nat
    OBVIOUS
  <1>4. \A j \in DOMAIN cs : ds[j] \in ChunkRec
    BY <1>1, <1>2
  <1>5. ds \in Seq(ChunkRec) /\ Len(ds) = Len(cs)
    <2>1. ds \in [1 .. Len(cs) -> ChunkRec]
      BY <1>3, <1>4
    <2> QED BY <2>1, <1>3
  <1>6. Sound(ds, m \cap {"short"})
    <2> SUFFICES ASSUME NEW j \in DOMAIN cs
                 PROVE  /\ ds[j].used <= MaxUsed /\ ds[j].used <= ARENA_DEFAULT_SIZE
                        /\ "short" \notin m => ds[j].real >= ARENA_DEFAULT_SIZE
      <3>1. DOMAIN ds = DOMAIN cs
        OBVIOUS
      <3>2. \A j \in DOMAIN cs : ds[j].used \in Nat
        BY ONLY <1>4, Sizes DEF ChunkRec
      <3> QED BY ONLY <3>1, <3>2, <1>5, Sizes,
                 \A j \in DOMAIN cs :
                    /\ ds[j].used <= MaxUsed /\ ds[j].used <= ARENA_DEFAULT_SIZE
                    /\ "short" \notin m => ds[j].real >= ARENA_DEFAULT_SIZE
          DEF Sound
    <2>1. /\ cs[j].used <= MaxUsed
          /\ cs[j].used > ARENA_DEFAULT_SIZE => j = Len(cs)
          /\ "short" \notin m => cs[j].real >= ARENA_DEFAULT_SIZE
      BY DEF Sound
    <2>2. CASE j >= p
      <3>1. ds[j] = [cs[j] EXCEPT !.used = 0]
        BY <2>2
      <3> QED BY ONLY <3>1, <2>1, <1>2, Sizes, j \in DOMAIN cs
    <2>3. CASE ~ (j >= p)
      <3>1. ds[j] = cs[j]
        BY <2>3
      <3>2. j # Len(cs)
        BY <2>3, <1>3
      <3>3. cs[j].used <= ARENA_DEFAULT_SIZE
        BY ONLY <3>2, <2>1, <1>1, Sizes, j \in DOMAIN cs
      <3> QED BY <3>1, <3>3, <2>1
    <2> QED BY <2>2, <2>3
  <1> QED BY <1>5, <1>6

LEMMA InitKeepsInd ==
    ASSUME ArenaInd, NEW a \in Arena, NEW n \in InitSize, ArenaInit(a, n)
    PROVE  ArenaInd'
  <1>1. /\ chunks \in [Arena -> Seq(ChunkRec)] /\ first \in [Arena -> Int]
        /\ misuse \in [Arena -> SUBSET {"short", "oversize", "grown", "moved"}]
        /\ blocks \in [Block -> BlockRec \cup {NoBlock}]
        /\ cut \in SUBSET Arena
        /\ \A e \in Arena : first[e] \in -1 .. Len(chunks[e])
    BY DEF ArenaInd, ArenaTyped
  <1>2. n \in Nat /\ first[a] >= 0
    BY ArenaAssumption DEF ArenaInit, ArenaOpen
  <1>3. Sound(chunks[a], misuse[a])
    BY <1>2 DEF ArenaInd, ChunksSound
  <1>4. CASE ArenaStop("panic")
    BY <1>4, ArenaStops
  <1>5. CASE first[a] # 0
    <2> DEFINE ds == [k \in DOMAIN chunks[a] |->
                        IF k >= first[a] THEN [chunks[a][k] EXCEPT !.used = 0]
                        ELSE chunks[a][k]]
               m  == misuse[a] \cap {"short"}
    <2>1. /\ chunks' = [chunks EXCEPT ![a] = ds]
          /\ blocks' = [b \in Block |->
                IF b \in Held /\ blocks[b].arena = a THEN NoBlock ELSE blocks[b]]
          /\ misuse' = [misuse EXCEPT ![a] = m]
          /\ cut' = cut \ {a}
          /\ UNCHANGED <<first, arenaStatus>>
      BY <1>5 DEF ArenaInit
    <2>2. chunks[a] \in Seq(ChunkRec) /\ first[a] \in Int /\ first[a] > 0
          /\ first[a] <= Len(chunks[a])
      BY <1>1, <1>2, <1>5
    <2>3. ds \in Seq(ChunkRec) /\ Len(ds) = Len(chunks[a]) /\ Sound(ds, m)
      BY ONLY <2>2, <1>3, EmptiedSound DEF ds, m
    <2> HIDE DEF ds, m
    <2>4. m \in SUBSET {"short", "oversize", "grown", "moved"}
      BY DEF m
    <2>5. /\ chunks'[a] = ds /\ misuse'[a] = m
          /\ \A e \in Arena : e # a => chunks'[e] = chunks[e] /\ misuse'[e] = misuse[e]
      BY <1>1, <2>1
    <2>6. ArenaTyped'
      <3>1. chunks' \in [Arena -> Seq(ChunkRec)]
        BY ONLY <1>1, <2>1, <2>3
      <3>2. misuse' \in [Arena -> SUBSET {"short", "oversize", "grown", "moved"}]
        BY ONLY <1>1, <2>1, <2>4
      <3>3. blocks' \in [Block -> BlockRec \cup {NoBlock}]
        BY ONLY <1>1, <2>1
      <3>4. \A e \in Arena : first'[e] \in -1 .. Len(chunks'[e])
        BY <1>1, <2>1, <2>3, <2>5
      <3> QED BY <3>1, <3>2, <3>3, <3>4, <2>1, <1>1 DEF ArenaInd, ArenaTyped
    <2>7. \A c \in Held' : c \in Held /\ blocks'[c] = blocks[c] /\ blocks[c].arena # a
      BY <2>1 DEF Held
    <2>8. /\ cut' \subseteq cut /\ a \notin cut' /\ first'[a] # 0
          /\ \A e \in Arena : first'[e] = first[e]
          /\ Sound(chunks'[a], misuse'[a])
      BY <2>1, <2>2, <2>3, <2>5
    <2> QED BY <2>5, <2>6, <2>7, <2>8, VoidKeepsInd
  <1>6. CASE first[a] = 0 /\ ~ArenaStop("panic")
    <2> DEFINE len == IF n > 0 THEN n ELSE ARENA_DEFAULT_SIZE
               ds  == <<Chunk(len)>>
               m   == Reason(0 < n /\ n + Padding < ARENA_DEFAULT_SIZE, "short")
    <2>1. /\ chunks' = [chunks EXCEPT ![a] = ds]
          /\ first' = [first EXCEPT ![a] = 1]
          /\ misuse' = [misuse EXCEPT ![a] = m]
          /\ UNCHANGED <<blocks, arenaStatus, cut>>
      BY <1>6 DEF ArenaInit
    <2>2. /\ Chunk(len) \in ChunkRec /\ Chunk(len).used = 0
          /\ "short" \notin m => Chunk(len).real >= ARENA_DEFAULT_SIZE
      BY <1>2, Sizes DEF Chunk, ChunkRec, Reason
    <2>3. m \in SUBSET {"short", "oversize", "grown", "moved"}
      BY DEF Reason
    <2> HIDE DEF m, len
    <2>4. ds \in Seq(ChunkRec) /\ Len(ds) = 1 /\ DOMAIN ds = {1} /\ ds[1] = Chunk(len)
      BY <2>2
    <2> HIDE DEF ds
    <2>5. Sound(ds, m)
      BY <2>2, <2>4, Sizes DEF Sound
    <2>6. /\ chunks'[a] = ds /\ misuse'[a] = m /\ first'[a] = 1
          /\ \A e \in Arena : e # a => /\ chunks'[e] = chunks[e] /\ misuse'[e] = misuse[e]
                                       /\ first'[e] = first[e]
      BY <1>1, <2>1
    <2>7. ArenaTyped'
      <3>1. chunks' \in [Arena -> Seq(ChunkRec)]
        BY ONLY <1>1, <2>1, <2>4
      <3>2. misuse' \in [Arena -> SUBSET {"short", "oversize", "grown", "moved"}]
        BY ONLY <1>1, <2>1, <2>3
      <3>3. first' \in [Arena -> Int]
        BY ONLY <1>1, <2>1
      <3>4. ASSUME NEW e \in Arena PROVE first'[e] \in -1 .. Len(chunks'[e])
        <4>1. CASE e = a
          <5>1. first'[e] = 1 /\ Len(chunks'[e]) = 1
            BY <4>1, <2>4, <2>6
          <5> QED BY ONLY <5>1
        <4>2. CASE e # a
          <5>1. first'[e] = first[e] /\ chunks'[e] = chunks[e]
            BY <4>2, <2>6
          <5> QED BY ONLY <5>1, <1>1, e \in Arena
        <4> QED BY <4>1, <4>2
      <3> QED BY <3>1, <3>2, <3>3, <3>4, <2>1, <1>1 DEF ArenaInd, ArenaTyped
    <2>8. \A c \in Held' : c \in Held /\ blocks'[c] = blocks[c] /\ blocks[c].arena # a
      <3> SUFFICES ASSUME NEW c \in Held PROVE blocks[c].arena # a
        BY <2>1 DEF Held
      <3>1. first[blocks[c].arena] > 0
        BY HeldBlock
      <3> QED BY <3>1, <1>6
    <2>9. cut' \subseteq cut /\ a \notin cut'
      <3>1. misuse[a] = {}
        BY <1>6 DEF ArenaInd, ChunksSound
      <3> QED BY <3>1, <2>1 DEF ArenaInd, DataKept
    <2> QED BY <2>5, <2>6, <2>7, <2>8, <2>9, VoidKeepsInd
  <1> QED BY <1>4, <1>5, <1>6

LEMMA DeinitKeepsInd ==
    ASSUME ArenaInd, NEW a \in Arena, ArenaDeinit(a)
    PROVE  ArenaInd'
  <1>1. /\ chunks \in [Arena -> Seq(ChunkRec)] /\ first \in [Arena -> Int]
        /\ misuse \in [Arena -> SUBSET {"short", "oversize", "grown", "moved"}]
        /\ blocks \in [Block -> BlockRec \cup {NoBlock}]
        /\ cut \in SUBSET Arena
        /\ \A e \in Arena : first[e] \in -1 .. Len(chunks[e])
    BY DEF ArenaInd, ArenaTyped
  <1>2. first[a] \in 0 .. Len(chunks[a]) /\ chunks[a] \in Seq(ChunkRec)
    BY <1>1 DEF ArenaDeinit, ArenaOpen
  <1> DEFINE ds == SubSeq(chunks[a], 1, first[a] - 1)
             f  == IF first[a] = 0 THEN 0 ELSE -1
  <1>3. /\ chunks' = [chunks EXCEPT ![a] = ds]
        /\ first' = [first EXCEPT ![a] = f]
        /\ misuse' = [misuse EXCEPT ![a] = {}]
        /\ cut' = cut \ {a}
        /\ blocks' = [b \in Block |->
              IF b \in Held /\ blocks[b].arena = a THEN NoBlock ELSE blocks[b]]
        /\ UNCHANGED arenaStatus
    BY DEF ArenaDeinit
  <1>4. ds \in Seq(ChunkRec)
    BY ONLY <1>2
  <1>5. first[a] = 0 => ds = <<>>
    BY ONLY <1>2
  <1>6. f \in {-1, 0} /\ f <= 0 /\ (f = 0 => first[a] = 0)
    OBVIOUS
  <1> HIDE DEF ds, f
  <1>7. /\ chunks'[a] = ds /\ misuse'[a] = {} /\ first'[a] = f
        /\ \A e \in Arena : e # a => /\ chunks'[e] = chunks[e] /\ misuse'[e] = misuse[e]
                                     /\ first'[e] = first[e]
    BY <1>1, <1>3
  <1>8. ArenaTyped'
    <2>1. chunks' \in [Arena -> Seq(ChunkRec)]
      BY ONLY <1>1, <1>3, <1>4
    <2>2. misuse' \in [Arena -> SUBSET {"short", "oversize", "grown", "moved"}]
      BY ONLY <1>1, <1>3
    <2>3. blocks' \in [Block -> BlockRec \cup {NoBlock}]
      BY ONLY <1>1, <1>3
    <2>4. first' \in [Arena -> Int]
      BY ONLY <1>1, <1>3, <1>6
    <2>5. ASSUME NEW e \in Arena PROVE first'[e] \in -1 .. Len(chunks'[e])
      <3>1. CASE e = a
        <4>1. first'[e] = f /\ Len(chunks'[e]) = Len(ds)
          BY <3>1, <1>7
        <4>2. Len(ds) \in Nat
          BY ONLY <1>4
        <4> QED BY ONLY <4>1, <4>2, <1>6
      <3>2. CASE e # a
        <4>1. first'[e] = first[e] /\ chunks'[e] = chunks[e]
          BY <3>2, <1>7
        <4> QED BY ONLY <4>1, <1>1, e \in Arena
      <3> QED BY <3>1, <3>2
    <2> QED BY <2>1, <2>2, <2>3, <2>4, <2>5, <1>1, <1>3 DEF ArenaInd, ArenaTyped
  <1>9. \A c \in Held' : c \in Held /\ blocks'[c] = blocks[c] /\ blocks[c].arena # a
    BY <1>3 DEF Held
  <1>10. first'[a] >= 0 => chunks'[a] = <<>>
    BY ONLY <1>5, <1>6, <1>7
  <1>11. Sound(<<>>, misuse'[a])
    BY DEF Sound
  <1> QED BY <1>3, <1>7, <1>8, <1>9, <1>10, <1>11, VoidKeepsInd

LEMMA ArenaInitially == ArenaNone => ArenaInd
  <1> SUFFICES ASSUME ArenaNone PROVE ArenaInd
    OBVIOUS
  <1> USE DEF ArenaNone
  <1>1. Held = {}
    BY DEF Held
  <1>2. ArenaTyped
    <2>1. chunks \in [Arena -> Seq(ChunkRec)]
      OBVIOUS
    <2>2. \A a \in Arena : first[a] \in -1 .. Len(chunks[a])
      OBVIOUS
    <2> QED BY <2>1, <2>2 DEF ArenaTyped
  <1>3. ChunksSound
    BY DEF ChunksSound, Sound
  <1> QED BY <1>1, <1>2, <1>3 DEF ArenaInd, BlocksFine, BlocksDisjoint, DataKept

LEMMA ArenaStep == ArenaInd /\ [ArenaNext]_arenaVars => ArenaInd'
  <1> SUFFICES ASSUME ArenaInd, [ArenaNext]_arenaVars PROVE ArenaInd'
    OBVIOUS
  <1>1. CASE UNCHANGED arenaVars
    <2>1. UNCHANGED <<chunks, first, blocks, arenaStatus, misuse, cut>>
      BY <1>1 DEF arenaVars
    <2>2. arenaStatus \in {"run", "panic"}
      BY DEF ArenaInd, ArenaTyped
    <2>3. ArenaStop(arenaStatus)
      BY <2>1 DEF ArenaStop
    <2> QED BY <2>2, <2>3, ArenaStops
  <1>2. ASSUME NEW a \in Arena, NEW n \in InitSize, ArenaInit(a, n) PROVE ArenaInd'
    BY <1>2, InitKeepsInd
  <1>3. ASSUME NEW a \in Arena, NEW b \in Block, NEW sz \in Request, ArenaAlloc(a, b, sz)
        PROVE  ArenaInd'
    BY <1>3, AllocKeepsInd
  <1>4. ASSUME NEW a \in Arena, NEW b \in Block, NEW sz \in Request, ArenaRealloc(a, b, sz)
        PROVE  ArenaInd'
    BY <1>4, ReallocKeepsInd
  <1>5. ASSUME NEW a \in Arena, NEW b \in Block, NEW d \in Arena, ArenaMove(a, d, b)
        PROVE  ArenaInd'
    BY <1>5, MoveKeepsInd
  <1>6. ASSUME NEW a \in Arena, NEW b \in Block, ArenaFree(a, b) PROVE ArenaInd'
    BY <1>6, FreeKeepsInd
  <1>7. ASSUME NEW a \in Arena, NEW b \in Block, ArenaReallocNothing(a, b) PROVE ArenaInd'
    BY <1>7, ReallocNothingKeepsInd
  <1>8. ASSUME NEW a \in Arena, ArenaDeinit(a) PROVE ArenaInd'
    BY <1>8, DeinitKeepsInd
  <1> QED BY <1>1, <1>2, <1>3, <1>4, <1>5, <1>6, <1>7, <1>8 DEF ArenaNext

-----------------------------------------------------------------------------
(* The inductive invariant: what is in a chunk, what is known of the blocks  *)
(* in it, and which of them may overlap or have lost bytes.                 *)
THEOREM ArenaInvariant == ArenaSpec => []ArenaInd
  BY ArenaInitially, ArenaStep, PTL DEF ArenaSpec

(* The state of the arenas is well-typed, and no chunk counts more bytes     *)
(* than an usize holds, whatever is allocated, resized, moved and reset.    *)
THEOREM ArenaIsTyped == ArenaSpec => []ArenaTypeOK
  <1>1. ArenaInd => ArenaTypeOK
    <2> SUFFICES ASSUME ArenaInd PROVE ArenaTypeOK
      OBVIOUS
    <2>1. ASSUME NEW a \in Arena, NEW k \in DOMAIN chunks[a]
          PROVE  chunks[a][k].real \in Nat /\ chunks[a][k].used \in 0 .. SizeMod - 1
      <3>1. chunks[a] \in Seq(ChunkRec)
        BY DEF ArenaInd, ArenaTyped
      <3>2. chunks[a][k] \in ChunkRec
        BY <3>1
      <3> QED BY <3>2 DEF ChunkRec
    <2> QED BY <2>1 DEF ArenaInd, ArenaTyped, ArenaTypeOK
  <1> QED BY <1>1, ArenaInvariant, PTL

(* A block lies inside the buffer of its chunk unless its arena was given a  *)
(* short first chunk or was asked for a block longer than a chunk: moving,   *)
(* resizing and resetting never put one outside.  Two blocks share a byte    *)
(* only in an arena of which a block was grown in place or moved away since  *)
(* it was last initialised.                                                 *)
THEOREM ArenaBlocksSound == ArenaSpec => []BlocksSound
  <1>1. ArenaInd => BlocksInside
    <2> SUFFICES ASSUME ArenaInd, NEW b \in Held,
                        misuse[blocks[b].arena] \cap {"short", "oversize"} = {}
                 PROVE  Inside(blocks[b])
      BY DEF BlocksInside
    <2> DEFINE a == blocks[b].arena
               k == blocks[b].chunk
    <2>1. /\ a \in Arena /\ blocks[b].lo \in Nat /\ blocks[b].len \in Nat
          /\ first[a] > 0 /\ Fine(blocks[b], chunks[a], misuse[a])
      BY HeldBlock
    <2>2. chunks[a] \in Seq(ChunkRec) /\ first[a] \in Int
      BY <2>1 DEF ArenaInd, ArenaTyped
    <2>3. Sound(chunks[a], misuse[a])
      BY <2>1, <2>2 DEF ArenaInd, ChunksSound
    <2>4. k \in DOMAIN chunks[a] /\ blocks[b].lo + blocks[b].len <= ARENA_DEFAULT_SIZE
      BY <2>1 DEF Fine
    <2>5. chunks[a][k].real >= ARENA_DEFAULT_SIZE /\ chunks[a][k].real \in Nat
      BY <2>2, <2>3, <2>4, UsedNat DEF Sound
    <2> QED BY <2>1, <2>4, <2>5, Sizes DEF Inside
  <1>2. ArenaInd => BlocksSound
    BY <1>1 DEF ArenaInd, BlocksSound
  <1> QED BY <1>2, ArenaInvariant, PTL

(* arena_realloc loses bytes of a block it moves only in such an arena.      *)
THEOREM ArenaDataKept == ArenaSpec => []DataKept
  <1>1. ArenaInd => DataKept
    BY DEF ArenaInd
  <1> QED BY <1>1, ArenaInvariant, PTL
=============================================================================
