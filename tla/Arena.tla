--------------------------------- MODULE Arena ---------------------------------
(***************************************************************************)
(* The arenas of core/arena.c: a chain of chunks, in each of which blocks   *)
(* are cut off from the front.  Chunks are only ever added at the end of    *)
(* the chain, so that a chunk is its number in it.  Every chunk records     *)
(* ARENA_DEFAULT_SIZE as its size, whatever its buffer is.                  *)
(*                                                                         *)
(* blocks is what the clients hold; the arena does not know it.             *)
(***************************************************************************)
EXTENDS Integers, Sequences, FiniteSets

CONSTANTS
    Arena,               \* the Arena structures of the program
    Block,               \* names for the blocks clients hold
    ARENA_DEFAULT_SIZE,
    Padding,             \* sizeof(usize), which every buffer is longer
    InitSize,            \* what arena_init is called with
    Request,             \* the sizes of blocks clients ask for
    MaxChunk,            \* no arena has more chunks: xmalloc panics
    MaxUsed,             \* clients cut no more than this from a chunk
    MaxMisuse,           \* clients misuse an arena in no more ways at a time
    SizeMod,             \* usize arithmetic is modulo SizeMod
    NoBlock              \* a name no block has

ASSUME ArenaAssumption ==
    /\ ARENA_DEFAULT_SIZE \in Nat \ {0}
    /\ {Padding, MaxChunk, MaxUsed, MaxMisuse} \subseteq Nat
    /\ InitSize \subseteq Nat /\ Request \subseteq Nat
    /\ SizeMod \in Nat
    /\ SizeMod > ARENA_DEFAULT_SIZE /\ SizeMod > 2 * MaxUsed
    /\ NoBlock \notin [arena : Arena, chunk : Nat, lo : Nat, len : Nat]

VARIABLES
    chunks,      \* per arena: the chunks it was given, each with its buffer
    first,       \* per arena: self->chunks; 0 for NULL, -1 after arena_deinit
    blocks,      \* per name: the block a client holds, or NoBlock
    arenaStatus, \* "run" or "panic"
    misuse,      \* history, per arena: what its clients did since arena_init
    cut          \* history: the arenas in which a reallocation lost bytes

arenaVars == <<chunks, first, blocks, arenaStatus, misuse, cut>>

BlockRec == [arena : Arena, chunk : Nat, lo : Nat, len : Nat]
Held == {b \in Block : blocks[b] # NoBlock}

ArenaNone ==
    /\ chunks = [a \in Arena |-> <<>>]
    /\ first = [a \in Arena |-> 0]
    /\ blocks = [b \in Block |-> NoBlock]
    /\ arenaStatus = "run"
    /\ misuse = [a \in Arena |-> {}]
    /\ cut = {}

(* Clients leave an arena alone once it is closed.                          *)
ArenaOpen(a) == arenaStatus = "run" /\ first[a] >= 0
Ours(a, b)   == ArenaOpen(a) /\ b \in Held /\ blocks[b].arena = a

ArenaStop(how) ==
    arenaStatus' = how /\ UNCHANGED <<chunks, first, blocks, misuse, cut>>

Reason(holds, what) == IF holds THEN {what} ELSE {}

Chunk(real) == [real |-> real + Padding, used |-> 0]

-----------------------------------------------------------------------------
(* arena_init: of an arena that has chunks, those from self->chunks on are  *)
(* emptied, and what clients held in them is void.                          *)
ArenaInit(a, n) ==
    /\ ArenaOpen(a)
    /\ IF first[a] # 0
       THEN /\ chunks' = [chunks EXCEPT ![a] = [k \in DOMAIN @ |->
                  IF k >= first[a] THEN [@[k] EXCEPT !.used = 0] ELSE @[k]]]
            /\ blocks' = [b \in Block |->
                  IF b \in Held /\ blocks[b].arena = a
                  THEN NoBlock ELSE blocks[b]]
            /\ misuse' = [misuse EXCEPT ![a] = @ \cap {"short"}]
            /\ cut' = cut \ {a}
            /\ UNCHANGED <<first, arenaStatus>>
       ELSE \/ /\ chunks' = [chunks EXCEPT ![a] =
                     <<Chunk(IF n > 0 THEN n ELSE ARENA_DEFAULT_SIZE)>>]
               /\ first' = [first EXCEPT ![a] = 1]
               /\ misuse' = [misuse EXCEPT ![a] =
                     Reason(0 < n /\ n + Padding < ARENA_DEFAULT_SIZE, "short")]
               /\ UNCHANGED <<blocks, arenaStatus, cut>>
            \/ ArenaStop("panic")

(* Mutant: a block may begin where there is room for all but its end.       *)
FitsLoosely(c, sz) ==
    (ARENA_DEFAULT_SIZE - c.used) % SizeMod >= sz - 1

Fits(c, sz) == (ARENA_DEFAULT_SIZE - c.used) % SizeMod >= sz

(* The chunk arena_alloc takes: the first that has room, from current_chunk *)
(* on, which is the first one ever; or a new one.                           *)
Chosen(a, sz) ==
    LET cs == chunks[a]
        fit == {k \in DOMAIN cs : Fits(cs[k], sz)}
    IN IF fit = {} THEN Len(cs) + 1
       ELSE CHOOSE k \in fit : \A j \in fit : k <= j

(* Mutant: the last byte of a block is not counted.                         *)
WithAllocOneShort(a, sz) ==
    LET k == Chosen(a, sz)
        cs == IF k > Len(chunks[a])
              THEN Append(chunks[a], Chunk(ARENA_DEFAULT_SIZE)) ELSE chunks[a]
    IN [cs EXCEPT ![k].used = (@ + sz - 1) % SizeMod]

(* The chunks after arena_alloc: the bytes are counted in the chosen one,   *)
(* however many a new chunk has.                                            *)
WithAlloc(a, sz) ==
    LET k == Chosen(a, sz)
        cs == IF k > Len(chunks[a])
              THEN Append(chunks[a], Chunk(ARENA_DEFAULT_SIZE)) ELSE chunks[a]
    IN [cs EXCEPT ![k].used = (@ + sz) % SizeMod]

NewBlock(a, sz) ==
    LET k == Chosen(a, sz) IN
    [arena |-> a, chunk |-> k, len |-> sz,
     lo |-> IF k > Len(chunks[a]) THEN 0 ELSE chunks[a][k].used]

NeedsChunk(a, sz) == Chosen(a, sz) > Len(chunks[a])
HasRoom(a, sz)    ==
    /\ first[a] # 0 /\ Chosen(a, sz) <= MaxChunk
    /\ NewBlock(a, sz).lo + sz <= MaxUsed
Oversize(sz)      == Reason(sz > ARENA_DEFAULT_SIZE, "oversize")

(* arena_alloc; arena_new, arena_resize and arena_copy come to the same.    *)
ArenaAlloc(a, b, sz) ==
    /\ ArenaOpen(a) /\ b \notin Held
    /\ \/ /\ HasRoom(a, sz)
          /\ chunks' = [chunks EXCEPT ![a] = WithAlloc(a, sz)]
          /\ blocks' = [blocks EXCEPT ![b] = NewBlock(a, sz)]
          /\ misuse' = [misuse EXCEPT ![a] = @ \cup Oversize(sz)]
          /\ UNCHANGED <<first, arenaStatus, cut>>
       \/ NeedsChunk(a, sz) /\ ArenaStop("panic")

(* arena_free and arena_delete do nothing; the client forgets the block.    *)
ArenaFree(a, b) ==
    /\ Ours(a, b)
    /\ blocks' = [blocks EXCEPT ![b] = NoBlock]
    /\ UNCHANGED <<chunks, first, arenaStatus, misuse, cut>>

(* The chunk a pointer is looked for in begins at self->chunks, and has     *)
(* used at least one byte more than the offset of the block.                *)
Found(a, b) ==
    blocks[b].chunk >= first[a] /\ blocks[b].lo < chunks[a][blocks[b].chunk].used

(* arena_realloc to 0 bytes: only a pointer behind the last block of a      *)
(* chunk is found.                                                          *)
ArenaReallocNothing(a, b) ==
    /\ Ours(a, b)
    /\ IF /\ blocks[b].chunk >= first[a]
          /\ blocks[b].lo = chunks[a][blocks[b].chunk].used
       THEN /\ blocks' = [blocks EXCEPT ![b].len = 0]
            /\ UNCHANGED <<chunks, first, arenaStatus, misuse, cut>>
       ELSE ArenaStop("panic")

(* arena_realloc: in place if the chunk is long enough behind the pointer,  *)
(* whoever has what lies behind the block; else by alloc and memcpy.        *)
ArenaRealloc(a, b, sz) ==
    LET old  == blocks[b]
        c    == chunks[a][old.chunk]
    IN
    /\ Ours(a, b) /\ sz # 0
    /\ IF ~Found(a, b) THEN ArenaStop("panic")
       ELSE IF (ARENA_DEFAULT_SIZE - old.lo) % SizeMod >= sz
       THEN /\ blocks' = [blocks EXCEPT ![b].len = sz]
            /\ misuse' = [misuse EXCEPT ![a] = @ \cup Reason(sz > old.len, "grown")]
            /\ UNCHANGED <<chunks, first, arenaStatus, cut>>
       ELSE \/ /\ HasRoom(a, sz)
               /\ chunks' = [chunks EXCEPT ![a] = WithAlloc(a, sz)]
               /\ blocks' = [blocks EXCEPT ![b] = NewBlock(a, sz)]
               /\ cut' = IF c.used - old.lo < old.len THEN cut \cup {a} ELSE cut
               /\ misuse' = [misuse EXCEPT ![a] = @ \cup Oversize(sz)]
               /\ UNCHANGED <<first, arenaStatus>>
            \/ NeedsChunk(a, sz) /\ ArenaStop("panic")

(* Mutant: self->chunks advances past the chunk.                            *)
ArenaMovePastChunk(a, d, b) ==
    LET old == blocks[b]
        n   == chunks[a][old.chunk].used - old.lo
    IN
    /\ a # d /\ Ours(a, b) /\ ArenaOpen(d) /\ Found(a, b) /\ HasRoom(d, n)
    /\ chunks' = [chunks EXCEPT ![a][old.chunk].used = old.lo,
                                ![d] = WithAlloc(d, n)]
    /\ first' = [first EXCEPT ![a] = old.chunk + 1]
    /\ blocks' = [blocks EXCEPT ![b] = NoBlock]
    /\ UNCHANGED <<arenaStatus, misuse, cut>>

(* arena_move: self->chunks of the source advances to the chunk; all that   *)
(* lies behind the pointer is copied and given up, and the client does not  *)
(* learn the address of the copy.                                           *)
ArenaMove(a, d, b) ==
    LET old == blocks[b]
        n   == chunks[a][old.chunk].used - old.lo
    IN
    /\ a # d /\ Ours(a, b) /\ ArenaOpen(d)
    /\ IF ~Found(a, b) THEN ArenaStop("panic")
       ELSE \/ /\ HasRoom(d, n)
               /\ chunks' = [chunks EXCEPT ![a][old.chunk].used = old.lo,
                                           ![d] = WithAlloc(d, n)]
               /\ first' = [first EXCEPT ![a] = old.chunk]
               /\ blocks' = [blocks EXCEPT ![b] = NoBlock]
               /\ misuse' = [misuse EXCEPT ![a] = @ \cup {"moved"},
                                           ![d] = @ \cup Oversize(n)]
               /\ UNCHANGED <<arenaStatus, cut>>
            \/ NeedsChunk(d, n) /\ ArenaStop("panic")

(* arena_deinit frees the chunks from self->chunks on.                      *)
ArenaDeinit(a) ==
    /\ ArenaOpen(a)
    /\ chunks' = [chunks EXCEPT ![a] = SubSeq(@, 1, first[a] - 1)]
    /\ first' = [first EXCEPT ![a] = IF @ = 0 THEN 0 ELSE -1]
    /\ blocks' = [b \in Block |-> IF b \in Held /\ blocks[b].arena = a
                                  THEN NoBlock ELSE blocks[b]]
    /\ misuse' = [misuse EXCEPT ![a] = {}] /\ cut' = cut \ {a}
    /\ UNCHANGED arenaStatus

ArenaNext ==
    /\ \E a \in Arena :
          \/ \E n \in InitSize : ArenaInit(a, n)
          \/ \E b \in Block :
                \/ \E sz \in Request : ArenaAlloc(a, b, sz) \/ ArenaRealloc(a, b, sz)
                \/ \E d \in Arena : ArenaMove(a, d, b)
                \/ ArenaFree(a, b) \/ ArenaReallocNothing(a, b)
          \/ ArenaDeinit(a)
    /\ \A a \in Arena : Cardinality(misuse'[a]) <= MaxMisuse

ArenaSpec == ArenaNone /\ [][ArenaNext]_arenaVars

-----------------------------------------------------------------------------
(* Properties                                                               *)

(* The type of every variable.                                              *)
ArenaTypeOK ==
    /\ \A a \in Arena : \A k \in DOMAIN chunks[a] :
          chunks[a][k].real \in Nat /\ chunks[a][k].used \in 0 .. SizeMod - 1
    /\ \A a \in Arena : first[a] \in -1 .. Len(chunks[a])
    /\ blocks \in [Block -> BlockRec \cup {NoBlock}]
    /\ arenaStatus \in {"run", "panic"}
    /\ misuse \in [Arena -> SUBSET {"short", "oversize", "grown", "moved"}]
    /\ cut \in SUBSET Arena

Inside(r)      == r.lo + r.len <= chunks[r.arena][r.chunk].real
Overlap(r, s)  == /\ r.arena = s.arena /\ r.chunk = s.chunk
                  /\ r.lo < s.lo + s.len /\ s.lo < r.lo + r.len

(* Every block lies inside the buffer of its chunk, whatever was moved,      *)
(* resized and reset: but for an arena whose first chunk was asked to be    *)
(* shorter than the default, and one that was asked for a block that is     *)
(* longer.  arena.c records the default size for every chunk, and does not  *)
(* look at the size it is asked for when it adds one.                       *)
BlocksInside ==
    \A b \in Held :
        misuse[blocks[b].arena] \cap {"short", "oversize"} = {} => Inside(blocks[b])

(* No two blocks that are held share a byte, unless a block of the arena    *)
(* was grown in place or moved away: arena_realloc grows a block over its   *)
(* neighbours, arena_move gives up all of the blocks behind the one it      *)
(* moves.  arena_init makes it hold again.                                  *)
BlocksDisjoint ==
    \A b, c \in Held :
        /\ b # c /\ Overlap(blocks[b], blocks[c])
        => misuse[blocks[b].arena] \cap {"grown", "moved"} # {}

(* So the blocks that a client holds are its own: each in its chunk, and no  *)
(* byte in two.                                                             *)
BlocksSound == BlocksInside /\ BlocksDisjoint

(* A block that arena_realloc moves keeps its bytes, unless a block of the  *)
(* arena was grown in place before, which the chunk did not learn of, or    *)
(* its bytes were given up by a move.                                       *)
DataKept ==
    \A a \in cut : misuse[a] \cap {"grown", "moved"} # {}
=============================================================================
