# elx: models and proofs

elx is the compiler of the Elamite language: a lexer, a recursive descent
parser and the beginnings of an analyzer, in C, on containers and allocators of
its own. It is one thread and one process. What is hard in it is not
concurrency but state that several calls share: chains of heap nodes whose
links must change together, lookahead that must leave no trace, counters kept
twice, and loops that end only if every turn makes progress. The models take
the program at that grain: a step is a turn of a loop, or a call where the call
has no loop. An access to memory that is not live, or any other undefined
behaviour, is the status `fault`; `panic()`, which exits, is `panic`.

## 1. Inventory

Paths are relative to `src/src/`.

| Component | State | Operations | What makes it correct |
| --- | --- | --- | --- |
| Allocator `core/allocator.c` | end of a chain of nodes, byte counter | alloc, realloc, free, copy, move, new_scope, free_scope, deinit | links agree with the order of allocation; no call reads a freed node; every block is given back once; allocators do not disturb each other |
| Lexer `lexer/lexer.c` | place, line, column | next, peek, scan | tokens tile the text and are lexemes; lookahead leaves no trace; reads stay in the text; every call returns |
| Parser `parser/parser.c`, `count_csv` | the C stack, the lexer's place | parser_parse, one function per production, parse_expr_prec | the tree is the one the precedence table means; nothing is dropped; it ends on every text |
| List `core/list.c` | head, tail walk, length | push, pop, insert, remove, find, get, iterators | a sequence; length counts the nodes |
| Vector `core/vector.c` | data, size, capacity | push, pop, insert, clear, reserve, fill, iterators | writes stay in the buffer; growing loses nothing |
| HashTable `core/hashtable.c` | a vector of lists, population, prime | insert, remove, get, rehash, iterators | a rehash changes no answer; nothing is used after it is freed; iterators miss nothing |
| Arena `core/arena.c` | chunks, bytes used | alloc, realloc, move, init, deinit | blocks are disjoint and inside chunks |
| String `core/str.c` | data, size, capacity, allocator | make, push, copy, move, clear, deinit | the terminator is inside the data; capacity and allocator are those of the data |
| StrView, Box, Array | none that changes | views and accessors | nothing to say |
| Span, token tables, AST printer | none, or data | lookups and output | part of lexer and parser |
| Analyzer, HIR, language library | none | stubs | nothing to say yet |
| fmt, logger, panic, xalloc, driver | none | output; the run lexer, parser, printer | modelled as statuses |

They interact by calls only. Lexer and parser allocate from one Allocator that
`main.c` opens and closes. The parser sees the lexer through `lexer_next` and
`lexer_peek`, and its text through `count_csv`, which reads the lexer's buffer at
the lexer's place; callbacks occur in the containers (free, copy, compare).
There is no concurrency, no persistence and no message, so there are no hazards
of these kinds; the ones there are stand in `PROJECT.json`, at their lines.

## 2. Modules

| Module | Models | Role |
| --- | --- | --- |
| `Allocator` | `allocator.c` | nodes, links, scopes, one step per turn of a walk |
| `AllocatorAbs` | the promise of `allocator.h` | sets of blocks, scopes as sets; the call that was made and its arguments |
| `AllocatorRefinement` | | the mapping from the first to the second |
| `AllocatorMisuse` | the documented client | shrinks, moves and frees what it holds at any time |
| `AllocatorProofs` | | theorems |
| `Lexer` | `lexer.c`, the token tables it uses | one step per turn of a loop of `lexer_advance` |
| `LexerProofs` | | theorems |
| `Parser` | `parser.c`, `count_csv` | the C stack as frames of scripts |
| `ParserProofs` | | theorems |
| `Grammar` | the table in `parser.h`, the forms of statements and items | text and meant tree of every phrase: the abstract specification of the parser |
| `ContainerBase` | | items, indices and answers of the containers |
| `List` | `list.c` | nodes and links; `list_deinit` one turn of its loop at a time |
| `Vector` | `vector.c` | the buffer, the capacity the vector believes in, the room it has |
| `SequenceAbs` | the promise of `list.h`, what callers of `vector.h` count on | a sequence with an iterator, and the departures from it; `List` and `Vector` implement the one but for those of the other that they name |
| `String` | `str.c`, `str_copy` | lengths, capacities and allocators of strings |
| `ListProofs`, `VectorProofs`, `StringProofs` | | theorems |
| `Arena` | `arena.c` | chunks, their true and recorded lengths, the blocks of the clients |
| `ArenaProofs` | | theorems |
| `HashTable` | `hashtable.c` | buckets of entries and their objects; a rehash in two steps per entry |
| `MultimapAbs` | what callers of `hashtable.h` can count on | a queue of values per key; `HashTable` implements it |
| `HashTableProofs` | | theorems |
| `MCAllocator`, `MCLexer`, `MCParser`, `MCContainers`, `MCHashTable` | | instances for the model checker |

### Allocator

`node_end`, `total_alloc`, `parent`, `child`, `size` and `buffer` are the fields
of the C structures; `liveNode` and `liveBuf` are the heap. malloc returns any
address that is not live, so a run with early reuse and one with none are both
there. `call` holds the locals of the call in progress: `Walk` is a turn of
`allocator_find_node`, `PopScope` a turn of `allocator_free_scope`; `Free`,
`Realloc` and `EndScope` finish. `Client` states the rules a caller has to keep
for the code to be safe, which `allocator.h` does not write down: grow only, do
not free the block a scope handle stands for, and do not free the last block kept by a
scope that has just been released before allocating again. The callers in the
repository keep to them. `AllocatorMisuse` has the client that does not know these rules; its run
refutes one promise of the header, and `allocator_move`, which no call of succeeds, is there. `owned` and `below` are history variables: the blocks
of an allocator, and those older than each. `NoLeak` does not use them: it is
about the nodes that parent links lead to (`Reached`). `AllocatorRefinement` reads
the sets of `AllocatorAbs` off the chain: `AbsHeld`, `AbsAddr`, `AbsKeep`, `AbsRoom`. `AbsAsked` is
the call in progress with the pointer, the size and the handle it was given, so that a
free may release the block at that pointer and no other, and a release of a scope what
was allocated since that handle.

### Lexer

The text is a sequence of characters that the lexer can tell apart. `ctx` is
the LexerContext, `tok` the token being built, `pc` the loop it is in, `call`
the entry point and the context that `lexer_peek` and `lexer_scan` put back.
`out` is what `lexer_next` returned, `foretold` what lookahead answered: both
are history. The keyword table is a parameter.

### Parser

The text is a sequence of tokens and comments. A frame of `stack` is a call of
a `parser_visit_` function or of `parse_expr_prec`: the steps it has still to do
and the subtrees it has made. A function that makes the same calls on every
path is a script of steps (`Statement`, `Item`); where it decides on a token it
peeks at there is an action. The tree is kept in prefix order, every node
with its number of children. The lexer skips comments, `count_csv` does not:
they are part of the text for that reason. Its table of bracket kinds, which is
indexed by an offset and not by a bracket, has `Table` places; reading beyond it
may fault or not. Not told apart: spans, `true` and `false`, the two
sequences of a struct's fields and methods.

### Containers

`List`, `Vector`, `String` and `Arena` are each alone; `MCContainers` chooses one and
lets the others rest. A step is a call; what a call answers stays in `listReply`
or `vecReply` with the question, which is the call and its arguments. A call that panics or
faults leaves its question there too, so that the `Faults` invariants can say which calls
may. A step of `SequenceAbs` does what its own question asks for: a push appends the item
it was given, an insert puts it where it was told. `AbsNext` is what `list.h` promises; where `list.c`
does something else it is a departure, and `ListDeparts` and `VectorDeparts` name those
that are needed:

| Departure | Code | Promise |
| --- | --- | --- |
| `PopLosesOnly`: the only item is removed and NULL returned | `list.c:164` | `list.h:211`, NULL "if the list is empty" |
| `InsertAddsNone`, `InsertFaults`: an insert adds nothing, or reads the child of NULL | `list.c:86`, `list.c:102` | `list.h:178`, "the item is copied into it" |
| `IndexPanics`: `list_get` beyond the length panics | `list.c:197` | `list.h:230`, "NULL if out of bounds" |
| `IndexIgnored`: `list_remove` and `list_insert` at the length do nothing to the items, `vector_insert` at `size` writes an uncounted one | `list.c:114`, `vector.c:66` | none |
| `GrowthFaults`, `SetFaults`: a push or reserve that shrinks, an insert behind a full vector | `vector.c:38`, `vector.c:58` | none |

*List.* `parent`, `child`, `item`, `head` and `length` are the fields; `Chain` is the walk
along the child links, which `ListChain` shows to agree with the parent links
and with what is allocated. `dropped` (history) holds the nodes `list_pop`
gives up, `miscounted` says that `list_remove` was called for the index behind
the last item, after which `length` is one too small, or wraps. The client removes no node its iterator is at
(`IterSpared`), and miscounts at most once (`OneSlip`).

*Vector.* `room` is what the allocator gave, `capacity` what the vector
remembers; `cleared` (history) says that `vector_clear` parted them.

*String.* A handle is a `String` structure. `owner` is the allocator that has the
data, `alloc` the one the string gives it back to; `made` (history) tells strings
that were made in place from those that `string_copy` or `string_move`
returned.

*Arena.* `first` is `self->chunks`, which `arena_move` advances; `real` the bytes a
chunk has, while every chunk records `ARENA_DEFAULT_SIZE`. `misuse` (history)
holds what the clients did to an arena since it was last initialised: `short` (a
first chunk shorter than the default), `oversize`, `grown` in place, `moved`.
Each invariant excuses only what breaks it.

*HashTable.* `rest` is the old vector of lists, with the entries a rehash has still
to insert, `pending` the insert that started it. An entry points to an object, which is its key
and its value; `live` are the objects that are not freed. `callbacks` is chosen once: with
`copy` an insert makes an object, without it takes the one it is given (`Copied`, `PutNew`, `PutOld`); with `free`
a remove and a rehash free the one of the entry. A turn of a rehash is two steps, as it is two
calls (`hashtable.c:50` and `:51`): `TableRehash` inserts the old entry and leaves its object in `due`,
`RehashFree` frees that. An object some entry points to is not given out again even if it
was freed (`Spare`), so that a use of it is always seen. What the table with `free` alone comes to
after it has grown is not asserted away but follows: its entries point to what the rehash has freed (`Dangles`).
The lists are the sequences that `List` implements; a node is its place. `mark` (history)
follows the iterator. In `MultimapAbs` a step does what its `reply`
asks for with the key and value in it; an insert that has to wait for a rehash says so first (`AbsGrow`), and
every turn of the rehash is then a step that changes no binding.

The rules a client has to keep, which the headers do not give: initialise an
arena with 0 or at least the default size, and ask for no more than that; do not
realloc in an arena to grow; do not push to a vector after `vector_clear` nor
reserve less than it has; give `hash_table_init` no free callback without the copy callback, and
never call `hash_table_deinit`; push only to strings that were made in place,
move between strings of one allocator, and copy with the string's own.

## 3. Runs

| Run | What it shows | Bounds |
| --- | --- | --- |
| `allocator` | `TypeOK ChainInv NoFault NoLeak Isolation DeinitReleasesAll RefinesAbs` | 2 allocators, 3 nodes, 4 buffers, 2 sizes |
| `allocator_live` | `CallsDescend CallsReturn` | 2 nodes, 3 buffers, no symmetry |
| `allocator_free_after_scope` | refutes `FreeTakesHeldBlock` | 2 nodes, 3 buffers |
| `lexer` | `TypeOK InBounds TokensAreLexemes TokensTile PositionAgrees TurnsDescend Foresight CallsReturn` | all texts of 3 characters of 9 kinds, cut off anywhere; of 4 number characters, of 5 of the number core and of the exponent, of 4 operator characters; of 4 characters with lines, strings and comments, with peeks and scans in any order |
| `lexer_hang`, `lexer_exponent` | refute `EveryCallReturns`, `ExponentConsumed` | 3 and 6 characters |
| `parser` | `TypeOK NamesKept RoundTrip StepsDescend Terminates` | below |
| `parser_precedence`, `parser_globals` | refute `BindsAsTheTable`, `GlobalsAccepted` | as `parser`; one global |
| `containers` | per container its type invariant; `ListChain ListFaults ListRefines`, `VectorBuffer VectorFaults VectorRefines`, `StringSound`, `BlocksSound DataKept` | 3 nodes, 2 items; 4 slots; 2 strings, 2 allocators, `MAX_STR_ALLOC` 8; 2 arenas, 2 blocks, 2 chunks of 2 bytes, 4 bytes in use, one misuse at a time |
| `hashtable` | `TableTypeOK TableInv TableObjects IterComplete TableRefines` | 2 keys that collide with 1 and 3 buckets and not with 5, 4 entries, 8 objects; all callbacks, one value and no iterator; or both callbacks and two values for a key; or an iterator |
| `hashtable_replace` | refutes `ValueReplaced` | as `hashtable` |

Why they are enough. *Allocator*: a chain of three nodes has a first, a middle
and a last one, a fourth buffer lets a realloc of a full chain succeed, and two
allocators let one reuse the addresses of the other; the proofs say the same for
any number. *Lexer*: every branch of `lexer_advance` decides on at most three
characters; the longer texts are for its loops. *Parser*: every infix
operator stands for its level; a form around a form around a name decides every
pair of levels, and three operators every shape of tree; the statements and items include
those of `els/example-0.1.0.els`; a comment is put at every place of the whole
programs; the broken texts have a token missing, replaced or everything after
it cut off, or are any four tokens in a body. `Table = 14` is small so that lists that
overrun it are among them; the documented texts contain some. The forms the
code does not manage (`Lacking`) stand alone and in every place an expression
can have, misleading comments at every place of a list. *Containers*: three nodes
make a first, a middle and a last one, and every link of a node that goes has
a node at its other end; a vector of 4 slots is reached by growing from 0, 1, 2 and 3; a
string of 4 bytes doubles once below the limit and once beyond; requests of 1
to 3 bytes fill a chunk of 2 exactly, overflow it, and make a second, and
two blocks are all that an overlap needs. `MaxMisuse = 1` shows each excuse to be needed on
its own; `Padding = 0` is the strictest, since the 8 bytes of padding only hide overruns.
*HashTable*: the sizes 1, 3, 5 give two rehashes, one that leaves the keys together
and one that parts them, after which no growth is left; two keys with up to four entries meet in
a bucket, are removed at its front and behind an iterator. A client looks at one thing at a time, objects,
values or an iterator (`client`): these do not act on each other but through the
sequence of entries, which all three have. Eight objects are what two rehashes with `copy`
alone take, which frees nothing.

`Word` and `SizeMod` bound usize arithmetic: 8, 9 or 16, so that
`length - 1` of the empty text, the length of a list that is miscounted and
`size - used` of a chunk wrap. `total_alloc` is kept only in a build with ELX_DEBUG; the runs are
of the build without (`Debug = FALSE`), where it stays 0, and the theorems of both. Deadlock is not checked: the program stops
when it is done, panics or faults, and the heap may be full.

**Fairness.** `Internal` of the allocator, the lexer's loops and `Next` of
the parser are weakly fair: nothing else runs in the process, so a call that has begun runs
on. Clients are not fair: they may never call.

**What the refuting runs show.** The code frees through a dangling link after a
scope was released (`allocator.c:58`); a word, number or string that ends with
the file is a loop without end (`lexer.c:132`); `1.5e-3` is three tokens
(`lexer.c:287`); `a | b && c` is `a | (b && c)` (`parser.c:48`); a global
panics (`parser.c:891`); an insert of a key that is there does not replace its
value (`hashtable.c:144`).

Seen while modelling, without a run: a shrinking realloc copies too much
(`allocator.c:126`); `allocator_move` cannot succeed; a scope whose block was freed before makes
`free_scope` run off the chain (`allocator.c:76`); a pointer of another
allocator faults before it reaches its panic (`allocator.c:36`); `total_alloc` is always 0 unless
ELX_DEBUG is defined, and then a realloc does not change it (`allocator.c:133` assigns the
size before it subtracts it); the last character of a file is never consumed, and a file that ends
in a number followed by one character panics; `%` stands in the precedence table and
in no case of `infix_precedence`; the table names `^` and `!` as prefixes, the
code takes `* & ~ - +`; `a.b()` and `a[i + 1]` panic; an array literal
pushes to a vector that was never initialised but lies in zeroed memory (`allocator.c:98`), so that
its first push finds no room, reallocates NULL and panics in `xnotnull` (`allocator.c:121`); `enum` panics like a global, and
commas in a comment within a list are counted: `RoundTrip` shows that texts with these
are refused at the very token that the code stumbles over, or read as they are meant, and never read as something else. Of the containers:
`list_insert` never inserts (`list.c:102`), `list_pop` loses the only item
(`list.c:164`), `list_get` panics out of bounds where `list.h:230` promises NULL (`list.c:197`), `list_remove`
counts an item that is not there (`list.c:128`), `vector_insert` overwrites and does not count
(`vector.c:65`), `hash_table_deinit` frees a member (`hashtable.c:115`), a rehash
with free callbacks alone leaves freed keys in the table (`hashtable.c:51`),
`arena_resize` does not copy (`arena.c:229`), `arena_move` does not say where the
copy is (`arena.c:202`), `string_copy` keeps the allocator of the original for a
copy that another one has given (`str.c:57`).

## 4. Proofs

Every safety invariant, action property and refinement that the runs check, but
for `RoundTrip`, is a theorem, for every value of the constants. The assumptions are
those of the modules, which the runs evaluate as well: NULL is no address, sizes are
naturals, texts are sequences of characters shorter than `Word`, and

- the heap is finite (`AllocatorAssumption`, `ListAssumption`), and there are fewer list
  nodes than usize counts: each takes memory;
- `HashPrimes` grow by at least two (`TableAssumption`), as the table in
  `hashtable.h` does: it is what makes the inserts of a rehash find room;
- usize holds twice what an arena has in use, and more than its default size
  (`ArenaAssumption`);
- `INITIAL_STR_ALLOC` is between 1 and `MAX_STR_ALLOC`: doubling a capacity of 0 would
  never make room.

**Allocator.** *`AllocatorInvariant`* is `Spec => [](TypeOK /\ ChainInv /\ NoFault)`. That no
call faults is not inductive: a walk is safe because the block it looks for is
on the chain at or before the node it has reached (`CallInv`), which is so because
the parent links lead through the blocks in the order of allocation
(`ParentInv`, `EndInv`), which free and pop preserve because child links are
their inverse (`ChildInv`) and no node or buffer is on two chains (`OwnerInv`,
`BufferInv`). `ScopeInv` keeps a handle on the chain until it is used. There is
one lemma per action; the long ones are `ChainAppend`, `ChainPop` and
`ChainUnlink`. *`AllocatorIsSafe`*, *`AllocatorTypes`* and *`DeinitReleases`* follow.
*`AllocatorKeepsAll`* (`NoLeak`): a live node that could not be reached would have one
above it that could not either, and so on for ever in a finite order. *`AllocatorsAreIsolated`*:
every write of an action goes to a node that its own allocator owns. *`CallsComeToAnEnd`*
(`CallsDescend`): the blocks at and below the node a walk has reached, and those of an allocator
that releases, are fewer at each turn, which is why calls return.
*`AllocatorImplementsAbs`* has a lemma per action: a call is a request, a turn of a walk leaves the sets
as they are, an answer is the step of `AllocatorAbs` that was asked for; it needs `Asked` besides, that the bytes
of a realloc are a size. That the block which is freed is the one at the pointer that was passed is
`CallInv`, with the buffers all different (`BufferInv`).

**Lexer.** *`LexerTypes`*, *`LexerInBounds`* (on texts that are not empty and stay in the
table's range, no read leaves the text or the table) and *`LexerPosition`* (line
and column are those of the place after any calls) rest on one another: the
bound on `loc` needs the types, the position needs that only `Consumed` moves
the context (`ContextMoves`), the count of newlines grows by one character at a time
(`NewlinesGrow`).

*`LexerLexemes`* (`TokensAreLexemes`): its invariant `LexInd` says for every loop what
the text up to the place it has reached is like (`Shape`): in a fraction, digits, a point
and digits. The loops that hang on the last character are part of it (`Stuck`).
`IsFloat` gives an exponent its sign only where there is no fraction: with one, be it empty
as in `1.e-2`, `c_second` is the character behind the point, which is not the sign, and the token
ends at its `e`. *`LexerTiles`*
(`TokensTile`): on a text that ends in a newline `hi` is the place (`Exact`), and what lies
between the last token and the place is a gap (`TileInd`).

*`LexerForesees`* (`Foresight`) is about two runs over the same text, the lookahead and the
calls of `lexer_next` after it. `Turn` is the function that every step of
`lexer_advance` is an application of (`StepsTurn`), on what a turn can tell apart: left over
from the token before are `tok`, `base_digits` and `c_second`, and none of them is read before it is
written. A foretelling is true at a state (`Leads`) if the state is in every set
that has the states which bear it out and is closed under going one turn back. Going on
preserves this because turns are a function (`LeadsOn`), going back by definition, so
that the lookahead carries it from its answer to its start (`Telling`) and the calls that follow
from there to theirs (`Told`). For `lexer_scan` it is needed too that no call begins before
the one before it ended (`TurnGoesOn`).

*`LexerDescends`* (`TurnsDescend`): a turn of a loop goes on in the text or, at the same place,
to a loop of smaller `Rank` (`SkipDescends`, `StartDescends`, `LoopDescends`). On a text that
ends in a newline that newline is the last character, and what a loop for words, digits,
suffixes or operators takes is no newline, so that `lexer_consume` does move on (`ReadsOn`,
with the `Tiling` of `LexerTiles`); an open string does not care, which is the exception the property makes. A step
that changes nothing is none to an action property: that no turn but one of such a string
leaves everything as it was is the lemma `CallDescends`.

**Parser.** *`ParserInvariant`*: every call on the stack stands for a stretch of the text, from
where the call below it made it to where it made its own; the leaves of the trees it
holds are the names and literals of that stretch, one to one and in order (`Accounts`), and
the stretches follow one another up to the lexer's place (`Cuts`). An operation on a frame
appends a leaf for a word it consumes, a node for none, or hands its trees to the
frame below, which joins two stretches. What a script may contain is part
of it (`Typed`): an `expect` that skips a name would lose it. `Outermost` and `Finished` carry it to the
tree that `parser_parse` returns. *`ParserTyped`* and *`ParserKeepsNames`* (`NamesKept`)
follow, the second by counting (`SameRank`).

*`ParserDescends`* (`StepsDescend`): a step reads on; or commits the parser to reading on, its
next step being one that consumes a token or panics (`Demands`), and it stays committed
until it does; or leaves less to do. What is left to do is a set (`Work`): for every call on the
stack one unit for the call, and for every step of its script one more than those it may
lead to before a token is read (`Cost`). The lemmas `Trade` and `CalledLess` compare these sets frame by frame, since a
step changes only the top two; `FiniteWork` makes their sizes comparable. As the place
cannot go beyond the end of the text, there is no endless way down, on any text.

**List.** `ListInd` says that there is a sequence of nodes which both links, the
head and what is allocated tell of (`Linked`) and that the length, the iterator and
`list_deinit` agree with (`Placed`); the walk is that sequence (`ChainIs`). *`ListWellLinked`*,
*`ListSafe`*, *`ListTyped`*. *`ListRefinement`*: a call is the step of `SequenceAbs` that its question asks
for, or one of the departures of `ListDeparts`, on the items of the sequence.

**Vector, String.** *`VectorTypes`*, *`VectorBufferIsSound`*, *`VectorFaultsAreNamed`* share one inductive
invariant, their conjunction: a push that grows finds a buffer that is long
enough because capacity is the room there is unless the vector was cleared
(`VectorBuffer`), and the items survive because realloc copies all of the old buffer
into one that is no shorter (`GrownBuffer`). *`VectorRefinement`*: the items it counts are those of
`SequenceAbs`, but for `VectorDeparts`. *`StringTypes`* and *`StringsAreSound`* rest on `Sane`, what every string a
call leaves behind is like: a push of a string made in place has room for the character and
the terminator because its capacity is its bytes.

**HashTable.** `TableInd` holds at every turn of a rehash: an entry is in the bucket
that its hash leads to, in the new lists as in the old (`Housed`), `population` counts the new
ones (`Counted`), which with those that wait stay below the load that would begin
another rehash (`Loaded`), and none waits without a rehash (`Rehashing`); no two entries of the old lists and the new have
one object, what is freed next is in neither when it was copied, and with both callbacks the
live objects are theirs (`Owned`), from which it follows what can fault (`Blamed`); the node of an iterator is in its list (`IterInside`). *`TableSound`*, *`TableSafe`* (`TableObjects`), *`TableTyped`*, *`TableIterates`* follow.
*`TableRefinement`*: the values of a key are those of its entries in the new lists and
then those in the old, and one bucket has them all, so that a turn of a rehash moves the
first of the old ones to the end of the new ones and changes no binding (`ValuesMove`, `RehashMaps`); that the
insert at the end is the one that was asked for is `Asked`.

**Arena.** `ArenaInd`: unless the arena was misused, no chunk has more bytes in use than the default
size, nor fewer than that to use (`ChunksSound`), and each block lies in the part of its chunk
that is in use (`BlocksFine`), so that a block cut behind it is disjoint from it. *`ArenaIsTyped`*,
*`ArenaBlocksSound`*, *`ArenaDataKept`*.

Model-checked only: liveness (`CallsReturn`, `Terminates`), which is out of the
prover's reach, though the descents it rests on are proved; and `RoundTrip`, for the tree of every text of a grammar is a
fact by induction on data. The refuting runs show one counterexample, which is all they
need.

## 5. Plan

What is left is to compose lexer and parser, the parser's `Peek` being the lexer's, if the
number of texts allows: so far each is checked and proved on its own, the lexer to cut
its tokens as `TokensAreLexemes` says and the parser on every sequence of tokens.

## 6. Not modelled

The analyzer, HIR and the language library have no behaviour: declarations and
stubs nobody calls. Printing, formatting and logging only produce output.
`span_get_context` renders the lines of an error message; it copies the rest of a line
without looking for the end of the text, and the process panics right after.
`StrView`, `Box` and `Array` have no state that changes. The driver
calls lexer, parser and printer once in a row. Equality and hashing of strings only read.
