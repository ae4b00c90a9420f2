------------------------------- MODULE Liballoc -------------------------------
(***************************************************************************)
(* The kernel heap, kmem_liballoc.c: kmem_malloc, kmem_free, kmem_calloc   *)
(* and kmem_realloc over a page source.  Blocks of pages are divided into  *)
(* pieces by boundary tags, each the header of a piece; free pieces hang   *)
(* in bins by size.  A step is one iteration of a loop of the source or    *)
(* the straight code between two loops; callers exclude each other.        *)
(*                                                                         *)
(* An address is a number of bytes, 0 the null pointer.  Page p begins at  *)
(* p * PageSize.  Byte counts are unsigned machine words: they wrap.       *)
(***************************************************************************)
EXTENDS Integers, FiniteSets

CONSTANTS
    NumPages,       \* pages the page source has
    PageSize,       \* kmem_l_pageSize: bytes of a page
    PageCount,      \* kmem_l_pageCount: the fewest pages taken at a time
    Hdr,            \* sizeof(struct boundary_tag)
    MinExp,         \* MINEXP: the bin of the smallest free pieces
    MaxExp,         \* MAXEXP: the number of bins; words have MaxExp bits
    MaxComplete,    \* MAXCOMPLETE: whole blocks kept in a bin
    Sizes,          \* the sizes clients ask for
    Counts          \* the element counts of kmem_calloc

ASSUME LiballocAssumption ==
    /\ {NumPages, PageSize, PageCount, Hdr, MinExp, MaxExp, MaxComplete} \subseteq Nat \ {0}
    /\ MinExp < MaxExp
    /\ Hdr < PageSize
    /\ (NumPages + 1) * PageSize < 2 ^ MaxExp
    /\ Sizes \subseteq 1 .. 2 ^ MaxExp - 1
    /\ Counts \subseteq Nat \ {0}

(* A size plus a header is a word: kmem_malloc does not ask, and a caller  *)
(* that breaks this gets a region shorter than it was promised.            *)
ASSUME RequestsAssumption ==
    \A n \in Sizes : /\ n + Hdr < 2 ^ MaxExp
                     /\ \A c \in Counts : c * n + Hdr < 2 ^ MaxExp

VARIABLES
    tag,            \* the boundary tags in memory, by address
    freePages,      \* kmem_l_freePages: the first free piece of each bin
    completePages,  \* kmem_l_completePages: free whole blocks of each bin
    held,           \* the extents of pages taken from the page source
    used,           \* ghost: the regions clients hold
    pc,             \* what the call in progress does next
    cur,            \* its `tag`
    size,           \* its `size`: the bytes asked for
    call            \* the operation: name, bytes promised, region replaced

vars == << tag, freePages, completePages, held, used, pc, cur, size, call >>
heap == << tag, freePages, completePages, held >>

NULL == 0
Word == 2 ^ MaxExp
Bins == MinExp .. MaxExp - 1
U(n) == n % Word
NoRegion == [ptr |-> NULL, size |-> 0]
NoCall == [op |-> "none", bytes |-> 0, old |-> NoRegion]

(* The page source, and the heap as the pool of bytes it should be. *)
PS == INSTANCE ExtentPool WITH PoolSize <- NumPages
HS == INSTANCE ExtentPool WITH PoolSize <- (NumPages + 1) * PageSize, held <- used

Address(p) == p * PageSize

-----------------------------------------------------------------------------
(* kmem_getexp: n such that 2^n <= size < 2^(n+1), -1 below the quantum.   *)
GetExp(n) ==
    IF n < 2 ^ MinExp
    THEN -1
    ELSE CHOOSE k \in Bins : 2 ^ k <= n /\ (k + 1 \in Bins => n < 2 ^ (k + 1))

BinOf(n) == IF GetExp(n) < MinExp THEN MinExp ELSE GetExp(n)

(* The pointer updates below act on a heap h = [tag, bins], so that the    *)
(* code of an operation can run several of them in a row.                  *)
Heap == [tag |-> tag, bins |-> freePages]

Become(h) == tag' = h.tag /\ freePages' = h.bins

Without(f, a) == [x \in DOMAIN f \ {a} |-> f[x]]

With(f, a, t) == [x \in DOMAIN f \union {a} |-> IF x = a THEN t ELSE f[x]]

Whole(t) == t.left = NULL /\ t.right = NULL

(* kmem_insert_tag: at the front of the bin. *)
InsertTag_Mutant(h, a, bin) ==
    LET first == h.bins[bin]
        linked == [h.tag EXCEPT ![a].index = bin, ![a].next = first]
    IN [tag  |-> linked,
        bins |-> [h.bins EXCEPT ![bin] = a]]

InsertTag(h, a, bin) ==
    LET first == h.bins[bin]
        linked == [h.tag EXCEPT ![a].index = bin,
                                ![a].next = IF first # NULL THEN first ELSE @]
    IN [tag  |-> IF first # NULL THEN [linked EXCEPT ![first].prev = a] ELSE linked,
        bins |-> [h.bins EXCEPT ![bin] = a]]

(* kmem_remove_tag. *)
RemoveTag(h, a) ==
    LET t == h.tag[a]
        unprev == IF t.prev # NULL THEN [h.tag EXCEPT ![t.prev].next = t.next] ELSE h.tag
        unnext == IF t.next # NULL THEN [unprev EXCEPT ![t.next].prev = t.prev] ELSE unprev
    IN [tag  |-> [unnext EXCEPT ![a].next = NULL, ![a].prev = NULL, ![a].index = -1],
        bins |-> IF h.bins[t.index] = a THEN [h.bins EXCEPT ![t.index] = t.next]
                                        ELSE h.bins]

(* a takes over its right neighbour's bytes, whose tag becomes payload. *)
Swallow_Mutant(h, a) ==
    LET right == h.tag[a].right
    IN [h EXCEPT !.tag = Without([h.tag EXCEPT
            ![a].real_size = U(@ + h.tag[right].real_size),
            ![a].right = h.tag[right].right], right)]

Swallow(h, a) ==
    LET right == h.tag[a].right
        beyond == h.tag[right].right
        grown == [h.tag EXCEPT ![a].real_size = U(@ + h.tag[right].real_size),
                               ![a].right = beyond]
        relinked == IF beyond # NULL THEN [grown EXCEPT ![beyond].left = a] ELSE grown
    IN [h EXCEPT !.tag = Without(relinked, right)]

(* kmem_absorb_right. *)
AbsorbRight(h, a) == Swallow(RemoveTag(h, h.tag[a].right), a)

(* kmem_melt_left and the removal of the grown piece from its bin. *)
MeltLeftTag(h, a) ==
    LET left == h.tag[a].left IN RemoveTag(Swallow(h, left), left)

(* kmem_split_tag: what the piece a does not need becomes a free piece.    *)
(* (The `size` field of a free piece is never read; it is 0 here.)         *)
SplitTag(h, a) ==
    LET t == h.tag[a]
        new == U(a + Hdr + t.size)
        rest == [real_size |-> U(t.real_size - Hdr - t.size), size |-> 0, index |-> -1,
                 left |-> a, right |-> t.right, next |-> NULL, prev |-> NULL]
        placed == With(h.tag, new, rest)
        relinked == IF t.right # NULL THEN [placed EXCEPT ![t.right].left = new] ELSE placed
        shrunk == [relinked EXCEPT ![a].right = new,
                                   ![a].real_size = U(@ - rest.real_size)]
    IN InsertTag([h EXCEPT !.tag = shrunk], new, BinOf(U(rest.real_size - Hdr)))

(* The end of kmem_malloc: the excess of the piece a is split off when it  *)
(* holds a tag and at least the quantum.                                   *)
Carve(h, a, n) ==
    LET sized == [h EXCEPT !.tag[a].size = n]
        remainder == U(h.tag[a].real_size - n - 2 * Hdr)
    IN IF 0 < remainder /\ remainder < Word \div 2 /\ GetExp(remainder) >= 0
       THEN SplitTag(sized, a)
       ELSE sized

-----------------------------------------------------------------------------
Init ==
    /\ tag = << >>
    /\ freePages = [b \in Bins |-> NULL]
    /\ completePages = [b \in Bins |-> 0]
    /\ held = {}
    /\ used = {}
    /\ pc = "idle"
    /\ cur = NULL
    /\ size = 0
    /\ call = NoCall

Return ==
    /\ pc' = "idle"
    /\ cur' = NULL
    /\ size' = 0
    /\ call' = NoCall

-----------------------------------------------------------------------------
(* kmem_malloc(n) on behalf of an operation that promises `bytes` to its   *)
(* client: the search starts at the front of the bin of n.                 *)
BeginMalloc(n, op, bytes, old) ==
    /\ pc = "idle"
    /\ pc' = "search"
    /\ size' = n
    /\ cur' = freePages[BinOf(n)]
    /\ call' = [op |-> op, bytes |-> bytes, old |-> old]
    /\ UNCHANGED << heap, used >>

CallMalloc(n) == BeginMalloc(n, "malloc", n, NoRegion)

(* kmem_calloc: the product is an int, then a size_t again. *)
CallCalloc(count, n) == BeginMalloc(U(count * n), "calloc", count * n, NoRegion)

(* kmem_realloc of a region to n > 0 bytes.  (kmem_realloc(NULL, n) is     *)
(* kmem_malloc(n) and kmem_realloc(p, 0) is kmem_free(p).)                 *)
CallRealloc(r, n) == BeginMalloc(n, "realloc", n, r)

(* Enough for the bytes and one more header than needed. *)
Fits_Mutant(a) == tag[a].real_size >= size

Fits(a) == U(tag[a].real_size - Hdr) >= U(size + Hdr)

SearchNext_Mutant ==
    /\ pc = "search"
    /\ cur # NULL
    /\ ~Fits(cur)
    /\ cur' = freePages[tag[cur].index]
    /\ UNCHANGED << heap, used, pc, size, call >>

SearchNext ==
    /\ pc = "search"
    /\ cur # NULL
    /\ ~Fits(cur)
    /\ cur' = tag[cur].next
    /\ UNCHANGED << heap, used, pc, size, call >>

(* kmem_malloc returns the piece a to its caller: memset in kmem_calloc    *)
(* and memcpy in kmem_realloc write what the client was promised.          *)
Deliver(a) ==
    LET r == [ptr |-> a + Hdr, size |-> call.bytes] IN
    /\ used' = used \union {r}
    /\ IF call.op = "realloc"
       THEN pc' = "replace" /\ UNCHANGED << cur, size, call >>
       ELSE Return

TakeFound_ListedMutant ==
    /\ pc = "search"
    /\ cur # NULL
    /\ Fits(cur)
    /\ completePages' = IF Whole(tag[cur])
                        THEN [completePages EXCEPT ![BinOf(size)] = @ - 1]
                        ELSE completePages
    /\ Become(Carve(Heap, cur, size))
    /\ Deliver(cur)
    /\ UNCHANGED held

TakeFound ==
    /\ pc = "search"
    /\ cur # NULL
    /\ Fits(cur)
    /\ completePages' = IF Whole(tag[cur])
                        THEN [completePages EXCEPT ![BinOf(size)] = @ - 1]
                        ELSE completePages
    /\ Become(Carve(RemoveTag(Heap, cur), cur, size))
    /\ Deliver(cur)
    /\ UNCHANGED held

(* kmem_allocate_new_tag: the pages for n bytes and a header, at least the *)
(* minimum; `usage` wraps.                                                 *)
PagesFor(n) ==
    LET usage == U(n + Hdr)
        pages == (usage + PageSize - 1) \div PageSize
    IN IF pages < PageCount THEN PageCount ELSE pages

(* A block of the pages e becomes one piece, of which the client gets the  *)
(* front.                                                                  *)
AddBlock(e) ==
    LET a == Address(e.ptr)
        block == [real_size |-> U(e.size * PageSize), size |-> size,
                  index |-> -1, left |-> NULL, right |-> NULL,
                  next |-> NULL, prev |-> NULL]
    IN /\ pc = "search"
       /\ cur = NULL
       /\ Become(Carve([Heap EXCEPT !.tag = With(tag, a, block)], a, size))
       /\ Deliver(a)
       /\ UNCHANGED completePages

NewBlock ==
    \E p \in 1 .. NumPages :
        LET e == [ptr |-> p, size |-> PagesFor(size)] IN PS!Alloc(e) /\ AddBlock(e)

(* The page source has nothing: NULL goes to the caller, and kmem_calloc   *)
(* and kmem_realloc write through it.                                      *)
NoBlock ==
    /\ pc = "search"
    /\ cur = NULL
    /\ IF call.op = "malloc"
       THEN Return
       ELSE pc' = "fault" /\ UNCHANGED << cur, size, call >>
    /\ UNCHANGED << heap, used >>

MallocStep == SearchNext \/ TakeFound \/ NewBlock \/ NoBlock

-----------------------------------------------------------------------------
(* kmem_free of a region a client holds. *)
BeginFree(r) ==
    /\ used' = used \ {r}
    /\ pc' = "free"
    /\ cur' = r.ptr - Hdr
    /\ size' = 0
    /\ call' = NoCall
    /\ UNCHANGED heap

CallFree(r) == pc = "idle" /\ BeginFree(r)

(* kmem_realloc has copied the bytes and frees the old region. *)
ReplaceFree == pc = "replace" /\ BeginFree(call.old)

Melts(a) == a # NULL /\ tag[a].index >= 0

MeltLeft ==
    /\ pc = "free"
    /\ Melts(tag[cur].left)
    /\ Become(MeltLeftTag(Heap, cur))
    /\ cur' = tag[cur].left
    /\ UNCHANGED << completePages, held, used, pc, size, call >>

MeltRight ==
    /\ pc = "free"
    /\ ~Melts(tag[cur].left)
    /\ Melts(tag[cur].right)
    /\ Become(AbsorbRight(Heap, cur))
    /\ UNCHANGED << completePages, held, used, pc, cur, size, call >>

Melted == pc = "free" /\ ~Melts(tag[cur].left) /\ ~Melts(tag[cur].right)

FreeBin == BinOf(U(tag[cur].real_size - Hdr))

(* The pages kmem_free works out for a whole block. *)
BlockExtent(a) ==
    LET pages == (tag[a].real_size + PageSize - 1) \div PageSize
    IN [ptr |-> a \div PageSize, size |-> IF pages < PageCount THEN PageCount ELSE pages]

(* Part of a block, or a whole block the bin has room for. *)
KeepPiece ==
    /\ Melted
    /\ Whole(tag[cur]) => completePages[FreeBin] # MaxComplete
    /\ completePages' = IF Whole(tag[cur])
                        THEN [completePages EXCEPT ![FreeBin] = @ + 1]
                        ELSE completePages
    /\ Become(InsertTag([Heap EXCEPT !.tag[cur].size = 0], cur, FreeBin))
    /\ Return
    /\ UNCHANGED << held, used >>

(* A whole block too many goes back to the page source. *)
GiveBack ==
    /\ Melted
    /\ Whole(tag[cur])
    /\ completePages[FreeBin] = MaxComplete
    /\ held' = held \ {BlockExtent(cur)}
    /\ tag' = Without(tag, cur)
    /\ Return
    /\ UNCHANGED << freePages, completePages, used >>

FreeStep == MeltLeft \/ MeltRight \/ KeepPiece \/ GiveBack

-----------------------------------------------------------------------------
Next ==
    \/ \E n \in Sizes : CallMalloc(n)
    \/ \E c \in Counts, n \in Sizes : CallCalloc(c, n)
    \/ \E r \in used, n \in Sizes : CallRealloc(r, n)
    \/ \E r \in used : CallFree(r)
    \/ MallocStep
    \/ ReplaceFree
    \/ FreeStep

Spec == Init /\ [][Next]_vars

(* A call runs to its end: nothing can suspend it for ever. *)
FairSpec == Spec /\ WF_vars(MallocStep) /\ WF_vars(ReplaceFree) /\ WF_vars(FreeStep)

-----------------------------------------------------------------------------
Tags == DOMAIN tag
Addresses == PageSize .. (NumPages + 1) * PageSize - 1

TypeOK ==
    /\ Tags \subseteq Addresses
    /\ \A a \in Tags :
          tag[a] \in [real_size : 1 .. Word - 1, size : 0 .. Word - 1,
                      index : {-1} \union Bins,
                      left : Tags \union {NULL}, right : Tags \union {NULL},
                      next : Tags \union {NULL}, prev : Tags \union {NULL}]
    /\ freePages \in [Bins -> Tags \union {NULL}]
    /\ completePages \in [Bins -> 0 .. MaxComplete]
    /\ held \subseteq PS!Extents
    /\ pc \in {"idle", "search", "replace", "free", "fault"}
    /\ cur \in Tags \union {NULL}

(* The pieces of a block lie side by side, from its first byte to its      *)
(* last, and the left and right pointers agree.                            *)
BlocksTiled ==
    /\ \A a \in Tags :
          LET t == tag[a] IN
          /\ t.right # NULL => t.right = a + t.real_size /\ tag[t.right].left = a
          /\ t.left # NULL => tag[t.left].right = a
          /\ t.left = NULL => \E e \in held : a = Address(e.ptr)
          /\ t.right = NULL => \E e \in held : a + t.real_size = Address(PS!End(e))
    /\ \A e \in held : Address(e.ptr) \in Tags

(* A free piece is in the bin of its size and only there, and the bins'    *)
(* doubly linked lists agree with themselves.                              *)
BinsExact ==
    /\ \A b \in Bins : freePages[b] # NULL => tag[freePages[b]].index = b
    /\ \A a \in Tags :
          LET t == tag[a] IN
          IF t.index = -1
          THEN t.next = NULL /\ t.prev = NULL
          ELSE /\ t.index = BinOf(t.real_size - Hdr)
               /\ t.prev = NULL <=> freePages[t.index] = a
               /\ t.prev # NULL => tag[t.prev].next = a
               /\ t.next # NULL => tag[t.next].prev = a /\ tag[t.next].index = t.index

(* completePages counts the free whole blocks of each bin. *)
CompleteCounted ==
    \A b \in Bins :
        completePages[b] = Cardinality({a \in Tags : tag[a].index = b /\ Whole(tag[a])})

(* Freed neighbours are merged: two free pieces never lie side by side     *)
(* between calls.                                                          *)
NoAdjacentFree ==
    pc = "idle" => \A a \in Tags :
        tag[a].index >= 0 /\ tag[a].right # NULL => tag[tag[a].right].index = -1

(* A client's region lies behind the tag of a piece that is in use, inside *)
(* that piece; between calls the pieces in use are exactly the clients'.   *)
RegionsInPieces ==
    /\ \A r \in used :
          /\ r.ptr - Hdr \in Tags
          /\ tag[r.ptr - Hdr].index = -1
          /\ r.ptr + r.size <= r.ptr - Hdr + tag[r.ptr - Hdr].real_size
    /\ pc = "idle" => {a \in Tags : tag[a].index = -1} = {r.ptr - Hdr : r \in used}

(* kmem_liballoc_free is called with "the exact same value returned from a *)
(* previous liballoc_alloc call" and its number of pages.                  *)
BlocksReturnedWhole ==
    Melted /\ Whole(tag[cur]) => BlockExtent(cur) \in held

(* A block is its pieces and nothing else from the call that takes it to   *)
(* the one that gives it back.                                             *)
BlocksSound == BlocksTiled /\ NoAdjacentFree /\ BlocksReturnedWhole

(* A later search finds every free piece once, where it looks for it, and  *)
(* the whole blocks it keeps are those it counts.                          *)
BinsSound == BinsExact /\ CompleteCounted

(* No two clients share a byte: the heap implements the pool of bytes      *)
(* (kmem_liballoc.h, "The standard function.").                            *)
HeapSpec == HS!Spec

(* Every call returns. *)
CallsReturn == pc \in {"search", "replace", "free"} ~> pc \in {"idle", "fault"}
=============================================================================
