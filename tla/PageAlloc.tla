------------------------------ MODULE PageAlloc ------------------------------
(***************************************************************************)
(* The page allocator of the kernel heap, kmem.c: memory_kernel_init,      *)
(* kmem_liballoc_alloc and kmem_liballoc_free, statement by statement,     *)
(* with one step per iteration of their loops.  The free pages are a       *)
(* linked list of records (kmem_pages) headed by kmem_free_pages; records  *)
(* not in use are chained from kmem_alloc_pages.                           *)
(*                                                                         *)
(* A pointer to kmem_init_pages[i] is the index i, an address is a page    *)
(* number (page 1 is kmem_base), and 0 is the null address.                *)
(***************************************************************************)
EXTENDS Integers, FiniteSets

CONSTANTS
    NumPages,   \* KERNEL_MEMORY_SIZE_KB / 4: pages of the heap and records
    Requests    \* the page counts clients ask for

(* The size of a record is a uint16_t: the heap's 8192 pages fit it. *)
ASSUME NumPagesAssumption == NumPages \in Nat /\ 2 < NumPages /\ NumPages < 65536
ASSUME RequestsAssumption == Requests \subseteq Nat \ {0}

VARIABLES
    kmem_free_pages,    \* head of the list of free extents
    kmem_alloc_pages,   \* head of the chain of spare records
    ptr, size, next,    \* the fields of every record
    pc,                 \* the call in progress
    arg,                \* its arguments
    prev, page,         \* its cursors (`page` is `p` in kmem_liballoc_free)
    live,               \* ghost: the extents clients hold
    onList              \* ghost: the records linked on the free list

vars == << kmem_free_pages, kmem_alloc_pages, ptr, size, next,
           pc, arg, prev, page, live, onList >>
cursors == << arg, prev, page >>
records == << kmem_free_pages, kmem_alloc_pages, ptr, size, next, onList >>

(* The page source the allocator is for its clients. *)
PS == INSTANCE ExtentPool WITH PoolSize <- NumPages, held <- live

NULL == -1
Structs == 0 .. NumPages - 1
Last == NumPages - 1
NoArg == [ptr |-> 0, size |-> 0]

U16(n) == n % 65536

(* The extent a record describes, the page after it. *)
Extent(q) == [ptr |-> ptr[q], size |-> size[q]]
RecordEnd(q) == ptr[q] + size[q]

-----------------------------------------------------------------------------
(* memory_kernel_init: record 0 holds the whole heap.  The loop makes every *)
(* record from 2 on point to record 1 and leaves record 1 pointing to the   *)
(* last one it visited.                                                     *)
Init ==
    /\ kmem_free_pages = 0
    /\ kmem_alloc_pages = 1
    /\ ptr  = [i \in Structs |-> IF i = 0 THEN 1 ELSE 0]
    /\ size = [i \in Structs |-> IF i = 0 THEN NumPages ELSE 0]
    /\ next = [i \in Structs |-> IF i = 0 THEN NULL ELSE IF i = 1 THEN Last ELSE 1]
    /\ pc = "idle"
    /\ arg = NoArg
    /\ prev = NULL
    /\ page = NULL
    /\ live = {}
    /\ onList = {0}

(* The end of a call: the cursors are dead. *)
Return ==
    /\ pc' = "idle"
    /\ arg' = NoArg
    /\ prev' = NULL
    /\ page' = NULL

-----------------------------------------------------------------------------
(* kmem_liballoc_alloc(pages): first fit along the free list.              *)

(* Nothing is free: NULL is returned at once. *)
AllocFromEmpty ==
    /\ pc = "idle"
    /\ kmem_free_pages = NULL
    /\ UNCHANGED vars

CallAlloc(n) ==
    /\ pc = "idle"
    /\ kmem_free_pages # NULL
    /\ pc' = "alloc"
    /\ arg' = [ptr |-> 0, size |-> n]
    /\ prev' = NULL
    /\ page' = kmem_free_pages
    /\ UNCHANGED << records, live >>

(* The record is unlinked and becomes the first spare one. *)
AllocExact ==
    /\ pc = "alloc"
    /\ size[page] = arg.size
    /\ IF prev = NULL
       THEN /\ kmem_free_pages' = next[page]
            /\ next' = [next EXCEPT ![page] = kmem_alloc_pages]
       ELSE /\ UNCHANGED kmem_free_pages
            /\ next' = [next EXCEPT ![prev] = next[page], ![page] = kmem_alloc_pages]
    /\ kmem_alloc_pages' = page
    /\ ptr' = [ptr EXCEPT ![page] = 0]
    /\ size' = [size EXCEPT ![page] = 0]
    /\ live' = live \union {Extent(page)}
    /\ onList' = onList \ {page}
    /\ Return

(* The front of a larger extent is taken. *)
AllocSplit_Mutant ==
    /\ pc = "alloc"
    /\ size[page] > arg.size
    /\ live' = live \union {[ptr |-> ptr[page], size |-> arg.size]}
    /\ size' = [size EXCEPT ![page] = U16(size[page] - arg.size)]
    /\ Return
    /\ UNCHANGED << kmem_free_pages, kmem_alloc_pages, ptr, next, onList >>

AllocSplit ==
    /\ pc = "alloc"
    /\ size[page] > arg.size
    /\ live' = live \union {[ptr |-> ptr[page], size |-> arg.size]}
    /\ size' = [size EXCEPT ![page] = U16(size[page] - arg.size)]
    /\ ptr' = [ptr EXCEPT ![page] = ptr[page] + arg.size]
    /\ Return
    /\ UNCHANGED << kmem_free_pages, kmem_alloc_pages, next, onList >>

AllocAdvance_Mutant ==
    /\ pc = "alloc"
    /\ size[page] < arg.size
    /\ next[page] # NULL
    /\ prev' = page
    /\ UNCHANGED << records, live, pc, arg, page >>

AllocAdvance ==
    /\ pc = "alloc"
    /\ size[page] < arg.size
    /\ next[page] # NULL
    /\ prev' = page
    /\ page' = next[page]
    /\ UNCHANGED << records, live, pc, arg >>

AllocFail ==
    /\ pc = "alloc"
    /\ size[page] < arg.size
    /\ next[page] = NULL
    /\ Return
    /\ UNCHANGED << records, live >>

AllocStep == AllocExact \/ AllocSplit \/ AllocAdvance \/ AllocFail

-----------------------------------------------------------------------------
(* kmem_liballoc_free(ptr, size).                                          *)

(* With an empty free list the function panics; otherwise its loop starts  *)
(* by stepping past the head.                                              *)
CallFree(e) ==
    /\ pc = "idle"
    /\ e \in live
    /\ live' = live \ {e}
    /\ IF kmem_free_pages = NULL
       THEN pc' = "panic" /\ UNCHANGED cursors
       ELSE /\ pc' = "free"
            /\ arg' = e
            /\ prev' = kmem_free_pages
            /\ page' = next[kmem_free_pages]
    /\ UNCHANGED records

BeforeArg == page # NULL /\ ptr[page] < arg.ptr

FreeAdvance ==
    /\ pc = "free"
    /\ BeforeArg
    /\ prev' = page
    /\ page' = next[page]
    /\ UNCHANGED << records, live, pc, arg >>

ArgEnd == arg.ptr + arg.size
Follows == RecordEnd(prev) = arg.ptr            \* the extent follows prev
Precedes == page # NULL /\ ArgEnd = ptr[page]   \* the extent precedes page

(* The last statement of the function, on the fields as the branch before  *)
(* it left them: prev takes over page, whose record becomes spare, when    *)
(* the two touch.                                                          *)
AbsorbPage_Mutant(pt, sz, nx, spare, linked) ==
    /\ size' = sz
    /\ IF page # NULL /\ pt[prev] + sz[prev] = pt[page]
       THEN /\ next' = [nx EXCEPT ![prev] = nx[page], ![page] = spare]
            /\ kmem_alloc_pages' = page
            /\ onList' = linked \ {page}
       ELSE /\ next' = nx
            /\ kmem_alloc_pages' = spare
            /\ onList' = linked

AbsorbPage_NeverMutant(pt, sz, nx, spare, linked) ==
    /\ size' = sz
    /\ next' = nx
    /\ kmem_alloc_pages' = spare
    /\ onList' = linked

AbsorbPage(pt, sz, nx, spare, linked) ==
    IF page # NULL /\ pt[prev] + sz[prev] = pt[page]
    THEN /\ size' = [sz EXCEPT ![prev] = U16(sz[prev] + sz[page])]
         /\ next' = [nx EXCEPT ![prev] = nx[page], ![page] = spare]
         /\ kmem_alloc_pages' = page
         /\ onList' = linked \ {page}
    ELSE /\ size' = sz
         /\ next' = nx
         /\ kmem_alloc_pages' = spare
         /\ onList' = linked

(* Of a record that grows at its front the start stays where it was. *)
FreeMerge ==
    /\ pc = "free"
    /\ ~BeforeArg
    /\ Follows \/ Precedes
    /\ LET grown == IF Follows THEN prev ELSE page IN
       AbsorbPage(ptr, [size EXCEPT ![grown] = U16(size[grown] + arg.size)],
                  next, kmem_alloc_pages, onList)
    /\ Return
    /\ UNCHANGED << kmem_free_pages, ptr, live >>

(* A record is taken from the spare chain whatever it is in use for.       *)
InsertRecord_Mutant(new) ==
    LET pt == [ptr EXCEPT ![new] = arg.ptr]
        sz == [size EXCEPT ![new] = U16(arg.size)]
        nx == [next EXCEPT ![new] = page, ![prev] = new]
    IN /\ AbsorbPage(pt, sz, nx, kmem_alloc_pages, onList \union {new})
       /\ ptr' = pt

InsertRecord(new) ==
    LET pt == [ptr EXCEPT ![new] = arg.ptr]
        sz == [size EXCEPT ![new] = U16(arg.size)]
        nx == [next EXCEPT ![new] = page, ![prev] = new]
    IN /\ AbsorbPage(pt, sz, nx, next[new], onList \union {new})
       /\ ptr' = pt

(* The end of the chain would be dereferenced. *)
FreeInsert ==
    /\ pc = "free"
    /\ ~BeforeArg
    /\ ~Follows
    /\ ~Precedes
    /\ IF kmem_alloc_pages = NULL
       THEN pc' = "fault" /\ UNCHANGED << ptr, size, next, kmem_alloc_pages, onList, cursors >>
       ELSE InsertRecord(kmem_alloc_pages) /\ Return
    /\ UNCHANGED << kmem_free_pages, live >>

FreeStep == FreeAdvance \/ FreeMerge \/ FreeInsert

-----------------------------------------------------------------------------
(* The weakest discipline under which kmem_liballoc_free does its work.    *)

(* The records the initial chain can ever hand out, and the first one. *)
CircStructs == {0, 1, Last}

(* The walk for e stops at a record that e follows. *)
MergesBack(e) ==
    \E q \in onList :
        /\ RecordEnd(q) = e.ptr
        /\ next[q] # NULL => e.ptr <= ptr[next[q]]

(* The head, out of address order, may touch its successor: an extent      *)
(* inserted between the two is unlinked again by AbsorbPage.               *)
LostBehindHead(e) ==
    LET second == next[kmem_free_pages] IN
    /\ second # NULL
    /\ RecordEnd(kmem_free_pages) = ptr[second]
    /\ e.ptr < ptr[second]

(* A free the allocator can serve: some extent is free, and either the     *)
(* freed one extends it at its end, or a record is spare, no listed extent *)
(* past the head begins where the freed one ends, and the new record stays *)
(* linked.                                                                 *)
Servable(e) ==
    /\ kmem_free_pages # NULL
    /\ \/ MergesBack(e)
       \/ /\ \E q \in CircStructs : q \notin onList
          /\ \A q \in onList \ {kmem_free_pages} : ptr[q] # PS!End(e)
          /\ ~LostBehindHead(e)

Next ==
    \/ AllocFromEmpty
    \/ \E n \in Requests : CallAlloc(n)
    \/ AllocStep
    \/ \E e \in live : Servable(e) /\ CallFree(e)
    \/ FreeStep

Spec == Init /\ [][Next]_vars

(* A call runs to its end: nothing can suspend it for ever. *)
FairSpec == Spec /\ WF_vars(AllocStep) /\ WF_vars(FreeStep)

-----------------------------------------------------------------------------
(* Type correctness: the fields hold what their C types and the heap allow, *)
(* and only records of the initial chain are ever linked.                   *)
TypeOK ==
    /\ kmem_free_pages \in Structs \union {NULL}
    /\ kmem_alloc_pages \in Structs
    /\ ptr \in [Structs -> 0 .. NumPages + 1]
    /\ size \in [Structs -> 0 .. NumPages]
    /\ next \in [Structs -> Structs \union {NULL}]
    /\ pc \in {"idle", "alloc", "free"}
    /\ arg \in [ptr : 0 .. NumPages, size : Nat]
    /\ prev \in Structs \union {NULL}
    /\ page \in Structs \union {NULL}
    /\ live \subseteq PS!Extents
    /\ onList \subseteq CircStructs

(* n pages from page p lie in the heap; they and m pages from q are apart. *)
Within(p, n) == 1 <= p /\ 1 <= n /\ p + n <= NumPages + 1
Apart(p, n, q, m) == p + n <= q \/ q + m <= p

(* No page has two owners: what clients hold, what is listed as free and   *)
(* what a free in progress is returning lie in the heap and share no page. *)
NoOverlap ==
    /\ \A e \in live : Within(e.ptr, e.size)
    /\ \A q \in onList : Within(ptr[q], size[q])
    /\ \A e, f \in live : e # f => Apart(e.ptr, e.size, f.ptr, f.size)
    /\ \A q, r \in onList : q # r => Apart(ptr[q], size[q], ptr[r], size[r])
    /\ \A e \in live, q \in onList : Apart(e.ptr, e.size, ptr[q], size[q])
    /\ pc = "free" =>
          /\ Within(arg.ptr, arg.size)
          /\ \A e \in live : Apart(e.ptr, e.size, arg.ptr, arg.size)
          /\ \A q \in onList : Apart(ptr[q], size[q], arg.ptr, arg.size)

(* No page is lost: every page of the heap is held by a client, listed as  *)
(* free, or on its way back, as the comment over kmem_liballoc_free says   *)
(* ("This frees previously allocated memory").                             *)
NoLeak ==
    \A i \in 1 .. NumPages :
        \/ \E e \in live : e.ptr <= i /\ i < PS!End(e)
        \/ \E q \in onList : ptr[q] <= i /\ i < RecordEnd(q)
        \/ pc = "free" /\ arg.ptr <= i /\ i < ArgEnd

(* The spare chain never hands out a record the free list still uses, as   *)
(* long as a record is spare at all.                                       *)
SparePoolSound ==
    kmem_alloc_pages \in onList => CircStructs \subseteq onList

(* Freed neighbours are merged: past the head the list is in address order *)
(* and consecutive extents leave a gap, so the walks' early exit and the   *)
(* two merge tests look at the only candidates there are.                  *)
Coalesced ==
    \A q \in onList \ {kmem_free_pages} :
        next[q] # NULL => RecordEnd(q) < ptr[next[q]]

(* The list that starts at kmem_free_pages has at most three records and  *)
(* ends; onList is exactly the set of records it reaches.                  *)
ListShape ==
    \/ kmem_free_pages = NULL /\ onList = {}
    \/ \E a \in CircStructs :
          kmem_free_pages = a /\ next[a] = NULL /\ onList = {a}
    \/ \E a, b \in CircStructs :
          /\ a # b /\ kmem_free_pages = a /\ next[a] = b /\ next[b] = NULL
          /\ onList = {a, b}
    \/ \E a, b, c \in CircStructs :
          /\ a # b /\ a # c /\ b # c
          /\ kmem_free_pages = a /\ next[a] = b /\ next[b] = c /\ next[c] = NULL
          /\ onList = {a, b, c}

(* While anything is listed, the records that are not are chained from     *)
(* kmem_alloc_pages.                                                       *)
SpareShape ==
    /\ kmem_alloc_pages \in CircStructs
    /\ kmem_free_pages # NULL /\ ~(CircStructs \subseteq onList) =>
          /\ kmem_alloc_pages \notin onList
          /\ \A q \in CircStructs \ onList :
                /\ next[q] \in CircStructs
                /\ q # kmem_alloc_pages => next[kmem_alloc_pages] = q

(* What the loops know of their cursors. *)
CursorsSound ==
    /\ pc = "alloc" =>
          /\ arg.size >= 1
          /\ page \in onList
          /\ IF prev = NULL THEN page = kmem_free_pages
                            ELSE prev \in onList /\ next[prev] = page
    /\ pc = "free" =>
          /\ Servable(arg)
          /\ prev \in onList
          /\ page = next[prev]
          /\ prev # kmem_free_pages => ptr[prev] < arg.ptr

(* The inductive invariant behind the safety properties: they hold in a    *)
(* state only because the list has its shape and the cursors point into it. *)
Inv == /\ TypeOK
       /\ ListShape
       /\ SpareShape
       /\ CursorsSound
       /\ NoOverlap
       /\ NoLeak
       /\ Coalesced

(* Every call returns: no walk goes round for ever. *)
CallsReturn == pc \in {"alloc", "free"} ~> pc = "idle"

(* The allocator implements the page source its clients rely on. *)
PageSourceSpec == PS!Spec
=============================================================================
