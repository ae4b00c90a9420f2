--------------------------- MODULE PageAllocProofs ---------------------------
(***************************************************************************)
(* Proofs about the page allocator of kmem.c (module PageAlloc), for every *)
(* size of the heap and every set of requests: the safety properties the   *)
(* runs check on small heaps, and that the allocator implements ExtentPool.*)
(***************************************************************************)
EXTENDS PageAlloc, TLAPS

USE NumPagesAssumption, RequestsAssumption

LEMMA U16Small == ASSUME NEW n \in Nat, n < 65536 PROVE U16(n) = n
BY Z3 DEF U16

(* What the invariant says of a listed record and of a held extent.        *)
LEMMA Listed ==
    ASSUME Inv, NEW q \in onList
    PROVE  /\ q \in Structs /\ q \in CircStructs
           /\ ptr[q] \in Nat /\ size[q] \in Nat
           /\ 1 <= ptr[q] /\ 1 <= size[q] /\ ptr[q] + size[q] <= NumPages + 1
<1>1. q \in CircStructs /\ q \in Structs
  BY DEF Inv, TypeOK, CircStructs, Structs, Last
<1>2. ptr[q] \in Nat /\ size[q] \in Nat
  BY <1>1 DEF Inv, TypeOK
<1>3. QED
  BY <1>1, <1>2 DEF Inv, NoOverlap, Within

LEMMA Held ==
    ASSUME Inv, NEW e \in live
    PROVE  /\ e = [ptr |-> e.ptr, size |-> e.size]
           /\ e.ptr \in 1 .. NumPages /\ e.size \in 1 .. NumPages
           /\ e.ptr + e.size <= NumPages + 1
<1>1. e \in [ptr : 1 .. NumPages, size : 1 .. NumPages]
  BY DEF Inv, TypeOK, PS!Extents
<1>2. e.ptr + e.size <= NumPages + 1
  BY DEF Inv, NoOverlap, Within
<1>3. QED
  BY <1>1, <1>2

(* Before any call everything is free and linked as the invariant says. *)
LEMMA InitInv == Init => Inv
<1> SUFFICES ASSUME Init PROVE Inv
    OBVIOUS
<1> USE DEF Init, NULL, NoArg, Structs, Last, CircStructs, RecordEnd, Extent
<1>1. TypeOK
  BY DEF TypeOK
<1>2. ListShape
  BY DEF ListShape
<1>3. SpareShape
  BY DEF SpareShape
<1>4. CursorsSound
  BY DEF CursorsSound
<1>5. NoOverlap
  BY DEF NoOverlap, Within
<1>6. NoLeak
  BY DEF NoLeak, PS!End
<1>7. Coalesced
  BY DEF Coalesced
<1>8. QED
  BY <1>1, <1>2, <1>3, <1>4, <1>5, <1>6, <1>7 DEF Inv

(* What each part of the invariant depends on besides the record fields.   *)
LEMMA StutterInv == Inv /\ UNCHANGED vars => Inv'
<1> SUFFICES ASSUME Inv, UNCHANGED vars PROVE Inv'
    OBVIOUS
<1> USE DEF Inv, vars
<1>1. TypeOK'
  BY DEF TypeOK
<1>2. ListShape'
  BY DEF ListShape
<1>3. SpareShape'
  BY DEF SpareShape
<1>4. CursorsSound'
  BY DEF CursorsSound, Servable, MergesBack, LostBehindHead, RecordEnd
<1>5. NoOverlap'
  BY DEF NoOverlap
<1>6. NoLeak'
  BY DEF NoLeak, RecordEnd, ArgEnd
<1>7. Coalesced'
  BY DEF Coalesced, RecordEnd
<1>8. QED
  BY <1>1, <1>2, <1>3, <1>4, <1>5, <1>6, <1>7

(* Entering kmem_liballoc_alloc and stepping along the list change only    *)
(* the cursors.                                                            *)
LEMMA CallAllocInv ==
    ASSUME Inv, NEW n \in Requests, CallAlloc(n) PROVE Inv'
<1> USE DEF Inv, CallAlloc, records
<1>0. n \in Nat /\ n >= 1
  BY RequestsAssumption
<1>1. TypeOK'
  <2>1. arg' \in [ptr : 0 .. NumPages, size : Nat]
    BY <1>0, NumPagesAssumption
  <2>2. page' \in Structs \union {NULL} /\ prev' \in Structs \union {NULL}
    BY DEF TypeOK
  <2>3. pc' = "alloc"
    OBVIOUS
  <2>4. QED
    BY <2>1, <2>2, <2>3 DEF TypeOK
<1>2. ListShape'
  BY DEF ListShape
<1>3. SpareShape'
  BY DEF SpareShape
<1>4. CursorsSound'
  <2>1. kmem_free_pages \in onList
    BY DEF ListShape
  <2>2. arg'.size = n /\ page' = kmem_free_pages /\ prev' = NULL /\ pc' = "alloc"
    OBVIOUS
  <2>3. QED
    BY <1>0, <2>1, <2>2 DEF CursorsSound
<1>5. NoOverlap'
  BY DEF NoOverlap
<1>6. NoLeak'
  BY DEF NoLeak, RecordEnd
<1>7. Coalesced'
  BY DEF Coalesced, RecordEnd
<1>8. QED
  BY <1>1, <1>2, <1>3, <1>4, <1>5, <1>6, <1>7

LEMMA AllocAdvanceInv == Inv /\ AllocAdvance => Inv'
<1> SUFFICES ASSUME Inv, AllocAdvance PROVE Inv'
    OBVIOUS
<1> USE DEF Inv, AllocAdvance, records
<1>0. page \in onList /\ page \in Structs
  BY DEF CursorsSound, TypeOK, CircStructs, Structs, Last
<1>1. TypeOK'
  BY <1>0 DEF TypeOK
<1>2. ListShape'
  BY DEF ListShape
<1>3. SpareShape'
  BY DEF SpareShape
<1>4. CursorsSound'
  <2>1. page # NULL /\ next[page] \in onList
    BY <1>0 DEF ListShape, Structs, NULL
  <2>2. QED
    BY <1>0, <2>1 DEF CursorsSound
<1>5. NoOverlap'
  BY DEF NoOverlap
<1>6. NoLeak'
  BY DEF NoLeak, RecordEnd
<1>7. Coalesced'
  BY DEF Coalesced, RecordEnd
<1>8. QED
  BY <1>1, <1>2, <1>3, <1>4, <1>5, <1>6, <1>7

LEMMA AllocFailInv == Inv /\ AllocFail => Inv'
<1> SUFFICES ASSUME Inv, AllocFail PROVE Inv'
    OBVIOUS
<1> USE DEF Inv, AllocFail, records, Return, NoArg, NULL
<1>1. TypeOK'
  BY DEF TypeOK
<1>2. ListShape'
  BY DEF ListShape
<1>3. SpareShape'
  BY DEF SpareShape
<1>4. CursorsSound'
  BY DEF CursorsSound
<1>5. NoOverlap'
  BY DEF NoOverlap
<1>6. NoLeak'
  BY DEF NoLeak, RecordEnd
<1>7. Coalesced'
  BY DEF Coalesced, RecordEnd
<1>8. QED
  BY <1>1, <1>2, <1>3, <1>4, <1>5, <1>6, <1>7

(* Taking the front of an extent moves its start up.                       *)
LEMMA AllocSplitInv == Inv /\ AllocSplit => Inv'
<1> SUFFICES ASSUME Inv, AllocSplit PROVE Inv'
    OBVIOUS
<1> DEFINE e0 == [ptr |-> ptr[page], size |-> arg.size]
<1>1. page \in onList /\ arg.size \in Nat /\ 1 <= arg.size
  BY DEF Inv, CursorsSound, TypeOK, AllocSplit
<1>2. /\ page \in Structs /\ ptr[page] \in Nat /\ size[page] \in Nat
      /\ 1 <= ptr[page] /\ ptr[page] + size[page] <= NumPages + 1
  BY <1>1, Listed
<1>3. size[page] > arg.size
  BY DEF AllocSplit
<1>4. U16(size[page] - arg.size) = size[page] - arg.size
  <2>1. size[page] - arg.size \in Nat /\ size[page] - arg.size < 65536
    BY <1>1, <1>2, <1>3, NumPagesAssumption
  <2>2. QED
    BY <2>1, U16Small
<1>5. /\ size'[page] = size[page] - arg.size
      /\ \A q \in Structs : q # page => size'[q] = size[q]
      /\ DOMAIN size' = Structs /\ size' \in [Structs -> 0 .. NumPages]
      /\ ptr' = [ptr EXCEPT ![page] = ptr[page] + arg.size]
      /\ live' = live \union {e0}
      /\ pc' = "idle"
      /\ UNCHANGED <<kmem_free_pages, kmem_alloc_pages, next, onList>>
  <2> DEFINE left == U16(size[page] - arg.size)
  <2>0. left = size[page] - arg.size /\ left \in 0 .. NumPages
    BY <1>1, <1>2, <1>3, <1>4, NumPagesAssumption
  <2>6. size' = [size EXCEPT ![page] = left] /\ size \in [Structs -> 0 .. NumPages]
    BY DEF AllocSplit, Inv, TypeOK
  <2> HIDE DEF left
  <2>1. /\ size'[page] = size[page] - arg.size
        /\ \A q \in Structs : q # page => size'[q] = size[q]
        /\ DOMAIN size' = Structs /\ size' \in [Structs -> 0 .. NumPages]
    BY <1>2, <2>0, <2>6
  <2>2. ptr' = [ptr EXCEPT ![page] = ptr[page] + arg.size]
    BY DEF AllocSplit
  <2>3. live' = live \union {e0}
    BY DEF AllocSplit
  <2>4. pc' = "idle" /\ UNCHANGED <<kmem_free_pages, kmem_alloc_pages, next, onList>>
    BY DEF AllocSplit, Return
  <2>5. QED
    BY <2>1, <2>2, <2>3, <2>4
<1>6. TypeOK'
  <2>1. e0 \in PS!Extents
    BY <1>1, <1>2, <1>3 DEF PS!Extents
  <2>2. arg' \in [ptr : 0 .. NumPages, size : Nat] /\ prev' = NULL /\ page' = NULL
    BY NumPagesAssumption DEF AllocSplit, Return, NoArg
  <2>3. size' \in [Structs -> 0 .. NumPages] /\ ptr' \in [Structs -> 0 .. NumPages + 1]
    BY <1>1, <1>2, <1>3, <1>5 DEF Inv, TypeOK
  <2>4. QED
    BY <1>5, <2>1, <2>2, <2>3 DEF Inv, TypeOK
<1>7. /\ size'[page] = size[page] - arg.size
      /\ ptr'[page] = ptr[page] + arg.size
      /\ \A q \in onList : q # page => size'[q] = size[q] /\ ptr'[q] = ptr[q]
  BY <1>2, <1>5, Listed DEF Inv, TypeOK
<1>8. ListShape'
  BY <1>5 DEF Inv, ListShape
<1>9. SpareShape'
  BY <1>5 DEF Inv, SpareShape
<1>10. CursorsSound'
  BY <1>5 DEF CursorsSound
<1>11. NoOverlap'
  <2>1. \A e \in live' : Within(e.ptr, e.size)
    BY <1>1, <1>2, <1>3, <1>5, Held DEF Within
  <2>2. \A q \in onList' : Within(ptr'[q], size'[q])
    BY <1>1, <1>2, <1>3, <1>5, <1>7, Listed DEF Within
  <2>3. \A e, f \in live' : e # f => Apart(e.ptr, e.size, f.ptr, f.size)
    BY <1>1, <1>2, <1>3, <1>5, Held DEF Apart, Inv, NoOverlap
  <2>4. \A q, r \in onList' : q # r => Apart(ptr'[q], size'[q], ptr'[r], size'[r])
    BY <1>1, <1>2, <1>3, <1>5, <1>7, Listed DEF Apart, Inv, NoOverlap
  <2>5. \A e \in live', q \in onList' : Apart(e.ptr, e.size, ptr'[q], size'[q])
    BY <1>1, <1>2, <1>3, <1>5, <1>7, Listed, Held DEF Apart, Inv, NoOverlap
  <2>6. QED
    BY <1>5, <2>1, <2>2, <2>3, <2>4, <2>5 DEF NoOverlap
<1>12. NoLeak'
  <2> SUFFICES ASSUME NEW i \in 1 .. NumPages
               PROVE  \/ \E e \in live' : e.ptr <= i /\ i < e.ptr + e.size
                      \/ \E q \in onList : ptr'[q] <= i /\ i < ptr'[q] + size'[q]
    BY <1>5 DEF NoLeak, RecordEnd, PS!End
  <2>1. CASE \E e \in live : e.ptr <= i /\ i < e.ptr + e.size
    BY <1>5, <2>1
  <2>2. CASE \E q \in onList : ptr[q] <= i /\ i < ptr[q] + size[q]
    <3>1. PICK q \in onList : ptr[q] <= i /\ i < ptr[q] + size[q]
      BY <2>2
    <3>2. CASE q # page
      BY <1>7, <3>1, <3>2
    <3>3. CASE q = page /\ i < ptr[page] + arg.size
      <4>1. e0 \in live' /\ e0.ptr = ptr[page] /\ e0.size = arg.size
        BY <1>5
      <4>2. e0.ptr <= i /\ i < e0.ptr + e0.size
        BY <3>1, <3>3, <4>1
      <4>3. QED
        BY <4>1, <4>2
    <3>4. CASE q = page /\ ~(i < ptr[page] + arg.size)
      <4>1. ptr'[page] <= i /\ i < ptr'[page] + size'[page]
        BY <1>1, <1>2, <1>3, <1>7, <3>1, <3>4
      <4>2. QED
        BY <1>1, <4>1
    <3>5. QED
      BY <3>2, <3>3, <3>4
  <2>3. QED
    BY <2>1, <2>2 DEF Inv, NoLeak, RecordEnd, PS!End, AllocSplit
<1>13. Coalesced'
  BY <1>1, <1>2, <1>3, <1>5, <1>7, Listed DEF Inv, Coalesced, ListShape, RecordEnd
<1>14. QED
  BY <1>6, <1>8, <1>9, <1>10, <1>11, <1>12, <1>13 DEF Inv

(* An extent of exactly the size asked for is unlinked: the list loses one *)
(* record and the spare chain gains it.                                    *)
LEMMA AllocExactInv == Inv /\ AllocExact => Inv'
<1> SUFFICES ASSUME Inv, AllocExact PROVE Inv'
    OBVIOUS
<1> DEFINE e0 == [ptr |-> ptr[page], size |-> size[page]]
<1>1. /\ page \in onList
      /\ prev # NULL => prev \in onList /\ next[prev] = page
      /\ prev = NULL => page = kmem_free_pages
  BY DEF Inv, CursorsSound, AllocExact
<1>2. /\ page \in Structs /\ page \in CircStructs
      /\ ptr[page] \in Nat /\ size[page] \in Nat
      /\ 1 <= ptr[page] /\ 1 <= size[page] /\ ptr[page] + size[page] <= NumPages + 1
  BY <1>1, Listed
<1>3. NULL \notin Structs /\ CircStructs \subseteq Structs
  BY NumPagesAssumption DEF NULL, Structs, CircStructs, Last
<1>4. \A q \in onList : next[q] # q
  BY <1>3 DEF Inv, ListShape
<1>5. /\ kmem_alloc_pages' = page
      /\ onList' = onList \ {page}
      /\ live' = live \union {e0}
      /\ pc' = "idle"
  BY DEF AllocExact, Extent, Return
<1>6. /\ ptr' \in [Structs -> 0 .. NumPages + 1]
      /\ size' \in [Structs -> 0 .. NumPages]
      /\ \A q \in Structs : q # page => size'[q] = size[q] /\ ptr'[q] = ptr[q]
  BY <1>2, NumPagesAssumption DEF AllocExact, Inv, TypeOK
<1>7. /\ next' \in [Structs -> Structs \union {NULL}]
      /\ next'[page] = kmem_alloc_pages
      /\ prev # NULL => next'[prev] = next[page]
      /\ \A q \in Structs : q # page /\ q # prev => next'[q] = next[q]
      /\ kmem_free_pages' = IF prev = NULL THEN next[page] ELSE kmem_free_pages
      /\ kmem_free_pages' \in Structs \union {NULL}
  <2>1. prev # NULL => prev \in Structs /\ prev # page
    BY <1>1, <1>4, Listed
  <2>2. CASE prev = NULL
    BY <1>2, <1>3, <2>2 DEF AllocExact, Inv, TypeOK
  <2>3. CASE prev # NULL
    BY <1>2, <2>1, <2>3 DEF AllocExact, Inv, TypeOK
  <2>4. QED
    BY <2>2, <2>3
<1>8. TypeOK'
  <2>1. e0 \in PS!Extents
    BY <1>1, <1>2 DEF PS!Extents
  <2>2. arg' \in [ptr : 0 .. NumPages, size : Nat] /\ prev' = NULL /\ page' = NULL
    BY NumPagesAssumption DEF AllocExact, Return, NoArg
  <2>3. QED
    BY <1>2, <1>5, <1>6, <1>7, <2>1, <2>2 DEF Inv, TypeOK
<1>9. ListShape'
  <2>1. CASE kmem_free_pages = NULL /\ onList = {}
    BY <1>1, <2>1
  <2>2. ASSUME NEW a \in CircStructs,
               kmem_free_pages = a, next[a] = NULL, onList = {a}
        PROVE  ListShape'
    BY <1>1, <1>2, <1>3, <1>5, <1>7, <2>2 DEF ListShape
  <2>3. ASSUME NEW a \in CircStructs, NEW b \in CircStructs, a # b,
               kmem_free_pages = a, next[a] = b, next[b] = NULL, onList = {a, b}
        PROVE  ListShape'
    BY <1>1, <1>2, <1>3, <1>5, <1>7, <2>3 DEF ListShape
  <2>4. ASSUME NEW a \in CircStructs, NEW b \in CircStructs, NEW c \in CircStructs,
               a # b, a # c, b # c,
               kmem_free_pages = a, next[a] = b, next[b] = c, next[c] = NULL,
               onList = {a, b, c}
        PROVE  ListShape'
    BY <1>1, <1>2, <1>3, <1>5, <1>7, <2>4 DEF ListShape
  <2>5. QED
    BY <2>1, <2>2, <2>3, <2>4 DEF Inv, ListShape
<1>10. SpareShape'
  BY <1>1, <1>2, <1>3, <1>5, <1>7 DEF Inv, SpareShape, ListShape, CircStructs
<1>11. CursorsSound'
  BY <1>5 DEF CursorsSound
<1>12. NoOverlap'
  <2>1. \A e \in live' : Within(e.ptr, e.size)
    BY <1>2, <1>5, Held DEF Within
  <2>2. \A q \in onList' : Within(ptr'[q], size'[q])
    BY <1>5, <1>6, Listed DEF Within
  <2>3. \A e, f \in live' : e # f => Apart(e.ptr, e.size, f.ptr, f.size)
    BY <1>1, <1>2, <1>5, Held DEF Apart, Inv, NoOverlap
  <2>4. \A q, r \in onList' : q # r => Apart(ptr'[q], size'[q], ptr'[r], size'[r])
    BY <1>5, <1>6, Listed DEF Inv, NoOverlap
  <2>5. \A e \in live', q \in onList' : Apart(e.ptr, e.size, ptr'[q], size'[q])
    BY <1>1, <1>5, <1>6, Listed DEF Apart, Inv, NoOverlap
  <2>6. QED
    BY <1>5, <2>1, <2>2, <2>3, <2>4, <2>5 DEF NoOverlap
<1>13. NoLeak'
  <2> SUFFICES ASSUME NEW i \in 1 .. NumPages
               PROVE  \/ \E e \in live' : e.ptr <= i /\ i < e.ptr + e.size
                      \/ \E q \in onList' : ptr'[q] <= i /\ i < ptr'[q] + size'[q]
    BY <1>5 DEF NoLeak, RecordEnd, PS!End
  <2>1. CASE \E e \in live : e.ptr <= i /\ i < e.ptr + e.size
    BY <1>5, <2>1
  <2>2. CASE \E q \in onList : ptr[q] <= i /\ i < ptr[q] + size[q]
    <3>1. PICK q \in onList : ptr[q] <= i /\ i < ptr[q] + size[q]
      BY <2>2
    <3>2. CASE q # page
      BY <1>5, <1>6, <3>1, <3>2, Listed
    <3>3. CASE q = page
      <4>1. e0 \in live' /\ e0.ptr = ptr[page] /\ e0.size = size[page]
        BY <1>5
      <4>2. QED
        BY <3>1, <3>3, <4>1
    <3>4. QED
      BY <3>2, <3>3
  <2>3. QED
    BY <2>1, <2>2 DEF Inv, NoLeak, RecordEnd, PS!End, AllocExact
<1>14. Coalesced'
  BY <1>1, <1>2, <1>3, <1>5, <1>6, <1>7, Listed
     DEF Inv, Coalesced, ListShape, RecordEnd
<1>15. QED
  BY <1>8, <1>9, <1>10, <1>11, <1>12, <1>13, <1>14 DEF Inv

(* Entering kmem_liballoc_free moves the extent from its holder to the     *)
(* call; the list and the fields stay.                                     *)
LEMMA CallFreeInv ==
    ASSUME Inv, NEW e \in live, Servable(e), CallFree(e) PROVE Inv'
<1>1. /\ live' = live \ {e} /\ pc' = "free" /\ arg' = e
      /\ prev' = kmem_free_pages /\ page' = next[kmem_free_pages]
      /\ UNCHANGED records
  BY DEF CallFree, Servable
<1>2. kmem_free_pages \in onList /\ kmem_free_pages \in Structs
  BY Listed DEF Inv, ListShape, Servable
<1>3. e = [ptr |-> e.ptr, size |-> e.size] /\ e.ptr \in 1 .. NumPages
      /\ e.size \in 1 .. NumPages
  BY Held
<1>4. TypeOK'
  <2>1. arg' \in [ptr : 0 .. NumPages, size : Nat]
    BY <1>1, <1>3
  <2>2. QED
    BY <1>1, <1>2, <2>1 DEF Inv, TypeOK, records
<1>5. ListShape' /\ SpareShape' /\ Coalesced'
  BY <1>1 DEF Inv, ListShape, SpareShape, Coalesced, RecordEnd, records
<1>6. CursorsSound'
  <2>1. Servable(e)'
    BY <1>1 DEF Servable, MergesBack, LostBehindHead, RecordEnd, PS!End, records
  <2>2. QED
    BY <1>1, <1>2, <2>1 DEF CursorsSound, Servable, MergesBack, LostBehindHead,
                            RecordEnd, PS!End, records
<1>7. NoOverlap'
  BY <1>1 DEF Inv, NoOverlap, Within, Apart, records
<1>8. NoLeak'
  BY <1>1 DEF Inv, NoLeak, CallFree, RecordEnd, PS!End, ArgEnd, records
<1>9. QED
  BY <1>4, <1>5, <1>6, <1>7, <1>8 DEF Inv

LEMMA FreeAdvanceInv == Inv /\ FreeAdvance => Inv'
<1> SUFFICES ASSUME Inv, FreeAdvance PROVE Inv'
    OBVIOUS
<1>1. /\ pc = "free" /\ pc' = "free" /\ prev' = page /\ page' = next[page]
      /\ page # NULL /\ ptr[page] < arg.ptr
      /\ UNCHANGED << records, live, arg >>
  BY DEF FreeAdvance, BeforeArg
<1>2. page \in onList
  BY <1>1 DEF Inv, CursorsSound, ListShape
<1>3. page \in Structs
  BY <1>2, Listed
<1>4. TypeOK'
  BY <1>1, <1>3 DEF Inv, TypeOK, records
<1>5. ListShape' /\ SpareShape' /\ Coalesced'
  BY <1>1 DEF Inv, ListShape, SpareShape, Coalesced, RecordEnd, records
<1>6. CursorsSound'
  BY <1>1, <1>2 DEF Inv, CursorsSound, Servable, MergesBack, LostBehindHead,
                    RecordEnd, PS!End, records
<1>7. NoOverlap'
  BY <1>1 DEF Inv, NoOverlap, records
<1>8. NoLeak'
  BY <1>1 DEF Inv, NoLeak, RecordEnd, PS!End, ArgEnd, records
<1>9. QED
  BY <1>4, <1>5, <1>6, <1>7, <1>8 DEF Inv

(* Where the walk of a free stops, the extent lies between prev and page.  *)
LEMMA Stopped ==
    ASSUME Inv, pc = "free", ~BeforeArg
    PROVE  /\ prev \in onList /\ page = next[prev]
           /\ page # NULL => page \in onList /\ page # kmem_free_pages /\ page # prev
           /\ arg.ptr \in Nat /\ arg.size \in Nat /\ 1 <= arg.ptr /\ 1 <= arg.size
           /\ ArgEnd <= NumPages + 1
           /\ page # NULL => ArgEnd <= ptr[page]
           /\ prev # kmem_free_pages => RecordEnd(prev) <= arg.ptr
<1>1. prev \in onList /\ page = next[prev]
  BY DEF Inv, CursorsSound
<1>2. page # NULL => page \in onList /\ page # kmem_free_pages /\ page # prev
  BY <1>1, NumPagesAssumption DEF Inv, ListShape, CircStructs, Last, NULL
<1>3. /\ arg.ptr \in Nat /\ arg.size \in Nat /\ 1 <= arg.ptr /\ 1 <= arg.size
      /\ ArgEnd <= NumPages + 1
  BY DEF Inv, TypeOK, NoOverlap, Within, ArgEnd
<1>4. page # NULL => ArgEnd <= ptr[page]
  BY <1>2, <1>3, Listed DEF Inv, NoOverlap, Apart, ArgEnd, BeforeArg
<1>5. prev # kmem_free_pages => RecordEnd(prev) <= arg.ptr
  BY <1>1, <1>3, Listed DEF Inv, NoOverlap, Apart, RecordEnd, CursorsSound
<1>6. QED
  BY <1>1, <1>2, <1>3, <1>4, <1>5

(* A servable extent that does not extend prev extends no listed extent,   *)
(* so it is inserted, and a spare record is there for it.                  *)
LEMMA ServedByInsert ==
    ASSUME Inv, pc = "free", ~BeforeArg, ~Follows
    PROVE  /\ ~MergesBack(arg)
           /\ ~Precedes
           /\ ~(CircStructs \subseteq onList)
           /\ page # NULL => ArgEnd < ptr[page] /\ RecordEnd(prev) # ptr[page]
<1>1. ~MergesBack(arg)
  <2> SUFFICES ASSUME NEW q \in onList, RecordEnd(q) = arg.ptr,
                      next[q] # NULL => arg.ptr <= ptr[next[q]]
               PROVE  FALSE
    BY DEF MergesBack
  <2>1. q # prev
    BY DEF Follows
  <2>2. ptr[q] < arg.ptr
    BY Listed, Stopped DEF RecordEnd
  <2>3. prev # kmem_free_pages => ptr[prev] < arg.ptr
    BY DEF Inv, CursorsSound
  <2>4. prev \in onList /\ page = next[prev] /\ (page # NULL => arg.ptr < ptr[page])
    BY Stopped, Listed DEF ArgEnd
  <2>5. \A r \in onList : ptr[r] \in Nat /\ size[r] \in Nat
    BY Listed
  <2>6. NULL \notin CircStructs
    BY NumPagesAssumption DEF NULL, CircStructs, Last
  <2>7. \A r \in onList \ {kmem_free_pages} :
            next[r] # NULL => ptr[r] + size[r] < ptr[next[r]]
    BY DEF Inv, Coalesced, RecordEnd
  <2>8. arg.ptr \in Nat
    BY Stopped
  <2>9. CASE \E a \in CircStructs : next[a] = NULL /\ onList = {a}
    BY <2>1, <2>4, <2>9
  <2>10. ASSUME NEW a \in CircStructs, NEW b \in CircStructs, a # b,
                kmem_free_pages = a, next[a] = b, next[b] = NULL, onList = {a, b}
         PROVE  FALSE
    BY <2>1, <2>2, <2>3, <2>4, <2>5, <2>6, <2>8, <2>10
  <2>11. ASSUME NEW a \in CircStructs, NEW b \in CircStructs, NEW c \in CircStructs,
                a # b, a # c, b # c,
                kmem_free_pages = a, next[a] = b, next[b] = c, next[c] = NULL,
                onList = {a, b, c}
         PROVE  FALSE
    <3>1. ptr[b] + size[b] < ptr[c]
      BY <2>6, <2>7, <2>11
    <3>2. CASE prev = a
      BY <2>1, <2>2, <2>4, <2>5, <2>6, <2>8, <2>11, <3>1, <3>2
    <3>3. CASE prev = b
      BY <2>1, <2>2, <2>3, <2>4, <2>5, <2>6, <2>8, <2>11, <3>1, <3>3
    <3>4. CASE prev = c
      BY <2>1, <2>2, <2>3, <2>4, <2>5, <2>6, <2>8, <2>11, <3>1, <3>4
    <3>5. QED
      BY <2>4, <2>11, <3>2, <3>3, <3>4
  <2>12. QED
    BY <2>4, <2>9, <2>10, <2>11 DEF Inv, ListShape
<1>2. Servable(arg)
  BY DEF Inv, CursorsSound
<1>3. /\ ~(CircStructs \subseteq onList)
      /\ \A q \in onList \ {kmem_free_pages} : ptr[q] # ArgEnd
      /\ ~LostBehindHead(arg)
  BY <1>1, <1>2 DEF Servable, PS!End, ArgEnd
<1>4. ~Precedes
  BY <1>3, Stopped DEF Precedes
<1>5. page # NULL => ArgEnd < ptr[page]
  BY <1>3, Stopped, Listed DEF ArgEnd
<1>6. page # NULL => RecordEnd(prev) # ptr[page]
  <2>1. CASE prev = kmem_free_pages
    BY <1>3, <1>5, <2>1, Stopped, Listed DEF LostBehindHead, ArgEnd
  <2>2. CASE prev # kmem_free_pages
    BY <1>5, <2>2, Stopped, Listed DEF ArgEnd, RecordEnd
  <2>3. QED
    BY <2>1, <2>2
<1>7. QED
  BY <1>1, <1>3, <1>4, <1>5, <1>6

(* So kmem_liballoc_free of a servable extent never takes the branch that  *)
(* merges forwards and never finds the spare chain empty.                  *)
LEMMA MergesBehind == Inv /\ FreeMerge => Follows
BY ServedByInsert DEF FreeMerge

LEMMA SpareFound == Inv => kmem_alloc_pages # NULL
BY NumPagesAssumption DEF Inv, SpareShape, CircStructs, NULL, Last

(* The extent is added to the one it follows; the next one is taken over   *)
(* as well when the gap between them was exactly the extent.               *)
LEMMA FreeMergeInv == Inv /\ FreeMerge => Inv'
<1> SUFFICES ASSUME Inv, FreeMerge PROVE Inv'
    OBVIOUS
<1> DEFINE n == U16(size[prev] + arg.size)
           sz == [size EXCEPT ![prev] = n]
           m == U16(sz[prev] + sz[page])
<1>1. /\ pc = "free" /\ ~BeforeArg /\ Follows
      /\ pc' = "idle" /\ ptr' = ptr /\ live' = live
      /\ kmem_free_pages' = kmem_free_pages
  BY MergesBehind DEF FreeMerge, Return
<1>2. /\ prev \in onList /\ page = next[prev]
      /\ page # NULL => page \in onList /\ page # kmem_free_pages /\ page # prev
      /\ arg.ptr \in Nat /\ arg.size \in Nat /\ 1 <= arg.size
      /\ ptr[prev] + size[prev] = arg.ptr
      /\ arg.ptr + arg.size <= NumPages + 1
      /\ page # NULL => arg.ptr + arg.size <= ptr[page]
  BY <1>1, Stopped DEF Follows, RecordEnd, ArgEnd
<1>3. /\ prev \in Structs /\ ptr[prev] \in Nat /\ size[prev] \in Nat
      /\ 1 <= ptr[prev] /\ 1 <= size[prev]
  BY <1>2, Listed
<1>4. n = size[prev] + arg.size /\ n \in 0 .. NumPages
  <2>1. size[prev] + arg.size \in Nat /\ size[prev] + arg.size < 65536
    BY <1>2, <1>3, NumPagesAssumption
  <2>2. QED
    BY <1>2, <1>3, <2>1, U16Small
<1> HIDE DEF n
<1>5. /\ sz \in [Structs -> 0 .. NumPages]
      /\ sz[prev] = size[prev] + arg.size
      /\ \A q \in Structs : q # prev => sz[q] = size[q]
      /\ ptr[prev] + sz[prev] = arg.ptr + arg.size
  BY <1>2, <1>3, <1>4 DEF Inv, TypeOK
<1>6. AbsorbPage(ptr, sz, next, kmem_alloc_pages, onList)
  BY <1>1 DEF FreeMerge, n
<1>7. arg' \in [ptr : 0 .. NumPages, size : Nat] /\ prev' = NULL /\ page' = NULL
  BY NumPagesAssumption DEF FreeMerge, Return, NoArg
<1>8. CursorsSound'
  BY <1>1 DEF CursorsSound
<1> HIDE DEF sz
<1>9. CASE page # NULL /\ arg.ptr + arg.size = ptr[page]
  <2>1. /\ page \in onList /\ page \in Structs /\ page \in CircStructs
        /\ size[page] \in Nat /\ 1 <= size[page]
        /\ ptr[page] + size[page] <= NumPages + 1
    BY <1>2, <1>9, Listed
  <2>2. m = size[prev] + arg.size + size[page] /\ m \in 0 .. NumPages
    <3>1. sz[prev] + sz[page] = size[prev] + arg.size + size[page]
      BY <1>2, <1>3, <1>5, <1>9, <2>1
    <3>2. sz[prev] + sz[page] \in Nat /\ sz[prev] + sz[page] <= NumPages
      BY <1>2, <1>3, <1>9, <2>1, <3>1
    <3>3. sz[prev] + sz[page] < 65536
      BY <3>2, NumPagesAssumption
    <3>4. QED
      BY <3>1, <3>2, <3>3, U16Small
  <2>3. /\ size' = [sz EXCEPT ![prev] = m]
        /\ next' = [next EXCEPT ![prev] = next[page], ![page] = kmem_alloc_pages]
        /\ kmem_alloc_pages' = page
        /\ onList' = onList \ {page}
    BY <1>5, <1>6, <1>9 DEF AbsorbPage
  <2> HIDE DEF m
  <2>4. /\ size' \in [Structs -> 0 .. NumPages]
        /\ size'[prev] = size[prev] + arg.size + size[page]
        /\ \A q \in Structs : q # prev => size'[q] = size[q]
    BY <1>3, <1>5, <2>2, <2>3
  <2>5. /\ next' \in [Structs -> Structs \union {NULL}]
        /\ next'[page] = kmem_alloc_pages
        /\ next'[prev] = next[page]
        /\ \A q \in Structs : q # page /\ q # prev => next'[q] = next[q]
    BY <1>2, <1>3, <1>9, <2>1, <2>3 DEF Inv, TypeOK
  <2>6. TypeOK'
    BY <1>1, <1>7, <2>1, <2>3, <2>4, <2>5 DEF Inv, TypeOK
  <2>7. NULL \notin Structs /\ CircStructs \subseteq Structs
    BY NumPagesAssumption DEF NULL, Structs, CircStructs, Last
  <2>8. ListShape'
    BY <1>1, <1>2, <1>3, <1>9, <2>1, <2>3, <2>5, <2>7 DEF Inv, ListShape
  <2>9. SpareShape'
    BY <1>1, <1>2, <1>3, <1>9, <2>1, <2>3, <2>5, <2>7
       DEF Inv, SpareShape, ListShape, CircStructs
  <2>10. NoOverlap'
    <3>1. \A q \in onList' : Within(ptr[q], size'[q])
      BY <1>2, <1>3, <1>9, <2>1, <2>3, <2>4, Listed DEF Within
    <3>2. \A q, r \in onList' : q # r => Apart(ptr[q], size'[q], ptr[r], size'[r])
      BY <1>1, <1>2, <1>3, <1>9, <2>1, <2>3, <2>4, Listed DEF Inv, NoOverlap, Apart
    <3>3. \A e \in live, q \in onList' : Apart(e.ptr, e.size, ptr[q], size'[q])
      BY <1>1, <1>2, <1>3, <1>9, <2>1, <2>3, <2>4, Listed, Held DEF Inv, NoOverlap, Apart
    <3>4. QED
      BY <1>1, <3>1, <3>2, <3>3 DEF Inv, NoOverlap
  <2>11. NoLeak'
    <3> SUFFICES ASSUME NEW i \in 1 .. NumPages,
                        ~\E e \in live : e.ptr <= i /\ i < e.ptr + e.size
                 PROVE  \E q \in onList' : ptr[q] <= i /\ i < ptr[q] + size'[q]
      BY <1>1 DEF NoLeak, RecordEnd, PS!End
    <3>1. \/ \E q \in onList : ptr[q] <= i /\ i < ptr[q] + size[q]
          \/ arg.ptr <= i /\ i < arg.ptr + arg.size
      BY DEF Inv, NoLeak, RecordEnd, PS!End, ArgEnd
    <3>2. CASE ptr[prev] <= i /\ i < ptr[page] + size[page]
      BY <1>2, <1>3, <1>9, <2>1, <2>3, <2>4, <3>2
    <3>3. CASE ~(ptr[prev] <= i /\ i < ptr[page] + size[page])
      BY <1>2, <1>3, <1>9, <2>1, <2>3, <2>4, <3>1, <3>3, Listed
    <3>4. QED
      BY <3>2, <3>3
  <2>12. Coalesced'
    BY <1>1, <1>2, <1>3, <1>9, <2>1, <2>3, <2>4, <2>5, <2>7, Listed
       DEF Inv, Coalesced, ListShape, RecordEnd
  <2>13. QED
    BY <1>8, <2>6, <2>8, <2>9, <2>10, <2>11, <2>12 DEF Inv
<1>10. CASE ~(page # NULL /\ arg.ptr + arg.size = ptr[page])
  <2>1. size' = sz /\ UNCHANGED << next, kmem_alloc_pages, onList >>
    BY <1>5, <1>6, <1>10 DEF AbsorbPage
  <2>2. TypeOK'
    BY <1>1, <1>5, <1>7, <2>1 DEF Inv, TypeOK
  <2>3. ListShape' /\ SpareShape'
    BY <1>1, <2>1 DEF Inv, ListShape, SpareShape
  <2>4. NoOverlap'
    <3>1. \A q \in onList : Within(ptr[q], sz[q])
      BY <1>2, <1>3, <1>5, Listed DEF Within
    <3>2. \A q, r \in onList : q # r => Apart(ptr[q], sz[q], ptr[r], sz[r])
      BY <1>1, <1>2, <1>3, <1>5, Listed DEF Inv, NoOverlap, Apart
    <3>3. \A e \in live, q \in onList : Apart(e.ptr, e.size, ptr[q], sz[q])
      BY <1>1, <1>2, <1>3, <1>5, Listed, Held DEF Inv, NoOverlap, Apart
    <3>4. QED
      BY <1>1, <2>1, <3>1, <3>2, <3>3 DEF Inv, NoOverlap
  <2>5. NoLeak'
    <3> SUFFICES ASSUME NEW i \in 1 .. NumPages,
                        ~\E e \in live : e.ptr <= i /\ i < e.ptr + e.size
                 PROVE  \E q \in onList : ptr[q] <= i /\ i < ptr[q] + sz[q]
      BY <1>1, <2>1 DEF NoLeak, RecordEnd, PS!End
    <3>1. \/ \E q \in onList : ptr[q] <= i /\ i < ptr[q] + size[q]
          \/ arg.ptr <= i /\ i < arg.ptr + arg.size
      BY DEF Inv, NoLeak, RecordEnd, PS!End, ArgEnd
    <3>2. QED
      BY <1>2, <1>3, <1>5, <3>1, Listed
  <2>6. Coalesced'
    BY <1>1, <1>2, <1>3, <1>5, <1>10, <2>1, Listed DEF Inv, Coalesced, RecordEnd, ListShape
  <2>7. QED
    BY <1>8, <2>2, <2>3, <2>4, <2>5, <2>6 DEF Inv
<1>11. QED
  BY <1>9, <1>10

(* The extent gets a record of its own between prev and page, the first of *)
(* the spare chain, and nothing is absorbed.                               *)
LEMMA FreeInsertInv == Inv /\ FreeInsert => Inv'
<1> SUFFICES ASSUME Inv, FreeInsert PROVE Inv'
    OBVIOUS
<1> DEFINE new == kmem_alloc_pages
           n == U16(arg.size)
           pt == [ptr EXCEPT ![new] = arg.ptr]
           sz == [size EXCEPT ![new] = n]
           nx == [next EXCEPT ![new] = page, ![prev] = new]
<1>1. /\ pc = "free" /\ ~BeforeArg /\ ~Follows
      /\ pc' = "idle" /\ ptr' = pt /\ live' = live
      /\ kmem_free_pages' = kmem_free_pages
      /\ AbsorbPage(pt, sz, nx, next[new], onList \union {new})
      /\ arg' = NoArg /\ prev' = NULL /\ page' = NULL
  BY SpareFound DEF FreeInsert, InsertRecord, Return
<1>2. /\ prev \in onList /\ page = next[prev]
      /\ page # NULL => page \in onList /\ page # kmem_free_pages /\ page # prev
      /\ arg.ptr \in Nat /\ arg.size \in Nat /\ 1 <= arg.size /\ 1 <= arg.ptr
      /\ arg.ptr + arg.size <= NumPages + 1
      /\ prev # kmem_free_pages => ptr[prev] + size[prev] < arg.ptr
      /\ page # NULL => arg.ptr + arg.size < ptr[page] /\ ptr[prev] + size[prev] # ptr[page]
      /\ ~(CircStructs \subseteq onList)
  <2>1. prev \in onList /\ ptr[prev] + size[prev] # arg.ptr
    BY <1>1, Stopped DEF Follows, RecordEnd
  <2>2. ptr[prev] + size[prev] \in Nat /\ arg.ptr \in Nat
    BY <1>1, <2>1, Stopped, Listed
  <2>3. QED
    BY <1>1, <2>1, <2>2, Stopped, ServedByInsert DEF RecordEnd, ArgEnd
<1>3. prev \in Structs /\ NULL \notin Structs /\ CircStructs \subseteq Structs
  BY <1>2, Listed, NumPagesAssumption DEF NULL, Structs, CircStructs, Last
<1>4. kmem_free_pages # NULL /\ kmem_free_pages \in onList
  <2>1. kmem_free_pages # NULL
    BY <1>1 DEF Inv, CursorsSound, Servable
  <2>2. QED
    BY <2>1 DEF Inv, ListShape
<1>5. /\ new \in CircStructs /\ new \in Structs /\ new \notin onList
      /\ next[new] \in CircStructs
      /\ \A q \in CircStructs \ onList : q # new => next[new] = q
      /\ new # prev /\ new # page
  BY <1>2, <1>3, <1>4 DEF Inv, SpareShape
<1>6. n = arg.size /\ n \in 0 .. NumPages
  <2>1. arg.size < 65536
    BY <1>2, NumPagesAssumption
  <2>2. QED
    BY <1>2, <2>1, U16Small
<1> HIDE DEF n
<1>7. /\ pt \in [Structs -> 0 .. NumPages + 1]
      /\ sz \in [Structs -> 0 .. NumPages]
      /\ nx \in [Structs -> Structs \union {NULL}]
      /\ pt[new] = arg.ptr /\ sz[new] = arg.size
      /\ nx[new] = page /\ nx[prev] = new
      /\ \A q \in Structs : q # new => pt[q] = ptr[q] /\ sz[q] = size[q]
      /\ \A q \in Structs : q # new /\ q # prev => nx[q] = next[q]
  BY <1>2, <1>3, <1>5, <1>6 DEF Inv, TypeOK
<1> HIDE DEF pt, sz, nx
<1>8. /\ ptr' = pt /\ size' = sz /\ next' = nx
      /\ kmem_alloc_pages' = next[new] /\ onList' = onList \union {new}
  <2>1. ~(page # NULL /\ pt[prev] + sz[prev] = pt[page])
    BY <1>2, <1>3, <1>5, <1>7, Listed
  <2>2. QED
    BY <1>1, <2>1 DEF AbsorbPage
<1> HIDE DEF new
<1>9. TypeOK'
  <2>1. arg' \in [ptr : 0 .. NumPages, size : Nat] /\ prev' = NULL /\ page' = NULL
    BY <1>1, NumPagesAssumption DEF NoArg
  <2>2. QED
    BY <1>1, <1>3, <1>5, <1>7, <1>8, <2>1 DEF Inv, TypeOK
<1>10. ListShape'
  <2>1. ASSUME NEW a \in CircStructs,
               kmem_free_pages = a, next[a] = NULL, onList = {a}
        PROVE  ListShape'
    BY <1>1, <1>2, <1>3, <1>5, <1>7, <1>8, <2>1 DEF ListShape
  <2>2. ASSUME NEW a \in CircStructs, NEW b \in CircStructs, a # b,
               kmem_free_pages = a, next[a] = b, next[b] = NULL, onList = {a, b}
        PROVE  ListShape'
    BY <1>1, <1>2, <1>3, <1>5, <1>7, <1>8, <2>2 DEF ListShape
  <2>3. ASSUME NEW a \in CircStructs, NEW b \in CircStructs, NEW c \in CircStructs,
               a # b, a # c, b # c, onList = {a, b, c}
        PROVE  FALSE
    BY <1>2, <2>3 DEF CircStructs
  <2>4. QED
    BY <1>4, <2>1, <2>2, <2>3 DEF Inv, ListShape
<1>11. SpareShape'
  <2>1. \A q \in CircStructs \ onList : next[q] \in CircStructs
    BY <1>2, <1>4 DEF Inv, SpareShape
  <2>2. \A q \in CircStructs \ onList' :
            q \notin onList /\ q # new /\ q = next[new] /\ nx[q] = next[q]
    BY <1>2, <1>3, <1>5, <1>7, <1>8
  <2>3. ~(CircStructs \subseteq onList') => next[new] \notin onList'
    BY <2>2
  <2>4. QED
    BY <1>5, <1>8, <2>1, <2>2, <2>3 DEF SpareShape
<1>12. CursorsSound'
  BY <1>1 DEF CursorsSound
<1>13. NoOverlap'
  <2>1. \A q \in onList' : Within(pt[q], sz[q])
    BY <1>2, <1>5, <1>7, <1>8, Listed DEF Within
  <2>2. \A q, r \in onList' : q # r => Apart(pt[q], sz[q], pt[r], sz[r])
    BY <1>1, <1>2, <1>5, <1>7, <1>8, Listed DEF Inv, NoOverlap, Apart
  <2>3. \A e \in live, q \in onList' : Apart(e.ptr, e.size, pt[q], sz[q])
    BY <1>1, <1>2, <1>5, <1>7, <1>8, Listed, Held DEF Inv, NoOverlap, Apart
  <2>4. QED
    BY <1>1, <1>8, <2>1, <2>2, <2>3 DEF Inv, NoOverlap
<1>14. NoLeak'
  <2> SUFFICES ASSUME NEW i \in 1 .. NumPages,
                      ~\E e \in live : e.ptr <= i /\ i < e.ptr + e.size
               PROVE  \E q \in onList' : pt[q] <= i /\ i < pt[q] + sz[q]
    BY <1>1, <1>8 DEF NoLeak, RecordEnd, PS!End
  <2>1. \/ \E q \in onList : ptr[q] <= i /\ i < ptr[q] + size[q]
        \/ arg.ptr <= i /\ i < arg.ptr + arg.size
    BY DEF Inv, NoLeak, RecordEnd, PS!End, ArgEnd
  <2>2. QED
    BY <1>5, <1>7, <1>8, <2>1, Listed
<1>15. Coalesced'
  <2> SUFFICES ASSUME NEW q \in onList', q # kmem_free_pages, nx[q] # NULL
               PROVE  pt[q] + sz[q] < pt[nx[q]]
    BY <1>1, <1>8 DEF Coalesced, RecordEnd
  <2>1. CASE q = new
    BY <1>2, <1>3, <1>5, <1>7, <2>1, Listed
  <2>2. CASE q = prev
    BY <1>2, <1>3, <1>5, <1>7, <2>2, Listed
  <2>3. CASE q # new /\ q # prev
    <3>1. q \in onList /\ nx[q] = next[q] /\ next[q] \in onList
      BY <1>5, <1>7, <1>8, <2>3, Listed DEF Inv, ListShape
    <3>2. QED
      BY <1>5, <1>7, <2>3, <3>1, Listed DEF Inv, Coalesced, RecordEnd
  <2>4. QED
    BY <2>1, <2>2, <2>3
<1>16. QED
  BY <1>9, <1>10, <1>11, <1>12, <1>13, <1>14, <1>15 DEF Inv

-----------------------------------------------------------------------------
(* The inductive invariant holds in every reachable state, for every heap  *)
(* size and every set of requests.                                         *)
THEOREM Invariance == Spec => []Inv
<1>1. Inv /\ [Next]_vars => Inv'
  <2> SUFFICES ASSUME Inv, [Next]_vars PROVE Inv'
      OBVIOUS
  <2>1. CASE AllocFromEmpty
    BY <2>1, StutterInv DEF AllocFromEmpty
  <2>2. ASSUME NEW n \in Requests, CallAlloc(n) PROVE Inv'
    BY <2>2, CallAllocInv
  <2>3. CASE AllocStep
    BY <2>3, AllocExactInv, AllocSplitInv, AllocAdvanceInv, AllocFailInv DEF AllocStep
  <2>4. ASSUME NEW e \in live, Servable(e), CallFree(e) PROVE Inv'
    BY <2>4, CallFreeInv
  <2>5. CASE FreeStep
    BY <2>5, FreeAdvanceInv, FreeMergeInv, FreeInsertInv DEF FreeStep
  <2>6. CASE UNCHANGED vars
    BY <2>6, StutterInv
  <2>7. QED
    BY <2>1, <2>2, <2>3, <2>4, <2>5, <2>6 DEF Next
<1>2. QED
  BY InitInv, <1>1, PTL DEF Spec

(* The fields of kmem.c keep their types: no size wraps its uint16_t, no   *)
(* call panics or follows a wild pointer.                                  *)
THEOREM TypeCorrect == Spec => []TypeOK
<1>1. Inv => TypeOK
  BY DEF Inv
<1>2. QED
  BY Invariance, <1>1, PTL

(* No page has two owners, whatever clients of the Servable discipline do. *)
THEOREM PagesHaveOneOwner == Spec => []NoOverlap
<1>1. Inv => NoOverlap
  BY DEF Inv
<1>2. QED
  BY Invariance, <1>1, PTL

(* No page of the heap is ever lost to such clients.                       *)
THEOREM NoPageIsLost == Spec => []NoLeak
<1>1. Inv => NoLeak
  BY DEF Inv
<1>2. QED
  BY Invariance, <1>1, PTL

(* Past its head the free list stays in address order and merged.          *)
THEOREM FreeListCoalesced == Spec => []Coalesced
<1>1. Inv => Coalesced
  BY DEF Inv
<1>2. QED
  BY Invariance, <1>1, PTL

(* kmem_liballoc_free never reuses a record the free list still needs.     *)
THEOREM SpareRecordsAreSpare == Spec => []SparePoolSound
<1>1. Inv => SparePoolSound
  <2> SUFFICES ASSUME Inv, kmem_alloc_pages \in onList PROVE CircStructs \subseteq onList
      BY DEF SparePoolSound
  <2>1. CASE kmem_free_pages = NULL
    <3>1. NULL \notin CircStructs
      BY NumPagesAssumption DEF NULL, CircStructs, Last
    <3>2. onList = {}
      BY <2>1, <3>1 DEF Inv, ListShape
    <3>3. QED
      BY <3>2
  <2>2. CASE kmem_free_pages # NULL
    BY <2>2 DEF Inv, SpareShape
  <2>3. QED
    BY <2>1, <2>2
<1>2. QED
  BY Invariance, <1>1, PTL

(* kmem_liballoc_alloc and kmem_liballoc_free implement the page source:   *)
(* each returning step is an Alloc, each accepted free a Free, and every   *)
(* step inside a call a stutter.                                           *)
THEOREM ImplementsPageSource == Spec => PageSourceSpec
<1>1. Init => PS!Init
  BY DEF Init, PS!Init
<1>2. Inv /\ [Next]_vars => [PS!Next]_live
  <2> SUFFICES ASSUME Inv, [Next]_vars PROVE PS!Next \/ live' = live
      OBVIOUS
  <2>1. ASSUME NEW e \in live, CallFree(e) PROVE PS!Next
    <3>1. PS!Free(e)
      BY <2>1 DEF CallFree, PS!Free
    <3>2. QED
      BY <3>1 DEF PS!Next
  <2>2. CASE AllocExact
    <3>1. page \in onList
      BY <2>2 DEF Inv, CursorsSound, AllocExact
    <3>2. /\ ptr[page] \in 1 .. NumPages /\ size[page] \in 1 .. NumPages
          /\ ptr[page] + size[page] <= NumPages + 1
      BY <3>1, Listed, NumPagesAssumption
    <3>3. Extent(page) \in live' \ live
      <4>1. Extent(page) \in live'
        BY <2>2 DEF AllocExact
      <4>2. \A f \in live : Apart(f.ptr, f.size, ptr[page], size[page])
        BY <3>1 DEF Inv, NoOverlap
      <4>3. Extent(page) \notin live
        BY <3>2, <4>2 DEF Extent, Apart
      <4>4. QED
        BY <4>1, <4>3
    <3>4. PS!Alloc(Extent(page))
      BY <2>2, <3>1, <3>2 DEF Inv, NoOverlap, Apart, Extent, AllocExact, PS!Alloc,
                              PS!InHeap, PS!Disjoint, PS!End
    <3>5. QED
      BY <3>3, <3>4 DEF PS!Next
  <2>3. CASE AllocSplit
    <3> DEFINE e0 == [ptr |-> ptr[page], size |-> arg.size]
    <3>1. page \in onList /\ arg.size \in Nat /\ 1 <= arg.size /\ arg.size < size[page]
      BY <2>3, Listed DEF Inv, CursorsSound, TypeOK, AllocSplit
    <3>2. /\ ptr[page] \in 1 .. NumPages /\ size[page] \in 1 .. NumPages
          /\ ptr[page] + size[page] <= NumPages + 1
      BY <3>1, Listed, NumPagesAssumption
    <3>3. e0 \in live' \ live
      <4>1. e0 \in live'
        BY <2>3 DEF AllocSplit
      <4>2. \A f \in live : Apart(f.ptr, f.size, ptr[page], size[page])
        BY <3>1 DEF Inv, NoOverlap
      <4>3. e0 \notin live
        BY <3>1, <3>2, <4>2 DEF Apart
      <4>4. QED
        BY <4>1, <4>3
    <3>4. PS!Alloc(e0)
      BY <2>3, <3>1, <3>2, Held DEF Inv, NoOverlap, Apart, AllocSplit, PS!Alloc,
                              PS!InHeap, PS!Disjoint, PS!End
    <3>5. QED
      BY <3>3, <3>4 DEF PS!Next
  <2>4. CASE AllocFromEmpty \/ (\E n \in Requests : CallAlloc(n)) \/ AllocAdvance
             \/ AllocFail \/ FreeStep \/ UNCHANGED vars
    BY <2>4 DEF AllocFromEmpty, CallAlloc, AllocAdvance, AllocFail, FreeStep, FreeAdvance,
                FreeMerge, FreeInsert, vars
  <2>5. QED
    BY <2>1, <2>2, <2>3, <2>4 DEF Next, AllocStep
<1>3. QED
  BY <1>1, <1>2, Invariance, PTL DEF Spec, PS!Spec, PageSourceSpec

=============================================================================
