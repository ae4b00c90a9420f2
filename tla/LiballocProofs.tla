---------------------------- MODULE LiballocProofs ----------------------------
(***************************************************************************)
(* Proofs that the kernel heap keeps its boundary tags, its bins and its   *)
(* clients' regions consistent, and that it implements the pool of bytes   *)
(* of module ExtentPool, whatever the sizes (module Liballoc).             *)
(***************************************************************************)
EXTENDS Liballoc, FiniteSetTheorems, WellFoundedInduction, TLAPS

-----------------------------------------------------------------------------
(* Machine words and the bins.                                             *)

LEMMA ConstantTypes ==
    /\ NumPages \in Nat \ {0} /\ PageSize \in Nat \ {0} /\ PageCount \in Nat \ {0}
    /\ Hdr \in Nat \ {0} /\ MaxComplete \in Nat \ {0}
    /\ MinExp \in Nat \ {0} /\ MaxExp \in Nat \ {0} /\ MinExp < MaxExp
    /\ Hdr < PageSize
    /\ Word \in Nat \ {0}
    /\ (NumPages + 1) * PageSize < Word
    /\ 2 * Hdr < Word
<1>1. NumPages \in Nat \ {0} /\ PageSize \in Nat \ {0} /\ Hdr \in Nat \ {0} /\ Hdr < PageSize
  BY LiballocAssumption
<1>2. 2 ^ MaxExp \in Int
  <2>1. \A n \in Nat : 2 ^ n \in Int
    BY Z3
  <2>2. QED
    BY <2>1, LiballocAssumption
<1>3. (NumPages + 1) * PageSize \in Nat /\ 2 * PageSize <= (NumPages + 1) * PageSize
  BY <1>1, Z3
<1>4. Word \in Int /\ (NumPages + 1) * PageSize < Word
  BY <1>2, LiballocAssumption DEF Word
<1>5. QED
  BY <1>1, <1>3, <1>4, LiballocAssumption

(* What a word makes of a number within one word's length of it.           *)
LEMMA WordValue ==
    /\ \A n \in Int : U(n) \in 0 .. Word - 1
    /\ \A n \in 0 .. Word - 1 : U(n) = n
    /\ \A n \in Int : -Word <= n /\ n < 0 => U(n) = n + Word
<1>1. ASSUME NEW w \in Nat \ {0}, NEW n \in Int
      PROVE  /\ n % w \in 0 .. w - 1
             /\ 0 <= n /\ n < w => n % w = n
             /\ -w <= n /\ n < 0 => n % w = n + w
  BY <1>1, Z3
<1>2. Word \in Nat \ {0}
  BY ConstantTypes
<1>3. \A n \in Int : /\ n % Word \in 0 .. Word - 1
                     /\ (0 <= n /\ n < Word => n % Word = n)
                     /\ (-Word <= n /\ n < 0 => n % Word = n + Word)
  BY <1>1, <1>2
<1>4. \A n \in Int : U(n) = n % Word
  BY DEF U
<1>5. QED
  BY <1>2, <1>3, <1>4

LEMMA Least ==
    ASSUME NEW S, S \subseteq Nat, S # {}
    PROVE  \E i \in S : \A j \in S : i <= j
<1> DEFINE Less == OpToRel(<, Nat)
<1>1. \A i, j \in Nat : i < j => << i, j >> \in Less
  BY DEF OpToRel
<1>2. IsWellFoundedOn(Less, Nat)
  BY NatLessThanWellFounded
<1> HIDE DEF Less
<1>3. PICK i \in S : \A j \in S : ~(<< j, i >> \in Less)
  BY <1>2, WFMin
<1>4. ASSUME NEW j \in S PROVE i <= j
  <2>1. i \in Nat /\ j \in Nat /\ ~(j < i)
    BY <1>1, <1>3
  <2>2. QED
    BY <2>1
<1>5. QED
  BY <1>4

(* Every size has a bin.                                                   *)
LEMMA BinOfType == \A n \in Int : BinOf(n) \in Bins
<1>1. SUFFICES ASSUME NEW n \in Int PROVE BinOf(n) \in Bins
  OBVIOUS
<1>2. MinExp \in Bins /\ \A k \in Bins : k \in Nat /\ MinExp <= k /\ 1 <= k
  BY ConstantTypes DEF Bins
<1>3. CASE n < 2 ^ MinExp
  BY <1>2, <1>3 DEF BinOf, GetExp
<1>4. CASE ~(n < 2 ^ MinExp)
  <2>1. \A k \in Nat : 2 ^ k \in Int
    BY Z3
  <2> DEFINE S == {d \in 0 .. MaxExp : MaxExp - d \in Bins /\ 2 ^ (MaxExp - d) <= n}
  <2>2. MaxExp - MinExp \in S
    <3>1. MaxExp - (MaxExp - MinExp) = MinExp /\ MaxExp - MinExp \in 0 .. MaxExp
      BY ConstantTypes
    <3>2. 2 ^ MinExp <= n
      BY <1>4, <2>1, ConstantTypes
    <3>3. QED
      BY <1>2, <3>1, <3>2
  <2>3. PICK d \in S : \A c \in S : d <= c
    <3>1. S \subseteq Nat /\ S # {}
      <4>1. 0 .. MaxExp \subseteq Nat
        BY ConstantTypes
      <4>2. QED
        BY <2>2, <4>1
    <3> HIDE DEF S
    <3>2. QED
      BY <3>1, Least
  <2> DEFINE k == MaxExp - d
  <2>4. k \in Bins /\ 2 ^ k <= n
    BY <2>3
  <2>5. k + 1 \in Bins => n < 2 ^ (k + 1)
    <3>1. SUFFICES ASSUME k + 1 \in Bins, ~(n < 2 ^ (k + 1)) PROVE FALSE
      OBVIOUS
    <3>2. k + 1 \in Nat /\ 2 ^ (k + 1) <= n
      BY <3>1, <1>2, <2>1
    <3>3. d - 1 \in 0 .. MaxExp /\ MaxExp - (d - 1) = k + 1
      BY <2>3, <3>1, ConstantTypes DEF Bins
    <3>4. d - 1 \in S
      BY <3>1, <3>2, <3>3
    <3>5. QED
      BY <2>3, <3>3, <3>4
  <2> HIDE DEF k
  <2>6. GetExp(n) \in Bins
    BY <1>4, <2>4, <2>5 DEF GetExp
  <2>7. QED
    BY <1>2, <2>6 DEF BinOf
<1>5. QED
  BY <1>3, <1>4

-----------------------------------------------------------------------------
(* The inductive invariant of the heap, in parts.  h is a heap as the      *)
(* operators of Liballoc see it, T its boundary tags.                      *)

TagFields == [real_size : 0 .. Word - 1, size : 0 .. Word - 1,
              index : {-1} \union Bins,
              left : Nat, right : Nat, next : Nat, prev : Nat]

Typed(h) ==
    /\ h = [tag |-> h.tag, bins |-> h.bins]
    /\ DOMAIN h.tag \subseteq Nat \ {0}
    /\ h.tag \in [DOMAIN h.tag -> TagFields]
    /\ h.bins \in [Bins -> Nat]

(* A bin's doubly linked list, seen from each of its pieces; the pieces in *)
(* use are on no list.                                                     *)
ListsOf(h) ==
    /\ \A b \in Bins : h.bins[b] # NULL =>
          h.bins[b] \in DOMAIN h.tag /\ h.tag[h.bins[b]].index = b
    /\ \A a \in DOMAIN h.tag :
          LET t == h.tag[a] IN
          /\ t.index = -1 => t.next = NULL /\ t.prev = NULL
          /\ t.index # -1 =>
                /\ t.prev = NULL <=> h.bins[t.index] = a
                /\ t.prev # NULL => t.prev \in DOMAIN h.tag /\ h.tag[t.prev].next = a
                /\ t.next # NULL =>
                      /\ t.next \in DOMAIN h.tag
                      /\ h.tag[t.next].prev = a
                      /\ h.tag[t.next].index = t.index

(* The pieces: neighbours point at each other and lie side by side, and    *)
(* no piece begins inside another.                                         *)
PiecesOf(T) ==
    \A a \in DOMAIN T :
        LET t == T[a] IN
        /\ t.real_size > Hdr
        /\ t.right # NULL =>
              t.right \in DOMAIN T /\ t.right = a + t.real_size /\ T[t.right].left = a
        /\ t.left # NULL => t.left \in DOMAIN T /\ T[t.left].right = a
        /\ \A b \in DOMAIN T : a < b => a + t.real_size <= b

(* What two heaps that differ only in their lists have in common.          *)
SamePieces(S, T) ==
    /\ DOMAIN S = DOMAIN T
    /\ \A a \in DOMAIN T :
          /\ S[a].real_size = T[a].real_size
          /\ S[a].left = T[a].left
          /\ S[a].right = T[a].right

(* S is T after the piece a has taken over its right neighbour.            *)
Merging(S, T, a) ==
    LET r == T[a].right IN
    /\ DOMAIN S = DOMAIN T \ {r}
    /\ \A x \in DOMAIN S :
          /\ S[x].real_size = IF x = a THEN T[a].real_size + T[r].real_size
                                       ELSE T[x].real_size
          /\ S[x].right = IF x = a THEN T[r].right ELSE T[x].right
          /\ S[x].left = IF x = T[r].right THEN a ELSE T[x].left
          /\ S[x].index = T[x].index

(* S is T after the piece a was cut at the address m, where a free piece   *)
(* begins.                                                                 *)
Cut(S, T, a, m) ==
    /\ m \notin DOMAIN T
    /\ DOMAIN S = DOMAIN T \union {m}
    /\ a < m /\ m < a + T[a].real_size
    /\ S[m].real_size = a + T[a].real_size - m
    /\ S[m].index = BinOf(S[m].real_size - Hdr)
    /\ S[m].left = a
    /\ S[m].right = T[a].right
    /\ \A x \in DOMAIN T :
          /\ S[x].real_size = IF x = a THEN m - a ELSE T[x].real_size
          /\ S[x].right = IF x = a THEN m ELSE T[x].right
          /\ S[x].left = IF x = T[a].right THEN m ELSE T[x].left
          /\ S[x].index = T[x].index

(* S is T after the piece a has given a client n bytes and kept what is    *)
(* left over or made it a free piece.                                      *)
Carved(S, T, a, n) ==
    /\ S[a].real_size >= n + Hdr
    /\ \/ SamePieces(S, T) /\ \A x \in DOMAIN T : S[x].index = T[x].index
       \/ \E m \in Nat : Cut(S, T, a, m)

(* The blocks of pages are extents of the page source, apart from each     *)
(* other, and no shorter than the shortest the heap asks for.              *)
BlocksApart(B) ==
    /\ B \subseteq PS!Extents
    /\ \A e \in B : PS!InHeap(e) /\ e.size >= PageCount
    /\ \A e, f \in B : e # f => PS!Disjoint(e, f)

(* A piece lies in a block; the first piece of a block, and only that, has *)
(* no left neighbour, and a piece with no right neighbour ends a block.    *)
InBlocks(T, B) ==
    /\ \A a \in DOMAIN T :
          /\ \E e \in B : /\ Address(e.ptr) <= a
                             /\ a + T[a].real_size <= Address(PS!End(e))
          /\ T[a].left = NULL => \E e \in B : a = Address(e.ptr)
          /\ T[a].right = NULL => \E e \in B : a + T[a].real_size = Address(PS!End(e))
    /\ \A e \in B : Address(e.ptr) \in DOMAIN T /\ T[Address(e.ptr)].left = NULL

Sized(T) == \A a \in DOMAIN T : T[a].index # -1 => T[a].index = BinOf(T[a].real_size - Hdr)

Merged(T) ==
    \A a \in DOMAIN T :
        T[a].index # -1 /\ T[a].right # NULL => T[T[a].right].index = -1

WholeIn(T, b) == {a \in DOMAIN T : T[a].index = b /\ Whole(T[a])}

InUse(T) == {a \in DOMAIN T : T[a].index = -1}

Counted(T, c) ==
    /\ c \in [Bins -> 0 .. MaxComplete]
    /\ \A b \in Bins : c[b] = Cardinality(WholeIn(T, b))

HeapOK ==
    /\ Typed(Heap)
    /\ ListsOf(Heap)
    /\ PiecesOf(tag)
    /\ BlocksApart(held)
    /\ InBlocks(tag, held)
    /\ Sized(tag)
    /\ Merged(tag)
    /\ Counted(tag, completePages)

(* The pieces in use are those of the clients' regions and the piece that  *)
(* a free in progress holds.                                               *)
ClientTags == {r.ptr - Hdr : r \in used}

RegionsHeld ==
    /\ used \subseteq [ptr : Nat, size : Nat \ {0}]
    /\ \A r \in used : /\ r.ptr - Hdr \in DOMAIN tag
                       /\ r.ptr + r.size <= r.ptr - Hdr + tag[r.ptr - Hdr].real_size
    /\ \A r, s \in used : r.ptr = s.ptr => r = s
    /\ InUse(tag) = ClientTags \union (IF pc = "free" THEN {cur} ELSE {})

(* What a call in progress has established.                                *)
CallState ==
    /\ pc \in {"idle", "search", "replace", "free", "fault"}
    /\ cur \in DOMAIN tag \union {NULL}
    /\ pc = "search" => /\ size \in Nat \ {0} /\ size + Hdr < Word
                        /\ call.bytes = size
                        /\ cur # NULL => tag[cur].index = BinOf(size)
    /\ pc = "search" /\ call.op = "realloc" => call.old \in used
    /\ pc = "replace" => call.old \in used
    /\ pc = "free" => cur \in InUse(tag) /\ cur \notin ClientTags

IInv == HeapOK /\ RegionsHeld /\ CallState

-----------------------------------------------------------------------------
LEMMA TypedHeap ==
    ASSUME NEW h, Typed(h)
    PROVE  /\ h.tag \in [DOMAIN h.tag -> TagFields]
           /\ h.bins \in [Bins -> Nat]
           /\ DOMAIN h.tag \subseteq Nat \ {0}
           /\ NULL \notin DOMAIN h.tag
           /\ -1 \notin Bins
           /\ \A x \in DOMAIN h.tag :
                 /\ h.tag[x] \in TagFields
                 /\ h.tag[x].real_size \in Nat /\ h.tag[x].size \in Nat
                 /\ h.tag[x].index \in {-1} \union Bins
                 /\ h.tag[x].left \in Nat /\ h.tag[x].right \in Nat
                 /\ h.tag[x].next \in Nat /\ h.tag[x].prev \in Nat
<1>1. /\ h.tag \in [DOMAIN h.tag -> TagFields]
      /\ h.bins \in [Bins -> Nat]
      /\ DOMAIN h.tag \subseteq Nat \ {0}
  BY DEF Typed
<1>2. -1 \notin Bins
  BY ConstantTypes DEF Bins
<1>3. ASSUME NEW x \in DOMAIN h.tag
      PROVE  /\ h.tag[x] \in TagFields
             /\ h.tag[x].real_size \in Nat /\ h.tag[x].size \in Nat
             /\ h.tag[x].index \in {-1} \union Bins
             /\ h.tag[x].left \in Nat /\ h.tag[x].right \in Nat
             /\ h.tag[x].next \in Nat /\ h.tag[x].prev \in Nat
  <2>1. h.tag[x] \in TagFields
    BY <1>1
  <2>2. QED
    BY <2>1, ConstantTypes DEF TagFields
<1>4. QED
  BY <1>1, <1>2, <1>3 DEF NULL

(* A piece's fields after it was taken off its list. *)
LEMMA LooseTag ==
    ASSUME NEW t \in TagFields
    PROVE  LET u == [t EXCEPT !.next = NULL, !.prev = NULL, !.index = -1] IN
           /\ u \in TagFields /\ u.next = NULL /\ u.prev = NULL /\ u.index = -1
           /\ u.left = t.left /\ u.right = t.right
           /\ u.real_size = t.real_size /\ u.size = t.size
<1> DEFINE widths == 0 .. Word - 1
           indexes == {-1} \union Bins
<1>1. t \in [real_size : widths, size : widths, index : indexes,
             left : Nat, right : Nat, next : Nat, prev : Nat]
  BY DEF TagFields
<1>2. -1 \in indexes /\ NULL \in Nat
  BY DEF NULL
<1> HIDE DEF widths, indexes
<1>3. [t EXCEPT !.next = NULL, !.prev = NULL, !.index = -1] \in
          [real_size : widths, size : widths, index : indexes,
           left : Nat, right : Nat, next : Nat, prev : Nat]
  BY <1>1, <1>2
<1>4. QED
  BY <1>1, <1>3 DEF TagFields, widths, indexes

(* Taking a piece off its list. *)
LEMMA RemoveTagEffect ==
    ASSUME NEW h, Typed(h), ListsOf(h),
           NEW a \in DOMAIN h.tag, h.tag[a].index # -1
    PROVE  LET g == RemoveTag(h, a) IN
           /\ Typed(g)
           /\ SamePieces(g.tag, h.tag)
           /\ \A x \in DOMAIN h.tag :
                 /\ g.tag[x].size = h.tag[x].size
                 /\ g.tag[x].index = IF x = a THEN -1 ELSE h.tag[x].index
           /\ ListsOf(g)
<1> DEFINE T == h.tag
           D == DOMAIN T
           t == T[a]
           g == RemoveTag(h, a)
           S == g.tag
<1>1. /\ T \in [D -> TagFields] /\ h.bins \in [Bins -> Nat] /\ D \subseteq Nat \ {0}
      /\ t.index \in Bins /\ -1 \notin Bins
      /\ t.prev \in D \union {NULL} /\ t.next \in D \union {NULL}
  <2>1. t.index \in Bins
    BY TypedHeap
  <2>2. t.prev \in D \union {NULL} /\ t.next \in D \union {NULL}
    BY DEF ListsOf
  <2>3. QED
    BY <2>1, <2>2, TypedHeap
<1> DEFINE unprev == IF t.prev # NULL THEN [T EXCEPT ![t.prev].next = t.next] ELSE T
           unnext == IF t.next # NULL THEN [unprev EXCEPT ![t.next].prev = t.prev] ELSE unprev
<1>2. /\ unprev \in [D -> TagFields]
      /\ \A x \in D : /\ unprev[x].next = IF x = t.prev THEN t.next ELSE T[x].next
                      /\ unprev[x].prev = T[x].prev /\ unprev[x].index = T[x].index
                      /\ unprev[x].left = T[x].left /\ unprev[x].right = T[x].right
                      /\ unprev[x].real_size = T[x].real_size
                      /\ unprev[x].size = T[x].size
  BY <1>1 DEF TagFields, NULL
<1> HIDE DEF unprev
<1>3. /\ unnext \in [D -> TagFields]
      /\ \A x \in D : /\ unnext[x].next = unprev[x].next
                      /\ unnext[x].prev = IF x = t.next THEN t.prev ELSE unprev[x].prev
                      /\ unnext[x].index = unprev[x].index
                      /\ unnext[x].left = unprev[x].left
                      /\ unnext[x].right = unprev[x].right
                      /\ unnext[x].real_size = unprev[x].real_size
                      /\ unnext[x].size = unprev[x].size
  BY <1>1, <1>2 DEF TagFields, NULL
<1> HIDE DEF unnext
<1>4. /\ S = [unnext EXCEPT ![a].next = NULL, ![a].prev = NULL, ![a].index = -1]
      /\ g.bins = IF h.bins[t.index] = a THEN [h.bins EXCEPT ![t.index] = t.next]
                                         ELSE h.bins
      /\ g = [tag |-> S, bins |-> g.bins]
  BY DEF RemoveTag, unnext, unprev
<1> HIDE DEF g
<1>5. /\ S \in [D -> TagFields]
      /\ \A x \in D : /\ S[x].next = IF x = a THEN NULL
                                     ELSE IF x = t.prev THEN t.next ELSE T[x].next
                      /\ S[x].prev = IF x = a THEN NULL
                                     ELSE IF x = t.next THEN t.prev ELSE T[x].prev
                      /\ S[x].index = IF x = a THEN -1 ELSE T[x].index
                      /\ S[x].left = T[x].left
                      /\ S[x].right = T[x].right
                      /\ S[x].real_size = T[x].real_size
                      /\ S[x].size = T[x].size
  <2> DEFINE loose == [unnext[a] EXCEPT !.next = NULL, !.prev = NULL, !.index = -1]
  <2>1. /\ loose \in TagFields /\ loose.next = NULL /\ loose.prev = NULL /\ loose.index = -1
        /\ loose.left = unnext[a].left /\ loose.right = unnext[a].right
        /\ loose.real_size = unnext[a].real_size /\ loose.size = unnext[a].size
    <3>1. unnext[a] \in TagFields
      BY <1>3
    <3>2. QED
      BY <3>1, LooseTag
  <2>2. S = [unnext EXCEPT ![a] = loose]
    BY <1>3, <1>4
  <2> HIDE DEF loose
  <2>3. /\ S \in [D -> TagFields] /\ S[a] = loose
        /\ \A x \in D : x # a => S[x] = unnext[x]
    BY <1>3, <2>1, <2>2
  <2> HIDE DEF S
  <2>4. QED
    BY <1>2, <1>3, <2>1, <2>3
<1>6. Typed(g) /\ SamePieces(S, T)
  <2>1. g.bins \in [Bins -> Nat]
    BY <1>1, <1>4 DEF NULL
  <2>2. DOMAIN S = D
    BY <1>5
  <2>3. Typed(g)
    BY <1>1, <1>4, <1>5, <2>1, <2>2 DEF Typed
  <2>4. QED
    BY <1>5, <2>2, <2>3 DEF SamePieces
<1>7. ListsOf(g)
  <2>1. ASSUME NEW b \in Bins, g.bins[b] # NULL
        PROVE  g.bins[b] \in D /\ S[g.bins[b]].index = b
    <3>1. CASE h.bins[t.index] = a /\ b = t.index
      <4>1. g.bins[b] = t.next
        BY <1>1, <1>4, <3>1
      <4>2. t.next \in D /\ T[t.next].prev = a /\ T[t.next].index = t.index
        BY <2>1, <4>1 DEF ListsOf
      <4>3. t.next # a
        BY <3>1, <4>2, TypedHeap DEF ListsOf, NULL
      <4>4. QED
        BY <1>5, <3>1, <4>1, <4>2, <4>3
    <3>2. CASE ~ (h.bins[t.index] = a /\ b = t.index)
      <4>1. g.bins[b] = h.bins[b]
        BY <1>1, <1>4, <3>2
      <4>2. h.bins[b] \in D /\ T[h.bins[b]].index = b
        BY <2>1, <4>1 DEF ListsOf
      <4>3. h.bins[b] # a
        BY <3>2, <4>2
      <4>4. QED
        BY <1>5, <4>1, <4>2, <4>3
    <3>3. QED
      BY <3>1, <3>2
  <2>2. ASSUME NEW x \in D, S[x].index = -1
        PROVE  S[x].next = NULL /\ S[x].prev = NULL
    BY <1>1, <1>5, <2>2 DEF ListsOf, NULL
  <2>3. ASSUME NEW x \in D, S[x].index # -1
        PROVE  S[x].prev = NULL <=> g.bins[S[x].index] = x
    <3>1. /\ x # a /\ T[x].index \in Bins /\ T[x].index # -1 /\ S[x].index = T[x].index
          /\ S[x].prev = IF x = t.next THEN t.prev ELSE T[x].prev
      BY <1>1, <1>5, <2>3 DEF TagFields
    <3>2. T[x].prev = NULL <=> h.bins[T[x].index] = x
      BY <3>1 DEF ListsOf
    <3>3. /\ t.prev = NULL <=> h.bins[t.index] = a
          /\ t.next # NULL => T[t.next].prev = a /\ T[t.next].index = t.index
      BY DEF ListsOf
    <3>4. x # NULL /\ a # NULL /\ t.index \in Bins
      BY <1>1, TypedHeap
    <3>5. CASE x = t.next
      <4>1. T[x].prev = a /\ T[x].index = t.index
        BY <3>3, <3>4, <3>5
      <4>2. CASE t.prev = NULL
        <5>1. g.bins[t.index] = t.next
          BY <1>1, <1>4, <3>3, <3>4, <4>2
        <5>2. QED
          BY <3>1, <3>5, <4>1, <4>2, <5>1
      <4>3. CASE t.prev # NULL
        BY <1>4, <3>1, <3>2, <3>3, <3>4, <3>5, <4>1, <4>3
      <4>4. QED
        BY <4>2, <4>3
    <3>6. CASE x # t.next
      <4>1. CASE h.bins[t.index] = a /\ T[x].index = t.index
        <5>1. g.bins[T[x].index] = t.next
          BY <1>1, <1>4, <3>1, <4>1
        <5>2. QED
          BY <3>1, <3>2, <3>6, <4>1, <5>1
      <4>2. CASE ~ (h.bins[t.index] = a /\ T[x].index = t.index)
        <5>1. g.bins[T[x].index] = h.bins[T[x].index]
          BY <1>1, <1>4, <3>1, <4>2
        <5>2. QED
          BY <3>1, <3>2, <3>6, <5>1
      <4>3. QED
        BY <4>1, <4>2
    <3>7. QED
      BY <3>5, <3>6
  <2>4. ASSUME NEW x \in D, S[x].index # -1, S[x].prev # NULL
        PROVE  S[x].prev \in D /\ S[S[x].prev].next = x
    BY <1>1, <1>5, <2>4 DEF ListsOf, NULL
  <2>5. ASSUME NEW x \in D, S[x].index # -1, S[x].next # NULL
        PROVE  S[x].next \in D /\ S[S[x].next].prev = x /\ S[S[x].next].index = S[x].index
    BY <1>1, <1>5, <2>5 DEF ListsOf, NULL
  <2>6. DOMAIN S = D
    BY <1>5
  <2>7. QED
    BY <2>1, <2>2, <2>3, <2>4, <2>5, <2>6 DEF ListsOf
<1>8. QED
  BY <1>5, <1>6, <1>7 DEF g

(* Putting a piece that is on no list at the front of one.                 *)
LEMMA InsertTagEffect ==
    ASSUME NEW h, Typed(h), ListsOf(h), NEW b \in Bins,
           NEW a \in DOMAIN h.tag, h.tag[a].index = -1
    PROVE  LET g == InsertTag(h, a, b) IN
           /\ Typed(g)
           /\ SamePieces(g.tag, h.tag)
           /\ \A x \in DOMAIN h.tag :
                 /\ g.tag[x].size = h.tag[x].size
                 /\ g.tag[x].index = IF x = a THEN b ELSE h.tag[x].index
           /\ ListsOf(g)
<1> DEFINE T == h.tag
           D == DOMAIN T
           first == h.bins[b]
           g == InsertTag(h, a, b)
           S == g.tag
<1>1. /\ T \in [D -> TagFields] /\ h.bins \in [Bins -> Nat] /\ D \subseteq Nat \ {0}
      /\ -1 \notin Bins
      /\ first \in D \union {NULL} /\ first # a
      /\ T[a].next = NULL /\ T[a].prev = NULL
  <2>1. first \in D \union {NULL} /\ (first # NULL => T[first].index = b)
    BY DEF ListsOf
  <2>2. T[a].next = NULL /\ T[a].prev = NULL
    BY DEF ListsOf
  <2>3. QED
    BY <2>1, <2>2, TypedHeap
<1> DEFINE linked == [T EXCEPT ![a].index = b,
                               ![a].next = IF first # NULL THEN first ELSE @]
<1>2. /\ linked \in [D -> TagFields]
      /\ \A x \in D : /\ linked[x].next = IF x = a THEN first ELSE T[x].next
                      /\ linked[x].index = IF x = a THEN b ELSE T[x].index
                      /\ linked[x].prev = T[x].prev
                      /\ linked[x].left = T[x].left /\ linked[x].right = T[x].right
                      /\ linked[x].real_size = T[x].real_size
                      /\ linked[x].size = T[x].size
  BY <1>1 DEF TagFields, NULL
<1> HIDE DEF linked
<1>3. /\ S = IF first # NULL THEN [linked EXCEPT ![first].prev = a] ELSE linked
      /\ g.bins = [h.bins EXCEPT ![b] = a]
      /\ g = [tag |-> S, bins |-> g.bins]
  BY DEF InsertTag, linked
<1> HIDE DEF g
<1>4. /\ S \in [D -> TagFields]
      /\ \A x \in D : /\ S[x].next = IF x = a THEN first ELSE T[x].next
                      /\ S[x].prev = IF x = first THEN a ELSE T[x].prev
                      /\ S[x].index = IF x = a THEN b ELSE T[x].index
                      /\ S[x].left = T[x].left
                      /\ S[x].right = T[x].right
                      /\ S[x].real_size = T[x].real_size
                      /\ S[x].size = T[x].size
  <2>1. CASE first = NULL
    BY <1>1, <1>2, <1>3, <2>1 DEF NULL
  <2>2. CASE first # NULL
    <3>1. S = [linked EXCEPT ![first].prev = a] /\ first \in D /\ a \in Nat
      BY <1>1, <1>3, <2>2
    <3>2. QED
      BY <1>2, <3>1 DEF TagFields
  <2>3. QED
    BY <2>1, <2>2
<1>5. Typed(g) /\ SamePieces(S, T)
  BY <1>1, <1>3, <1>4 DEF Typed, SamePieces
<1>6. ListsOf(g)
  <2>1. ASSUME NEW c \in Bins, g.bins[c] # NULL
        PROVE  g.bins[c] \in D /\ S[g.bins[c]].index = c
    BY <1>1, <1>3, <1>4, <2>1 DEF ListsOf, NULL
  <2>2. ASSUME NEW x \in D, S[x].index = -1
        PROVE  S[x].next = NULL /\ S[x].prev = NULL
    BY <1>1, <1>4, <2>2 DEF ListsOf, NULL
  <2>3. ASSUME NEW x \in D, S[x].index # -1
        PROVE  S[x].prev = NULL <=> g.bins[S[x].index] = x
    <3>1. S[x].index \in Bins /\ (x # a => T[x].index \in Bins)
      BY <1>1, <1>4, <2>3 DEF TagFields
    <3>2. QED
      BY <1>1, <1>3, <1>4, <3>1 DEF ListsOf, NULL
  <2>4. ASSUME NEW x \in D, S[x].index # -1, S[x].prev # NULL
        PROVE  S[x].prev \in D /\ S[S[x].prev].next = x
    BY <1>1, <1>4, <2>4 DEF ListsOf, NULL
  <2>5. ASSUME NEW x \in D, S[x].index # -1, S[x].next # NULL
        PROVE  S[x].next \in D /\ S[S[x].next].prev = x /\ S[S[x].next].index = S[x].index
    BY <1>1, <1>4, <2>5 DEF ListsOf, NULL
  <2>6. DOMAIN S = D
    BY <1>4
  <2>7. QED
    BY <2>1, <2>2, <2>3, <2>4, <2>5, <2>6 DEF ListsOf
<1>7. QED
  BY <1>4, <1>5, <1>6 DEF g

(* A piece takes over its right neighbour, which is on no list.            *)
LEMMA SwallowEffect ==
    ASSUME NEW h, Typed(h), ListsOf(h), PiecesOf(h.tag),
           NEW a \in DOMAIN h.tag, h.tag[a].right # NULL,
           h.tag[h.tag[a].right].index = -1,
           h.tag[a].real_size + h.tag[h.tag[a].right].real_size < Word
    PROVE  LET g == Swallow(h, a) IN
           /\ Typed(g) /\ ListsOf(g) /\ PiecesOf(g.tag)
           /\ Merging(g.tag, h.tag, a)
<1> DEFINE T == h.tag
           D == DOMAIN T
           r == T[a].right
           beyond == T[r].right
           g == Swallow(h, a)
           S == g.tag
           E == D \ {r}
           sum == T[a].real_size + T[r].real_size
<1>1. /\ T \in [D -> TagFields] /\ h.bins \in [Bins -> Nat] /\ D \subseteq Nat \ {0}
      /\ NULL \notin D
      /\ r \in D /\ r # a /\ T[r].left = a
      /\ beyond \in Nat /\ beyond # r /\ (beyond # NULL => beyond \in D)
      /\ sum \in 0 .. Word - 1
  <2>1. r \in D /\ r = a + T[a].real_size /\ T[r].left = a /\ T[a].real_size > Hdr
    BY DEF PiecesOf
  <2>2. T[r].real_size > Hdr /\ (beyond # NULL => beyond \in D /\ beyond = r + T[r].real_size)
    BY <2>1 DEF PiecesOf
  <2>3. r # a
    BY <2>1, TypedHeap, ConstantTypes
  <2>4. beyond # r
    BY <2>1, <2>2, TypedHeap, ConstantTypes
  <2>5. sum \in 0 .. Word - 1
    BY <2>1, TypedHeap, ConstantTypes
  <2>6. QED
    BY <2>1, <2>2, <2>3, <2>4, <2>5, TypedHeap
<1>2. U(T[a].real_size + T[r].real_size) = sum
  BY <1>1, WordValue
<1> DEFINE grown == [T EXCEPT ![a].real_size = U(@ + T[r].real_size), ![a].right = beyond]
           relinked == IF beyond # NULL THEN [grown EXCEPT ![beyond].left = a] ELSE grown
<1>3. grown = [T EXCEPT ![a].real_size = sum, ![a].right = beyond]
  BY <1>1, <1>2
<1>4. /\ grown \in [D -> TagFields]
      /\ \A x \in D : /\ grown[x].real_size = IF x = a THEN sum ELSE T[x].real_size
                      /\ grown[x].right = IF x = a THEN beyond ELSE T[x].right
                      /\ grown[x].left = T[x].left
                      /\ grown[x].index = T[x].index
                      /\ grown[x].next = T[x].next /\ grown[x].prev = T[x].prev
  <2> HIDE DEF grown, sum, beyond
  <2>1. QED
    BY <1>1, <1>3 DEF TagFields
<1> HIDE DEF grown
<1>5. /\ relinked \in [D -> TagFields]
      /\ \A x \in D : /\ relinked[x].real_size = grown[x].real_size
                      /\ relinked[x].right = grown[x].right
                      /\ relinked[x].left = IF x = beyond THEN a ELSE grown[x].left
                      /\ relinked[x].index = grown[x].index
                      /\ relinked[x].next = grown[x].next
                      /\ relinked[x].prev = grown[x].prev
  <2>1. CASE beyond = NULL
    BY <1>1, <1>4, <2>1
  <2>2. CASE beyond # NULL
    <3>1. relinked = [grown EXCEPT ![beyond].left = a] /\ beyond \in D /\ a \in Nat
      BY <1>1, <2>2
    <3> HIDE DEF relinked, beyond
    <3>2. QED
      BY <1>4, <3>1 DEF TagFields
  <2>3. QED
    BY <2>1, <2>2
<1>6. g = [tag |-> Without(relinked, r), bins |-> h.bins]
  <2>1. g = [h EXCEPT !.tag = Without(relinked, r)]
    BY DEF Swallow, relinked, grown
  <2>2. h = [tag |-> T, bins |-> h.bins]
    BY DEF Typed
  <2> HIDE DEF g, relinked, T
  <2>3. QED
    BY <2>1, <2>2
<1> HIDE DEF g, relinked
<1>7. S = [x \in E |-> relinked[x]]
  BY <1>5, <1>6 DEF Without
<1>8. /\ S \in [E -> TagFields] /\ DOMAIN S = E /\ g.bins = h.bins
      /\ g = [tag |-> S, bins |-> g.bins]
      /\ \A x \in E : /\ S[x].real_size = IF x = a THEN sum ELSE T[x].real_size
                      /\ S[x].right = IF x = a THEN beyond ELSE T[x].right
                      /\ S[x].left = IF x = beyond THEN a ELSE T[x].left
                      /\ S[x].index = T[x].index
                      /\ S[x].next = T[x].next /\ S[x].prev = T[x].prev
  <2>1. \A x \in E : x \in D /\ S[x] = relinked[x]
    BY <1>7
  <2>2. S \in [E -> TagFields] /\ DOMAIN S = E
    BY <1>5, <1>7
  <2>3. g.bins = h.bins /\ g = [tag |-> S, bins |-> g.bins]
    BY <1>6
  <2> HIDE DEF sum, beyond, r, E, S
  <2>4. QED
    BY <1>4, <1>5, <2>1, <2>2, <2>3
<1>9. Typed(g) /\ Merging(S, T, a)
  BY <1>1, <1>8 DEF Typed, Merging
<1>10. ListsOf(g)
  <2>1. ASSUME NEW x \in D
        PROVE  T[x].next # r /\ T[x].prev # r
    BY <1>1, <2>1, TypedHeap DEF ListsOf
  <2>2. ASSUME NEW b \in Bins, h.bins[b] # NULL
        PROVE  h.bins[b] \in E /\ T[h.bins[b]].index = b
    BY <1>1, <2>2, TypedHeap DEF ListsOf
  <2>3. ASSUME NEW x \in E, T[x].index # -1
        PROVE  /\ T[x].prev # NULL => T[x].prev \in E /\ T[T[x].prev].next = x
               /\ T[x].next # NULL =>
                     T[x].next \in E /\ T[T[x].next].prev = x /\ T[T[x].next].index = T[x].index
               /\ T[x].prev = NULL <=> h.bins[T[x].index] = x
    BY <2>1, <2>3 DEF ListsOf
  <2>4. \A x \in E : T[x].index = -1 => T[x].next = NULL /\ T[x].prev = NULL
    BY DEF ListsOf
  <2>5. /\ DOMAIN S = E /\ g.bins = h.bins
        /\ \A x \in E : S[x].index = T[x].index /\ S[x].next = T[x].next /\ S[x].prev = T[x].prev
    BY <1>8
  <2> HIDE DEF E, S, T
  <2>6. QED
    BY <2>2, <2>3, <2>4, <2>5 DEF ListsOf, S
<1>11. PiecesOf(S)
  <2> SUFFICES ASSUME NEW x \in E
               PROVE  /\ S[x].real_size > Hdr
                      /\ S[x].right # NULL => /\ S[x].right \in E
                                              /\ S[x].right = x + S[x].real_size
                                              /\ S[S[x].right].left = x
                      /\ S[x].left # NULL => S[x].left \in E /\ S[S[x].left].right = x
                      /\ \A b \in E : x < b => x + S[x].real_size <= b
    BY <1>8 DEF PiecesOf
  <2>1. /\ T[a].real_size > Hdr /\ r = a + T[a].real_size /\ T[r].real_size > Hdr
        /\ beyond # NULL => beyond = r + T[r].real_size /\ T[beyond].left = r
    BY <1>1 DEF PiecesOf
  <2>2. /\ a \in Nat /\ r \in Nat /\ T[a].real_size \in Nat /\ T[r].real_size \in Nat
        /\ Hdr \in Nat /\ x \in Nat /\ T[x].real_size \in Nat
    BY <1>1, TypedHeap, ConstantTypes
  <2>3. /\ T[x].real_size > Hdr
        /\ T[x].right # NULL => /\ T[x].right \in D /\ T[x].right = x + T[x].real_size
                                /\ T[T[x].right].left = x
        /\ T[x].left # NULL => T[x].left \in D /\ T[T[x].left].right = x
        /\ \A b \in D : x < b => x + T[x].real_size <= b
    BY DEF PiecesOf
  <2>4. S[x].real_size > Hdr
    BY <1>8, <2>1, <2>2, <2>3
  <2>5. S[x].right # NULL => /\ S[x].right \in E /\ S[x].right = x + S[x].real_size
                             /\ S[S[x].right].left = x
    <3>1. CASE x = a
      <4>1. S[x].right = beyond /\ S[x].real_size = sum
        BY <1>8, <3>1
      <4>2. beyond # NULL => beyond = a + sum
        BY <2>1, <2>2
      <4> HIDE DEF sum, beyond, r, E, S
      <4>3. beyond # NULL => beyond \in E /\ S[beyond].left = a
        BY <1>1, <1>8 DEF E
      <4>4. QED
        BY <3>1, <4>1, <4>2, <4>3
    <3>2. CASE x # a
      <4>1. T[x].right # r
        BY <1>1, <2>3, <3>2
      <4>2. T[x].right # NULL => T[x].right # beyond
        BY <1>1, <2>1, <2>3
      <4> HIDE DEF sum, beyond, r, S
      <4>3. QED
        BY <1>1, <1>8, <2>3, <3>2, <4>1, <4>2
    <3>3. QED
      BY <3>1, <3>2
  <2>6. S[x].left # NULL => S[x].left \in E /\ S[S[x].left].right = x
    <3>1. CASE x = beyond
      BY <1>1, <1>8, <3>1
    <3>2. CASE x # beyond
      <4>1. T[x].left # r
        BY <1>1, <2>3, <3>2
      <4>2. T[x].left # a
        BY <1>1, <2>3
      <4> HIDE DEF sum, beyond, r, S
      <4>3. QED
        BY <1>1, <1>8, <2>3, <3>2, <4>1, <4>2
    <3>3. QED
      BY <3>1, <3>2
  <2>7. ASSUME NEW b \in E, x < b
        PROVE  x + S[x].real_size <= b
    <3>1. CASE x = a
      <4>1. b \in D /\ b # r /\ a + T[a].real_size <= b
        BY <2>3, <2>7, <3>1
      <4>2. r < b /\ b \in Nat
        BY <1>1, <2>1, <2>2, <4>1
      <4>3. r + T[r].real_size <= b
        BY <1>1, <4>1, <4>2 DEF PiecesOf
      <4>4. QED
        BY <1>8, <2>1, <2>2, <3>1, <4>2, <4>3
    <3>2. CASE x # a
      BY <1>8, <2>3, <2>7, <3>2
    <3>3. QED
      BY <3>1, <3>2
  <2>8. QED
    BY <2>4, <2>5, <2>6, <2>7
<1>12. QED
  BY <1>9, <1>10, <1>11 DEF g

(* Pages as bytes. *)
LEMMA BlockTypes ==
    ASSUME NEW B, BlocksApart(B), NEW e \in B
    PROVE  /\ e = [ptr |-> e.ptr, size |-> e.size]
           /\ e.ptr \in Nat \ {0} /\ e.size \in Nat \ {0} /\ PS!End(e) \in Nat
           /\ Address(e.ptr) \in Nat /\ Address(PS!End(e)) \in Nat
           /\ e.size * PageSize \in Nat
           /\ PageSize <= Address(e.ptr)
           /\ PageSize <= e.size * PageSize
           /\ Address(PS!End(e)) = Address(e.ptr) + e.size * PageSize
           /\ Address(PS!End(e)) <= (NumPages + 1) * PageSize
<1>1. /\ e.ptr \in Nat \ {0} /\ e.size \in Nat \ {0}
      /\ PS!End(e) = e.ptr + e.size /\ e.ptr + e.size <= NumPages + 1
      /\ e = [ptr |-> e.ptr, size |-> e.size]
  BY ConstantTypes DEF BlocksApart, PS!Extents, PS!End, PS!InHeap
<1>2. ASSUME NEW p \in Nat \ {0}, NEW s \in Nat \ {0}, NEW d \in Nat \ {0}, NEW N \in Nat,
             p + s <= N + 1
      PROVE  /\ p * d \in Nat /\ (p + s) * d \in Nat /\ s * d \in Nat
             /\ d <= p * d /\ d <= s * d
             /\ (p + s) * d = p * d + s * d
             /\ (p + s) * d <= (N + 1) * d
  BY <1>2, Z3
<1>3. QED
  BY <1>1, <1>2, ConstantTypes DEF Address

LEMMA PiecesKept ==
    ASSUME NEW S, NEW T, SamePieces(S, T), PiecesOf(T)
    PROVE  PiecesOf(S)
BY DEF SamePieces, PiecesOf

(* A piece in use is cut behind the bytes it needs, where a header and at  *)
(* least a byte more are left.                                             *)
LEMMA SplitTagEffect ==
    ASSUME NEW h, Typed(h), ListsOf(h), PiecesOf(h.tag),
           NEW a \in DOMAIN h.tag, h.tag[a].index = -1,
           a + h.tag[a].real_size < Word,
           h.tag[a].size > 0, Hdr + h.tag[a].size + Hdr < h.tag[a].real_size
    PROVE  LET g == SplitTag(h, a) IN
           /\ Typed(g) /\ ListsOf(g) /\ PiecesOf(g.tag)
           /\ Cut(g.tag, h.tag, a, a + Hdr + h.tag[a].size)
<1> DEFINE T == h.tag
           D == DOMAIN T
           t == T[a]
           m == a + Hdr + t.size
           left == t.real_size - Hdr - t.size
           right == t.right
           rest == [real_size |-> left, size |-> 0, index |-> -1,
                    left |-> a, right |-> right, next |-> NULL, prev |-> NULL]
           E == D \union {m}
           g == SplitTag(h, a)
<1>1. /\ T \in [D -> TagFields] /\ h.bins \in [Bins -> Nat] /\ D \subseteq Nat \ {0}
      /\ NULL \notin D
      /\ a \in Nat /\ right \in Nat /\ t.size \in Nat \ {0} /\ t.real_size \in Nat
      /\ right # NULL => right \in D /\ right = a + t.real_size /\ T[right].left = a
      /\ right # a
  <2>1. /\ t.real_size > Hdr
        /\ right # NULL => right \in D /\ right = a + t.real_size /\ T[right].left = a
    BY DEF PiecesOf
  <2>2. QED
    BY <2>1, TypedHeap, ConstantTypes DEF NULL
<1>2. /\ m \in Nat /\ a < m /\ m < a + t.real_size /\ m < Word
      /\ left \in 0 .. Word - 1 /\ left > Hdr
      /\ t.real_size - left = Hdr + t.size /\ Hdr + t.size \in 0 .. Word - 1
      /\ left - Hdr \in 0 .. Word - 1
  BY <1>1, ConstantTypes
<1>3. m \notin D
  <2>1. \A b \in D : a < b => a + t.real_size <= b
    BY DEF PiecesOf
  <2>2. QED
    BY <1>1, <1>2, <2>1
<1>4. U(m) = m /\ U(left) = left /\ U(t.real_size - left) = Hdr + t.size
      /\ U(left - Hdr) = left - Hdr
  <2> HIDE DEF m, left
  <2>1. QED
    BY <1>2, WordValue, ConstantTypes
<1>5. rest \in TagFields
  <2> HIDE DEF left, right
  <2>1. QED
    BY <1>1, <1>2, ConstantTypes DEF TagFields, NULL
<1> DEFINE placed == With(T, m, rest)
           relinked == IF right # NULL THEN [placed EXCEPT ![right].left = m] ELSE placed
           shrunk == [relinked EXCEPT ![a].right = m, ![a].real_size = Hdr + t.size]
           k == [tag |-> shrunk, bins |-> h.bins]
           b == BinOf(left - Hdr)
<1>6. g = InsertTag(k, m, b)
  <2>1. U(a + Hdr + t.size) = m /\ U(t.real_size - Hdr - t.size) = left
    BY <1>4
  <2>2. relinked[a].real_size = t.real_size
    <3>1. placed[a] = T[a]
      BY <1>2, <1>3 DEF With
    <3> HIDE DEF placed
    <3>2. CASE right # NULL
      BY <1>1, <3>1, <3>2
    <3>3. CASE right = NULL
      BY <1>1, <3>1, <3>3
    <3>4. QED
      BY <3>2, <3>3
  <2> DEFINE cut == [relinked EXCEPT ![a].right = m,
                                     ![a].real_size = U(@ - rest.real_size)]
  <2>3. rest.real_size = left
    OBVIOUS
  <2>4. g = InsertTag([h EXCEPT !.tag = cut], m, BinOf(U(left - Hdr)))
    BY <2>1, <2>3 DEF SplitTag
  <2>5. cut = shrunk
    <3> HIDE DEF relinked, rest, left
    <3>1. QED
      BY <1>4, <2>2, <2>3
  <2>6. [h EXCEPT !.tag = cut] = [tag |-> cut, bins |-> h.bins]
    <3> HIDE DEF cut
    <3>1. QED
      BY DEF Typed
  <2> HIDE DEF cut, shrunk, left, g
  <2>7. QED
    BY <1>4, <2>4, <2>5, <2>6
<1>7. /\ placed \in [E -> TagFields]
      /\ placed[m] = rest
      /\ \A x \in D : placed[x] = T[x]
  <2> HIDE DEF rest, m
  <2>1. QED
    BY <1>1, <1>3, <1>5 DEF With
<1> HIDE DEF placed
<1>8. /\ relinked \in [E -> TagFields]
      /\ relinked[m] = rest
      /\ \A x \in D : /\ relinked[x].left = IF x = right THEN m ELSE T[x].left
                      /\ relinked[x].right = T[x].right
                      /\ relinked[x].real_size = T[x].real_size
                      /\ relinked[x].index = T[x].index
                      /\ relinked[x].next = T[x].next /\ relinked[x].prev = T[x].prev
  <2>1. CASE right = NULL
    BY <1>1, <1>7, <2>1
  <2>2. CASE right # NULL
    <3>1. /\ relinked = [placed EXCEPT ![right].left = m]
          /\ right \in D /\ m \in Nat /\ right # m
      BY <1>1, <1>2, <1>3, <2>2
    <3> HIDE DEF relinked, right, rest, m
    <3>2. QED
      BY <1>7, <3>1 DEF TagFields
  <2>3. QED
    BY <2>1, <2>2
<1> HIDE DEF relinked
<1>9. /\ shrunk \in [E -> TagFields]
      /\ shrunk[m] = rest
      /\ \A x \in D : /\ shrunk[x].left = IF x = right THEN m ELSE T[x].left
                      /\ shrunk[x].right = IF x = a THEN m ELSE T[x].right
                      /\ shrunk[x].real_size = IF x = a THEN Hdr + t.size ELSE T[x].real_size
                      /\ shrunk[x].index = T[x].index
                      /\ shrunk[x].next = T[x].next /\ shrunk[x].prev = T[x].prev
  <2>1. a # m /\ a \in E /\ m \in Nat /\ Hdr + t.size \in 0 .. Word - 1
    BY <1>1, <1>2
  <2> HIDE DEF m, right, rest
  <2>2. QED
    BY <1>8, <2>1 DEF TagFields
<1> HIDE DEF shrunk
<1>10. /\ rest.real_size = left /\ rest.index = -1 /\ rest.left = a /\ rest.right = right
       /\ rest.next = NULL /\ rest.prev = NULL
  OBVIOUS
<1> HIDE DEF rest
<1>11. Typed(k)
  <2>1. DOMAIN shrunk = E /\ E \subseteq Nat \ {0}
    BY <1>1, <1>2, <1>9
  <2>2. QED
    BY <1>1, <1>9, <2>1 DEF Typed
<1>12. ListsOf(k)
  <2>1. ASSUME NEW x \in D
        PROVE  T[x].next # m /\ T[x].prev # m
    BY <1>2, <1>3, <2>1, TypedHeap DEF ListsOf, NULL
  <2>2. ASSUME NEW c \in Bins, h.bins[c] # NULL
        PROVE  h.bins[c] \in D /\ T[h.bins[c]].index = c
    BY <2>2 DEF ListsOf
  <2>3. ASSUME NEW x \in D, T[x].index # -1
        PROVE  /\ T[x].prev # NULL => T[x].prev \in D /\ T[T[x].prev].next = x
               /\ T[x].next # NULL =>
                     T[x].next \in D /\ T[T[x].next].prev = x /\ T[T[x].next].index = T[x].index
               /\ T[x].prev = NULL <=> h.bins[T[x].index] = x
    BY <2>3 DEF ListsOf
  <2>4. \A x \in D : T[x].index = -1 => T[x].next = NULL /\ T[x].prev = NULL
    BY DEF ListsOf
  <2>5. DOMAIN shrunk = E /\ k.tag = shrunk /\ k.bins = h.bins
    BY <1>9
  <2> HIDE DEF k, m
  <2>6. QED
    BY <1>9, <1>10, <2>2, <2>3, <2>4, <2>5 DEF ListsOf
<1>13. PiecesOf(shrunk)
  <2> SUFFICES ASSUME NEW x \in E
               PROVE  /\ shrunk[x].real_size > Hdr
                      /\ shrunk[x].right # NULL =>
                            /\ shrunk[x].right \in E
                            /\ shrunk[x].right = x + shrunk[x].real_size
                            /\ shrunk[shrunk[x].right].left = x
                      /\ shrunk[x].left # NULL =>
                            shrunk[x].left \in E /\ shrunk[shrunk[x].left].right = x
                      /\ \A c \in E : x < c => x + shrunk[x].real_size <= c
    BY <1>9 DEF PiecesOf
  <2>1. /\ m # NULL /\ a # NULL /\ right # a /\ right # m /\ a # m
        /\ m \in Nat /\ a \in Nat /\ Hdr \in Nat /\ left \in Nat /\ t.real_size \in Nat
        /\ t.size \in Nat \ {0} /\ left > Hdr /\ left + (Hdr + t.size) = t.real_size
        /\ m = a + (Hdr + t.size)
    BY <1>1, <1>2, <1>3, ConstantTypes DEF NULL
  <2>2. \A c \in D : /\ T[c].real_size > Hdr
                     /\ T[c].right # NULL => /\ T[c].right \in D
                                             /\ T[c].right = c + T[c].real_size
                                             /\ T[T[c].right].left = c
                     /\ T[c].left # NULL => T[c].left \in D /\ T[T[c].left].right = c
                     /\ \A d \in D : c < d => c + T[c].real_size <= d
    BY DEF PiecesOf
  <2>3. \A c \in D : c \in Nat /\ T[c].real_size \in Nat
    BY TypedHeap
  <2> HIDE DEF m, left
  <2>4. CASE x = m
    <3>1. shrunk[x].real_size = left /\ shrunk[x].right = right /\ shrunk[x].left = a
      BY <1>9, <1>10, <2>4
    <3>2. right # NULL => /\ right \in E /\ right = m + left /\ shrunk[right].left = m
      BY <1>1, <1>9, <2>1
    <3>3. shrunk[a].right = m
      BY <1>9
    <3>4. ASSUME NEW c \in E, m < c PROVE m + left <= c
      <4>1. c \in D
        BY <2>1, <3>4
      <4>2. c \in Nat /\ a < c
        BY <2>1, <2>3, <3>4, <4>1
      <4>3. a + t.real_size <= c
        BY <2>2, <4>1, <4>2
      <4>4. QED
        BY <2>1, <4>2, <4>3
    <3>5. QED
      BY <2>1, <2>4, <3>1, <3>2, <3>3, <3>4
  <2>5. CASE x = a
    <3>1. /\ shrunk[x].real_size = Hdr + t.size /\ shrunk[x].right = m
          /\ shrunk[x].left = T[a].left /\ shrunk[m].left = a
      BY <1>9, <1>10, <2>1, <2>5
    <3>2. T[a].left # NULL => T[a].left \in D /\ shrunk[T[a].left].right = a
      <4>1. SUFFICES ASSUME T[a].left # NULL PROVE T[a].left \in D /\ shrunk[T[a].left].right = a
        OBVIOUS
      <4>2. T[a].left \in D /\ T[T[a].left].right = a
        BY <2>2, <4>1
      <4>3. T[a].left # a
        BY <2>1, <4>2
      <4>4. QED
        BY <1>9, <4>2, <4>3
    <3>3. ASSUME NEW c \in E, a < c PROVE a + (Hdr + t.size) <= c
      <4>1. CASE c = m
        BY <2>1, <4>1
      <4>2. CASE c # m
        <5>1. c \in D /\ c \in Nat /\ a + t.real_size <= c
          BY <2>2, <2>3, <3>3, <4>2
        <5>2. QED
          BY <2>1, <5>1
      <4>3. QED
        BY <4>1, <4>2
    <3>4. QED
      BY <2>1, <2>5, <3>1, <3>2, <3>3
  <2>6. CASE x # m /\ x # a
    <3>1. x \in D /\ shrunk[x].real_size = T[x].real_size /\ shrunk[x].right = T[x].right
      BY <1>9, <2>6
    <3>2. T[x].right # NULL => T[x].right # right
      BY <1>1, <2>2, <2>6, <3>1
    <3>3. T[x].right # NULL => shrunk[T[x].right].left = x
      BY <1>9, <2>2, <3>1, <3>2
    <3>4. shrunk[x].left # NULL => shrunk[x].left \in E /\ shrunk[shrunk[x].left].right = x
      <4>1. CASE x = right
        <5>1. shrunk[x].left = m /\ shrunk[m].right = right
          BY <1>9, <1>10, <3>1, <4>1
        <5>2. QED
          BY <4>1, <5>1
      <4>2. CASE x # right
        <5>1. shrunk[x].left = T[x].left
          BY <1>9, <3>1, <4>2
        <5>2. T[x].left # NULL => T[x].left \in D /\ T[T[x].left].right = x /\ T[x].left # a
          BY <2>2, <3>1, <4>2
        <5>3. QED
          BY <1>9, <5>1, <5>2
      <4>3. QED
        BY <4>1, <4>2
    <3>5. ASSUME NEW c \in E, x < c PROVE x + T[x].real_size <= c
      <4>1. CASE c = m
        <5>1. CASE x < a
          <6>1. x + T[x].real_size <= a
            BY <2>2, <3>1, <5>1
          <6>2. QED
            BY <2>1, <2>3, <3>1, <4>1, <6>1
        <5>2. CASE a < x
          <6>1. a + t.real_size <= x
            BY <2>2, <3>1, <5>2
          <6>2. QED
            BY <2>1, <2>3, <3>1, <3>5, <4>1, <6>1
        <5>3. QED
          BY <2>1, <2>3, <2>6, <3>1, <5>1, <5>2
      <4>2. CASE c # m
        BY <2>2, <3>1, <3>5, <4>2
      <4>3. QED
        BY <4>1, <4>2
    <3>6. QED
      BY <2>2, <3>1, <3>3, <3>4, <3>5
  <2>7. QED
    BY <2>4, <2>5, <2>6
<1>14. shrunk[m].index = -1 /\ m \in DOMAIN shrunk /\ b \in Bins
  BY <1>2, <1>9, <1>10, BinOfType
<1>15. /\ Typed(g) /\ ListsOf(g) /\ SamePieces(g.tag, shrunk)
       /\ \A x \in DOMAIN shrunk : g.tag[x].index = IF x = m THEN b ELSE shrunk[x].index
  <2>1. k.tag = shrunk
    OBVIOUS
  <2> HIDE DEF b, m, k
  <2>2. QED
    BY <1>6, <1>11, <1>12, <1>14, <2>1, InsertTagEffect
<1>16. PiecesOf(g.tag)
  BY <1>13, <1>15, PiecesKept
<1>17. Cut(g.tag, T, a, m)
  <2> DEFINE S == g.tag
  <2>1. /\ DOMAIN S = E
        /\ \A x \in E : /\ S[x].real_size = shrunk[x].real_size
                        /\ S[x].left = shrunk[x].left
                        /\ S[x].right = shrunk[x].right
                        /\ S[x].index = IF x = m THEN b ELSE shrunk[x].index
    BY <1>9, <1>15 DEF SamePieces
  <2>2. left = a + t.real_size - m /\ Hdr + t.size = m - a
    BY <1>1, <1>2, ConstantTypes
  <2> HIDE DEF S, left, m
  <2>3. /\ S[m].real_size = a + T[a].real_size - m
        /\ S[m].index = BinOf(S[m].real_size - Hdr)
        /\ S[m].left = a
        /\ S[m].right = T[a].right
    BY <1>9, <1>10, <2>1, <2>2
  <2>4. \A x \in D : /\ S[x].real_size = IF x = a THEN m - a ELSE T[x].real_size
                     /\ S[x].right = IF x = a THEN m ELSE T[x].right
                     /\ S[x].left = IF x = T[a].right THEN m ELSE T[x].left
                     /\ S[x].index = T[x].index
    BY <1>3, <1>9, <2>1, <2>2
  <2>5. Cut(S, T, a, m)
    BY <1>2, <1>3, <2>1, <2>3, <2>4 DEF Cut
  <2>6. QED
    BY <2>5 DEF S
<1>18. QED
  BY <1>15, <1>16, <1>17 DEF g

(* The `size` field is read by nothing but kmem_split_tag. *)
WithSize(h, a, n) == [h EXCEPT !.tag[a].size = n]

LEMMA WithSizeEffect ==
    ASSUME NEW h, Typed(h), ListsOf(h), PiecesOf(h.tag),
           NEW a \in DOMAIN h.tag, NEW n \in 0 .. Word - 1
    PROVE  LET k == WithSize(h, a, n) IN
           /\ Typed(k) /\ ListsOf(k) /\ PiecesOf(k.tag) /\ SamePieces(k.tag, h.tag)
           /\ \A x \in DOMAIN h.tag : k.tag[x].index = h.tag[x].index
           /\ k.tag[a].size = n
<1> DEFINE T == h.tag
           D == DOMAIN T
           T1 == [T EXCEPT ![a].size = n]
           k == [tag |-> T1, bins |-> h.bins]
<1>1. T \in [D -> TagFields] /\ h.bins \in [Bins -> Nat] /\ D \subseteq Nat \ {0}
  BY TypedHeap
<1>2. /\ T1 \in [D -> TagFields]
      /\ T1[a].size = n
      /\ \A x \in D : /\ T1[x].real_size = T[x].real_size
                      /\ T1[x].left = T[x].left /\ T1[x].right = T[x].right
                      /\ T1[x].index = T[x].index
                      /\ T1[x].next = T[x].next /\ T1[x].prev = T[x].prev
  BY <1>1 DEF TagFields
<1>3. WithSize(h, a, n) = k
  <2>1. h = [tag |-> T, bins |-> h.bins]
    BY DEF Typed
  <2>2. QED
    BY <2>1 DEF WithSize
<1> HIDE DEF T1
<1>4. DOMAIN T1 = D
  BY <1>2
<1>5. SamePieces(T1, T) /\ PiecesOf(T1)
  <2>1. SamePieces(T1, T)
    BY <1>2, <1>4 DEF SamePieces
  <2>2. QED
    BY <2>1, PiecesKept
<1>6. Typed(k)
  BY <1>1, <1>2, <1>4 DEF Typed
<1>7. ListsOf(k)
  <2>1. k.tag = T1 /\ k.bins = h.bins
    OBVIOUS
  <2> HIDE DEF k
  <2>2. /\ \A b \in Bins : h.bins[b] # NULL => h.bins[b] \in D /\ T[h.bins[b]].index = b
        /\ \A x \in D : /\ T[x].index = -1 => T[x].next = NULL /\ T[x].prev = NULL
                        /\ T[x].index # -1 =>
                              /\ T[x].prev = NULL <=> h.bins[T[x].index] = x
                              /\ T[x].prev # NULL => T[x].prev \in D /\ T[T[x].prev].next = x
                              /\ T[x].next # NULL => /\ T[x].next \in D
                                                     /\ T[T[x].next].prev = x
                                                     /\ T[T[x].next].index = T[x].index
    BY DEF ListsOf
  <2>3. QED
    BY <1>2, <1>4, <2>1, <2>2 DEF ListsOf
<1>8. k.tag = T1
  OBVIOUS
<1>9. QED
  BY <1>2, <1>3, <1>5, <1>6, <1>7, <1>8

(* The end of kmem_malloc, on a piece large enough.                        *)
LEMMA CarveEffect ==
    ASSUME NEW h, Typed(h), ListsOf(h), PiecesOf(h.tag),
           NEW a \in DOMAIN h.tag, h.tag[a].index = -1,
           a + h.tag[a].real_size < Word,
           NEW n \in Nat \ {0}, n + Hdr <= h.tag[a].real_size
    PROVE  LET g == Carve(h, a, n) IN
           /\ Typed(g) /\ ListsOf(g) /\ PiecesOf(g.tag)
           /\ Carved(g.tag, h.tag, a, n)
<1> DEFINE T == h.tag
           D == DOMAIN T
           k == WithSize(h, a, n)
           T1 == k.tag
           real == T[a].real_size
           remainder == U(real - n - 2 * Hdr)
           g == Carve(h, a, n)
<1>1. a \in Nat /\ real \in Nat /\ n \in 0 .. Word - 1 /\ Hdr \in Nat \ {0}
  BY TypedHeap, ConstantTypes
<1>2. /\ Typed(k) /\ ListsOf(k) /\ PiecesOf(T1) /\ SamePieces(T1, T)
      /\ \A x \in D : T1[x].index = T[x].index
      /\ T1[a].size = n
  BY <1>1, WithSizeEffect
<1>3. g = IF 0 < remainder /\ remainder < Word \div 2 /\ GetExp(remainder) >= 0
          THEN SplitTag(k, a) ELSE k
  BY DEF Carve, WithSize
<1> HIDE DEF k
<1>4. DOMAIN T1 = D /\ \A x \in D : /\ T1[x].real_size = T[x].real_size
                                    /\ T1[x].left = T[x].left /\ T1[x].right = T[x].right
  BY <1>2 DEF SamePieces
<1>5. CASE 0 < remainder /\ remainder < Word \div 2 /\ GetExp(remainder) >= 0
  <2>1. g = SplitTag(k, a)
    BY <1>3, <1>5
  <2>2. n + Hdr + Hdr < real
    <3> DEFINE d == real - n - 2 * Hdr
    <3>1. d \in Int /\ real < Word /\ d < Word /\ -Word <= d /\ (d < 0 => Word \div 2 <= d + Word)
      BY <1>1, ConstantTypes
    <3>2. remainder = U(d)
      OBVIOUS
    <3> HIDE DEF d, remainder
    <3>3. d > 0
      <4>1. CASE d < 0
        BY <1>5, <3>1, <3>2, <4>1, WordValue, ConstantTypes
      <4>2. CASE d >= 0
        <5>1. d \in 0 .. Word - 1
          BY <3>1, <4>2, ConstantTypes
        <5>2. QED
          BY <1>5, <3>1, <3>2, <5>1, WordValue
      <4>3. QED
        BY <3>1, <4>1, <4>2
    <3>4. QED
      BY <1>1, <3>3 DEF d
  <2>3. /\ a \in DOMAIN T1 /\ T1[a].index = -1
        /\ a + T1[a].real_size < Word /\ T1[a].size > 0
        /\ Hdr + T1[a].size + Hdr < T1[a].real_size
    BY <1>1, <1>2, <1>4, <2>2
  <2>4. Typed(g) /\ ListsOf(g) /\ PiecesOf(g.tag) /\ Cut(g.tag, T1, a, a + Hdr + n)
    <3> HIDE DEF k, g
    <3>1. QED
      BY <1>2, <2>1, <2>3, SplitTagEffect
  <2>5. Cut(g.tag, T, a, a + Hdr + n)
    <3> HIDE DEF g
    <3>1. QED
      BY <1>2, <1>4, <2>4 DEF Cut, T1
  <2>6. g.tag[a].real_size >= n + Hdr
    <3> HIDE DEF g
    <3> DEFINE m == a + Hdr + n
    <3>1. Cut(g.tag, T, a, m)
      BY <2>5
    <3> HIDE DEF m
    <3>2. g.tag[a].real_size = m - a
      BY <3>1 DEF Cut
    <3>3. m - a = n + Hdr
      BY <1>1 DEF m
    <3>4. QED
      BY <1>1, <3>2, <3>3
  <2>7. a + Hdr + n \in Nat
    BY <1>1
  <2>8. QED
    BY <2>4, <2>5, <2>6, <2>7 DEF Carved
<1>6. CASE ~(0 < remainder /\ remainder < Word \div 2 /\ GetExp(remainder) >= 0)
  <2>1. g = k
    BY <1>3, <1>6
  <2>2. Carved(T1, T, a, n)
    BY <1>1, <1>2, <1>4 DEF Carved
  <2>3. QED
    BY <1>2, <2>1, <2>2
<1>7. QED
  BY <1>5, <1>6

LEMMA BlocksKept ==
    ASSUME NEW S, NEW T, SamePieces(S, T), NEW B, InBlocks(T, B)
    PROVE  InBlocks(S, B)
<1>1. DOMAIN S = DOMAIN T
  BY DEF SamePieces
<1>2. ASSUME NEW x \in DOMAIN T
      PROVE  /\ \E e \in B : /\ Address(e.ptr) <= x
                             /\ x + S[x].real_size <= Address(PS!End(e))
             /\ S[x].left = NULL => \E e \in B : x = Address(e.ptr)
             /\ S[x].right = NULL => \E e \in B : x + S[x].real_size = Address(PS!End(e))
  <2>1. S[x].real_size = T[x].real_size /\ S[x].left = T[x].left /\ S[x].right = T[x].right
    BY DEF SamePieces
  <2>2. QED
    BY <2>1 DEF InBlocks
<1>3. \A e \in B : Address(e.ptr) \in DOMAIN T /\ S[Address(e.ptr)].left = NULL
  BY DEF InBlocks, SamePieces
<1>4. QED
  BY <1>1, <1>2, <1>3 DEF InBlocks

(* What carving leaves as it was.                                          *)
LEMMA CarvedKeeps ==
    ASSUME NEW h, Typed(h), PiecesOf(h.tag), NEW B, BlocksApart(B),
           NEW a \in DOMAIN h.tag, h.tag[a].index = -1,
           h.tag[a].right # NULL => h.tag[h.tag[a].right].index = -1,
           NEW n \in Nat, NEW S, Carved(S, h.tag, a, n),
           InBlocks(h.tag, B), Sized(h.tag), Merged(h.tag)
    PROVE  /\ InBlocks(S, B) /\ Sized(S) /\ Merged(S)
           /\ \A b \in Bins : WholeIn(S, b) = WholeIn(h.tag, b)
           /\ InUse(S) = InUse(h.tag)
           /\ DOMAIN h.tag \subseteq DOMAIN S
           /\ \A x \in DOMAIN h.tag \ {a} : S[x].real_size = h.tag[x].real_size
<1> DEFINE T == h.tag
           D == DOMAIN T
<1>1. CASE SamePieces(S, T) /\ \A x \in D : S[x].index = T[x].index
  <2>1. DOMAIN S = D /\ \A x \in D : /\ S[x].index = T[x].index
                                     /\ S[x].real_size = T[x].real_size
                                     /\ S[x].left = T[x].left /\ S[x].right = T[x].right
    BY <1>1 DEF SamePieces
  <2>2. InBlocks(S, B)
    BY <1>1, BlocksKept
  <2>3. Sized(S)
    BY <2>1 DEF Sized
  <2>4. Merged(S)
    BY <2>1 DEF Merged, PiecesOf
  <2>5. \A b \in Bins : WholeIn(S, b) = WholeIn(T, b)
    BY <2>1 DEF WholeIn, Whole
  <2>6. InUse(S) = InUse(T)
    BY <2>1 DEF InUse
  <2>7. QED
    BY <2>1, <2>2, <2>3, <2>4, <2>5, <2>6
<1>2. ASSUME NEW m \in Nat, Cut(S, T, a, m)
      PROVE  /\ InBlocks(S, B) /\ Sized(S) /\ Merged(S)
             /\ \A b \in Bins : WholeIn(S, b) = WholeIn(T, b)
             /\ InUse(S) = InUse(T)
             /\ D \subseteq DOMAIN S
             /\ \A x \in D \ {a} : S[x].real_size = T[x].real_size
  <2> DEFINE real == T[a].real_size
  <2>1. /\ m \notin D /\ DOMAIN S = D \union {m} /\ a < m /\ m < a + real
        /\ S[m].real_size = a + real - m
        /\ S[m].index = BinOf(S[m].real_size - Hdr)
        /\ S[m].left = a /\ S[m].right = T[a].right
    BY <1>2 DEF Cut
  <2>2. \A x \in D : /\ S[x].real_size = IF x = a THEN m - a ELSE T[x].real_size
                     /\ S[x].right = IF x = a THEN m ELSE T[x].right
                     /\ S[x].left = IF x = T[a].right THEN m ELSE T[x].left
                     /\ S[x].index = T[x].index
    BY <1>2 DEF Cut
  <2>3. /\ a \in Nat /\ real \in Nat /\ Hdr \in Nat /\ m # NULL /\ a # NULL /\ a # m
        /\ m + S[m].real_size = a + real /\ S[m].real_size - Hdr \in Int
        /\ a + (m - a) = m
    <3>1. a \in Nat \ {0} /\ real \in Nat /\ Hdr \in Nat
      BY TypedHeap, ConstantTypes
    <3> HIDE DEF real
    <3>2. QED
      BY <2>1, <3>1 DEF NULL
  <2>4. S[m].index # -1
    BY <2>1, <2>3, BinOfType, TypedHeap
  <2>5. \A x \in D : T[x].right # NULL => T[x].right \in D /\ T[T[x].right].left = x
    BY DEF PiecesOf
  <2>6. InBlocks(S, B)
    <3>1. ASSUME NEW x \in D \union {m}
          PROVE  /\ \E e \in B : /\ Address(e.ptr) <= x
                                    /\ x + S[x].real_size <= Address(PS!End(e))
                 /\ S[x].left = NULL => \E e \in B : x = Address(e.ptr)
                 /\ S[x].right = NULL => \E e \in B : x + S[x].real_size = Address(PS!End(e))
      <4>1. CASE x = m
        <5>1. PICK e \in B : Address(e.ptr) <= a /\ a + real <= Address(PS!End(e))
          BY DEF InBlocks
        <5>2. Address(e.ptr) <= m
          BY <2>1, <2>3, <5>1, BlockTypes
        <5>3. T[a].right = NULL => \E f \in B : a + real = Address(PS!End(f))
          BY DEF InBlocks
        <5>4. QED
          BY <2>1, <2>3, <4>1, <5>1, <5>2, <5>3
      <4>2. CASE x = a
        <5>1. PICK e \in B : Address(e.ptr) <= a /\ a + real <= Address(PS!End(e))
          BY DEF InBlocks
        <5>2. m <= Address(PS!End(e))
          BY <2>1, <2>3, <5>1, BlockTypes
        <5>3. S[a].left = NULL => T[a].left = NULL
          BY <2>2, <2>3
        <5>4. T[a].left = NULL => \E f \in B : a = Address(f.ptr)
          BY DEF InBlocks
        <5>5. QED
          BY <2>2, <2>3, <4>2, <5>1, <5>2, <5>3, <5>4
      <4>3. CASE x # m /\ x # a
        <5>1. x \in D /\ S[x].real_size = T[x].real_size /\ S[x].right = T[x].right
          BY <2>2, <3>1, <4>3
        <5>2. S[x].left = NULL => T[x].left = NULL
          BY <2>2, <2>3, <5>1
        <5>3. QED
          BY <5>1, <5>2 DEF InBlocks
      <4>4. QED
        BY <4>1, <4>2, <4>3
    <3>2. ASSUME NEW e \in B
          PROVE  Address(e.ptr) \in D /\ S[Address(e.ptr)].left = NULL
      <4>1. Address(e.ptr) \in D /\ T[Address(e.ptr)].left = NULL
        BY DEF InBlocks
      <4>2. Address(e.ptr) = T[a].right => T[Address(e.ptr)].left = a
        BY <2>5, <4>1, TypedHeap
      <4>3. QED
        BY <2>2, <2>3, <4>1, <4>2
    <3>3. QED
      BY <2>1, <3>1, <3>2 DEF InBlocks
  <2>7. Sized(S)
    BY <2>1, <2>2 DEF Sized
  <2>8. Merged(S)
    <3> SUFFICES ASSUME NEW x \in D \union {m}, S[x].index # -1, S[x].right # NULL
                 PROVE  S[S[x].right].index = -1
      BY <2>1 DEF Merged
    <3>1. CASE x = m
      BY <2>1, <2>2, <2>5, <3>1
    <3>2. CASE x # m
      <4>1. x \in D /\ x # a /\ T[x].index # -1 /\ S[x].right = T[x].right
        BY <2>2, <3>2
      <4>2. T[x].right \in D /\ T[T[x].right].index = -1
        BY <2>5, <4>1 DEF Merged
      <4>3. QED
        BY <2>2, <4>1, <4>2
    <3>3. QED
      BY <3>1, <3>2
  <2>9. ASSUME NEW b \in Bins
        PROVE  WholeIn(S, b) = WholeIn(T, b)
    <3>1. ~Whole(S[m]) /\ T[a].index # b
      BY <2>1, <2>3, TypedHeap DEF Whole
    <3>2. ASSUME NEW x \in D, x # a
          PROVE  Whole(S[x]) <=> Whole(T[x])
      <4>1. x = T[a].right => T[x].left = a
        BY <2>5, <3>2, TypedHeap
      <4>2. QED
        BY <2>2, <2>3, <3>2, <4>1 DEF Whole
    <3>3. QED
      BY <2>1, <2>2, <3>1, <3>2 DEF WholeIn
  <2>10. InUse(S) = InUse(T)
    BY <2>1, <2>2, <2>4 DEF InUse
  <2>11. QED
    BY <2>1, <2>2, <2>6, <2>7, <2>8, <2>9, <2>10
<1>3. QED
  BY <1>1, <1>2 DEF Carved

(* kmem_malloc's end keeps a heap in order. *)
LEMMA CarveKeeps ==
    ASSUME NEW h, Typed(h), ListsOf(h), PiecesOf(h.tag),
           NEW B, BlocksApart(B), InBlocks(h.tag, B), Sized(h.tag), Merged(h.tag),
           NEW a \in DOMAIN h.tag, h.tag[a].index = -1,
           h.tag[a].right # NULL => h.tag[h.tag[a].right].index = -1,
           NEW n \in Nat \ {0}, n + Hdr <= h.tag[a].real_size
    PROVE  LET g == Carve(h, a, n) IN
           /\ Typed(g) /\ ListsOf(g) /\ PiecesOf(g.tag)
           /\ InBlocks(g.tag, B) /\ Sized(g.tag) /\ Merged(g.tag)
           /\ \A b \in Bins : WholeIn(g.tag, b) = WholeIn(h.tag, b)
           /\ InUse(g.tag) = InUse(h.tag)
           /\ DOMAIN h.tag \subseteq DOMAIN g.tag
           /\ \A x \in DOMAIN h.tag \ {a} : g.tag[x].real_size = h.tag[x].real_size
           /\ g.tag[a].real_size >= n + Hdr
<1>1. a + h.tag[a].real_size < Word
  <2>1. PICK e \in B : a + h.tag[a].real_size <= Address(PS!End(e))
    BY DEF InBlocks
  <2>2. a \in Nat /\ h.tag[a].real_size \in Nat
    BY TypedHeap
  <2>3. (NumPages + 1) * PageSize \in Nat
    BY ConstantTypes
  <2>4. QED
    BY <2>1, <2>2, <2>3, BlockTypes, ConstantTypes
<1> DEFINE g == Carve(h, a, n)
<1>2. Typed(g) /\ ListsOf(g) /\ PiecesOf(g.tag) /\ Carved(g.tag, h.tag, a, n)
  BY <1>1, CarveEffect
<1> HIDE DEF g
<1>3. g.tag[a].real_size >= n + Hdr
  BY <1>2 DEF Carved
<1>4. /\ InBlocks(g.tag, B) /\ Sized(g.tag) /\ Merged(g.tag)
      /\ \A b \in Bins : WholeIn(g.tag, b) = WholeIn(h.tag, b)
      /\ InUse(g.tag) = InUse(h.tag)
      /\ DOMAIN h.tag \subseteq DOMAIN g.tag
      /\ \A x \in DOMAIN h.tag \ {a} : g.tag[x].real_size = h.tag[x].real_size
  <2> DEFINE S == g.tag
  <2>1. Carved(S, h.tag, a, n)
    BY <1>2
  <2> HIDE DEF S
  <2>2. /\ InBlocks(S, B) /\ Sized(S) /\ Merged(S)
        /\ \A b \in Bins : WholeIn(S, b) = WholeIn(h.tag, b)
        /\ InUse(S) = InUse(h.tag)
        /\ DOMAIN h.tag \subseteq DOMAIN S
        /\ \A x \in DOMAIN h.tag \ {a} : S[x].real_size = h.tag[x].real_size
    BY <2>1, CarvedKeeps
  <2>3. QED
    BY <2>2 DEF S
<1>5. QED
  BY <1>2, <1>3, <1>4 DEF g

(* What taking a piece off its list leaves as it was.                      *)
LEMMA RemovedKeeps ==
    ASSUME NEW h, Typed(h), PiecesOf(h.tag),
           NEW B, InBlocks(h.tag, B), Sized(h.tag), Merged(h.tag),
           NEW a \in DOMAIN h.tag, h.tag[a].index # -1,
           NEW S, SamePieces(S, h.tag),
           \A x \in DOMAIN h.tag : S[x].index = IF x = a THEN -1 ELSE h.tag[x].index
    PROVE  /\ PiecesOf(S) /\ InBlocks(S, B) /\ Sized(S) /\ Merged(S)
           /\ \A b \in Bins : WholeIn(S, b) = WholeIn(h.tag, b) \ {a}
           /\ InUse(S) = InUse(h.tag) \union {a}
<1> DEFINE T == h.tag
           D == DOMAIN T
<1>1. DOMAIN S = D /\ \A x \in D : /\ S[x].index = IF x = a THEN -1 ELSE T[x].index
                                   /\ S[x].real_size = T[x].real_size
                                   /\ S[x].left = T[x].left /\ S[x].right = T[x].right
  BY DEF SamePieces
<1>2. PiecesOf(S)
  BY PiecesKept
<1>3. InBlocks(S, B)
  BY BlocksKept
<1>4. Sized(S)
  BY <1>1 DEF Sized
<1>5. Merged(S)
  BY <1>1 DEF Merged, PiecesOf
<1>6. \A b \in Bins : WholeIn(S, b) = WholeIn(T, b) \ {a}
  BY <1>1, TypedHeap DEF WholeIn, Whole
<1>7. InUse(S) = InUse(T) \union {a}
  BY <1>1 DEF InUse
<1>8. QED
  BY <1>2, <1>3, <1>4, <1>5, <1>6, <1>7

(* A heap has finitely many pieces. *)
LEMMA TagsFinite ==
    ASSUME NEW h, Typed(h), NEW B, BlocksApart(B), InBlocks(h.tag, B), NEW b
    PROVE  IsFiniteSet(DOMAIN h.tag) /\ IsFiniteSet(WholeIn(h.tag, b))
<1> DEFINE last == (NumPages + 1) * PageSize
<1>1. last \in Nat
  BY ConstantTypes
<1>2. DOMAIN h.tag \subseteq 0 .. last
  <2> SUFFICES ASSUME NEW a \in DOMAIN h.tag PROVE a \in 0 .. last
    OBVIOUS
  <2>1. PICK e \in B : a + h.tag[a].real_size <= Address(PS!End(e))
    BY DEF InBlocks
  <2>2. a \in Nat /\ h.tag[a].real_size \in Nat
    BY TypedHeap
  <2>3. Address(PS!End(e)) \in Nat /\ Address(PS!End(e)) <= last
    BY BlockTypes
  <2> HIDE DEF last
  <2>4. QED
    BY <1>1, <2>1, <2>2, <2>3
<1>3. IsFiniteSet(0 .. last)
  BY <1>1, FS_Interval
<1>4. WholeIn(h.tag, b) \subseteq DOMAIN h.tag
  BY DEF WholeIn
<1>5. QED
  BY <1>2, <1>3, <1>4, FS_Subset

LEMMA AddressMonotone ==
    ASSUME NEW p \in Nat, NEW q \in Nat, p <= q
    PROVE  Address(p) \in Nat /\ Address(q) \in Nat /\ Address(p) <= Address(q)
<1>1. ASSUME NEW d \in Nat PROVE p * d \in Nat /\ q * d \in Nat /\ p * d <= q * d
  BY <1>1, Z3
<1>2. QED
  BY <1>1, ConstantTypes DEF Address

(* A piece and its right neighbour lie in the same block. *)
LEMMA NeighboursInOneBlock ==
    ASSUME NEW h, Typed(h), PiecesOf(h.tag),
           NEW B, BlocksApart(B), InBlocks(h.tag, B),
           NEW a \in DOMAIN h.tag, h.tag[a].right # NULL
    PROVE  LET r == h.tag[a].right
               sum == h.tag[a].real_size + h.tag[r].real_size
           IN /\ sum \in Nat /\ a + sum < Word
              /\ \E e \in B : Address(e.ptr) <= a /\ a + sum <= Address(PS!End(e))
<1> DEFINE T == h.tag
           r == T[a].right
<1>1. r \in DOMAIN T /\ r = a + T[a].real_size /\ T[r].left = a /\ T[r].real_size > Hdr
  BY DEF PiecesOf
<1>2. /\ a \in Nat /\ r \in Nat /\ T[a].real_size \in Nat /\ T[r].real_size \in Nat
      /\ a # NULL /\ Hdr \in Nat
  BY <1>1, TypedHeap, ConstantTypes
<1>3. PICK e \in B : Address(e.ptr) <= a /\ a + T[a].real_size <= Address(PS!End(e))
  BY DEF InBlocks
<1>4. PICK f \in B : Address(f.ptr) <= r /\ r + T[r].real_size <= Address(PS!End(f))
  BY <1>1 DEF InBlocks
<1>5. /\ Address(e.ptr) \in Nat /\ Address(PS!End(e)) \in Nat
      /\ Address(f.ptr) \in Nat /\ Address(PS!End(f)) \in Nat
      /\ e.ptr \in Nat /\ f.ptr \in Nat /\ PS!End(e) \in Nat /\ PS!End(f) \in Nat
      /\ Address(PS!End(f)) <= (NumPages + 1) * PageSize
  BY BlockTypes
<1>6. e = f
  <2> SUFFICES ASSUME e # f PROVE FALSE
    OBVIOUS
  <2>1. PS!End(e) <= f.ptr \/ PS!End(f) <= e.ptr
    BY DEF BlocksApart, PS!Disjoint
  <2>2. CASE PS!End(e) <= f.ptr
    <3>1. Address(PS!End(e)) <= Address(f.ptr)
      BY <1>5, <2>2, AddressMonotone
    <3>2. r = Address(f.ptr)
      <4> HIDE DEF r
      <4>1. QED
        BY <1>1, <1>2, <1>3, <1>4, <1>5, <3>1
    <3>3. T[Address(f.ptr)].left = NULL
      BY DEF InBlocks
    <3>4. QED
      BY <1>1, <1>2, <3>2, <3>3
  <2>3. CASE PS!End(f) <= e.ptr
    <3>1. Address(PS!End(f)) <= Address(e.ptr)
      BY <1>5, <2>3, AddressMonotone
    <3> HIDE DEF r
    <3>2. QED
      BY <1>1, <1>2, <1>3, <1>4, <1>5, <3>1
  <2>4. QED
    BY <2>1, <2>2, <2>3
<1>7. (NumPages + 1) * PageSize \in Nat
  BY ConstantTypes
<1> HIDE DEF r
<1>8. /\ T[a].real_size + T[r].real_size \in Nat
      /\ a + (T[a].real_size + T[r].real_size) <= Address(PS!End(e))
      /\ a + (T[a].real_size + T[r].real_size) < Word
  BY <1>1, <1>2, <1>4, <1>5, <1>6, <1>7, ConstantTypes
<1>9. QED
  BY <1>3, <1>8 DEF r

(* What joining a piece and its right neighbour, one of them on a list,    *)
(* into one that is on none leaves as it was.                              *)
Joined(S, T, a, r) ==
    /\ DOMAIN S = DOMAIN T \ {r}
    /\ \A x \in DOMAIN S :
          /\ S[x].real_size = IF x = a THEN T[a].real_size + T[r].real_size ELSE T[x].real_size
          /\ S[x].right = IF x = a THEN T[r].right ELSE T[x].right
          /\ S[x].left = IF x = T[r].right THEN a ELSE T[x].left
          /\ S[x].index = IF x = a THEN -1 ELSE T[x].index

LEMMA JoinedKeeps ==
    ASSUME NEW h, Typed(h), PiecesOf(h.tag),
           NEW B, BlocksApart(B), InBlocks(h.tag, B), Sized(h.tag), Merged(h.tag),
           NEW a \in DOMAIN h.tag, NEW r \in DOMAIN h.tag, h.tag[a].right = r,
           NEW S, Joined(S, h.tag, a, r)
    PROVE  /\ InBlocks(S, B) /\ Sized(S) /\ Merged(S)
           /\ \A b \in Bins : WholeIn(S, b) = WholeIn(h.tag, b)
           /\ InUse(S) = (InUse(h.tag) \union {a}) \ {r}
<1> DEFINE T == h.tag
           D == DOMAIN T
           E == DOMAIN S
           beyond == T[r].right
           sum == T[a].real_size + T[r].real_size
<1>0. E = D \ {r}
  BY DEF Joined
<1>1. /\ r # NULL /\ a # NULL /\ r = a + T[a].real_size /\ T[r].left = a
      /\ beyond # NULL => beyond \in D /\ T[beyond].left = r
      /\ r # a /\ a \in E
  <2>1. r # NULL /\ a # NULL /\ a \in Nat /\ T[a].real_size \in Nat
    BY TypedHeap
  <2>2. r = a + T[a].real_size /\ T[r].left = a /\ T[a].real_size > Hdr
        /\ (beyond # NULL => beyond \in D /\ T[beyond].left = r)
    BY <2>1 DEF PiecesOf
  <2>3. r # a
    BY <2>1, <2>2, ConstantTypes
  <2>4. QED
    BY <1>0, <2>1, <2>2, <2>3
<1>2. \A x \in E : /\ x \in D /\ x # r
                   /\ S[x].real_size = IF x = a THEN sum ELSE T[x].real_size
                   /\ S[x].right = IF x = a THEN beyond ELSE T[x].right
                   /\ S[x].left = IF x = beyond THEN a ELSE T[x].left
                   /\ S[x].index = IF x = a THEN -1 ELSE T[x].index
  BY <1>0 DEF Joined
<1>3. \A x \in D : T[x].right # NULL => T[x].right \in D /\ T[T[x].right].left = x
  BY DEF PiecesOf
<1>4. \A x \in D : x # a => T[x].right # r
  BY <1>1, <1>3
<1>5. \A x \in E : S[x].left = NULL <=> T[x].left = NULL
  <2> SUFFICES ASSUME NEW x \in E PROVE S[x].left = NULL <=> T[x].left = NULL
    OBVIOUS
  <2>1. x # NULL
    BY <1>2, TypedHeap
  <2>2. CASE x = beyond
    BY <1>1, <1>2, <2>1, <2>2
  <2>3. CASE x # beyond
    BY <1>2, <2>3
  <2>4. QED
    BY <2>2, <2>3
<1>6. InBlocks(S, B)
  <2>1. ASSUME NEW x \in E
        PROVE  /\ \E e \in B : /\ Address(e.ptr) <= x
                               /\ x + S[x].real_size <= Address(PS!End(e))
               /\ S[x].left = NULL => \E e \in B : x = Address(e.ptr)
               /\ S[x].right = NULL => \E e \in B : x + S[x].real_size = Address(PS!End(e))
    <3>1. S[x].left = NULL => \E e \in B : x = Address(e.ptr)
      BY <1>2, <1>5 DEF InBlocks
    <3>2. CASE x = a
      <4>1. \E e \in B : Address(e.ptr) <= a /\ a + sum <= Address(PS!End(e))
        BY <1>1, NeighboursInOneBlock
      <4>2. a + sum = r + T[r].real_size
        <5>1. a \in Nat /\ T[a].real_size \in Nat /\ T[r].real_size \in Nat
          BY TypedHeap
        <5>2. QED
          BY <1>1, <5>1
      <4>3. beyond = NULL => \E e \in B : a + sum = Address(PS!End(e))
        BY <4>2 DEF InBlocks
      <4> HIDE DEF sum, beyond
      <4>4. QED
        BY <1>2, <3>1, <3>2, <4>1, <4>3
    <3>3. CASE x # a
      BY <1>2, <3>1, <3>3 DEF InBlocks
    <3>4. QED
      BY <3>2, <3>3
  <2>2. ASSUME NEW e \in B
        PROVE  Address(e.ptr) \in E /\ S[Address(e.ptr)].left = NULL
    <3>1. Address(e.ptr) \in D /\ T[Address(e.ptr)].left = NULL
      BY DEF InBlocks
    <3>2. Address(e.ptr) \in E
      BY <1>0, <1>1, <3>1
    <3>3. QED
      BY <1>5, <3>1, <3>2
  <2>3. QED
    BY <2>1, <2>2 DEF InBlocks
<1>7. Sized(S)
  BY <1>2 DEF Sized
<1>8. Merged(S)
  <2> SUFFICES ASSUME NEW x \in E, S[x].index # -1, S[x].right # NULL
               PROVE  S[S[x].right].index = -1
    BY DEF Merged
  <2>1. x \in D /\ x # a /\ T[x].index # -1 /\ S[x].right = T[x].right
    BY <1>2
  <2>2. T[x].right \in E /\ T[T[x].right].index = -1
    BY <1>0, <1>3, <1>4, <2>1 DEF Merged
  <2>3. QED
    BY <1>2, <2>1, <2>2
<1>9. ASSUME NEW b \in Bins
      PROVE  WholeIn(S, b) = WholeIn(T, b)
  <2>1. b # -1 /\ ~Whole(T[a]) /\ ~Whole(T[r])
    BY <1>1, TypedHeap DEF Whole
  <2>2. ASSUME NEW x \in E, x # a
        PROVE  Whole(S[x]) <=> Whole(T[x])
    BY <1>2, <1>5, <2>2 DEF Whole
  <2>3. QED
    BY <1>0, <1>2, <2>1, <2>2 DEF WholeIn
<1>10. InUse(S) = (InUse(T) \union {a}) \ {r}
  <2>1. \A x \in E : S[x].index = IF x = a THEN -1 ELSE T[x].index
    BY <1>2
  <2>2. QED
    BY <1>0, <1>1, <2>1 DEF InUse
<1>11. QED
  BY <1>6, <1>7, <1>8, <1>9, <1>10

(* kmem_free's loop over left neighbours: the free left neighbour grows    *)
(* over a piece in use and becomes a piece in use.                         *)
LEMMA MeltLeftKeeps ==
    ASSUME NEW h, Typed(h), ListsOf(h), PiecesOf(h.tag),
           NEW B, BlocksApart(B), InBlocks(h.tag, B), Sized(h.tag), Merged(h.tag),
           NEW c \in DOMAIN h.tag, h.tag[c].index = -1,
           NEW a \in DOMAIN h.tag, h.tag[c].left = a, h.tag[a].index # -1
    PROVE  LET g == MeltLeftTag(h, c) IN
           /\ Typed(g) /\ ListsOf(g) /\ PiecesOf(g.tag)
           /\ InBlocks(g.tag, B) /\ Sized(g.tag) /\ Merged(g.tag)
           /\ \A b \in Bins : WholeIn(g.tag, b) = WholeIn(h.tag, b)
           /\ InUse(g.tag) = (InUse(h.tag) \union {a}) \ {c}
           /\ \A x \in DOMAIN h.tag \ {a, c} :
                 x \in DOMAIN g.tag /\ g.tag[x].real_size = h.tag[x].real_size
<1> DEFINE T == h.tag
           D == DOMAIN T
           k == Swallow(h, a)
           g == RemoveTag(k, a)
           S == g.tag
<1>1. T[a].right = c /\ c # NULL /\ c # a
  <2>1. a # NULL /\ c # NULL
    BY TypedHeap
  <2>2. QED
    BY <2>1 DEF PiecesOf
<1>2. T[a].real_size + T[c].real_size < Word
  <2> DEFINE sum == T[a].real_size + T[c].real_size
  <2>1. sum \in Nat /\ a + sum < Word
    BY <1>1, NeighboursInOneBlock
  <2>2. a \in Nat
    BY TypedHeap
  <2> HIDE DEF sum
  <2>3. sum < Word
    BY <2>1, <2>2, ConstantTypes
  <2>4. QED
    BY <2>3 DEF sum
<1>3. Typed(k) /\ ListsOf(k) /\ PiecesOf(k.tag) /\ Merging(k.tag, T, a)
  BY <1>1, <1>2, SwallowEffect
<1> HIDE DEF k
<1>4. /\ DOMAIN k.tag = D \ {c}
      /\ \A x \in D \ {c} :
            /\ k.tag[x].real_size = IF x = a THEN T[a].real_size + T[c].real_size
                                             ELSE T[x].real_size
            /\ k.tag[x].right = IF x = a THEN T[c].right ELSE T[x].right
            /\ k.tag[x].left = IF x = T[c].right THEN a ELSE T[x].left
            /\ k.tag[x].index = T[x].index
  BY <1>1, <1>3 DEF Merging
<1>5. a \in DOMAIN k.tag /\ k.tag[a].index # -1
  BY <1>1, <1>4
<1>6. /\ Typed(g) /\ SamePieces(S, k.tag) /\ ListsOf(g)
      /\ \A x \in DOMAIN k.tag : S[x].index = IF x = a THEN -1 ELSE k.tag[x].index
  BY <1>3, <1>5, RemoveTagEffect
<1> HIDE DEF g
<1>7. PiecesOf(S)
  BY <1>3, <1>6, PiecesKept
<1>8. /\ DOMAIN S = D \ {c}
      /\ \A x \in DOMAIN S :
            /\ S[x].real_size = IF x = a THEN T[a].real_size + T[c].real_size
                                         ELSE T[x].real_size
            /\ S[x].right = IF x = a THEN T[c].right ELSE T[x].right
            /\ S[x].left = IF x = T[c].right THEN a ELSE T[x].left
            /\ S[x].index = IF x = a THEN -1 ELSE T[x].index
  BY <1>4, <1>6 DEF SamePieces
<1>9. /\ InBlocks(S, B) /\ Sized(S) /\ Merged(S)
      /\ \A b \in Bins : WholeIn(S, b) = WholeIn(T, b)
      /\ InUse(S) = (InUse(T) \union {a}) \ {c}
  <2>1. T[a].right = c /\ Joined(S, T, a, c)
    BY <1>1, <1>8 DEF Joined
  <2> HIDE DEF S
  <2>2. QED
    BY <2>1, JoinedKeeps
<1>10. MeltLeftTag(h, c) = g
  BY DEF MeltLeftTag, g, k
<1>11. QED
  BY <1>6, <1>7, <1>8, <1>9, <1>10

(* kmem_absorb_right of a piece in use whose right neighbour is free.      *)
LEMMA AbsorbRightKeeps ==
    ASSUME NEW h, Typed(h), ListsOf(h), PiecesOf(h.tag),
           NEW B, BlocksApart(B), InBlocks(h.tag, B), Sized(h.tag), Merged(h.tag),
           NEW a \in DOMAIN h.tag, h.tag[a].index = -1,
           NEW r \in DOMAIN h.tag, h.tag[a].right = r, h.tag[r].index # -1
    PROVE  LET g == AbsorbRight(h, a) IN
           /\ Typed(g) /\ ListsOf(g) /\ PiecesOf(g.tag)
           /\ InBlocks(g.tag, B) /\ Sized(g.tag) /\ Merged(g.tag)
           /\ \A b \in Bins : WholeIn(g.tag, b) = WholeIn(h.tag, b)
           /\ InUse(g.tag) = InUse(h.tag)
           /\ a \in DOMAIN g.tag
           /\ \A x \in DOMAIN h.tag \ {a, r} :
                 x \in DOMAIN g.tag /\ g.tag[x].real_size = h.tag[x].real_size
<1> DEFINE T == h.tag
           D == DOMAIN T
           k == RemoveTag(h, r)
           g == Swallow(k, a)
           S == g.tag
<1>1. r # NULL /\ r # a
  BY TypedHeap
<1>2. T[a].real_size + T[r].real_size < Word
  <2> DEFINE sum == T[a].real_size + T[r].real_size
  <2>1. sum \in Nat /\ a + sum < Word
    BY <1>1, NeighboursInOneBlock
  <2>2. a \in Nat
    BY TypedHeap
  <2> HIDE DEF sum
  <2>3. sum < Word
    BY <2>1, <2>2, ConstantTypes
  <2>4. QED
    BY <2>3 DEF sum
<1>3. /\ Typed(k) /\ SamePieces(k.tag, T) /\ ListsOf(k)
      /\ \A x \in D : k.tag[x].index = IF x = r THEN -1 ELSE T[x].index
  BY RemoveTagEffect
<1> HIDE DEF k
<1>4. PiecesOf(k.tag)
  BY <1>3, PiecesKept
<1>5. /\ DOMAIN k.tag = D
      /\ \A x \in D : /\ k.tag[x].real_size = T[x].real_size
                      /\ k.tag[x].left = T[x].left /\ k.tag[x].right = T[x].right
  BY <1>3 DEF SamePieces
<1>6. /\ a \in DOMAIN k.tag /\ k.tag[a].right # NULL
      /\ k.tag[k.tag[a].right].index = -1
      /\ k.tag[a].real_size + k.tag[k.tag[a].right].real_size < Word
  BY <1>1, <1>2, <1>3, <1>5
<1>7. Typed(g) /\ ListsOf(g) /\ PiecesOf(S) /\ Merging(S, k.tag, a)
  BY <1>3, <1>4, <1>6, SwallowEffect
<1> HIDE DEF g
<1>8. /\ DOMAIN S = D \ {r}
      /\ \A x \in DOMAIN S :
            /\ S[x].real_size = IF x = a THEN T[a].real_size + T[r].real_size
                                         ELSE T[x].real_size
            /\ S[x].right = IF x = a THEN T[r].right ELSE T[x].right
            /\ S[x].left = IF x = T[r].right THEN a ELSE T[x].left
            /\ S[x].index = IF x = a THEN -1 ELSE T[x].index
  <2>1. k.tag[a].right = r
    BY <1>5
  <2>2. /\ DOMAIN S = D \ {r}
        /\ \A x \in DOMAIN S :
              /\ S[x].real_size = IF x = a THEN k.tag[a].real_size + k.tag[r].real_size
                                           ELSE k.tag[x].real_size
              /\ S[x].right = IF x = a THEN k.tag[r].right ELSE k.tag[x].right
              /\ S[x].left = IF x = k.tag[r].right THEN a ELSE k.tag[x].left
              /\ S[x].index = k.tag[x].index
    BY <1>5, <1>7, <2>1 DEF Merging
  <2>3. QED
    BY <1>3, <1>5, <2>2
<1>9. /\ InBlocks(S, B) /\ Sized(S) /\ Merged(S)
      /\ \A b \in Bins : WholeIn(S, b) = WholeIn(T, b)
      /\ InUse(S) = (InUse(T) \union {a}) \ {r}
  <2>1. Joined(S, T, a, r)
    BY <1>8 DEF Joined
  <2> HIDE DEF S
  <2>2. QED
    BY <2>1, JoinedKeeps
<1>10. (InUse(T) \union {a}) \ {r} = InUse(T)
  BY DEF InUse
<1>11. AbsorbRight(h, a) = g
  BY DEF AbsorbRight, g, k
<1>12. QED
  BY <1>1, <1>7, <1>8, <1>9, <1>10, <1>11

(* What putting a piece with no free neighbour on the list of its size     *)
(* leaves as it was.                                                       *)
Inserted(S, T, a, n) ==
    /\ SamePieces(S, T)
    /\ \A x \in DOMAIN T : S[x].index = IF x = a THEN n ELSE T[x].index

LEMMA InsertedKeeps ==
    ASSUME NEW h, Typed(h), PiecesOf(h.tag),
           NEW B, InBlocks(h.tag, B), Sized(h.tag), Merged(h.tag),
           NEW a \in DOMAIN h.tag, h.tag[a].index = -1,
           h.tag[a].left # NULL => h.tag[h.tag[a].left].index = -1,
           h.tag[a].right # NULL => h.tag[h.tag[a].right].index = -1,
           NEW n \in Bins, n = BinOf(h.tag[a].real_size - Hdr),
           NEW S, Inserted(S, h.tag, a, n)
    PROVE  /\ PiecesOf(S) /\ InBlocks(S, B) /\ Sized(S) /\ Merged(S)
           /\ \A b \in Bins :
                 WholeIn(S, b) = IF b = n /\ Whole(h.tag[a]) THEN WholeIn(h.tag, b) \union {a}
                                                             ELSE WholeIn(h.tag, b)
           /\ a \notin WholeIn(h.tag, n)
           /\ InUse(S) = InUse(h.tag) \ {a}
<1> DEFINE T == h.tag
           D == DOMAIN T
<1>1. DOMAIN S = D /\ \A x \in D : /\ S[x].index = IF x = a THEN n ELSE T[x].index
                                   /\ S[x].real_size = T[x].real_size
                                   /\ S[x].left = T[x].left /\ S[x].right = T[x].right
  BY DEF Inserted, SamePieces
<1>2. PiecesOf(S)
  BY PiecesKept DEF Inserted
<1>3. InBlocks(S, B)
  BY <1>1 DEF InBlocks
<1>4. Sized(S)
  BY <1>1 DEF Sized
<1>5. Merged(S)
  <2> SUFFICES ASSUME NEW x \in D, S[x].index # -1, S[x].right # NULL
               PROVE  S[S[x].right].index = -1
    BY <1>1 DEF Merged
  <2>1. T[x].right \in D /\ T[T[x].right].left = x /\ x # NULL
    BY <1>1, TypedHeap DEF PiecesOf
  <2>2. T[T[x].right].index = -1
    BY <1>1, <2>1 DEF Merged
  <2>3. T[x].right # a
    <3>1. CASE x = a
      <4>1. T[a].right # NULL => T[a].right = a + T[a].real_size /\ T[a].real_size > Hdr
        BY DEF PiecesOf
      <4>2. a \in Nat /\ T[a].real_size \in Nat /\ a # NULL
        BY TypedHeap
      <4>3. QED
        BY <3>1, <4>1, <4>2, ConstantTypes
    <3>2. CASE x # a
      BY <1>1, <2>1, <3>2
    <3>3. QED
      BY <3>1, <3>2
  <2>4. QED
    BY <1>1, <2>1, <2>2, <2>3
<1>6. n # -1
  BY TypedHeap
<1>7. \A b \in Bins : WholeIn(S, b) = IF b = n /\ Whole(T[a]) THEN WholeIn(T, b) \union {a}
                                                              ELSE WholeIn(T, b)
  <2> SUFFICES ASSUME NEW b \in Bins
               PROVE  WholeIn(S, b) = IF b = n /\ Whole(T[a]) THEN WholeIn(T, b) \union {a}
                                                              ELSE WholeIn(T, b)
    OBVIOUS
  <2>1. \A x \in D : Whole(S[x]) <=> Whole(T[x])
    BY <1>1 DEF Whole
  <2>2. b # -1
    BY TypedHeap
  <2>3. QED
    BY <1>1, <2>1, <2>2 DEF WholeIn
<1>8. a \notin WholeIn(T, n) /\ InUse(S) = InUse(T) \ {a}
  BY <1>1, <1>6 DEF WholeIn, InUse
<1>9. QED
  BY <1>2, <1>3, <1>4, <1>5, <1>7, <1>8

-----------------------------------------------------------------------------
(* The invariant holds initially and every step keeps it.                  *)
LEMMA InitIInv == Init => IInv
<1> SUFFICES ASSUME Init PROVE IInv
  OBVIOUS
<1>1. /\ tag = << >> /\ DOMAIN tag = {} /\ freePages = [b \in Bins |-> NULL]
      /\ completePages = [b \in Bins |-> 0] /\ held = {} /\ used = {} /\ pc = "idle"
      /\ cur = NULL
  BY DEF Init
<1>2. Heap.tag = tag /\ Heap.bins = freePages
  BY DEF Heap
<1>3. Typed(Heap)
  <2>1. tag \in [DOMAIN tag -> TagFields]
    BY <1>1
  <2>2. freePages \in [Bins -> Nat]
    BY <1>1 DEF NULL
  <2>3. QED
    BY <1>1, <1>2, <2>1, <2>2 DEF Typed, Heap
<1>4. ListsOf(Heap) /\ PiecesOf(tag) /\ Sized(tag) /\ Merged(tag) /\ InBlocks(tag, held)
  BY <1>1, <1>2 DEF ListsOf, PiecesOf, Sized, Merged, InBlocks
<1>5. BlocksApart(held)
  BY <1>1 DEF BlocksApart
<1>6. Counted(tag, completePages)
  <2>1. \A b \in Bins : WholeIn(tag, b) = {}
    BY <1>1 DEF WholeIn
  <2>2. Cardinality({}) = 0
    BY FS_EmptySet
  <2>3. completePages \in [Bins -> 0 .. MaxComplete]
    BY <1>1, ConstantTypes
  <2>4. \A b \in Bins : completePages[b] = 0
    BY <1>1
  <2>5. QED
    BY <2>1, <2>2, <2>3, <2>4 DEF Counted
<1>7. RegionsHeld
  BY <1>1 DEF RegionsHeld, ClientTags, InUse
<1>8. CallState
  BY <1>1 DEF CallState
<1>9. QED
  BY <1>3, <1>4, <1>5, <1>6, <1>7, <1>8 DEF IInv, HeapOK

LEMMA HeapKept == HeapOK /\ UNCHANGED heap => HeapOK'
BY DEF HeapOK, heap, Heap

LEMMA RegionsKept ==
    RegionsHeld /\ UNCHANGED << tag, used >> /\ pc # "free" /\ pc' # "free" => RegionsHeld'
BY DEF RegionsHeld, ClientTags, InUse

LEMMA BeginMallocStep ==
    ASSUME IInv, NEW n \in Nat \ {0}, n + Hdr < Word, NEW op, NEW old,
           op = "realloc" => old \in used,
           BeginMalloc(n, op, n, old)
    PROVE  IInv'
<1>1. HeapOK'
  BY HeapKept DEF IInv, BeginMalloc
<1>2. RegionsHeld'
  BY RegionsKept DEF IInv, BeginMalloc, heap
<1>3. /\ pc' = "search" /\ size' = n /\ cur' = freePages[BinOf(n)]
      /\ call' = [op |-> op, bytes |-> n, old |-> old]
      /\ tag' = tag /\ used' = used
  BY DEF BeginMalloc, heap
<1>4. BinOf(n) \in Bins
  BY BinOfType
<1>5. cur' # NULL => cur' \in DOMAIN tag /\ tag[cur'].index = BinOf(n)
  BY <1>3, <1>4 DEF IInv, HeapOK, ListsOf, Heap
<1>6. CallState'
  BY <1>3, <1>5 DEF CallState
<1>7. QED
  BY <1>1, <1>2, <1>6 DEF IInv

LEMMA SearchNextStep == IInv /\ SearchNext => IInv'
<1> SUFFICES ASSUME IInv, SearchNext PROVE IInv'
  OBVIOUS
<1>1. HeapOK'
  BY HeapKept DEF IInv, SearchNext
<1>2. RegionsHeld'
  BY RegionsKept DEF IInv, SearchNext, heap
<1>3. /\ pc = "search" /\ pc' = pc /\ cur # NULL /\ cur' = tag[cur].next /\ tag' = tag
      /\ used' = used /\ size' = size /\ call' = call
  BY DEF SearchNext, heap
<1>4. /\ size \in Nat \ {0} /\ size + Hdr < Word /\ call.bytes = size
      /\ cur \in DOMAIN tag /\ tag[cur].index = BinOf(size)
      /\ call.op = "realloc" => call.old \in used
  BY <1>3 DEF IInv, CallState
<1>5. tag[cur].index # -1
  BY <1>4, BinOfType, TypedHeap, ConstantTypes DEF Bins
<1>6. cur' # NULL => cur' \in DOMAIN tag /\ tag[cur'].index = BinOf(size)
  BY <1>3, <1>4, <1>5 DEF IInv, HeapOK, ListsOf, Heap
<1>7. CallState'
  BY <1>3, <1>4, <1>6 DEF CallState
<1>8. QED
  BY <1>1, <1>2, <1>7 DEF IInv

LEMMA NoBlockStep == IInv /\ NoBlock => IInv'
<1> SUFFICES ASSUME IInv, NoBlock PROVE IInv'
  OBVIOUS
<1>1. HeapOK'
  BY HeapKept DEF IInv, NoBlock
<1>2. pc = "search" /\ cur = NULL /\ tag' = tag /\ used' = used
      /\ pc' \in {"idle", "fault"} /\ cur' = NULL
  BY DEF NoBlock, Return, heap
<1>3. RegionsHeld'
  BY <1>2, RegionsKept DEF IInv
<1>4. CallState'
  BY <1>2 DEF CallState
<1>5. QED
  BY <1>1, <1>3, <1>4 DEF IInv

LEMMA BeginFreeStep ==
    ASSUME IInv, pc # "free", NEW r \in used, BeginFree(r)
    PROVE  IInv'
<1>1. HeapOK'
  BY HeapKept DEF IInv, BeginFree
<1>2. used' = used \ {r} /\ pc' = "free" /\ cur' = r.ptr - Hdr /\ tag' = tag
  BY DEF BeginFree, heap
<1>3. /\ used \subseteq [ptr : Nat, size : Nat \ {0}]
      /\ \A s \in used : /\ s.ptr - Hdr \in DOMAIN tag
                         /\ s.ptr + s.size <= s.ptr - Hdr + tag[s.ptr - Hdr].real_size
      /\ \A s, t \in used : s.ptr = t.ptr => s = t
      /\ InUse(tag) = ClientTags
  BY DEF IInv, RegionsHeld
<1>4. ClientTags = {s.ptr - Hdr : s \in used'} \union {cur'}
  BY <1>2 DEF ClientTags
<1>5. cur' \notin {s.ptr - Hdr : s \in used'}
  BY <1>2, <1>3, ConstantTypes
<1>6. RegionsHeld'
  BY <1>2, <1>3, <1>4 DEF RegionsHeld, ClientTags, InUse
<1>7. cur' \in InUse(tag)
  BY <1>3, <1>4
<1>8. CallState'
  BY <1>2, <1>5, <1>7 DEF CallState, ClientTags, InUse
<1>9. QED
  BY <1>1, <1>6, <1>8 DEF IInv

(* A call that returns the region behind the tag of a piece newly in use.  *)
LEMMA DeliverStep ==
    ASSUME IInv, pc = "search", NEW a \in Nat, Deliver(a),
           a \notin InUse(tag), InUse(tag') = InUse(tag) \union {a},
           \A x \in InUse(tag) : x \in DOMAIN tag' /\ tag'[x].real_size = tag[x].real_size,
           a \in DOMAIN tag', tag'[a].real_size \in Nat, tag'[a].real_size >= size + Hdr,
           cur \in DOMAIN tag' \union {NULL}
    PROVE  RegionsHeld' /\ CallState'
<1> DEFINE r == [ptr |-> a + Hdr, size |-> size]
<1>1. /\ size \in Nat \ {0} /\ call.bytes = size
      /\ call.op = "realloc" => call.old \in used
  BY DEF IInv, CallState
<1>2. /\ used' = used \union {r}
      /\ pc' \in {"idle", "replace"}
      /\ pc' = "replace" => call.op = "realloc" /\ cur' = cur /\ call' = call
      /\ pc' = "idle" => cur' = NULL
  BY <1>1 DEF Deliver, Return
<1>3. /\ used \subseteq [ptr : Nat, size : Nat \ {0}]
      /\ \A s \in used : /\ s.ptr - Hdr \in DOMAIN tag
                         /\ s.ptr + s.size <= s.ptr - Hdr + tag[s.ptr - Hdr].real_size
      /\ \A s, t \in used : s.ptr = t.ptr => s = t
      /\ InUse(tag) = ClientTags
  BY DEF IInv, RegionsHeld
<1>4. /\ r \in [ptr : Nat, size : Nat \ {0}] /\ r.ptr = a + Hdr /\ r.size = size
      /\ r.ptr - Hdr = a
      /\ r.ptr + r.size <= a + tag'[a].real_size
  BY <1>1, ConstantTypes
<1>5. \A s \in used : s.ptr - Hdr \in InUse(tag) /\ s.ptr \in Nat
  BY <1>3 DEF ClientTags
<1> HIDE DEF r
<1>6. \A s \in used : s.ptr # r.ptr
  BY <1>4, <1>5
<1>7. ClientTags' = ClientTags \union {a}
  BY <1>2, <1>4 DEF ClientTags
<1>8. RegionsHeld'
  <2>1. used' \subseteq [ptr : Nat, size : Nat \ {0}]
    BY <1>2, <1>3, <1>4
  <2>2. \A s \in used' : /\ s.ptr - Hdr \in DOMAIN tag'
                         /\ s.ptr + s.size <= s.ptr - Hdr + tag'[s.ptr - Hdr].real_size
    BY <1>2, <1>3, <1>4, <1>5
  <2>3. \A s, t \in used' : s.ptr = t.ptr => s = t
    BY <1>2, <1>3, <1>6
  <2>4. InUse(tag') = ClientTags'
    BY <1>3, <1>7
  <2>5. QED
    BY <1>2, <2>1, <2>2, <2>3, <2>4 DEF RegionsHeld, InUse
<1>9. CallState'
  BY <1>1, <1>2 DEF CallState
<1>10. QED
  BY <1>8, <1>9

(* A heap an operation has produced is the next heap. *)
LEMMA HeapBecomes ==
    ASSUME NEW g, Become(g), Typed(g), ListsOf(g), PiecesOf(g.tag),
           BlocksApart(held'), InBlocks(g.tag, held'), Sized(g.tag), Merged(g.tag),
           Counted(g.tag, completePages')
    PROVE  HeapOK'
<1>1. tag' = g.tag /\ freePages' = g.bins /\ g = [tag |-> g.tag, bins |-> g.bins]
  BY DEF Become, Typed
<1>2. Heap' = g
  BY <1>1 DEF Heap
<1>3. QED
  BY <1>1, <1>2 DEF HeapOK

LEMMA TakeFoundStep == IInv /\ TakeFound => IInv'
<1> SUFFICES ASSUME IInv, TakeFound PROVE IInv'
  OBVIOUS
<1> DEFINE k == RemoveTag(Heap, cur)
           g == Carve(k, cur, size)
           bin == BinOf(size)
<1>1. /\ pc = "search" /\ cur # NULL /\ Fits(cur) /\ held' = held
      /\ completePages' = IF Whole(tag[cur]) THEN [completePages EXCEPT ![bin] = @ - 1]
                                             ELSE completePages
      /\ Become(g) /\ Deliver(cur)
  BY DEF TakeFound
<1>2. HeapOK /\ Heap.tag = tag
  BY DEF IInv, Heap
<1>3. /\ size \in Nat \ {0} /\ size + Hdr < Word
      /\ cur \in DOMAIN tag /\ tag[cur].index = bin /\ bin \in Bins /\ bin # -1
  <2>1. /\ size \in Nat \ {0} /\ size + Hdr < Word /\ cur \in DOMAIN tag
        /\ tag[cur].index = bin
    BY <1>1 DEF IInv, CallState
  <2>2. bin \in Bins
    BY <2>1, BinOfType
  <2>3. QED
    BY <2>1, <2>2, ConstantTypes DEF Bins
<1>4. \A x \in DOMAIN tag : x \in Nat /\ tag[x].real_size \in Nat /\ tag[x].real_size < Word
  BY <1>2, TypedHeap, ConstantTypes DEF HeapOK, TagFields
<1>5. size + Hdr <= tag[cur].real_size
  <2> DEFINE real == tag[cur].real_size
  <2>1. real > Hdr /\ real \in Nat /\ real < Word
    BY <1>2, <1>3, <1>4 DEF HeapOK, PiecesOf
  <2>2. U(real - Hdr) >= U(size + Hdr)
    BY <1>1 DEF Fits
  <2> HIDE DEF real
  <2>3. real - Hdr \in 0 .. Word - 1 /\ size + Hdr \in 0 .. Word - 1
    BY <1>3, <2>1, ConstantTypes
  <2>4. real - Hdr >= size + Hdr
    BY <2>2, <2>3, WordValue
  <2>5. QED
    BY <1>3, <2>1, <2>4, ConstantTypes DEF real
<1>6. /\ Typed(k) /\ SamePieces(k.tag, tag) /\ ListsOf(k)
      /\ \A x \in DOMAIN tag : k.tag[x].index = IF x = cur THEN -1 ELSE tag[x].index
  BY <1>2, <1>3, RemoveTagEffect DEF HeapOK
<1> HIDE DEF k
<1>7. /\ PiecesOf(k.tag) /\ InBlocks(k.tag, held) /\ Sized(k.tag) /\ Merged(k.tag)
      /\ \A b \in Bins : WholeIn(k.tag, b) = WholeIn(tag, b) \ {cur}
      /\ InUse(k.tag) = InUse(tag) \union {cur}
  <2> DEFINE S == k.tag
             h == Heap
  <2>1. /\ Typed(h) /\ PiecesOf(h.tag) /\ InBlocks(h.tag, held) /\ Sized(h.tag)
        /\ Merged(h.tag) /\ cur \in DOMAIN h.tag /\ h.tag[cur].index # -1
        /\ SamePieces(S, h.tag)
        /\ \A x \in DOMAIN h.tag : S[x].index = IF x = cur THEN -1 ELSE h.tag[x].index
    BY <1>2, <1>3, <1>6 DEF HeapOK
  <2> HIDE DEF S, h
  <2>2. /\ PiecesOf(S) /\ InBlocks(S, held) /\ Sized(S) /\ Merged(S)
        /\ \A b \in Bins : WholeIn(S, b) = WholeIn(h.tag, b) \ {cur}
        /\ InUse(S) = InUse(h.tag) \union {cur}
    BY <2>1, RemovedKeeps
  <2>3. QED
    BY <1>2, <2>2 DEF S, h
<1>8. /\ DOMAIN k.tag = DOMAIN tag /\ cur \in DOMAIN k.tag /\ k.tag[cur].index = -1
      /\ \A x \in DOMAIN tag : k.tag[x].real_size = tag[x].real_size
      /\ k.tag[cur].right # NULL => k.tag[k.tag[cur].right].index = -1
      /\ size + Hdr <= k.tag[cur].real_size
  <2>1. DOMAIN k.tag = DOMAIN tag
        /\ \A x \in DOMAIN tag : k.tag[x].real_size = tag[x].real_size
                                 /\ k.tag[x].right = tag[x].right
    BY <1>6 DEF SamePieces
  <2>2. tag[cur].right # NULL => tag[cur].right \in DOMAIN tag
                                 /\ tag[tag[cur].right].index = -1
    BY <1>2, <1>3 DEF HeapOK, PiecesOf, Merged
  <2>3. QED
    BY <1>3, <1>5, <1>6, <2>1, <2>2
<1>9. /\ Typed(g) /\ ListsOf(g) /\ PiecesOf(g.tag)
      /\ InBlocks(g.tag, held) /\ Sized(g.tag) /\ Merged(g.tag)
      /\ \A b \in Bins : WholeIn(g.tag, b) = WholeIn(k.tag, b)
      /\ InUse(g.tag) = InUse(k.tag)
      /\ DOMAIN k.tag \subseteq DOMAIN g.tag
      /\ \A x \in DOMAIN k.tag \ {cur} : g.tag[x].real_size = k.tag[x].real_size
      /\ g.tag[cur].real_size >= size + Hdr
  <2>1. BlocksApart(held)
    BY <1>2 DEF HeapOK
  <2>2. QED
    BY <1>3, <1>6, <1>7, <1>8, <2>1, CarveKeeps
<1> HIDE DEF g
<1>10. Counted(g.tag, completePages')
  <2>1. /\ completePages \in [Bins -> 0 .. MaxComplete]
        /\ \A b \in Bins : completePages[b] = Cardinality(WholeIn(tag, b))
    BY <1>2 DEF HeapOK, Counted
  <2>2. \A b \in Bins : WholeIn(g.tag, b) = WholeIn(tag, b) \ {cur}
    BY <1>7, <1>9
  <2>3. \A b \in Bins : b # bin => cur \notin WholeIn(tag, b)
    BY <1>3 DEF WholeIn
  <2>4. cur \in WholeIn(tag, bin) <=> Whole(tag[cur])
    BY <1>3 DEF WholeIn
  <2>5. \A b \in Bins : IsFiniteSet(WholeIn(tag, b))
    BY <1>2, TagsFinite DEF HeapOK
  <2>6. CASE Whole(tag[cur])
    <3>1. Cardinality(WholeIn(tag, bin) \ {cur}) = Cardinality(WholeIn(tag, bin)) - 1
          /\ Cardinality(WholeIn(tag, bin) \ {cur}) \in Nat
      BY <1>3, <2>4, <2>5, <2>6, FS_RemoveElement, FS_CardinalityType
    <3>2. completePages' = [completePages EXCEPT ![bin] = @ - 1]
      BY <1>1, <2>6
    <3>3. completePages[bin] - 1 \in 0 .. MaxComplete
      BY <1>3, <2>1, <3>1, ConstantTypes
    <3>4. \A b \in Bins \ {bin} : WholeIn(tag, b) \ {cur} = WholeIn(tag, b)
      BY <2>3
    <3> HIDE DEF bin
    <3>5. completePages' \in [Bins -> 0 .. MaxComplete]
      BY <1>3, <2>1, <3>2, <3>3
    <3>6. \A b \in Bins : completePages'[b] = Cardinality(WholeIn(tag, b) \ {cur})
      BY <1>3, <2>1, <3>1, <3>2, <3>4
    <3>7. QED
      BY <2>2, <3>5, <3>6 DEF Counted
  <2>7. CASE ~Whole(tag[cur])
    <3>1. \A b \in Bins : WholeIn(tag, b) \ {cur} = WholeIn(tag, b)
      BY <2>3, <2>4, <2>7
    <3>2. QED
      BY <1>1, <2>1, <2>2, <2>7, <3>1 DEF Counted
  <2>8. QED
    BY <2>6, <2>7
<1>11. HeapOK'
  <2>1. BlocksApart(held') /\ InBlocks(g.tag, held')
    BY <1>1, <1>2, <1>9 DEF HeapOK
  <2>2. QED
    BY <1>1, <1>9, <1>10, <2>1, HeapBecomes
<1>12. RegionsHeld' /\ CallState'
  <2>1. tag' = g.tag
    BY <1>1 DEF Become
  <2>2. cur \in Nat /\ cur \notin InUse(tag) /\ InUse(tag') = InUse(tag) \union {cur}
    BY <1>3, <1>4, <1>7, <1>9, <2>1 DEF InUse
  <2>3. \A x \in InUse(tag) : x \in DOMAIN tag' /\ tag'[x].real_size = tag[x].real_size
    BY <1>8, <1>9, <2>1, <2>2 DEF InUse
  <2>4. /\ cur \in DOMAIN tag' /\ tag'[cur].real_size \in Nat
        /\ tag'[cur].real_size >= size + Hdr
    BY <1>8, <1>9, <2>1, TypedHeap
  <2>5. QED
    BY <1>1, <2>2, <2>3, <2>4, DeliverStep
<1>13. QED
  BY <1>11, <1>12 DEF IInv

(* The pages for a request hold its bytes and a header.                    *)
LEMMA PagesHold ==
    ASSUME NEW n \in Nat, n + Hdr < Word
    PROVE  /\ PagesFor(n) \in Nat /\ PagesFor(n) >= PageCount
           /\ PagesFor(n) * PageSize \in Nat
           /\ n + Hdr <= PagesFor(n) * PageSize
<1>1. ASSUME NEW m \in Nat, NEW d \in Nat \ {0}, NEW q \in Nat, (m + d - 1) \div d <= q
      PROVE  /\ (m + d - 1) \div d \in Nat
             /\ q * d \in Nat /\ m <= q * d
  BY <1>1, Z3
<1> DEFINE m == n + Hdr
           pages == (m + PageSize - 1) \div PageSize
<1>2. m \in Nat /\ U(m) = m
  BY ConstantTypes, WordValue
<1>3. pages \in Nat
  <2> HIDE DEF m
  <2>1. ASSUME NEW d \in Nat \ {0} PROVE (m + d - 1) \div d \in Nat
    BY <1>2, <2>1, Z3
  <2>2. QED
    BY <1>2, <2>1, ConstantTypes
<1>4. PagesFor(n) = IF pages < PageCount THEN PageCount ELSE pages
  BY <1>2 DEF PagesFor
<1>5. PagesFor(n) \in Nat /\ PagesFor(n) >= PageCount /\ pages <= PagesFor(n)
  <2> HIDE DEF pages
  <2>1. QED
    BY <1>3, <1>4, ConstantTypes
<1> HIDE DEF m
<1>6. PagesFor(n) * PageSize \in Nat /\ m <= PagesFor(n) * PageSize
  BY <1>1, <1>2, <1>5, ConstantTypes
<1>7. QED
  BY <1>5, <1>6 DEF m

(* A block of pages that shares none with the others begins outside their  *)
(* pieces and ends before or after them.                                   *)
LEMMA BlockApart ==
    ASSUME HeapOK, NEW e, BlocksApart(held \union {e}), e \notin held,
           NEW x \in DOMAIN tag
    PROVE  /\ x # Address(e.ptr)
           /\ x < Address(e.ptr) => x + tag[x].real_size <= Address(e.ptr)
           /\ Address(e.ptr) < x => Address(PS!End(e)) <= x
<1>1. PICK f \in held : Address(f.ptr) <= x /\ x + tag[x].real_size <= Address(PS!End(f))
  BY DEF HeapOK, InBlocks
<1>2. x \in Nat /\ tag[x].real_size \in Nat \ {0}
  <2>1. Heap.tag = tag
    BY DEF Heap
  <2>2. x \in Nat /\ tag[x].real_size \in Nat
    BY <2>1, TypedHeap DEF HeapOK
  <2>3. tag[x].real_size > Hdr
    BY DEF HeapOK, PiecesOf
  <2>4. QED
    BY <2>2, <2>3, ConstantTypes
<1>3. /\ Address(e.ptr) \in Nat /\ Address(PS!End(e)) \in Nat
      /\ e.ptr \in Nat /\ PS!End(e) \in Nat
      /\ Address(f.ptr) \in Nat /\ Address(PS!End(f)) \in Nat
      /\ f.ptr \in Nat /\ PS!End(f) \in Nat
      /\ Address(e.ptr) < Address(PS!End(e))
  <2>1. e \in held \union {e} /\ f \in held \union {e}
    OBVIOUS
  <2>2. e.size * PageSize \in Nat /\ PageSize <= e.size * PageSize
        /\ Address(PS!End(e)) = Address(e.ptr) + e.size * PageSize
        /\ Address(e.ptr) \in Nat
    BY <2>1, BlockTypes
  <2>3. QED
    BY <2>1, <2>2, BlockTypes, ConstantTypes
<1>4. PS!End(e) <= f.ptr \/ PS!End(f) <= e.ptr
  BY DEF BlocksApart, PS!Disjoint
<1>5. CASE PS!End(e) <= f.ptr
  <2>1. Address(PS!End(e)) <= Address(f.ptr)
    BY <1>3, <1>5, AddressMonotone
  <2>2. QED
    BY <1>1, <1>2, <1>3, <2>1
<1>6. CASE PS!End(f) <= e.ptr
  <2>1. Address(PS!End(f)) <= Address(e.ptr)
    BY <1>3, <1>6, AddressMonotone
  <2>2. QED
    BY <1>1, <1>2, <1>3, <2>1
<1>7. QED
  BY <1>4, <1>5, <1>6

(* A new block is one piece of the heap. *)
LEMMA BlockAdded ==
    ASSUME HeapOK, NEW e, BlocksApart(held \union {e}), e \notin held,
           NEW n \in 0 .. Word - 1
    PROVE  LET a == Address(e.ptr)
               block == [real_size |-> U(e.size * PageSize), size |-> n,
                         index |-> -1, left |-> NULL, right |-> NULL,
                         next |-> NULL, prev |-> NULL]
               k == [Heap EXCEPT !.tag = With(tag, a, block)]
           IN /\ Typed(k) /\ ListsOf(k) /\ PiecesOf(k.tag)
              /\ InBlocks(k.tag, held \union {e}) /\ Sized(k.tag) /\ Merged(k.tag)
              /\ \A b \in Bins : WholeIn(k.tag, b) = WholeIn(tag, b)
              /\ InUse(k.tag) = InUse(tag) \union {a}
              /\ a \notin DOMAIN tag /\ a \in Nat
              /\ DOMAIN k.tag = DOMAIN tag \union {a}
              /\ k.tag[a].index = -1 /\ k.tag[a].right = NULL
              /\ k.tag[a].real_size = e.size * PageSize
              /\ \A x \in DOMAIN tag : k.tag[x].real_size = tag[x].real_size
<1> DEFINE a == Address(e.ptr)
           block == [real_size |-> U(e.size * PageSize), size |-> n,
                     index |-> -1, left |-> NULL, right |-> NULL,
                     next |-> NULL, prev |-> NULL]
           k == [Heap EXCEPT !.tag = With(tag, a, block)]
           T == k.tag
           D == DOMAIN tag
           real == e.size * PageSize
<1>1. /\ a \in Nat \ {0} /\ real \in Nat /\ Hdr < real /\ real < Word
      /\ Address(PS!End(e)) = a + real /\ e \in held \union {e}
  <2>1. /\ Address(e.ptr) \in Nat /\ PageSize <= Address(e.ptr) /\ e.size * PageSize \in Nat
        /\ PageSize <= e.size * PageSize
        /\ Address(PS!End(e)) = Address(e.ptr) + e.size * PageSize
        /\ Address(PS!End(e)) <= (NumPages + 1) * PageSize
    BY BlockTypes
  <2>2. (NumPages + 1) * PageSize \in Nat
    BY ConstantTypes
  <2>3. QED
    BY <2>1, <2>2, ConstantTypes
<1>2. U(real) = real
  <2> HIDE DEF real
  <2>1. QED
    BY <1>1, WordValue, ConstantTypes
<1>3. /\ block \in TagFields /\ block.real_size = real /\ block.index = -1
      /\ block.left = NULL /\ block.right = NULL /\ block.next = NULL /\ block.prev = NULL
  <2>1. U(real) \in 0 .. Word - 1
    BY <1>1, <1>2, ConstantTypes
  <2> HIDE DEF real
  <2>2. block = [real_size |-> U(real), size |-> n, index |-> -1, left |-> NULL,
                 right |-> NULL, next |-> NULL, prev |-> NULL]
    BY DEF real
  <2> HIDE DEF block
  <2>3. QED
    BY <1>2, <2>1, <2>2 DEF TagFields, NULL
<1>4. /\ Heap = [tag |-> tag, bins |-> freePages] /\ Heap.tag = tag /\ Heap.bins = freePages
      /\ tag \in [D -> TagFields] /\ freePages \in [Bins -> Nat]
      /\ D \subseteq Nat \ {0} /\ NULL \notin D
      /\ \A x \in D : tag[x].real_size \in Nat
  <2>1. Heap = [tag |-> tag, bins |-> freePages] /\ Heap.tag = tag /\ Heap.bins = freePages
    BY DEF Heap
  <2>2. QED
    BY <2>1, TypedHeap DEF HeapOK
<1>5. a \notin D
  BY BlockApart
<1>6. k = [tag |-> T, bins |-> freePages] /\ T = With(tag, a, block)
  BY <1>4
<1> HIDE DEF k, block
<1>7. DOMAIN T = D \union {a} /\ T[a] = block /\ \A x \in D : T[x] = tag[x]
  BY <1>5, <1>6 DEF With
<1> HIDE DEF T, a, real
<1>8. Typed(k)
  <2>1. T \in [D \union {a} -> TagFields]
    BY <1>3, <1>4, <1>6, <1>7 DEF With
  <2>2. QED
    BY <1>1, <1>4, <1>6, <1>7, <2>1 DEF Typed, T
<1>9. ListsOf(k)
  <2>1. k.tag = T /\ k.bins = freePages
    BY <1>6
  <2>2. /\ \A b \in Bins : freePages[b] # NULL => freePages[b] \in D /\ tag[freePages[b]].index = b
        /\ \A x \in D : /\ tag[x].index = -1 => tag[x].next = NULL /\ tag[x].prev = NULL
                        /\ tag[x].index # -1 =>
                              /\ tag[x].prev = NULL <=> freePages[tag[x].index] = x
                              /\ tag[x].prev # NULL =>
                                    tag[x].prev \in D /\ tag[tag[x].prev].next = x
                              /\ tag[x].next # NULL => /\ tag[x].next \in D
                                                       /\ tag[tag[x].next].prev = x
                                                       /\ tag[tag[x].next].index = tag[x].index
    BY <1>4 DEF HeapOK, ListsOf
  <2>3. QED
    BY <1>3, <1>7, <2>1, <2>2 DEF ListsOf
<1>10. PiecesOf(T)
  <2>1. \A x \in D : /\ tag[x].real_size > Hdr
                     /\ tag[x].right # NULL => /\ tag[x].right \in D
                                               /\ tag[x].right = x + tag[x].real_size
                                               /\ tag[tag[x].right].left = x
                     /\ tag[x].left # NULL => tag[x].left \in D /\ tag[tag[x].left].right = x
                     /\ \A y \in D : x < y => x + tag[x].real_size <= y
    BY DEF HeapOK, PiecesOf
  <2>2. \A x \in D : /\ x < a => x + tag[x].real_size <= a
                     /\ a < x => a + real <= x
    BY <1>1, BlockApart DEF a
  <2>3. ~(a < a)
    BY <1>1
  <2>4. QED
    BY <1>1, <1>3, <1>7, <2>1, <2>2, <2>3 DEF PiecesOf
<1>11. InBlocks(T, held \union {e})
  <2>1. \A x \in D : /\ \E f \in held : /\ Address(f.ptr) <= x
                                        /\ x + tag[x].real_size <= Address(PS!End(f))
                     /\ tag[x].left = NULL => \E f \in held : x = Address(f.ptr)
                     /\ tag[x].right = NULL =>
                           \E f \in held : x + tag[x].real_size = Address(PS!End(f))
    BY DEF HeapOK, InBlocks
  <2>2. \A f \in held : Address(f.ptr) \in D /\ tag[Address(f.ptr)].left = NULL
    BY DEF HeapOK, InBlocks
  <2>3. Address(e.ptr) = a /\ a <= a /\ a + real <= Address(PS!End(e))
    BY <1>1 DEF a
  <2>4. ASSUME NEW x \in D \union {a}
        PROVE  /\ \E f \in held \union {e} : /\ Address(f.ptr) <= x
                                             /\ x + T[x].real_size <= Address(PS!End(f))
               /\ T[x].left = NULL => \E f \in held \union {e} : x = Address(f.ptr)
               /\ T[x].right = NULL =>
                     \E f \in held \union {e} : x + T[x].real_size = Address(PS!End(f))
    <3>1. CASE x = a
      BY <1>1, <1>3, <1>7, <2>3, <3>1
    <3>2. CASE x # a
      BY <1>7, <2>1, <3>2
    <3>3. QED
      BY <3>1, <3>2
  <2>5. \A f \in held \union {e} : Address(f.ptr) \in D \union {a} /\ T[Address(f.ptr)].left = NULL
    BY <1>3, <1>7, <2>2, <2>3
  <2>6. QED
    BY <1>7, <2>4, <2>5 DEF InBlocks
<1>12. Sized(T) /\ Merged(T)
  <2>1. \A x \in D : tag[x].right # NULL => tag[x].right \in D
    BY DEF HeapOK, PiecesOf
  <2>2. QED
    BY <1>3, <1>7, <2>1 DEF HeapOK, Sized, Merged
<1>13. \A b \in Bins : WholeIn(T, b) = WholeIn(tag, b)
  <2>1. -1 \notin Bins
    BY ConstantTypes DEF Bins
  <2>2. QED
    BY <1>3, <1>7, <2>1 DEF WholeIn
<1>14. InUse(T) = InUse(tag) \union {a}
  BY <1>3, <1>7 DEF InUse
<1>15. QED
  <2>1. k.tag = T
    BY DEF T
  <2>2. /\ a \notin DOMAIN tag /\ a \in Nat
        /\ DOMAIN T = D \union {a} /\ T[a].index = -1 /\ T[a].right = NULL
        /\ T[a].real_size = real /\ \A x \in D : T[x].real_size = tag[x].real_size
    BY <1>1, <1>3, <1>5, <1>7
  <2>3. QED
    BY <1>8, <1>9, <1>10, <1>11, <1>12, <1>13, <1>14, <2>1, <2>2 DEF k, a, block, real

LEMMA NewBlockStep == IInv /\ NewBlock => IInv'
<1> SUFFICES ASSUME IInv, NewBlock PROVE IInv'
  OBVIOUS
<1>1. PICK p \in 1 .. NumPages :
         LET e == [ptr |-> p, size |-> PagesFor(size)] IN PS!Alloc(e) /\ AddBlock(e)
  BY DEF NewBlock
<1> DEFINE e == [ptr |-> p, size |-> PagesFor(size)]
           a == Address(e.ptr)
           block == [real_size |-> U(e.size * PageSize), size |-> size,
                     index |-> -1, left |-> NULL, right |-> NULL,
                     next |-> NULL, prev |-> NULL]
           k == [Heap EXCEPT !.tag = With(tag, a, block)]
           g == Carve(k, a, size)
<1>2. /\ PS!InHeap(e) /\ (\A f \in held : PS!Disjoint(e, f)) /\ held' = held \union {e}
      /\ pc = "search" /\ cur = NULL /\ completePages' = completePages
      /\ Become(g) /\ Deliver(a)
  BY <1>1 DEF PS!Alloc, AddBlock
<1>3. HeapOK /\ size \in Nat \ {0} /\ size + Hdr < Word /\ size \in 0 .. Word - 1
  BY <1>2, ConstantTypes DEF IInv, CallState
<1>4. /\ PagesFor(size) \in Nat /\ PagesFor(size) >= PageCount
      /\ size + Hdr <= PagesFor(size) * PageSize
  BY <1>3, PagesHold
<1>5. /\ e.ptr \in Nat \ {0} /\ e.size \in Nat \ {0} /\ e.size >= PageCount
      /\ e.ptr = p /\ e.size = PagesFor(size) /\ p + PagesFor(size) <= NumPages + 1
      /\ PS!End(e) = e.ptr + e.size
  BY <1>2, <1>4, ConstantTypes DEF PS!InHeap, PS!End
<1>6. e \notin held
  BY <1>2, <1>5 DEF PS!Disjoint
<1>7. BlocksApart(held \union {e})
  <2>1. BlocksApart(held)
    BY <1>3 DEF HeapOK
  <2>2. e \in PS!Extents
    BY <1>4, <1>5, ConstantTypes DEF PS!Extents
  <2>3. \A f \in held : PS!Disjoint(f, e)
    BY <1>2 DEF PS!Disjoint
  <2> HIDE DEF e
  <2>4. QED
    BY <1>2, <1>5, <2>1, <2>2, <2>3 DEF BlocksApart
<1>8. size + Hdr <= e.size * PageSize
  BY <1>4
<1> HIDE DEF e
<1>9. /\ Typed(k) /\ ListsOf(k) /\ PiecesOf(k.tag)
      /\ InBlocks(k.tag, held \union {e}) /\ Sized(k.tag) /\ Merged(k.tag)
      /\ \A b \in Bins : WholeIn(k.tag, b) = WholeIn(tag, b)
      /\ InUse(k.tag) = InUse(tag) \union {a}
      /\ a \notin DOMAIN tag /\ a \in Nat
      /\ DOMAIN k.tag = DOMAIN tag \union {a}
      /\ k.tag[a].index = -1 /\ k.tag[a].right = NULL
      /\ k.tag[a].real_size = e.size * PageSize
      /\ \A x \in DOMAIN tag : k.tag[x].real_size = tag[x].real_size
  BY <1>3, <1>6, <1>7, BlockAdded
<1> HIDE DEF k, a
<1>10. a \in DOMAIN k.tag /\ size + Hdr <= k.tag[a].real_size
  BY <1>8, <1>9
<1>11. /\ Typed(g) /\ ListsOf(g) /\ PiecesOf(g.tag)
       /\ InBlocks(g.tag, held \union {e}) /\ Sized(g.tag) /\ Merged(g.tag)
       /\ \A b \in Bins : WholeIn(g.tag, b) = WholeIn(k.tag, b)
       /\ InUse(g.tag) = InUse(k.tag)
       /\ DOMAIN k.tag \subseteq DOMAIN g.tag
       /\ \A x \in DOMAIN k.tag \ {a} : g.tag[x].real_size = k.tag[x].real_size
       /\ g.tag[a].real_size >= size + Hdr
  BY <1>3, <1>7, <1>9, <1>10, CarveKeeps
<1> HIDE DEF g
<1>12. Counted(g.tag, completePages')
  BY <1>2, <1>3, <1>9, <1>11 DEF HeapOK, Counted
<1>13. HeapOK'
  BY <1>2, <1>7, <1>11, <1>12, HeapBecomes
<1>14. RegionsHeld' /\ CallState'
  <2>1. tag' = g.tag
    BY <1>2 DEF Become
  <2>2. a \notin InUse(tag) /\ InUse(tag') = InUse(tag) \union {a}
    BY <1>9, <1>11, <2>1 DEF InUse
  <2>3. \A x \in InUse(tag) : x \in DOMAIN tag' /\ tag'[x].real_size = tag[x].real_size
    BY <1>9, <1>11, <2>1 DEF InUse
  <2>4. /\ a \in DOMAIN tag' /\ tag'[a].real_size \in Nat
        /\ tag'[a].real_size >= size + Hdr
    BY <1>10, <1>11, <2>1, TypedHeap
  <2>5. QED
    BY <1>2, <1>9, <2>2, <2>3, <2>4, DeliverStep
<1>15. QED
  BY <1>13, <1>14 DEF IInv

(* A step of kmem_free that leaves the clients' regions alone: the piece   *)
(* it works on is c before and d after it.                                 *)
LEMMA FreeGoesOn ==
    ASSUME IInv, pc = "free", pc' = "free", used' = used, cur' \in DOMAIN tag',
           cur' = cur \/ cur' \notin InUse(tag),
           InUse(tag') = (InUse(tag) \ {cur}) \union {cur'},
           \A x \in InUse(tag) \ {cur} :
               x \in DOMAIN tag' /\ tag'[x].real_size = tag[x].real_size
    PROVE  RegionsHeld' /\ CallState'
<1>1. /\ used \subseteq [ptr : Nat, size : Nat \ {0}]
      /\ \A s \in used : /\ s.ptr - Hdr \in DOMAIN tag
                         /\ s.ptr + s.size <= s.ptr - Hdr + tag[s.ptr - Hdr].real_size
      /\ \A s, t \in used : s.ptr = t.ptr => s = t
      /\ InUse(tag) = ClientTags \union {cur}
  BY DEF IInv, RegionsHeld
<1>2. cur \notin ClientTags /\ ClientTags' = ClientTags
  BY DEF IInv, CallState, ClientTags
<1>3. cur' \notin ClientTags /\ InUse(tag') = ClientTags \union {cur'}
  BY <1>1, <1>2
<1>4. \A s \in used : /\ s.ptr - Hdr \in DOMAIN tag'
                      /\ s.ptr + s.size <= s.ptr - Hdr + tag'[s.ptr - Hdr].real_size
  <2> SUFFICES ASSUME NEW s \in used
               PROVE  /\ s.ptr - Hdr \in DOMAIN tag'
                      /\ s.ptr + s.size <= s.ptr - Hdr + tag'[s.ptr - Hdr].real_size
    OBVIOUS
  <2>1. s.ptr - Hdr \in InUse(tag) \ {cur}
    BY <1>1, <1>2 DEF ClientTags
  <2>2. QED
    BY <1>1, <2>1
<1>5. RegionsHeld'
  BY <1>1, <1>2, <1>3, <1>4 DEF RegionsHeld, InUse
<1>6. CallState'
  BY <1>2, <1>3 DEF CallState, InUse
<1>7. QED
  BY <1>5, <1>6

LEMMA FreeFacts ==
    ASSUME IInv, pc = "free"
    PROVE  /\ HeapOK /\ Heap.tag = tag
           /\ cur \in DOMAIN tag /\ tag[cur].index = -1 /\ cur \in InUse(tag)
           /\ \A x \in DOMAIN tag : x \in Nat /\ x # NULL /\ tag[x].real_size \in Nat
                                    /\ tag[x].index \in {-1} \union Bins
           /\ tag[cur].left # NULL => tag[cur].left \in DOMAIN tag
           /\ tag[cur].right # NULL => tag[cur].right \in DOMAIN tag
           /\ \A b \in Bins : b >= 0 /\ b # -1
<1>1. HeapOK /\ Heap.tag = tag
  BY DEF IInv, Heap
<1>2. cur \in DOMAIN tag /\ tag[cur].index = -1 /\ cur \in InUse(tag)
  BY DEF IInv, CallState, InUse
<1>3. \A x \in DOMAIN tag : x \in Nat /\ x # NULL /\ tag[x].real_size \in Nat
                            /\ tag[x].index \in {-1} \union Bins
  BY <1>1, TypedHeap DEF HeapOK
<1>4. /\ tag[cur].left # NULL => tag[cur].left \in DOMAIN tag
      /\ tag[cur].right # NULL => tag[cur].right \in DOMAIN tag
  BY <1>1, <1>2 DEF HeapOK, PiecesOf
<1>5. \A b \in Bins : b >= 0 /\ b # -1
  BY ConstantTypes DEF Bins
<1>6. QED
  BY <1>1, <1>2, <1>3, <1>4, <1>5

LEMMA MeltLeftStep == IInv /\ MeltLeft => IInv'
<1> SUFFICES ASSUME IInv, MeltLeft PROVE IInv'
  OBVIOUS
<1> DEFINE a == tag[cur].left
           g == MeltLeftTag(Heap, cur)
<1>1. /\ pc = "free" /\ a # NULL /\ tag[a].index >= 0 /\ Become(g) /\ cur' = a
      /\ completePages' = completePages /\ held' = held /\ used' = used /\ pc' = pc
  BY DEF MeltLeft, Melts
<1>2. /\ HeapOK /\ Heap.tag = tag /\ cur \in DOMAIN tag /\ tag[cur].index = -1
      /\ cur \in InUse(tag) /\ a \in DOMAIN tag /\ tag[a].index # -1 /\ tag[cur].left = a
      /\ a # cur
  BY <1>1, FreeFacts
<1> HIDE DEF a
<1>3. /\ Typed(g) /\ ListsOf(g) /\ PiecesOf(g.tag)
      /\ InBlocks(g.tag, held) /\ Sized(g.tag) /\ Merged(g.tag)
      /\ \A b \in Bins : WholeIn(g.tag, b) = WholeIn(tag, b)
      /\ InUse(g.tag) = (InUse(tag) \union {a}) \ {cur}
      /\ \A x \in DOMAIN tag \ {a, cur} :
            x \in DOMAIN g.tag /\ g.tag[x].real_size = tag[x].real_size
  BY <1>2, MeltLeftKeeps DEF HeapOK
<1> HIDE DEF g
<1>4. Counted(g.tag, completePages') /\ BlocksApart(held') /\ InBlocks(g.tag, held')
  BY <1>1, <1>2, <1>3 DEF HeapOK, Counted
<1>5. HeapOK'
  BY <1>1, <1>3, <1>4, HeapBecomes
<1>6. tag' = g.tag
  BY <1>1 DEF Become
<1>7. RegionsHeld' /\ CallState'
  <2>1. InUse(tag') = (InUse(tag) \ {cur}) \union {cur'} /\ cur' \notin InUse(tag)
    BY <1>1, <1>2, <1>3, <1>6 DEF InUse
  <2>2. cur' \in DOMAIN tag'
    BY <2>1 DEF InUse
  <2>3. \A x \in InUse(tag) \ {cur} :
           x \in DOMAIN tag' /\ tag'[x].real_size = tag[x].real_size
    BY <1>2, <1>3, <1>6 DEF InUse
  <2>4. QED
    BY <1>1, <2>1, <2>2, <2>3, FreeGoesOn
<1>8. QED
  BY <1>5, <1>7 DEF IInv

LEMMA MeltRightStep == IInv /\ MeltRight => IInv'
<1> SUFFICES ASSUME IInv, MeltRight PROVE IInv'
  OBVIOUS
<1> DEFINE r == tag[cur].right
           g == AbsorbRight(Heap, cur)
<1>1. /\ pc = "free" /\ r # NULL /\ tag[r].index >= 0 /\ Become(g) /\ cur' = cur
      /\ completePages' = completePages /\ held' = held /\ used' = used /\ pc' = pc
  BY DEF MeltRight, Melts
<1>2. /\ HeapOK /\ Heap.tag = tag /\ cur \in DOMAIN tag /\ tag[cur].index = -1
      /\ cur \in InUse(tag) /\ r \in DOMAIN tag /\ tag[r].index # -1 /\ tag[cur].right = r
  BY <1>1, FreeFacts
<1> HIDE DEF r
<1>3. /\ Typed(g) /\ ListsOf(g) /\ PiecesOf(g.tag)
      /\ InBlocks(g.tag, held) /\ Sized(g.tag) /\ Merged(g.tag)
      /\ \A b \in Bins : WholeIn(g.tag, b) = WholeIn(tag, b)
      /\ InUse(g.tag) = InUse(tag)
      /\ cur \in DOMAIN g.tag
      /\ \A x \in DOMAIN tag \ {cur, r} :
            x \in DOMAIN g.tag /\ g.tag[x].real_size = tag[x].real_size
  BY <1>2, AbsorbRightKeeps DEF HeapOK
<1> HIDE DEF g
<1>4. Counted(g.tag, completePages') /\ BlocksApart(held') /\ InBlocks(g.tag, held')
  BY <1>1, <1>2, <1>3 DEF HeapOK, Counted
<1>5. HeapOK'
  BY <1>1, <1>3, <1>4, HeapBecomes
<1>6. tag' = g.tag
  BY <1>1 DEF Become
<1>7. RegionsHeld' /\ CallState'
  <2>1. InUse(tag') = (InUse(tag) \ {cur}) \union {cur'} /\ cur' \in DOMAIN tag'
    BY <1>1, <1>2, <1>3, <1>6
  <2>2. \A x \in InUse(tag) \ {cur} :
           x \in DOMAIN tag' /\ tag'[x].real_size = tag[x].real_size
    BY <1>2, <1>3, <1>6 DEF InUse
  <2>3. QED
    BY <1>1, <2>1, <2>2, FreeGoesOn
<1>8. QED
  BY <1>5, <1>7 DEF IInv

(* A step that ends kmem_free: its piece is no longer in use. *)
LEMMA FreeEnds ==
    ASSUME IInv, pc = "free", pc' = "idle", used' = used, cur' = NULL,
           InUse(tag') = InUse(tag) \ {cur},
           \A x \in InUse(tag) \ {cur} :
               x \in DOMAIN tag' /\ tag'[x].real_size = tag[x].real_size
    PROVE  RegionsHeld' /\ CallState'
<1>1. /\ used \subseteq [ptr : Nat, size : Nat \ {0}]
      /\ \A s \in used : /\ s.ptr - Hdr \in DOMAIN tag
                         /\ s.ptr + s.size <= s.ptr - Hdr + tag[s.ptr - Hdr].real_size
      /\ \A s, t \in used : s.ptr = t.ptr => s = t
      /\ InUse(tag) = ClientTags \union {cur}
  BY DEF IInv, RegionsHeld
<1>2. cur \notin ClientTags /\ ClientTags' = ClientTags
  BY DEF IInv, CallState, ClientTags
<1>3. InUse(tag') = ClientTags
  BY <1>1, <1>2
<1>4. \A s \in used : /\ s.ptr - Hdr \in DOMAIN tag'
                      /\ s.ptr + s.size <= s.ptr - Hdr + tag'[s.ptr - Hdr].real_size
  <2> SUFFICES ASSUME NEW s \in used
               PROVE  /\ s.ptr - Hdr \in DOMAIN tag'
                      /\ s.ptr + s.size <= s.ptr - Hdr + tag'[s.ptr - Hdr].real_size
    OBVIOUS
  <2>1. s.ptr - Hdr \in InUse(tag) \ {cur}
    BY <1>1, <1>2 DEF ClientTags
  <2>2. QED
    BY <1>1, <2>1
<1>5. RegionsHeld'
  BY <1>1, <1>2, <1>3, <1>4 DEF RegionsHeld, InUse
<1>6. CallState'
  BY DEF CallState
<1>7. QED
  BY <1>5, <1>6

LEMMA KeepPieceStep == IInv /\ KeepPiece => IInv'
<1> SUFFICES ASSUME IInv, KeepPiece PROVE IInv'
  OBVIOUS
<1> DEFINE k == WithSize(Heap, cur, 0)
           bin == FreeBin
           g == InsertTag(k, cur, bin)
<1>1. /\ pc = "free" /\ ~Melts(tag[cur].left) /\ ~Melts(tag[cur].right)
      /\ Whole(tag[cur]) => completePages[bin] # MaxComplete
      /\ completePages' = IF Whole(tag[cur]) THEN [completePages EXCEPT ![bin] = @ + 1]
                                             ELSE completePages
      /\ Become(g) /\ held' = held /\ used' = used /\ pc' = "idle" /\ cur' = NULL
  BY DEF KeepPiece, Melted, Return, WithSize
<1>2. /\ HeapOK /\ Heap.tag = tag /\ cur \in DOMAIN tag /\ tag[cur].index = -1
      /\ tag[cur].left # NULL => tag[cur].left \in DOMAIN tag /\ tag[tag[cur].left].index = -1
      /\ tag[cur].right # NULL =>
            tag[cur].right \in DOMAIN tag /\ tag[tag[cur].right].index = -1
  BY <1>1, FreeFacts DEF Melts
<1>3. bin = BinOf(tag[cur].real_size - Hdr) /\ bin \in Bins
  <2>1. tag[cur].real_size - Hdr \in 0 .. Word - 1
    BY <1>2, TypedHeap, ConstantTypes DEF HeapOK, PiecesOf, TagFields
  <2>2. QED
    BY <2>1, WordValue, BinOfType DEF FreeBin
<1> HIDE DEF bin
<1>4. /\ Typed(k) /\ ListsOf(k) /\ PiecesOf(k.tag) /\ SamePieces(k.tag, tag)
      /\ \A x \in DOMAIN tag : k.tag[x].index = tag[x].index
  <2>1. 0 \in 0 .. Word - 1
    BY ConstantTypes
  <2>2. QED
    BY <1>2, <2>1, WithSizeEffect DEF HeapOK
<1> HIDE DEF k
<1>5. cur \in DOMAIN k.tag /\ k.tag[cur].index = -1 /\ DOMAIN k.tag = DOMAIN tag
  BY <1>2, <1>4 DEF SamePieces
<1>6. /\ Typed(g) /\ SamePieces(g.tag, k.tag) /\ ListsOf(g)
      /\ \A x \in DOMAIN k.tag : g.tag[x].index = IF x = cur THEN bin ELSE k.tag[x].index
  BY <1>3, <1>4, <1>5, InsertTagEffect
<1> HIDE DEF g
<1>7. /\ SamePieces(g.tag, tag)
      /\ \A x \in DOMAIN tag : g.tag[x].index = IF x = cur THEN bin ELSE tag[x].index
  BY <1>4, <1>5, <1>6 DEF SamePieces
<1>8. /\ PiecesOf(g.tag) /\ InBlocks(g.tag, held) /\ Sized(g.tag) /\ Merged(g.tag)
      /\ \A b \in Bins :
            WholeIn(g.tag, b) = IF b = bin /\ Whole(tag[cur]) THEN WholeIn(tag, b) \union {cur}
                                                              ELSE WholeIn(tag, b)
      /\ cur \notin WholeIn(tag, bin)
      /\ InUse(g.tag) = InUse(tag) \ {cur}
  <2> DEFINE S == g.tag
             h == Heap
  <2>1. /\ Typed(h) /\ PiecesOf(h.tag) /\ InBlocks(h.tag, held) /\ Sized(h.tag)
        /\ Merged(h.tag) /\ cur \in DOMAIN h.tag /\ h.tag[cur].index = -1
        /\ h.tag[cur].left # NULL => h.tag[h.tag[cur].left].index = -1
        /\ h.tag[cur].right # NULL => h.tag[h.tag[cur].right].index = -1
        /\ bin = BinOf(h.tag[cur].real_size - Hdr)
        /\ Inserted(S, h.tag, cur, bin)
    BY <1>2, <1>3, <1>7 DEF HeapOK, Inserted
  <2> HIDE DEF S, h
  <2>2. /\ PiecesOf(S) /\ InBlocks(S, held) /\ Sized(S) /\ Merged(S)
        /\ \A b \in Bins :
              WholeIn(S, b) = IF b = bin /\ Whole(h.tag[cur])
                              THEN WholeIn(h.tag, b) \union {cur} ELSE WholeIn(h.tag, b)
        /\ cur \notin WholeIn(h.tag, bin)
        /\ InUse(S) = InUse(h.tag) \ {cur}
    BY <1>3, <2>1, InsertedKeeps
  <2>3. QED
    BY <1>2, <2>2 DEF S, h
<1>9. Counted(g.tag, completePages')
  <2>1. /\ completePages \in [Bins -> 0 .. MaxComplete]
        /\ \A b \in Bins : completePages[b] = Cardinality(WholeIn(tag, b))
    BY <1>2 DEF HeapOK, Counted
  <2>2. CASE Whole(tag[cur])
    <3>1. Cardinality(WholeIn(tag, bin) \union {cur}) = Cardinality(WholeIn(tag, bin)) + 1
      <4>1. IsFiniteSet(WholeIn(tag, bin))
        BY <1>2, TagsFinite DEF HeapOK
      <4>2. QED
        BY <1>8, <4>1, FS_AddElement
    <3>2. completePages' = [completePages EXCEPT ![bin] = @ + 1]
      BY <1>1, <2>2
    <3>3. completePages[bin] + 1 \in 0 .. MaxComplete
      BY <1>1, <1>3, <2>1, <2>2, ConstantTypes
    <3>4. completePages' \in [Bins -> 0 .. MaxComplete]
      BY <1>3, <2>1, <3>2, <3>3
    <3>5. \A b \in Bins : completePages'[b] = Cardinality(WholeIn(g.tag, b))
      BY <1>3, <1>8, <2>1, <2>2, <3>1, <3>2
    <3>6. QED
      BY <3>4, <3>5 DEF Counted
  <2>3. CASE ~Whole(tag[cur])
    BY <1>1, <1>8, <2>1, <2>3 DEF Counted
  <2>4. QED
    BY <2>2, <2>3
<1>10. HeapOK'
  <2>1. BlocksApart(held') /\ InBlocks(g.tag, held')
    BY <1>1, <1>2, <1>8 DEF HeapOK
  <2>2. QED
    BY <1>1, <1>6, <1>8, <1>9, <2>1, HeapBecomes
<1>11. RegionsHeld' /\ CallState'
  <2>1. tag' = g.tag
    BY <1>1 DEF Become
  <2>2. \A x \in InUse(tag) \ {cur} :
           x \in DOMAIN tag' /\ tag'[x].real_size = tag[x].real_size
    BY <1>7, <2>1 DEF SamePieces, InUse
  <2>3. QED
    BY <1>1, <1>8, <2>1, <2>2, FreeEnds
<1>12. QED
  BY <1>10, <1>11 DEF IInv

(* A piece with no neighbours is a block, and kmem_free works out exactly  *)
(* the extent of pages the block was taken as.                             *)
LEMMA WholeBlock ==
    ASSUME HeapOK, NEW a \in DOMAIN tag, Whole(tag[a])
    PROVE  /\ BlockExtent(a) \in held
           /\ a = Address(BlockExtent(a).ptr)
           /\ a + tag[a].real_size = Address(PS!End(BlockExtent(a)))
<1> DEFINE real == tag[a].real_size
<1>1. tag[a].left = NULL /\ tag[a].right = NULL
  BY DEF Whole
<1>2. PICK e \in held : a = Address(e.ptr)
  BY <1>1 DEF HeapOK, InBlocks
<1>3. PICK f \in held : a + real = Address(PS!End(f))
  BY <1>1 DEF HeapOK, InBlocks
<1>4. a \in Nat /\ real \in Nat /\ real > 0
  <2>1. Heap.tag = tag
    BY DEF Heap
  <2>2. a \in Nat /\ real \in Nat
    BY <2>1, TypedHeap DEF HeapOK
  <2>3. real > Hdr
    BY DEF HeapOK, PiecesOf
  <2>4. QED
    BY <2>2, <2>3, ConstantTypes
<1>5. /\ e = [ptr |-> e.ptr, size |-> e.size]
      /\ e.ptr \in Nat \ {0} /\ e.size \in Nat \ {0} /\ e.size >= PageCount
      /\ PS!End(e) \in Nat /\ PS!End(f) \in Nat /\ f.ptr \in Nat
      /\ Address(PS!End(e)) = Address(e.ptr) + e.size * PageSize
      /\ e.size * PageSize \in Nat /\ Address(PS!End(e)) \in Nat
      /\ PageSize <= f.size * PageSize /\ f.size * PageSize \in Nat
      /\ Address(f.ptr) \in Nat
      /\ Address(PS!End(f)) = Address(f.ptr) + f.size * PageSize
  <2>1. BlocksApart(held)
    BY DEF HeapOK
  <2>2. e.size >= PageCount
    BY <2>1 DEF BlocksApart
  <2>3. QED
    BY <2>1, <2>2, BlockTypes
<1>6. e = f
  <2> SUFFICES ASSUME e # f PROVE FALSE
    OBVIOUS
  <2>1. PS!End(e) <= f.ptr \/ PS!End(f) <= e.ptr
    BY DEF HeapOK, BlocksApart, PS!Disjoint
  <2> HIDE DEF real
  <2>2. CASE PS!End(e) <= f.ptr
    <3>1. Address(PS!End(e)) <= Address(f.ptr)
      BY <1>5, <2>2, AddressMonotone
    <3>2. PageSize <= e.size * PageSize
      BY BlockTypes DEF HeapOK
    <3>3. Address(f.ptr) \in DOMAIN tag
      BY DEF HeapOK, InBlocks
    <3>4. a < Address(f.ptr)
      BY <1>2, <1>4, <1>5, <3>1, <3>2, ConstantTypes
    <3>5. a + real <= Address(f.ptr)
      BY <3>3, <3>4 DEF HeapOK, PiecesOf, real
    <3>6. QED
      BY <1>3, <1>4, <1>5, <3>5, ConstantTypes
  <2>3. CASE PS!End(f) <= e.ptr
    <3>1. Address(PS!End(f)) <= Address(e.ptr)
      BY <1>5, <2>3, AddressMonotone
    <3>2. QED
      BY <1>2, <1>3, <1>4, <3>1
  <2>4. QED
    BY <2>1, <2>2, <2>3
<1> HIDE DEF real
<1>7. real = e.size * PageSize /\ a = e.ptr * PageSize
  BY <1>2, <1>3, <1>4, <1>5, <1>6 DEF Address
<1>8. ASSUME NEW s \in Nat, NEW q \in Nat, NEW d \in Nat \ {0}
      PROVE  (s * d + d - 1) \div d = s /\ (q * d) \div d = q
  BY <1>8, Z3
<1>9. (real + PageSize - 1) \div PageSize = e.size /\ a \div PageSize = e.ptr
  BY <1>5, <1>7, <1>8, ConstantTypes
<1>10. BlockExtent(a) = e
  <2>1. BlockExtent(a) =
          [ptr |-> a \div PageSize,
           size |-> IF (real + PageSize - 1) \div PageSize < PageCount
                    THEN PageCount ELSE (real + PageSize - 1) \div PageSize]
    BY DEF BlockExtent, real
  <2>2. ~(e.size < PageCount)
    BY <1>5, ConstantTypes
  <2>3. QED
    BY <1>5, <1>9, <2>1, <2>2
<1>11. QED
  BY <1>2, <1>3, <1>6, <1>10 DEF real

LEMMA GiveBackStep == IInv /\ GiveBack => IInv'
<1> SUFFICES ASSUME IInv, GiveBack PROVE IInv'
  OBVIOUS
<1> DEFINE e == BlockExtent(cur)
           T == Without(tag, cur)
           g == [tag |-> T, bins |-> freePages]
           D == DOMAIN tag
<1>1. /\ pc = "free" /\ Whole(tag[cur]) /\ held' = held \ {e} /\ tag' = T
      /\ freePages' = freePages /\ completePages' = completePages /\ used' = used
      /\ pc' = "idle" /\ cur' = NULL
  BY DEF GiveBack, Melted, Return
<1>2. /\ HeapOK /\ Heap.tag = tag /\ Heap.bins = freePages
      /\ cur \in D /\ tag[cur].index = -1 /\ cur \in InUse(tag)
      /\ tag[cur].left = NULL /\ tag[cur].right = NULL
      /\ \A x \in D : x \in Nat /\ x # NULL /\ tag[x].real_size \in Nat
  BY <1>1, FreeFacts DEF Whole, Heap
<1>3. e \in held /\ cur = Address(e.ptr) /\ cur + tag[cur].real_size = Address(PS!End(e))
  BY <1>1, <1>2, WholeBlock
<1>4. DOMAIN T = D \ {cur} /\ \A x \in D \ {cur} : T[x] = tag[x]
  BY DEF Without
<1>5. \A x \in D : /\ tag[x].real_size > Hdr
                   /\ tag[x].right # NULL => /\ tag[x].right \in D
                                             /\ tag[x].right = x + tag[x].real_size
                                             /\ tag[tag[x].right].left = x
                   /\ tag[x].left # NULL => tag[x].left \in D /\ tag[tag[x].left].right = x
                   /\ \A y \in D : x < y => x + tag[x].real_size <= y
  BY <1>2 DEF HeapOK, PiecesOf
<1>6. g.tag = T /\ g.bins = freePages
  OBVIOUS
<1> HIDE DEF T, e
<1>7. Become(g)
  BY <1>1, <1>6 DEF Become
<1>8. Typed(g)
  <2>1. tag \in [D -> TagFields] /\ freePages \in [Bins -> Nat] /\ D \subseteq Nat \ {0}
    BY <1>2, TypedHeap DEF HeapOK
  <2>2. T \in [D \ {cur} -> TagFields]
    BY <2>1 DEF T, Without
  <2>3. QED
    BY <1>4, <1>6, <2>1, <2>2 DEF Typed
<1>9. ListsOf(g)
  <2>1. /\ \A b \in Bins : freePages[b] # NULL => freePages[b] \in D /\ tag[freePages[b]].index = b
        /\ \A x \in D : /\ tag[x].index = -1 => tag[x].next = NULL /\ tag[x].prev = NULL
                        /\ tag[x].index # -1 =>
                              /\ tag[x].prev = NULL <=> freePages[tag[x].index] = x
                              /\ tag[x].prev # NULL =>
                                    tag[x].prev \in D /\ tag[tag[x].prev].next = x
                              /\ tag[x].next # NULL => /\ tag[x].next \in D
                                                       /\ tag[tag[x].next].prev = x
                                                       /\ tag[tag[x].next].index = tag[x].index
    BY <1>2 DEF HeapOK, ListsOf
  <2>2. -1 \notin Bins
    BY ConstantTypes DEF Bins
  <2>3. \A b \in Bins : freePages[b] # cur
    BY <1>2, <2>1, <2>2
  <2>4. \A x \in D : tag[x].index # -1 => tag[x].prev # cur /\ tag[x].next # cur
    BY <1>2, <2>1
  <2> HIDE DEF g, D
  <2>5. \A b \in Bins : g.bins[b] # NULL =>
           g.bins[b] \in DOMAIN g.tag /\ g.tag[g.bins[b]].index = b
    BY <1>4, <1>6, <2>1, <2>3
  <2>6. \A x \in D \ {cur} :
           /\ T[x].index = -1 => T[x].next = NULL /\ T[x].prev = NULL
           /\ T[x].index # -1 =>
                 /\ T[x].prev = NULL <=> freePages[T[x].index] = x
                 /\ T[x].prev # NULL => T[x].prev \in D \ {cur} /\ T[T[x].prev].next = x
                 /\ T[x].next # NULL => /\ T[x].next \in D \ {cur}
                                        /\ T[T[x].next].prev = x
                                        /\ T[T[x].next].index = T[x].index
    BY <1>4, <2>1, <2>4
  <2>7. QED
    BY <1>4, <1>6, <2>5, <2>6 DEF ListsOf
<1>10. PiecesOf(T)
  <2>1. \A x \in D : tag[x].right # cur /\ tag[x].left # cur
    BY <1>2, <1>5
  <2>2. QED
    BY <1>4, <1>5, <2>1 DEF PiecesOf
<1>11. \A x \in D \ {cur} : \/ x + tag[x].real_size <= cur
                            \/ cur + tag[cur].real_size <= x
  BY <1>2, <1>5
<1>12. InBlocks(T, held \ {e})
  <2>1. ASSUME NEW x \in D \ {cur}
        PROVE  /\ ~(Address(e.ptr) <= x /\ x + tag[x].real_size <= Address(PS!End(e)))
               /\ x # Address(e.ptr)
               /\ x + tag[x].real_size # Address(PS!End(e))
    <3>1. /\ cur \in Nat /\ x \in Nat /\ tag[x].real_size \in Nat /\ tag[cur].real_size \in Nat
          /\ tag[x].real_size > Hdr /\ tag[cur].real_size > Hdr
          /\ x + tag[x].real_size <= cur \/ cur + tag[cur].real_size <= x
      BY <1>2, <1>5, <1>11
    <3>2. QED
      BY <1>3, <3>1, ConstantTypes
  <2>2. ASSUME NEW f \in held \ {e} PROVE Address(f.ptr) # cur
    <3>1. /\ e.ptr \in Nat /\ PS!End(e) \in Nat /\ f.ptr \in Nat /\ PS!End(f) \in Nat
          /\ f.size * PageSize \in Nat /\ PageSize <= f.size * PageSize
          /\ Address(f.ptr) \in Nat /\ Address(PS!End(f)) = Address(f.ptr) + f.size * PageSize
      BY <1>2, <1>3, <2>2, BlockTypes DEF HeapOK
    <3>2. PS!End(e) <= f.ptr \/ PS!End(f) <= e.ptr
      BY <1>2, <1>3, <2>2 DEF HeapOK, BlocksApart, PS!Disjoint
    <3>3. CASE PS!End(e) <= f.ptr
      <4>1. Address(PS!End(e)) <= Address(f.ptr)
        BY <3>1, <3>3, AddressMonotone
      <4>2. QED
        BY <1>2, <1>3, <1>5, <3>1, <4>1, ConstantTypes
    <3>4. CASE PS!End(f) <= e.ptr
      <4>1. Address(PS!End(f)) <= Address(e.ptr)
        BY <3>1, <3>4, AddressMonotone
      <4>2. QED
        BY <1>2, <1>3, <3>1, <4>1, ConstantTypes
    <3>5. QED
      BY <3>2, <3>3, <3>4
  <2>3. /\ \A x \in D :
              /\ \E f \in held : /\ Address(f.ptr) <= x
                                 /\ x + tag[x].real_size <= Address(PS!End(f))
              /\ tag[x].left = NULL => \E f \in held : x = Address(f.ptr)
              /\ tag[x].right = NULL =>
                    \E f \in held : x + tag[x].real_size = Address(PS!End(f))
        /\ \A f \in held : Address(f.ptr) \in D /\ tag[Address(f.ptr)].left = NULL
    BY <1>2 DEF HeapOK, InBlocks
  <2>4. \A x \in D \ {cur} :
           /\ \E f \in held \ {e} : /\ Address(f.ptr) <= x
                                    /\ x + tag[x].real_size <= Address(PS!End(f))
           /\ tag[x].left = NULL => \E f \in held \ {e} : x = Address(f.ptr)
           /\ tag[x].right = NULL =>
                 \E f \in held \ {e} : x + tag[x].real_size = Address(PS!End(f))
    BY <2>1, <2>3
  <2>5. QED
    BY <1>4, <2>2, <2>3, <2>4 DEF InBlocks
<1>13. Sized(T) /\ Merged(T)
  <2>1. \A x \in D : tag[x].right # cur
    BY <1>2, <1>5
  <2>2. QED
    BY <1>2, <1>4, <1>5, <2>1 DEF HeapOK, Sized, Merged
<1>14. BlocksApart(held')
  BY <1>1, <1>2 DEF HeapOK, BlocksApart
<1>15. Counted(T, completePages')
  <2>1. \A b \in Bins : WholeIn(T, b) = WholeIn(tag, b)
    <3>1. -1 \notin Bins
      BY ConstantTypes DEF Bins
    <3>2. QED
      BY <1>2, <1>4, <3>1 DEF WholeIn
  <2>2. QED
    BY <1>1, <1>2, <2>1 DEF HeapOK, Counted
<1>16. HeapOK'
  <2> HIDE DEF g
  <2>1. PiecesOf(g.tag) /\ InBlocks(g.tag, held') /\ Sized(g.tag) /\ Merged(g.tag)
        /\ Counted(g.tag, completePages')
    BY <1>1, <1>6, <1>10, <1>12, <1>13, <1>15
  <2>2. QED
    BY <1>7, <1>8, <1>9, <1>14, <2>1, HeapBecomes
<1>17. RegionsHeld' /\ CallState'
  <2>1. InUse(tag') = InUse(tag) \ {cur}
    BY <1>1, <1>4 DEF InUse
  <2>2. \A x \in InUse(tag) \ {cur} :
           x \in DOMAIN tag' /\ tag'[x].real_size = tag[x].real_size
    BY <1>1, <1>4 DEF InUse
  <2>3. QED
    BY <1>1, <2>1, <2>2, FreeEnds
<1>18. QED
  BY <1>16, <1>17 DEF IInv

-----------------------------------------------------------------------------
LEMMA CallStep ==
    ASSUME IInv,
           \/ \E n \in Sizes : CallMalloc(n)
           \/ \E c \in Counts, n \in Sizes : CallCalloc(c, n)
           \/ \E r \in used, n \in Sizes : CallRealloc(r, n)
    PROVE  IInv'
<1>1. \A n \in Sizes : n \in Nat \ {0} /\ n + Hdr < Word
  <2>1. Sizes \subseteq 1 .. Word - 1
    BY LiballocAssumption DEF Word
  <2>2. QED
    BY <2>1, ConstantTypes, RequestsAssumption DEF Word
<1>2. \A n \in Sizes, c \in Counts : c * n \in Nat \ {0} /\ c * n + Hdr < Word /\ U(c * n) = c * n
  <2> SUFFICES ASSUME NEW n \in Sizes, NEW c \in Counts
               PROVE  c * n \in Nat \ {0} /\ c * n + Hdr < Word /\ U(c * n) = c * n
    OBVIOUS
  <2>1. n \in Nat \ {0} /\ c \in Nat \ {0}
    BY <1>1, LiballocAssumption
  <2>2. c * n \in Nat \ {0}
    BY <2>1, Z3
  <2> DEFINE m == c * n
  <2>3. m + Hdr < Word
    BY RequestsAssumption DEF Word
  <2>4. m \in Nat \ {0}
    BY <2>2
  <2> HIDE DEF m
  <2>5. U(m) = m
    BY <2>3, <2>4, WordValue, ConstantTypes
  <2>6. QED
    BY <2>3, <2>4, <2>5 DEF m
<1>3. ASSUME NEW n \in Sizes, CallMalloc(n) PROVE IInv'
  BY <1>1, <1>3, BeginMallocStep DEF CallMalloc
<1>4. ASSUME NEW c \in Counts, NEW n \in Sizes, CallCalloc(c, n) PROVE IInv'
  <2>1. BeginMalloc(c * n, "calloc", c * n, NoRegion)
    BY <1>2, <1>4 DEF CallCalloc
  <2>2. c * n \in Nat \ {0} /\ c * n + Hdr < Word
    BY <1>2
  <2> DEFINE m == c * n
  <2> HIDE DEF m
  <2>3. BeginMalloc(m, "calloc", m, NoRegion) /\ m \in Nat \ {0} /\ m + Hdr < Word
    BY <2>1, <2>2 DEF m
  <2>4. QED
    BY <2>3, BeginMallocStep
<1>5. ASSUME NEW r \in used, NEW n \in Sizes, CallRealloc(r, n) PROVE IInv'
  BY <1>1, <1>5, BeginMallocStep DEF CallRealloc
<1>6. QED
  BY <1>3, <1>4, <1>5

LEMMA NextIInv == IInv /\ [Next]_vars => IInv'
<1> SUFFICES ASSUME IInv, [Next]_vars PROVE IInv'
  OBVIOUS
<1>1. CASE \/ \E n \in Sizes : CallMalloc(n)
           \/ \E c \in Counts, n \in Sizes : CallCalloc(c, n)
           \/ \E r \in used, n \in Sizes : CallRealloc(r, n)
  BY <1>1, CallStep
<1>2. CASE \E r \in used : CallFree(r)
  BY <1>2, BeginFreeStep DEF CallFree
<1>3. CASE SearchNext
  BY <1>3, SearchNextStep
<1>4. CASE TakeFound
  BY <1>4, TakeFoundStep
<1>5. CASE NewBlock
  BY <1>5, NewBlockStep
<1>6. CASE NoBlock
  BY <1>6, NoBlockStep
<1>7. CASE ReplaceFree
  <2>1. call.old \in used
    BY <1>7 DEF ReplaceFree, IInv, CallState
  <2>2. QED
    BY <1>7, <2>1, BeginFreeStep DEF ReplaceFree
<1>8. CASE MeltLeft
  BY <1>8, MeltLeftStep
<1>9. CASE MeltRight
  BY <1>9, MeltRightStep
<1>10. CASE KeepPiece
  BY <1>10, KeepPieceStep
<1>11. CASE GiveBack
  BY <1>11, GiveBackStep
<1>12. CASE UNCHANGED vars
  <2>1. HeapOK'
    BY <1>12, HeapKept DEF IInv, vars, heap
  <2>2. RegionsHeld' /\ CallState'
    BY <1>12 DEF IInv, vars, RegionsHeld, CallState, ClientTags, InUse
  <2>3. QED
    BY <2>1, <2>2 DEF IInv
<1>13. QED
  BY <1>1, <1>2, <1>3, <1>4, <1>5, <1>6, <1>7, <1>8, <1>9, <1>10, <1>11, <1>12
     DEF Next, MallocStep, FreeStep

-----------------------------------------------------------------------------
(* The heap's tags, lists, blocks and counts agree with each other after   *)
(* every step of kmem_malloc, kmem_calloc, kmem_realloc and kmem_free.     *)
THEOREM HeapInvariant == Spec => []IInv
<1>1. QED
  BY InitIInv, NextIInv, PTL DEF Spec

LEMMA IInvTypeOK == IInv => TypeOK
<1> SUFFICES ASSUME IInv PROVE TypeOK
  OBVIOUS
<1>1. /\ HeapOK /\ Heap.tag = tag /\ Heap.bins = freePages /\ Typed(Heap) /\ ListsOf(Heap)
      /\ PiecesOf(tag) /\ InBlocks(tag, held) /\ BlocksApart(held)
  BY DEF IInv, HeapOK, Heap
<1>2. ASSUME NEW a \in Tags
      PROVE  /\ a \in Addresses
             /\ tag[a] \in [real_size : 1 .. Word - 1, size : 0 .. Word - 1,
                            index : {-1} \union Bins,
                            left : Tags \union {NULL}, right : Tags \union {NULL},
                            next : Tags \union {NULL}, prev : Tags \union {NULL}]
  <2>1. a \in DOMAIN tag
    BY DEF Tags
  <2>2. tag[a] \in TagFields /\ tag[a].real_size \in Nat /\ a \in Nat
    BY <1>1, <2>1, TypedHeap
  <2>3. tag[a].real_size > Hdr
    BY <1>1, <2>1 DEF PiecesOf
  <2>4. /\ tag[a].left # NULL => tag[a].left \in Tags
        /\ tag[a].right # NULL => tag[a].right \in Tags
    BY <1>1, <2>1 DEF PiecesOf, Tags
  <2>5. /\ tag[a].next # NULL => tag[a].next \in Tags
        /\ tag[a].prev # NULL => tag[a].prev \in Tags
    BY <1>1, <2>1 DEF ListsOf, Tags
  <2>6. PICK e \in held : /\ Address(e.ptr) <= a
                          /\ a + tag[a].real_size <= Address(PS!End(e))
    BY <1>1, <2>1 DEF InBlocks
  <2>7. /\ Address(e.ptr) \in Nat /\ Address(PS!End(e)) \in Nat /\ PageSize <= Address(e.ptr)
        /\ Address(PS!End(e)) <= (NumPages + 1) * PageSize
    BY <1>1, BlockTypes
  <2>8. (NumPages + 1) * PageSize \in Nat
    BY ConstantTypes
  <2>9. a \in Addresses
    BY <2>2, <2>3, <2>6, <2>7, <2>8, ConstantTypes DEF Addresses
  <2>10. tag[a].real_size \in 1 .. Word - 1
    BY <2>2, <2>3, ConstantTypes DEF TagFields
  <2>11. QED
    BY <2>2, <2>4, <2>5, <2>9, <2>10 DEF TagFields
<1>3. freePages \in [Bins -> Tags \union {NULL}]
  <2>1. freePages \in [Bins -> Nat]
    BY <1>1, TypedHeap
  <2>2. \A b \in Bins : freePages[b] # NULL => freePages[b] \in Tags
    BY <1>1 DEF ListsOf, Tags
  <2>3. QED
    BY <2>1, <2>2
<1>4. completePages \in [Bins -> 0 .. MaxComplete] /\ held \subseteq PS!Extents
  BY <1>1 DEF HeapOK, Counted, BlocksApart
<1>5. pc \in {"idle", "search", "replace", "free", "fault"} /\ cur \in Tags \union {NULL}
  BY DEF IInv, CallState, Tags
<1>6. QED
  BY <1>2, <1>3, <1>4, <1>5 DEF TypeOK

(* The pointers, sizes and bins of every boundary tag, and the variables   *)
(* of the calls, stay in their types.                                      *)
THEOREM HeapTypeOK == Spec => []TypeOK
<1>1. QED
  BY HeapInvariant, IInvTypeOK, PTL

LEMMA IInvBlocksSound == IInv => BlocksSound
<1> SUFFICES ASSUME IInv PROVE BlocksSound
  OBVIOUS
<1>1. /\ HeapOK /\ Heap.tag = tag /\ PiecesOf(tag) /\ InBlocks(tag, held) /\ Merged(tag)
  BY DEF IInv, HeapOK, Heap
<1>2. BlocksTiled
  BY <1>1 DEF BlocksTiled, PiecesOf, InBlocks, Tags
<1>3. NoAdjacentFree
  <2>1. \A a \in DOMAIN tag : tag[a].index >= 0 => tag[a].index # -1
    OBVIOUS
  <2>2. QED
    BY <1>1, <2>1 DEF NoAdjacentFree, Merged, Tags
<1>4. BlocksReturnedWhole
  BY <1>1, WholeBlock DEF BlocksReturnedWhole, Melted, IInv, CallState, InUse
<1>5. QED
  BY <1>2, <1>3, <1>4 DEF BlocksSound

(* The pieces of a block cover it, freed neighbours are merged, and a      *)
(* block goes back to the page source as the extent it was taken as.       *)
THEOREM HeapBlocksSound == Spec => []BlocksSound
<1>1. QED
  BY HeapInvariant, IInvBlocksSound, PTL

LEMMA IInvBinsSound == IInv => BinsSound
<1> SUFFICES ASSUME IInv PROVE BinsSound
  OBVIOUS
<1>1. /\ Heap.tag = tag /\ Heap.bins = freePages /\ ListsOf(Heap) /\ Sized(tag)
      /\ Counted(tag, completePages)
  BY DEF IInv, HeapOK, Heap
<1>2. BinsExact
  BY <1>1 DEF BinsExact, ListsOf, Sized, Tags
<1>3. CompleteCounted
  BY <1>1 DEF CompleteCounted, Counted, WholeIn, Tags
<1>4. QED
  BY <1>2, <1>3 DEF BinsSound

(* Every free piece hangs in the bin of its size and only there, the       *)
(* doubly linked lists agree with themselves, and kmem_l_completePages is  *)
(* the number of free whole blocks of each bin.                            *)
THEOREM HeapBinsSound == Spec => []BinsSound
<1>1. QED
  BY HeapInvariant, IInvBinsSound, PTL

LEMMA IInvRegions == IInv => RegionsInPieces
BY DEF IInv, RegionsHeld, RegionsInPieces, ClientTags, InUse, Tags

(* A region lies behind the tag of a piece in use and inside that piece,   *)
(* and between calls no piece is in use but the clients'.                  *)
THEOREM HeapRegionsInPieces == Spec => []RegionsInPieces
<1>1. QED
  BY HeapInvariant, IInvRegions, PTL

-----------------------------------------------------------------------------
(* The regions clients hold are extents of the pool of bytes, apart.       *)
RegionsApart ==
    /\ \A r \in used : HS!InHeap(r)
    /\ \A r, s \in used : r # s => HS!Disjoint(r, s)

LEMMA IInvRegionsApart == IInv => RegionsApart
<1> SUFFICES ASSUME IInv PROVE RegionsApart
  OBVIOUS
<1>1. /\ HeapOK /\ Heap.tag = tag
      /\ used \subseteq [ptr : Nat, size : Nat \ {0}]
      /\ \A r \in used : /\ r.ptr - Hdr \in DOMAIN tag
                         /\ r.ptr + r.size <= r.ptr - Hdr + tag[r.ptr - Hdr].real_size
      /\ \A r, s \in used : r.ptr = s.ptr => r = s
  BY DEF IInv, RegionsHeld, Heap
<1>2. \A a \in DOMAIN tag : a \in Nat /\ a # NULL /\ tag[a].real_size \in Nat
  BY <1>1, TypedHeap DEF HeapOK
<1>3. \A r \in used : r.ptr \in Nat /\ r.size \in Nat /\ r.size >= 1 /\ r.ptr - Hdr \in Nat
  BY <1>1, <1>2
<1>4. ASSUME NEW r \in used PROVE HS!InHeap(r)
  <2> DEFINE a == r.ptr - Hdr
  <2>1. a \in DOMAIN tag /\ r.ptr + r.size <= a + tag[a].real_size
    BY <1>1
  <2>2. PICK e \in held : Address(e.ptr) <= a /\ a + tag[a].real_size <= Address(PS!End(e))
    BY <1>1, <2>1 DEF HeapOK, InBlocks
  <2>3. /\ Address(PS!End(e)) \in Nat
        /\ Address(PS!End(e)) <= (NumPages + 1) * PageSize
        /\ (NumPages + 1) * PageSize \in Nat
    BY <1>1, BlockTypes, ConstantTypes DEF HeapOK
  <2>4. r.ptr >= 1
    BY <1>2, <1>3, <2>1, ConstantTypes
  <2> DEFINE last == (NumPages + 1) * PageSize
             limit == a + tag[a].real_size
  <2>5. limit \in Nat /\ last \in Nat /\ r.ptr + r.size <= limit /\ limit <= Address(PS!End(e))
        /\ Address(PS!End(e)) <= last
    BY <1>2, <2>1, <2>2, <2>3
  <2> HIDE DEF last, limit, a
  <2>6. r.ptr + r.size <= last + 1
    BY <1>3, <2>3, <2>5
  <2>7. QED
    BY <1>3, <2>4, <2>6 DEF HS!InHeap, HS!End, last
<1>5. ASSUME NEW r \in used, NEW s \in used, r # s PROVE HS!Disjoint(r, s)
  <2> DEFINE a == r.ptr - Hdr
             b == s.ptr - Hdr
  <2>1. /\ a \in DOMAIN tag /\ b \in DOMAIN tag
        /\ r.ptr + r.size <= a + tag[a].real_size
        /\ s.ptr + s.size <= b + tag[b].real_size
    BY <1>1
  <2>2. a < b \/ b < a
    BY <1>1, <1>3, <1>5, ConstantTypes
  <2>3. /\ a < b => a + tag[a].real_size <= b
        /\ b < a => b + tag[b].real_size <= a
    BY <1>1, <2>1 DEF HeapOK, PiecesOf
  <2>4. /\ tag[a].real_size \in Nat /\ tag[b].real_size \in Nat
        /\ a \in Nat /\ b \in Nat /\ a <= r.ptr /\ b <= s.ptr
    BY <1>2, <1>3, <2>1, ConstantTypes
  <2> HIDE DEF a, b
  <2>5. QED
    BY <1>3, <2>1, <2>2, <2>3, <2>4 DEF HS!Disjoint, HS!End
<1>6. QED
  BY <1>4, <1>5 DEF RegionsApart

LEMMA DeliverRefines ==
    ASSUME RegionsApart', NEW a, Deliver(a)
    PROVE  [HS!Next]_used
<1> DEFINE r == [ptr |-> a + Hdr, size |-> call.bytes]
<1>1. used' = used \union {r}
  BY DEF Deliver
<1> HIDE DEF r
<1>2. CASE r \in used
  BY <1>1, <1>2
<1>3. CASE r \notin used
  <2>1. r \in used' \ used
    BY <1>1, <1>3
  <2>2. HS!InHeap(r) /\ \A s \in used : HS!Disjoint(r, s)
    BY <1>1, <1>3 DEF RegionsApart
  <2>3. HS!Alloc(r)
    BY <1>1, <2>2 DEF HS!Alloc
  <2>4. QED
    BY <2>1, <2>3 DEF HS!Next
<1>4. QED
  BY <1>2, <1>3

LEMMA NextRefines == IInv /\ RegionsApart' /\ [Next]_vars => [HS!Next]_used
<1> SUFFICES ASSUME IInv, RegionsApart', [Next]_vars PROVE [HS!Next]_used
  OBVIOUS
<1>1. CASE TakeFound
  BY <1>1, DeliverRefines DEF TakeFound
<1>2. CASE NewBlock
  BY <1>2, DeliverRefines DEF NewBlock, AddBlock
<1>3. ASSUME NEW r \in used, BeginFree(r) PROVE [HS!Next]_used
  BY <1>3 DEF BeginFree, HS!Next, HS!Free
<1>4. CASE \E r \in used : CallFree(r)
  BY <1>3, <1>4 DEF CallFree
<1>5. CASE ReplaceFree
  <2>1. call.old \in used
    BY <1>5 DEF ReplaceFree, IInv, CallState
  <2>2. QED
    BY <1>3, <1>5, <2>1 DEF ReplaceFree
<1>6. CASE \/ \E n \in Sizes : CallMalloc(n)
           \/ \E c \in Counts, n \in Sizes : CallCalloc(c, n)
           \/ \E r \in used, n \in Sizes : CallRealloc(r, n)
  BY <1>6 DEF CallMalloc, CallCalloc, CallRealloc, BeginMalloc
<1>7. CASE SearchNext \/ NoBlock \/ FreeStep
  BY <1>7 DEF SearchNext, NoBlock, FreeStep, MeltLeft, MeltRight, KeepPiece, GiveBack
<1>8. CASE UNCHANGED vars
  BY <1>8 DEF vars
<1>9. QED
  BY <1>1, <1>2, <1>4, <1>5, <1>6, <1>7, <1>8 DEF Next, MallocStep

(* kmem_malloc, kmem_calloc, kmem_realloc and kmem_free implement the pool *)
(* of bytes: no two clients ever share a byte of the heap.                 *)
THEOREM HeapImplementsPool == Spec => HeapSpec
<1>1. Init => HS!Init
  BY DEF Init, HS!Init
<1>2. QED
  BY <1>1, HeapInvariant, IInvRegionsApart, NextRefines, PTL DEF Spec, HeapSpec, HS!Spec

=============================================================================
