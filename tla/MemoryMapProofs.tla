---------------------------- MODULE MemoryMapProofs ----------------------------
(***************************************************************************)
(* A proof that the heap kernel_premain finds on any memory map lies in    *)
(* available memory, whatever the sizes (module MemoryMap).                *)
(***************************************************************************)
EXTENDS MemoryMap, WellFoundedInduction, TLAPS

(* What division by a positive number leaves. *)
LEMMA Division ==
    ASSUME NEW x \in Nat, NEW d \in Nat \ {0}
    PROVE  /\ x \div d \in Nat /\ x % d \in Nat
           /\ x = d * (x \div d) + (x % d)
           /\ x % d < d
BY Z3

LEMMA Larger ==
    ASSUME NEW d \in Nat \ {0}, NEW x \in Nat, NEW y \in Nat, x <= y
    PROVE  d * x <= d * y
BY Z3

(* Rounding down keeps what lies at least a unit apart apart. *)
LEMMA RoundedApart ==
    ASSUME NEW d \in Nat \ {0}, NEW x \in Nat, NEW y \in Nat, x + d <= y
    PROVE  x \div d < y \div d
<1>1. x = d * (x \div d) + (x % d) /\ x % d < d /\ x \div d \in Nat /\ x % d \in Nat
  BY Division
<1>2. y = d * (y \div d) + (y % d) /\ y % d < d /\ y \div d \in Nat /\ y % d \in Nat
  BY Division
<1>3. SUFFICES ASSUME y \div d <= x \div d PROVE FALSE
  BY <1>1, <1>2
<1>4. d * (y \div d) <= d * (x \div d)
  BY <1>1, <1>2, <1>3, Larger
<1>5. d * (x \div d) \in Nat /\ d * (y \div d) \in Nat
  BY <1>1, <1>2
<1> DEFINE a == d * (x \div d)
           b == d * (y \div d)
<1>6. a \in Nat /\ b \in Nat /\ b <= a /\ x = a + (x % d) /\ y = b + (y % d)
  BY <1>1, <1>2, <1>4, <1>5
<1> HIDE DEF a, b
<1>7. QED
  BY <1>1, <1>2, <1>6

LEMMA Least ==
    ASSUME NEW S, S \subseteq Nat, S # {}
    PROVE  \E i \in S : \A j \in S : i <= j
<1> DEFINE Less == OpToRel(<, Nat)
<1>1. \A i, j \in Nat : i < j => << i, j >> \in Less
  BY DEF OpToRel
<1>2. IsWellFoundedOn(Less, Nat)
  BY NatLessThanWellFounded
<1> HIDE DEF Less
<1>3. PICK i \in S : \A j \in S : ~(<< j, i >> \in Less)
  BY <1>2, WFMin
<1>4. ASSUME NEW j \in S PROVE i <= j
  <2>1. i \in Nat /\ j \in Nat /\ ~(j < i)
    BY <1>1, <1>3
  <2>2. QED
    BY <2>1
<1>5. QED
  BY <1>4

-----------------------------------------------------------------------------
(* The entry that is taken is one of the map's, available, and as long,    *)
(* behind its misalignment, as the walk asks for.                          *)
LEMMA HeapEntryFits ==
    ASSUME MemoryMapAssumption, NEW m \in Map, MemorySetup(m), Plain(m)
    PROVE  LET e == HeapEntry(m)
           IN /\ e \in Entries(m) /\ e \in Entry
              /\ e.available
              /\ Misalignment(e) \in Nat
              /\ (HeapFrames + KernelFrames) * FrameSize < e.len - Misalignment(e)
<1>1. Candidates(m) # {} /\ Candidates(m) \subseteq Nat
  BY DEF MemorySetup, Candidates, Walked, Map
<1>2. PICK i \in Candidates(m) : HeapEntry(m) = Walked(m)[i]
  <2>1. \E i \in Candidates(m) : \A j \in Candidates(m) : i <= j
    BY <1>1, Least
  <2>2. QED
    BY <2>1 DEF HeapEntry
<1> DEFINE e == HeapEntry(m)
<1>3. e.available /\ LargeEnough(UsableLen(e))
  BY <1>2 DEF Candidates
<1>4. e # m.behind
  BY <1>3 DEF Plain
<1>5. e \in Entries(m) /\ e \in Entry
  <2>1. m.entries \in Seq(Entry) /\ m.entries # << >> /\ m.behind \in Entry
    BY DEF Map
  <2>2. Len(Walked(m)) = Len(m.entries) /\ i \in 1 .. Len(m.entries)
    BY <2>1, <1>2 DEF Candidates, Walked
  <2>3. i # Len(m.entries)
    BY <2>1, <2>2, <1>2, <1>4 DEF Walked
  <2>4. e = m.entries[i + 1] /\ i + 1 \in DOMAIN m.entries
    BY <2>1, <2>2, <2>3, <1>2 DEF Walked
  <2>5. QED
    BY <2>1, <2>4 DEF Entries
<1>6. e.addr \in Nat /\ e.len \in Nat /\ Misalignment(e) \in Nat
  BY <1>5, Division DEF Entry, Misalignment, MemoryMapAssumption
<1>7. Misalignment(e) <= e.len /\ e.len <= AddressLimit
  BY <1>5, <1>6 DEF Plain, MemoryMapAssumption
<1>8. UsableLen(e) <= e.len - Misalignment(e)
  <2> DEFINE rest == e.len - Misalignment(e)
  <2>1. rest \in Nat
    BY <1>6, <1>7
  <2>2. Length64 \in Nat \ {0}
    BY Z3 DEF Length64, MemoryMapAssumption
  <2>3. rest = Length64 * (rest \div Length64) + (rest % Length64)
        /\ rest \div Length64 \in Nat /\ rest % Length64 \in Nat
    BY <2>1, <2>2, Division
  <2>4. Length64 * (rest \div Length64) \in Nat
    BY <2>2, <2>3
  <2>5. rest % Length64 <= rest
    <3> DEFINE whole == Length64 * (rest \div Length64)
               over == rest % Length64
    <3>1. whole \in Nat /\ over \in Nat /\ rest = whole + over
      BY <2>3, <2>4
    <3> HIDE DEF whole, over
    <3>2. over <= whole + over
      BY <3>1
    <3>3. QED
      BY <3>1, <3>2 DEF over
  <2>6. QED
    BY <2>5 DEF UsableLen
<1>9. UsableLen(e) \in Nat /\ (HeapFrames + KernelFrames) * FrameSize \in Nat
  <2>1. e.len - Misalignment(e) \in Nat /\ Length64 \in Nat \ {0}
    BY <1>6, <1>7, Z3 DEF Length64, MemoryMapAssumption
  <2>2. QED
    BY <2>1, Division DEF UsableLen, MemoryMapAssumption
<1>10. QED
  BY <1>3, <1>5, <1>6, <1>7, <1>8, <1>9 DEF LargeEnough

(* The heap lies in available memory, on pages of its own, behind what is  *)
(* left to the kernel, on every map the walk is written for and for all    *)
(* sizes (kernel_premain).                                                 *)
THEOREM HeapIsMemory ==
    ASSUME MemoryMapAssumption, NEW m \in Map
    PROVE  HeapInRam(m)
<1> SUFFICES ASSUME MemorySetup(m), Plain(m)
             PROVE  /\ \A i \in DOMAIN PageTable(m) :
                          /\ PageTable(m)[i] \in Ram(m)
                          /\ PageTable(m)[i] * FrameSize
                                >= HeapEntry(m).addr + (KernelFrames - 1) * FrameSize
                    /\ \A i, j \in DOMAIN PageTable(m) :
                          i # j => PageTable(m)[i] # PageTable(m)[j]
  BY DEF HeapInRam
<1> DEFINE e == HeapEntry(m)
           start == e.addr + Misalignment(e)
           at(i) == start + (i + KernelFrames) * FrameSize
<1>1. /\ e \in Entries(m) /\ e.available
      /\ e.addr \in Nat /\ e.len \in Nat /\ Misalignment(e) \in Nat
      /\ (HeapFrames + KernelFrames) * FrameSize < e.len - Misalignment(e)
      /\ e.addr + e.len <= AddressLimit
  BY HeapEntryFits DEF Entry, Plain
<1>2. /\ FrameSize \in Nat \ {0} /\ HeapFrames \in Nat \ {0}
      /\ KernelFrames \in Nat \ {0} /\ AddressLimit \in Nat \ {0}
      /\ AddressLimit % FrameSize = 0
  BY DEF MemoryMapAssumption
(* Where an entry of the table points to. *)
<1>3. ASSUME NEW i \in 0 .. HeapFrames - 1
      PROVE  /\ at(i) \in Nat
             /\ start + KernelFrames * FrameSize <= at(i)
             /\ at(i) + FrameSize < e.addr + e.len
  <2>1. /\ (i + KernelFrames) * FrameSize \in Nat
        /\ KernelFrames * FrameSize <= (i + KernelFrames) * FrameSize
        /\ (i + KernelFrames) * FrameSize + FrameSize
              <= (HeapFrames + KernelFrames) * FrameSize
        /\ KernelFrames * FrameSize \in Nat
        /\ (HeapFrames + KernelFrames) * FrameSize \in Nat
    <3>1. /\ i + KernelFrames \in Nat /\ HeapFrames + KernelFrames \in Nat
          /\ i + KernelFrames + 1 \in Nat
          /\ KernelFrames <= i + KernelFrames
          /\ i + KernelFrames + 1 <= HeapFrames + KernelFrames
      BY <1>2
    <3>2. /\ FrameSize * KernelFrames <= FrameSize * (i + KernelFrames)
          /\ FrameSize * (i + KernelFrames + 1) <= FrameSize * (HeapFrames + KernelFrames)
      BY <1>2, <3>1, Larger
    <3>3. FrameSize * (i + KernelFrames + 1) = FrameSize * (i + KernelFrames) + FrameSize
      BY <1>2, <3>1, Z3
    <3>4. QED
      BY <1>2, <3>1, <3>2, <3>3, Z3
  <2> DEFINE a == (i + KernelFrames) * FrameSize
             b == (HeapFrames + KernelFrames) * FrameSize
             c == KernelFrames * FrameSize
  <2>2. /\ a \in Nat /\ b \in Nat /\ c \in Nat
        /\ c <= a /\ a + FrameSize <= b /\ b < e.len - Misalignment(e)
    BY <1>1, <2>1
  <2> HIDE DEF a, b, c
  <2>3. /\ start + a \in Nat /\ start + c <= start + a
        /\ start + a + FrameSize < e.addr + e.len
    BY <1>1, <1>2, <2>2
  <2>4. QED
    BY <2>3 DEF a, c
<1>4. ASSUME NEW i \in 0 .. HeapFrames - 1
      PROVE  i \in DOMAIN PageTable(m) /\ PageTable(m)[i] = at(i) \div FrameSize
  <2>1. at(i) \in Nat /\ at(i) < AddressLimit
    BY <1>1, <1>2, <1>3
  <2>2. at(i) % AddressLimit = at(i)
    BY <2>1, <1>2, Z3
  <2>3. QED
    BY <2>2 DEF PageTable, HeapAddr
<1>5. DOMAIN PageTable(m) = 0 .. HeapFrames - 1
  BY DEF PageTable
(* The page that lies there. *)
<1>6. ASSUME NEW i \in 0 .. HeapFrames - 1
      PROVE  /\ PageTable(m)[i] \in Ram(m)
             /\ PageTable(m)[i] * FrameSize >= e.addr + (KernelFrames - 1) * FrameSize
  <2> DEFINE p == at(i) \div FrameSize
             base == p * FrameSize
             k == KernelFrames * FrameSize
  <2>1. /\ p \in Nat /\ base \in Nat /\ base <= at(i) /\ at(i) < base + FrameSize
    <3>1. /\ p \in Nat /\ at(i) % FrameSize \in Nat /\ at(i) % FrameSize < FrameSize
          /\ at(i) = FrameSize * p + (at(i) % FrameSize)
      BY <1>2, <1>3, Division
    <3>2. FrameSize * p = base /\ base \in Nat
      BY <3>1, <1>2, Z3
    <3> DEFINE over == at(i) % FrameSize
               x == at(i)
    <3>3. over \in Nat /\ over < FrameSize /\ x = base + over
      BY <3>1, <3>2
    <3> HIDE DEF over, x, base
    <3>4. base <= x /\ x < base + FrameSize
      BY <3>2, <3>3, <1>2
    <3>5. QED
      BY <3>1, <3>2, <3>4 DEF x
  <2>2. k \in Nat /\ (KernelFrames - 1) * FrameSize = k - FrameSize
        /\ FrameSize <= k /\ (p + 1) * FrameSize = base + FrameSize
    <3>1. (KernelFrames - 1) * FrameSize = k - FrameSize /\ k \in Nat
      BY <1>2, Z3
    <3>2. (p + 1) * FrameSize = base + FrameSize
      BY <1>2, <2>1, Z3
    <3>3. FrameSize * 1 <= FrameSize * KernelFrames
      BY <1>2, Larger
    <3>4. FrameSize <= k
      BY <1>2, <3>3, Z3
    <3>5. QED
      BY <3>1, <3>2, <3>4
  <2> DEFINE x == at(i)
  <2>3. /\ x \in Nat /\ start + k <= x /\ x + FrameSize < e.addr + e.len
        /\ base <= x /\ x < base + FrameSize
    BY <1>3, <2>1
  <2>4. p \in 0 .. AddressLimit \div FrameSize - 1
    <3>1. at(i) + FrameSize <= AddressLimit
      BY <1>1, <1>2, <1>3
    <3>2. p < AddressLimit \div FrameSize
      BY <1>2, <1>3, <3>1, RoundedApart
    <3>3. AddressLimit \div FrameSize \in Nat
      BY <1>2, Division
    <3>4. QED
      BY <2>1, <3>2, <3>3
  <2> HIDE DEF p, base, k, x
  <2>5. e.addr <= base /\ base + FrameSize <= e.addr + e.len
        /\ base >= e.addr + (k - FrameSize)
    BY <1>1, <1>2, <2>1, <2>2, <2>3
  <2>6. p \in Ram(m)
    BY <1>1, <2>2, <2>4, <2>5 DEF Ram, base
  <2>7. QED
    BY <1>4, <2>2, <2>5, <2>6 DEF p, base
<1>7. ASSUME NEW i \in 0 .. HeapFrames - 1, NEW j \in 0 .. HeapFrames - 1, i < j
      PROVE  PageTable(m)[i] < PageTable(m)[j]
  <2>1. at(i) + FrameSize <= at(j)
    <3>1. /\ i + KernelFrames + 1 \in Nat /\ j + KernelFrames \in Nat
          /\ i + KernelFrames \in Nat
          /\ i + KernelFrames + 1 <= j + KernelFrames
      BY <1>2, <1>7
    <3>2. FrameSize * (i + KernelFrames + 1) <= FrameSize * (j + KernelFrames)
      BY <1>2, <3>1, Larger
    <3>3. (i + KernelFrames) * FrameSize + FrameSize <= (j + KernelFrames) * FrameSize
          /\ (i + KernelFrames) * FrameSize \in Nat /\ (j + KernelFrames) * FrameSize \in Nat
      BY <1>2, <3>1, <3>2, Z3
    <3>4. start \in Nat
      BY <1>1
    <3> DEFINE a == (i + KernelFrames) * FrameSize
               b == (j + KernelFrames) * FrameSize
    <3>5. a \in Nat /\ b \in Nat /\ a + FrameSize <= b
      BY <3>3
    <3> HIDE DEF a, b
    <3>6. start + a + FrameSize <= start + b
      BY <3>4, <3>5, <1>2
    <3>7. QED
      BY <3>6 DEF a, b
  <2>2. at(i) \div FrameSize < at(j) \div FrameSize
    BY <1>2, <1>3, <2>1, RoundedApart
  <2>3. QED
    BY <1>4, <2>2
<1>8. ASSUME NEW i \in 0 .. HeapFrames - 1, NEW j \in 0 .. HeapFrames - 1, i # j
      PROVE  PageTable(m)[i] # PageTable(m)[j]
  <2>1. PageTable(m)[i] \in Int /\ PageTable(m)[j] \in Int
    BY <1>2, <1>3, <1>4, Division
  <2>2. i < j \/ j < i
    BY <1>8, <1>2
  <2>3. QED
    BY <1>7, <2>1, <2>2
<1>9. QED
  BY <1>5, <1>6, <1>8
===============================================================================
