----------------------------- MODULE StartupProofs -----------------------------
(***************************************************************************)
(* Proofs about the way from power-on to the first interrupt (module       *)
(* Startup): what the windows hold while the firmware's tables are read,   *)
(* and why the boot stops.                                                 *)
(***************************************************************************)
EXTENDS Startup, FiniteSetTheorems, SequenceTheorems, WellFoundedInduction, TLAPS

(* Every table fits its window, as it does unless it has 16 MB.            *)
Fitting == \A t \in Read : ~ TooLong(t)

Searching == {"bios", "search bios", "ebda", "search low"}
Reading == {"peek", "length", "whole", "list", "parse", "madt", "close"}
Behind == {"release", "ioapic", "idt", "booted"}

(* Which tables are open, and how far they are read.                       *)
Stage ==
    /\ machine \in Machines
    /\ pc \in Searching \union Reading \union Behind
                 \union {"rsdp", "refused", "absent", "version", "fault"}
    /\ pc \in Searching \union {"absent"} => rsdp = << >>
    /\ pc \in {"ebda", "search low", "absent"} => Taken("bios") = {}
    /\ rsdp # << >> => rsdp[1] \in {"bios", "low"} /\ IsRoot(RootTable)
    /\ pc \in Reading \union Behind \union {"rsdp", "version", "fault"} => rsdp # << >>
    /\ pc \in Searching \union Behind \union {"rsdp"} => Level = 0
    /\ pc \in Reading => Level \in {1, 2}
    /\ pc = "list" => Level = 1
    /\ pc \in {"parse", "madt"} => Level = 2

Opened ==
    /\ open \in Seq(Read) /\ at \in Seq(Nat)
    /\ Level \in 0 .. 2 /\ Len(at) = Level
    /\ Level > 0 => open[1] = RootTable /\ at[1] \in 0 .. Len(RootTable.body)
    /\ Level = 2 => at[1] > 0 /\ open[2] = RootTable.body[at[1]]
    /\ pc = "close" /\ Level = 1 => at[1] = Len(RootTable.body)
    /\ acpi_madt_struct \in MadtTables \union {NULL}
    /\ pc = "madt" => acpi_madt_struct = open[2] /\ at[2] > 0

(* An entry nobody has written, and a window whose first n pages, and no   *)
(* other, are mapped.                                                      *)
Emptied(v) == IF v \in machine.junk THEN JUNK ELSE NULL

Holds(w, n) ==
    /\ n > 0 => w \in paging_dir
    /\ \A k \in 0 .. n - 1 : Window(w) + k \notin machine.junk
    /\ \A k \in n .. TablePages - 1 :
          paging_directory_map[Window(w) + k] = Emptied(Window(w) + k)

Shows(w, n, frame) ==
    \A k \in 0 .. n - 1 : paging_directory_map[Window(w) + k] = frame + k

(* The pages mapped in the window of the area, and in those of the tables. *)
AreaPages ==
    IF pc \in {"bios", "ebda", "ioapic", "idt"} THEN 0
    ELSE IF pc = "search bios" THEN PageCount(AreaSize.bios)
    ELSE IF pc = "search low" THEN PageCount(AreaSize.low)
    ELSE PageCount(AreaSize[rsdp[1]])

TablePagesOpen(l) ==
    IF Level < l \/ (Level = l /\ pc \in {"peek", "whole"}) THEN 0
    ELSE IF Level = l /\ pc = "length" THEN 1
    ELSE PageCount(Size(open[l]))

Count(w) == IF w = 0 THEN AreaPages ELSE TablePagesOpen(w)

Mapping ==
    /\ paging_dir \subseteq 0 .. 2
    /\ \A v \in Pages : Pd(v) > 2 => paging_directory_map[v] = Emptied(v)
    /\ \A w \in 0 .. 2 : Holds(w, Count(w))
    /\ \A l \in 1 .. Level : Shows(l, Count(l), Frame(open[l]))

(* What a read that did not fault says of the place of a table.            *)
HeaderFits(t) == (t.addr % PageSize) + Header <= PageSize
UnitFits(t, i) == ((t.addr % PageSize) + i) \div PageSize < PageCount(Size(t))

Clean(t) ==
    \A k \in PagesOf(t) : Window(IF t.kind = "root" THEN 1 ELSE 2) + k \notin machine.junk

(* A table that has been read and closed.                                  *)
Done(t) ==
    /\ Clean(t)
    /\ t.kind = "MADT" => ~ Straddles(t) /\ acpi_madt_struct # NULL

AreaClean ==
    \A k \in 0 .. PageCount(AreaSize.bios) - 1 : AreaWindow + k \notin machine.junk

Walked ==
    /\ pc # "bios" => AreaClean
    /\ \A l \in 1 .. Level :
          (Level = l /\ pc \in {"peek", "length"}) \/ HeaderFits(open[l])
    /\ Level > 0 =>
          /\ \A i \in 1 .. at[1] : UnitFits(RootTable, Header + i - 1)
          /\ \A j \in 1 .. (IF Level = 2 THEN at[1] - 1 ELSE at[1]) : Done(RootTable.body[j])
    /\ Level = 2 /\ pc \in {"madt", "close"} /\ open[2].kind = "MADT" =>
          ~ Straddles(open[2]) /\ acpi_madt_struct # NULL
    /\ pc \in Behind =>
          Clean(RootTable) /\ ~ Straddles(RootTable) /\ \A t \in Tables : Done(t)

Shape == PagingTypeOK /\ Stage /\ Opened

Sound ==
    /\ ~ Ended => Mapping
    /\ ~ Ended \/ pc = "booted" => Walked
    /\ StopsExplained

IInv == Shape /\ (Fitting => Sound)

-----------------------------------------------------------------------------
LEMMA Sizes ==
    /\ PageSize \in Nat \ {0} /\ TablePages \in Nat /\ TablePages > 1
    /\ paging_size \in Nat /\ paging_size > 1 /\ MaxTables \in Nat /\ MaxTables > 2
    /\ NULL \notin Nat /\ JUNK \notin Nat /\ NULL # JUNK
BY PagingAssumption, WindowsAssumption

LEMMA Quotient ==
    ASSUME NEW d \in Nat \ {0}, NEW x \in Int, NEW q \in Int, q * d <= x, x < q * d + d
    PROVE  x \div d = q
<1>1. /\ x = d * (x \div d) + (x % d) /\ 0 <= x % d /\ x % d < d
      /\ x \div d \in Int /\ x % d \in Int
  BY Z3
<1> DEFINE r == x \div d
<1> HIDE DEF r
<1>2. r \in Int /\ d * r <= x /\ x < d * r + d
  BY <1>1 DEF r
<1>3. ASSUME r < q PROVE FALSE
  <2>1. d * (r + 1) <= d * q
    BY <1>2, <1>3, Z3
  <2>2. d * (r + 1) = d * r + d /\ d * q = q * d
    BY <1>2, Z3
  <2>3. QED
    BY <1>2, <2>1, <2>2, Z3
<1>4. ASSUME q < r PROVE FALSE
  <2>1. d * (q + 1) <= d * r
    BY <1>2, <1>4, Z3
  <2>2. d * (q + 1) = q * d + d
    BY Z3
  <2>3. QED
    BY <1>2, <2>1, <2>2, Z3
<1>5. r = q
  BY <1>2, <1>3, <1>4
<1>6. QED
  BY <1>5 DEF r

LEMMA QuotientBounds ==
    ASSUME NEW d \in Nat \ {0}, NEW x \in Nat
    PROVE  /\ x \div d \in Nat /\ (x \div d) * d <= x /\ x < (x \div d) * d + d
           /\ x % d \in 0 .. d - 1
BY Z3

(* A quotient is below a bound exactly if the dividend is below its pages. *)
LEMMA QuotientBelow ==
    ASSUME NEW d \in Nat \ {0}, NEW x \in Nat, NEW n \in Nat
    PROVE  x \div d < n <=> x < n * d
<1> DEFINE q == x \div d
<1>1. q \in Nat /\ q * d <= x /\ x < q * d + d
  BY QuotientBounds
<1> HIDE DEF q
<1>2. ASSUME q < n PROVE x < n * d
  <2>1. (q + 1) * d <= n * d
    BY <1>1, <1>2, Z3
  <2>2. (q + 1) * d = q * d + d
    BY <1>1, Z3
  <2>3. QED
    BY <1>1, <2>1, <2>2, Z3
<1>3. ASSUME n <= q PROVE n * d <= x
  <2>1. n * d <= q * d
    BY <1>1, <1>3, Z3
  <2>2. QED
    BY <1>1, <2>1, Z3
<1>4. n * d \in Int
  BY Z3
<1>5. QED
  BY <1>1, <1>2, <1>3, <1>4 DEF q

-----------------------------------------------------------------------------
(* Where the windows lie. *)
LEMMA WindowIs ==
    /\ Window(0) = 0 /\ Window(1) = TablePages /\ Window(2) = TablePages + TablePages
    /\ AreaWindow = 0
BY Sizes DEF Window, AreaWindow

LEMMA WindowPages ==
    ASSUME NEW w \in 0 .. 2, NEW k \in 0 .. TablePages - 1
    PROVE  Window(w) + k \in Pages /\ Pd(Window(w) + k) = w /\ Window(w) \in Nat
<1>1. TablePages \in Nat \ {0} /\ Window(w) = w * TablePages /\ w * TablePages \in Nat
      /\ k \in Nat
  BY Sizes, WindowIs DEF Window
<1>2. Pd(Window(w) + k) = w
  <2>1. w * TablePages <= Window(w) + k /\ Window(w) + k < w * TablePages + TablePages
    BY <1>1
  <2>2. Window(w) + k \in Int
    BY <1>1
  <2>3. QED
    BY <1>1, <2>1, <2>2, Quotient DEF Pd
<1>3. Window(w) + k <= (paging_size + 1) * TablePages - 1
  <2>1. Window(w) + k < 3 * TablePages
    BY <1>1, WindowIs
  <2>2. 3 * TablePages <= (paging_size + 1) * TablePages
    <3> DEFINE p == paging_size + 1
    <3>1. p \in Nat /\ 3 <= p
      BY Sizes
    <3> HIDE DEF p
    <3>2. 3 * TablePages <= p * TablePages
      BY <1>1, <3>1, Z3
    <3>3. QED
      BY <3>2 DEF p
  <2>3. (paging_size + 1) * TablePages \in Int
    BY Sizes, Z3
  <2>4. QED
    BY <1>1, <2>1, <2>2, <2>3
<1>4. QED
  BY <1>1, <1>2, <1>3 DEF Pages

LEMMA PdIs ==
    ASSUME NEW v \in Pages
    PROVE  /\ v \in Nat /\ Pd(v) \in 0 .. paging_size
           /\ \A w \in 0 .. 2 : Pd(v) = w => v - Window(w) \in 0 .. TablePages - 1
<1>1. v \in Nat /\ v < (paging_size + 1) * TablePages
  <2>1. (paging_size + 1) * TablePages \in Int
    BY Sizes, Z3
  <2>2. QED
    BY <2>1 DEF Pages
<1>2. TablePages \in Nat \ {0} /\ paging_size + 1 \in Nat /\ paging_size \in Nat
  BY Sizes
<1>3. Pd(v) \in Nat /\ Pd(v) * TablePages <= v /\ v < Pd(v) * TablePages + TablePages
  BY <1>1, <1>2, QuotientBounds DEF Pd
<1>4. Pd(v) < paging_size + 1
  BY <1>1, <1>2, QuotientBelow DEF Pd
<1>5. ASSUME NEW w \in 0 .. 2, Pd(v) = w PROVE v - Window(w) \in 0 .. TablePages - 1
  BY <1>1, <1>2, <1>3, <1>5, WindowIs
<1>6. QED
  BY <1>1, <1>2, <1>3, <1>4, <1>5

-----------------------------------------------------------------------------
(* How many pages a length asks for. *)
LEMMA PageCounts ==
    ASSUME NEW n \in Nat
    PROVE  PageCount(n) \in Nat \ {0} /\ n <= PageCount(n) * PageSize
<1>1. CASE n = 0
  BY <1>1, Sizes DEF PageCount
<1>2. CASE n # 0
  <2> DEFINE q == (n + PageSize - 1) \div PageSize
  <2>1. n + PageSize - 1 \in Nat /\ PageSize \in Nat \ {0}
    BY Sizes
  <2>2. q \in Nat /\ n + PageSize - 1 < q * PageSize + PageSize
    BY <2>1, QuotientBounds
  <2>3. q * PageSize \in Int
    BY <2>1, <2>2, Z3
  <2>4. n <= q * PageSize
    BY <2>1, <2>2, <2>3
  <2>5. q # 0
    <3> HIDE DEF q
    <3>1. q = 0 => q * PageSize = 0
      BY <2>1
    <3>2. QED
      BY <1>2, <2>4, <3>1
  <2>6. PageCount(n) = q
    BY <1>2 DEF PageCount
  <2>7. QED
    BY <2>2, <2>4, <2>5, <2>6
<1>3. QED
  BY <1>1, <1>2

LEMMA AreaCounts ==
    /\ PageCount(AreaSize.bios) = 2 /\ PageCount(AreaSize.low) = 1
    /\ PageCount(PageSize) = 1
    /\ AreaFrame.bios \in Nat /\ AreaFrame.low \in Nat
<1>1. PageSize \in Nat \ {0}
  BY Sizes
<1>2. (2 * PageSize + PageSize - 1) \div PageSize = 2
  <2>1. 2 * PageSize <= 2 * PageSize + PageSize - 1
        /\ 2 * PageSize + PageSize - 1 < 2 * PageSize + PageSize
    BY <1>1
  <2>2. QED
    BY <1>1, <2>1, Quotient
<1>3. (1 + PageSize - 1) \div PageSize = 1 /\ (PageSize + PageSize - 1) \div PageSize = 1
  <2>1. /\ 1 * PageSize <= 1 + PageSize - 1 /\ 1 + PageSize - 1 < 1 * PageSize + PageSize
        /\ 1 * PageSize <= PageSize + PageSize - 1
        /\ PageSize + PageSize - 1 < 1 * PageSize + PageSize
    BY <1>1
  <2>2. QED
    BY <1>1, <2>1, Quotient
<1>4. QED
  BY <1>1, <1>2, <1>3 DEF PageCount, AreaSize, AreaFrame

-----------------------------------------------------------------------------
(* paging_map and paging_unmap, on a window. *)
LEMMA MapTyped ==
    ASSUME PagingTypeOK, NEW frame \in Nat, NEW virt \in Nat, NEW size,
           PageCount(size) \in Nat, paging_map(frame, virt, size)
    PROVE  PagingTypeOK'
<1> DEFINE n == PageCount(size)
           tried == {k \in 0 .. n - 1 : \A j \in 0 .. k - 1 : ~ Refuses(virt, j)}
           tabled == {k \in tried : ~ HasNoTable(virt, k)}
           done == {k \in tried : ~ Refuses(virt, k)}
<1>1. /\ paging_dir' = paging_dir \union {Pd(virt + k) : k \in tabled}
      /\ paging_directory_map' =
           [v \in Pages |-> IF v - virt \in done THEN frame + (v - virt)
                            ELSE paging_directory_map[v]]
  BY DEF paging_map
<1>2. ASSUME NEW k \in tabled PROVE Pd(virt + k) \in 0 .. paging_size
  <2>1. ~ (Pd(virt + k) > paging_size) /\ virt + k \in Nat
    BY DEF HasNoTable
  <2>2. Pd(virt + k) \in Nat
    <3>1. TablePages \in Nat \ {0}
      BY Sizes
    <3>2. QED
      BY <2>1, <3>1, QuotientBounds DEF Pd
  <2>3. QED
    BY <2>1, <2>2, Sizes
<1>3. ASSUME NEW v \in Pages
      PROVE  (IF v - virt \in done THEN frame + (v - virt) ELSE paging_directory_map[v])
                \in Nat \union {NULL, JUNK}
  <2>1. CASE v - virt \in done
    <3>1. v - virt \in Nat
      BY <2>1
    <3>2. QED
      BY <2>1, <3>1
  <2>2. CASE v - virt \notin done
    BY <2>2 DEF PagingTypeOK
  <2>3. QED
    BY <2>1, <2>2
<1> HIDE DEF tabled, done, tried, n
<1>4. paging_dir' \subseteq 0 .. paging_size
  BY <1>1, <1>2 DEF PagingTypeOK
<1>5. paging_directory_map' \in [Pages -> Nat \union {NULL, JUNK}]
  BY <1>1, <1>3
<1>6. QED
  BY <1>4, <1>5 DEF PagingTypeOK

LEMMA UnmapTyped ==
    ASSUME PagingTypeOK, NEW virt, NEW size, paging_unmap(virt, size)
    PROVE  PagingTypeOK'
BY DEF PagingTypeOK, paging_unmap

(* A table can be had for a window.                                        *)
LEMMA TableGiven ==
    ASSUME paging_dir \subseteq 0 .. 2, NEW w \in 0 .. 2, NEW k \in 0 .. TablePages - 1
    PROVE  ~ HasNoTable(Window(w), k)
<1>1. \A j \in 0 .. k : j \in 0 .. TablePages - 1
  BY Sizes
<1>2. \A j \in 0 .. k : Pd(Window(w) + j) = w
  BY <1>1, WindowPages
<1> DEFINE tables == paging_dir \union {Pd(Window(w) + j) : j \in 0 .. k}
<1>3. tables \subseteq 0 .. 2
  BY <1>2
<1>4. IsFiniteSet(0 .. 2) /\ Cardinality(0 .. 2) = 3
  <2>1. 0 \in Int /\ 2 \in Int
    OBVIOUS
  <2>2. IsFiniteSet(0 .. 2) /\ Cardinality(0 .. 2) = IF 0 > 2 THEN 0 ELSE 2 - 0 + 1
    BY <2>1, FS_Interval, Zenon
  <2>3. QED
    BY <2>2
<1>5. Cardinality(tables) <= 3 /\ Cardinality(tables) \in Nat
  <2> HIDE DEF tables
  <2>1. IsFiniteSet(tables) /\ Cardinality(tables) <= Cardinality(0 .. 2)
    BY <1>3, <1>4, FS_Subset
  <2>2. QED
    BY <1>4, <2>1, FS_CardinalityType
<1>6. Pd(Window(w) + k) = w
  BY WindowPages
<1>7. QED
  BY <1>5, <1>6, Sizes DEF HasNoTable

LEMMA EntryRefused ==
    ASSUME paging_dir \subseteq 0 .. 2, NEW w \in 0 .. 2, NEW k \in 0 .. TablePages - 1,
           Holds(w, 0)
    PROVE  Refuses(Window(w), k) <=> Window(w) + k \in machine.junk
<1>1. ~ HasNoTable(Window(w), k)
  BY TableGiven
<1>2. paging_directory_map[Window(w) + k] = Emptied(Window(w) + k)
  BY DEF Holds
<1>3. QED
  BY <1>1, <1>2, Sizes DEF Refuses, Emptied

LEMMA MapWindow ==
    ASSUME paging_dir \subseteq 0 .. 2, PagingTypeOK, machine' = machine,
           NEW w \in 0 .. 2, NEW size, PageCount(size) \in 1 .. TablePages,
           NEW frame \in Nat, Holds(w, 0), paging_map(frame, Window(w), size)
    PROVE  /\ Accepts(Window(w), size) =>
                /\ paging_dir' = paging_dir \union {w}
                /\ \A v \in Pages : Pd(v) # w => paging_directory_map'[v] = paging_directory_map[v]
                /\ Holds(w, PageCount(size))'
                /\ Shows(w, PageCount(size), frame)'
           /\ ~ Accepts(Window(w), size) =>
                \E k \in 0 .. PageCount(size) - 1 : Window(w) + k \in machine.junk
<1> DEFINE n == PageCount(size)
           tried == {k \in 0 .. n - 1 : \A j \in 0 .. k - 1 : ~ Refuses(Window(w), j)}
           tabled == {k \in tried : ~ HasNoTable(Window(w), k)}
           done == {k \in tried : ~ Refuses(Window(w), k)}
<1>1. n \in Nat /\ n > 0 /\ n <= TablePages /\ \A k \in 0 .. n - 1 : k \in 0 .. TablePages - 1
  BY Sizes
<1>2. ASSUME ~ Accepts(Window(w), size)
      PROVE  \E k \in 0 .. n - 1 : Window(w) + k \in machine.junk
  BY <1>1, <1>2, EntryRefused DEF Accepts
<1>3. ASSUME Accepts(Window(w), size)
      PROVE  /\ paging_dir' = paging_dir \union {w}
             /\ \A v \in Pages : Pd(v) # w => paging_directory_map'[v] = paging_directory_map[v]
             /\ Holds(w, PageCount(size))'
             /\ Shows(w, PageCount(size), frame)'
  <2>1. \A k \in 0 .. n - 1 : ~ Refuses(Window(w), k) /\ ~ HasNoTable(Window(w), k)
    BY <1>3 DEF Accepts, Refuses
  <2>2. \A k \in 0 .. n - 1 : \A j \in 0 .. k - 1 : j \in 0 .. n - 1
    BY <1>1
  <2>3. tried = 0 .. n - 1
    BY <2>1, <2>2
  <2>4. tabled = 0 .. n - 1 /\ done = 0 .. n - 1
    BY <2>1, <2>3
  <2>5. /\ paging_dir' = paging_dir \union {Pd(Window(w) + k) : k \in 0 .. n - 1}
        /\ paging_directory_map' =
             [v \in Pages |-> IF v - Window(w) \in 0 .. n - 1 THEN frame + (v - Window(w))
                              ELSE paging_directory_map[v]]
    BY <2>4 DEF paging_map
  <2> HIDE DEF tried, tabled, done, n
  <2>6. \A k \in 0 .. n - 1 : Pd(Window(w) + k) = w /\ Window(w) + k \in Pages
    BY <1>1, WindowPages
  <2>7. paging_dir' = paging_dir \union {w}
    <3>1. 0 \in 0 .. n - 1
      BY <1>1
    <3>2. QED
      BY <2>5, <2>6, <3>1
  <2>8. ASSUME NEW v \in Pages, Pd(v) # w
        PROVE  paging_directory_map'[v] = paging_directory_map[v]
    <3>1. v - Window(w) \notin 0 .. n - 1
      <4>1. SUFFICES ASSUME v - Window(w) \in 0 .. n - 1 PROVE FALSE
        OBVIOUS
      <4>2. Pd(Window(w) + (v - Window(w))) = w
        BY <2>6, <4>1
      <4>3. Window(w) + (v - Window(w)) = v
        BY PdIs, WindowIs, Sizes
      <4>4. QED
        BY <2>8, <4>2, <4>3
    <3>2. QED
      BY <2>5, <3>1
  <2>9. Window(w) \in Nat
    BY WindowIs, Sizes
  <2>10. ASSUME NEW k \in 0 .. TablePages - 1
         PROVE  paging_directory_map'[Window(w) + k] =
                   IF k < n THEN frame + k ELSE paging_directory_map[Window(w) + k]
    <3>1. Window(w) + k \in Pages /\ (Window(w) + k) - Window(w) = k
      BY <2>9, WindowPages
    <3>2. k \in 0 .. n - 1 <=> k < n
      BY <1>1
    <3>3. QED
      BY <2>5, <3>1, <3>2
  <2>11. ASSUME NEW k \in 0 .. n - 1 PROVE Window(w) + k \notin machine.junk
    BY <1>1, <2>1, EntryRefused
  <2>12. Holds(w, n)'
    <3>1. \A k \in n .. TablePages - 1 : k \in 0 .. TablePages - 1 /\ ~ (k < n)
      BY <1>1
    <3>2. \A k \in n .. TablePages - 1 :
             paging_directory_map'[Window(w) + k] = Emptied(Window(w) + k)
      BY <2>10, <3>1 DEF Holds
    <3>3. QED
      BY <2>7, <2>11, <3>2 DEF Holds, Emptied
  <2>13. Shows(w, n, frame)'
    <3>1. \A k \in 0 .. n - 1 : k \in 0 .. TablePages - 1 /\ k < n
      BY <1>1
    <3>2. QED
      BY <2>10, <3>1 DEF Shows
  <2>14. QED
    BY <2>7, <2>8, <2>12, <2>13 DEF n
<1>4. QED
  BY <1>2, <1>3

LEMMA UnmapWindow ==
    ASSUME PagingTypeOK, machine' = machine, NEW w \in 0 .. 2, NEW size,
           PageCount(size) \in 1 .. TablePages,
           Holds(w, PageCount(size)), paging_unmap(Window(w), size)
    PROVE  /\ paging_dir' = paging_dir
           /\ \A v \in Pages : Pd(v) # w => paging_directory_map'[v] = paging_directory_map[v]
           /\ Holds(w, 0)'
<1> DEFINE n == PageCount(size)
<1>1. /\ n \in Nat /\ n > 0 /\ n <= TablePages /\ w \in paging_dir
      /\ \A k \in 0 .. n - 1 : k \in 0 .. TablePages - 1
  BY Sizes DEF Holds
<1>2. /\ paging_dir' = paging_dir
      /\ paging_directory_map' =
           [v \in Pages |-> IF v - Window(w) \in 0 .. n - 1 /\ Pd(v) \in paging_dir
                            THEN NULL ELSE paging_directory_map[v]]
  BY DEF paging_unmap
<1>3. Window(w) \in Nat
  BY WindowIs, Sizes
<1>4. ASSUME NEW v \in Pages, Pd(v) # w
      PROVE  paging_directory_map'[v] = paging_directory_map[v]
  <2>1. v - Window(w) \notin 0 .. n - 1
    <3>1. SUFFICES ASSUME v - Window(w) \in 0 .. n - 1 PROVE FALSE
      OBVIOUS
    <3>2. Pd(Window(w) + (v - Window(w))) = w
      BY <1>1, <3>1, WindowPages
    <3>3. Window(w) + (v - Window(w)) = v
      BY <1>3, PdIs
    <3>4. QED
      BY <1>4, <3>2, <3>3
  <2>2. QED
    BY <1>2, <2>1
<1>5. ASSUME NEW k \in 0 .. TablePages - 1
      PROVE  paging_directory_map'[Window(w) + k] = Emptied(Window(w) + k)
  <2>1. Window(w) + k \in Pages /\ (Window(w) + k) - Window(w) = k /\ Pd(Window(w) + k) = w
    BY <1>3, WindowPages
  <2>2. CASE k < n
    <3>1. k \in 0 .. n - 1
      BY <1>1, <2>2
    <3>2. Window(w) + k \notin machine.junk
      BY <3>1 DEF Holds
    <3>3. QED
      BY <1>1, <1>2, <2>1, <3>1, <3>2 DEF Emptied
  <2>3. CASE ~ (k < n)
    <3>1. k \notin 0 .. n - 1 /\ k \in n .. TablePages - 1
      BY <1>1, <2>3
    <3>2. QED
      BY <1>2, <2>1, <3>1 DEF Holds
  <2>4. QED
    BY <2>2, <2>3
<1>6. Holds(w, 0)'
  BY <1>5, Sizes DEF Holds, Emptied
<1>7. QED
  BY <1>2, <1>4, <1>6

(* The other windows. *)
LEMMA WindowStays ==
    ASSUME machine' = machine, NEW w \in 0 .. 2, NEW n \in 0 .. TablePages, NEW frame,
           paging_dir \subseteq paging_dir',
           \A v \in Pages : Pd(v) = w => paging_directory_map'[v] = paging_directory_map[v]
    PROVE  /\ Holds(w, n) => Holds(w, n)'
           /\ Shows(w, n, frame) => Shows(w, n, frame)'
<1>1. \A k \in 0 .. TablePages - 1 :
         paging_directory_map'[Window(w) + k] = paging_directory_map[Window(w) + k]
  BY WindowPages
<1>2. /\ \A k \in n .. TablePages - 1 : k \in 0 .. TablePages - 1
      /\ \A k \in 0 .. n - 1 : k \in 0 .. TablePages - 1
  BY Sizes
<1>3. QED
  BY <1>1, <1>2 DEF Holds, Shows, Emptied

-----------------------------------------------------------------------------
(* Tables, and those that are open. *)
LEMMA TableSizes ==
    ASSUME NEW t, IsTable(t)
    PROVE  /\ Size(t) \in Nat /\ Size(t) >= Header /\ Header = 2
           /\ Size(t) = Header + Len(t.body) /\ Len(t.body) \in Nat
           /\ PageCount(Size(t)) \in Nat \ {0} /\ Size(t) <= PageCount(Size(t)) * PageSize
           /\ Frame(t) \in Nat /\ t.addr % PageSize \in 0 .. PageSize - 1
<1>1. t.addr \in Nat /\ Len(t.body) \in Nat /\ Header = 2
  BY DEF IsTable, Header
<1>2. Size(t) \in Nat /\ Size(t) >= Header /\ Size(t) = Header + Len(t.body)
  BY <1>1 DEF Size
<1>3. PageCount(Size(t)) \in Nat \ {0} /\ Size(t) <= PageCount(Size(t)) * PageSize
  BY <1>2, PageCounts
<1>4. Frame(t) \in Nat /\ t.addr % PageSize \in 0 .. PageSize - 1
  BY <1>1, Sizes, QuotientBounds DEF Frame
<1>5. QED
  BY <1>1, <1>2, <1>3, <1>4

LEMMA TablesRoot ==
    ASSUME Stage, rsdp # << >>
    PROVE  /\ IsRoot(RootTable) /\ IsTable(RootTable) /\ RootTable.kind = "root"
           /\ Read = Tables \union {RootTable}
           /\ \A i \in 1 .. Len(RootTable.body) : RootTable.body[i] \in Tables
           /\ \A t \in Tables : \E i \in 1 .. Len(RootTable.body) : t = RootTable.body[i]
           /\ \A t \in Tables : IsListed(t) /\ IsTable(t) /\ t.kind # "root"
           /\ \A t \in Read : IsTable(t)
           /\ MadtTables \subseteq Tables
<1>1. IsRoot(RootTable) /\ IsTable(RootTable) /\ RootTable.kind = "root"
      /\ DOMAIN RootTable.body = 1 .. Len(RootTable.body)
      /\ \A i \in DOMAIN RootTable.body : IsListed(RootTable.body[i])
  BY DEF Stage, IsRoot, IsTable
<1>2. Tables = {RootTable.body[i] : i \in DOMAIN RootTable.body} /\ Read = Tables \union {RootTable}
  BY DEF Tables, Read, ToSet
<1>3. \A t : IsListed(t) => IsTable(t) /\ t.kind # "root"
  BY DEF IsListed
<1> HIDE DEF RootTable, IsListed, IsTable, IsRoot, Tables, Read
<1>4. MadtTables \subseteq Tables
  BY DEF MadtTables
<1>5. QED
  BY <1>1, <1>2, <1>3, <1>4

LEMMA OpenTables ==
    ASSUME Shape, Level > 0
    PROVE  /\ Level \in {1, 2} /\ Table = open[Level] /\ Table \in Read /\ IsTable(Table)
           /\ rsdp # << >> /\ open[1] = RootTable
           /\ Level = 1 => Table = RootTable /\ Table.kind = "root"
           /\ Level = 2 => /\ Table \in Tables /\ IsListed(Table) /\ Table.kind # "root"
                           /\ at[1] \in 1 .. Len(RootTable.body) /\ Table = RootTable.body[at[1]]
           /\ at[1] \in 0 .. Len(RootTable.body)
           /\ \A l \in 1 .. Level : open[l] \in Read /\ IsTable(open[l])
<1>1. /\ open \in Seq(Read) /\ Level \in {1, 2} /\ open[1] = RootTable
      /\ at[1] \in 0 .. Len(RootTable.body)
      /\ Level = 2 => at[1] > 0 /\ open[2] = RootTable.body[at[1]]
      /\ Level = Len(open)
  BY DEF Shape, Opened, Level
<1>2. rsdp # << >>
  <2>1. open[1] \in Read
    BY <1>1
  <2>2. QED
    BY <2>1 DEF Read
<1>3. Stage
  BY DEF Shape
<1>4. Table = open[Level]
  BY DEF Table, Last, Level
<1>5. \A l \in 1 .. Level : open[l] \in Read
  BY <1>1
<1>6. Len(RootTable.body) \in Nat
  BY <1>2, <1>3, TablesRoot, TableSizes
<1> HIDE DEF RootTable, Read, Level
<1>7. QED
  BY <1>1, <1>2, <1>3, <1>4, <1>5, <1>6, TablesRoot

LEMMA EarliestTaken ==
    ASSUME NEW S, S \subseteq Nat, S # {}
    PROVE  Earliest(S) \in S
<1> DEFINE Less == OpToRel(<, Nat)
<1>1. \A i, j \in Nat : i < j => << i, j >> \in Less
  BY DEF OpToRel
<1>2. IsWellFoundedOn(Less, Nat)
  BY NatLessThanWellFounded
<1> HIDE DEF Less
<1>3. PICK i \in S : \A j \in S : ~ (<< j, i >> \in Less)
  BY <1>2, WFMin
<1>4. \A j \in S : ~ (j < i)
  BY <1>1, <1>3
<1>5. \A j \in S : i <= j
  BY <1>4
<1>6. QED
  BY <1>5 DEF Earliest

-----------------------------------------------------------------------------
(* What holds whatever the sizes of the tables.                            *)
LEMMA EmptySequence ==
    ASSUME NEW S, NEW s \in Seq(S), Len(s) = 0
    PROVE  s = << >>
OBVIOUS

LEMMA ShapeInit == StartupInit => Shape
<1> SUFFICES ASSUME StartupInit PROVE Shape
  OBVIOUS
<1>1. /\ machine \in Machines /\ pc = "bios" /\ rsdp = << >> /\ open = << >> /\ at = << >>
      /\ acpi_madt_struct = NULL /\ paging_dir = {}
      /\ paging_directory_map = [v \in Pages |-> IF v \in machine.junk THEN JUNK ELSE NULL]
  BY DEF StartupInit, Init, PagingInit
<1>2. PagingTypeOK
  BY <1>1 DEF PagingTypeOK
<1>3. Level = 0
  BY <1>1 DEF Level
<1>4. Stage
  BY <1>1, <1>3 DEF Stage, Searching, Reading, Behind
<1>5. Opened
  <2>1. open \in Seq(Read) /\ at \in Seq(Nat) /\ Len(at) = 0
    BY <1>1
  <2>2. QED
    BY <1>1, <1>3, <2>1 DEF Opened
<1>6. QED
  BY <1>2, <1>4, <1>5 DEF Shape

(* A map in a window, accepted or not, leaves a page table a page table.   *)
LEMMA MapsTyped ==
    ASSUME PagingTypeOK, NEW frame \in Nat, NEW w \in 0 .. 2, NEW size \in Nat,
           paging_map(frame, Window(w), size)
    PROVE  PagingTypeOK'
<1>1. Window(w) \in Nat
  BY WindowIs, Sizes
<1>2. PageCount(size) \in Nat
  BY PageCounts
<1>3. QED
  BY <1>1, <1>2, MapTyped

LEMMA NothingIsSequence ==
    ASSUME NEW S
    PROVE  << >> \in Seq(S) /\ Len(<< >>) = 0
OBVIOUS

(* The steps that leave the open tables alone.                             *)
LEMMA ShapeStays ==
    ASSUME Shape, PagingTypeOK', UNCHANGED << machine, rsdp, open, at, acpi_madt_struct >>,
           \/ /\ pc \in Searching
              /\ pc' \in Searching \union {"refused", "absent"}
              /\ pc' \in {"ebda", "search low", "absent"} => Taken("bios") = {}
           \/ pc = "rsdp" /\ pc' = "version"
           \/ pc \in Reading \ {"list", "parse", "madt"} /\ pc' \in {"length", "whole", "refused", "fault"}
           \/ pc = "whole" /\ Level = 1 /\ pc' = "list"
           \/ pc = "whole" /\ Level = 2 /\ pc' = "parse"
           \/ pc = "list" /\ pc' = "close" /\ at[1] = Len(RootTable.body)
           \/ pc = "list" /\ pc' = "fault"
           \/ pc \in {"parse", "madt"} /\ pc' \in {"close", "fault"}
           \/ pc \in Behind /\ pc' \in {"ioapic", "idt", "booted", "fault"}
    PROVE  Shape'
<1>1. Level' = Level
  BY DEF Level
<1>2. /\ RootTable' = RootTable /\ Read' = Read /\ MadtTables' = MadtTables
      /\ Taken("bios")' = Taken("bios")
  BY DEF RootTable, Read, MadtTables, Tables, Taken, memcmp, check_rsdp
<1> HIDE DEF RootTable, Read, MadtTables, Taken, Level
<1>3. Stage'
  <2>1. machine' \in Machines
    BY DEF Shape, Stage
  <2>2. rsdp' # << >> => rsdp'[1] \in {"bios", "low"} /\ IsRoot(RootTable')
    BY <1>2 DEF Shape, Stage
  <2>3. QED
    BY <1>1, <1>2, <2>1, <2>2 DEF Shape, Stage, Searching, Reading, Behind
<1>4. Opened'
  <2>1. /\ open' \in Seq(Read') /\ at' \in Seq(Nat)
        /\ Level' \in 0 .. 2 /\ Len(at') = Level'
    BY <1>1, <1>2 DEF Shape, Opened
  <2>2. /\ Level' > 0 => open'[1] = RootTable' /\ at'[1] \in 0 .. Len(RootTable'.body)
        /\ Level' = 2 => at'[1] > 0 /\ open'[2] = RootTable'.body[at'[1]]
        /\ acpi_madt_struct' \in MadtTables' \union {NULL}
    BY <1>1, <1>2 DEF Shape, Opened
  <2>3. pc' = "close" /\ Level' = 1 => at'[1] = Len(RootTable'.body)
    <3>1. pc \in {"parse", "madt"} => Level = 2
      BY DEF Shape, Stage
    <3>2. pc' = "close" => (pc = "list" /\ at[1] = Len(RootTable.body)) \/ pc \in {"parse", "madt"}
      BY DEF Searching, Behind
    <3>3. QED
      BY <1>1, <1>2, <3>1, <3>2
  <2>4. pc' = "madt" => acpi_madt_struct' = open'[2] /\ at'[2] > 0
    BY <1>1, <1>2 DEF Shape, Opened, Stage, Searching, Reading, Behind
  <2>5. QED
    BY <2>1, <2>2, <2>3, <2>4 DEF Opened
<1>5. QED
  BY <1>3, <1>4 DEF Shape

LEMMA NothingOpen ==
    ASSUME Opened, Level = 0
    PROVE  open = << >> /\ at = << >>
<1>1. open \in Seq(Read) /\ at \in Seq(Nat) /\ Len(open) = 0 /\ Len(at) = 0
  BY DEF Opened, Level
<1>2. QED
  BY <1>1, EmptySequence

LEMMA ZeroLevel ==
    0 \in 0 .. 2 /\ ~ (0 > 0) /\ 0 # 2 /\ 0 # 1
OBVIOUS

LEMMA NaturalIndices == \A n \in Nat : 1 .. n \subseteq Nat
OBVIOUS

(* The paragraph taken leads to a root table.                              *)
LEMMA TakenRoot ==
    ASSUME machine \in Machines, NEW area \in {"bios", "low"}, Taken(area) # {}
    PROVE  IsRoot(machine[area][Earliest(Taken(area))].root)
<1>1. machine[area] \in {machine.bios, machine.low}
  <2>1. area = "bios" \/ area = "low"
    OBVIOUS
  <2>2. area = "bios" => machine[area] = machine.bios
    OBVIOUS
  <2>3. area = "low" => machine[area] = machine.low
    OBVIOUS
  <2>4. QED
    BY <2>1, <2>2, <2>3, Zenon
<1>2. /\ DOMAIN machine[area] = 1 .. Len(machine[area]) /\ Len(machine[area]) \in Nat
      /\ \A j \in DOMAIN machine[area] : IsRoot(machine[area][j].root)
  BY <1>1, FirmwareAssumption, Zenon
<1>3. Taken(area) \subseteq DOMAIN machine[area]
  BY DEF Taken
<1>4. Taken(area) \subseteq Nat
  BY <1>2, <1>3, NaturalIndices, Zenon
<1>5. Earliest(Taken(area)) \in Taken(area)
  BY <1>4, EarliestTaken
<1>6. QED
  BY <1>2, <1>3, <1>5, Zenon

LEMMA SearchShape ==
    ASSUME Shape, NEW area \in {"bios", "low"}, NEW next \in {"ebda", "absent"},
           pc \in Searching, Search(area, next),
           \/ area = "bios" /\ next = "ebda"
           \/ area = "low" /\ next = "absent" /\ pc = "search low"
    PROVE  Shape'
<1>1. machine' = machine /\ open' = open /\ at' = at /\ acpi_madt_struct' = acpi_madt_struct
  BY DEF Search, found
<1>2. rsdp = << >> /\ Level = 0 /\ open = << >> /\ at = << >> /\ machine \in Machines
  BY NothingOpen DEF Shape, Stage
<1>3. Level' = 0
  <2>1. Len(open') = 0
    BY <1>1, <1>2, NothingIsSequence
  <2>2. QED
    BY <2>1 DEF Level
<1>4. CASE Taken(area) = {}
  <2>1. paging_unmap(AreaWindow, AreaSize[area]) /\ pc' = next /\ rsdp' = rsdp
    BY <1>4 DEF Search
  <2>2. PagingTypeOK'
    BY <2>1, UnmapTyped DEF Shape
  <2>3. pc' \in {"ebda", "search low", "absent"} => Taken("bios") = {}
    BY <1>4 DEF Shape, Stage
  <2>4. pc' \in Searching \union {"refused", "absent"}
    BY <2>1 DEF Searching
  <2>5. QED
    BY <1>1, <2>1, <2>2, <2>3, <2>4, ShapeStays
<1>5. CASE Taken(area) # {}
  <2>1. /\ rsdp' = << area, machine[area][Earliest(Taken(area))] >>
        /\ pc' = "rsdp" /\ UNCHANGED paging
    BY <1>5 DEF Search
  <2>2. IsRoot(machine[area][Earliest(Taken(area))].root)
    BY <1>2, <1>5, TakenRoot
  <2>3. /\ rsdp' # << >> /\ rsdp'[1] \in {"bios", "low"}
        /\ RootTable' = machine[area][Earliest(Taken(area))].root
    BY <2>1 DEF RootTable
  <2>4. PagingTypeOK'
    BY <2>1 DEF Shape, PagingTypeOK, paging
  <2>5. IsRoot(RootTable')
    BY <2>2, <2>3
  <2>6. Stage'
    BY <1>1, <1>2, <1>3, <2>1, <2>3, <2>5 DEF Stage, Searching, Reading, Behind
  <2>7. acpi_madt_struct = NULL
    BY <1>2 DEF Shape, Opened, MadtTables, Tables
  <2>8. Opened'
    <3>1. open' \in Seq(Read') /\ at' \in Seq(Nat) /\ Len(at') = 0
      BY <1>1, <1>2, NothingIsSequence
    <3>2. Level' = 0 /\ Level' \in 0 .. 2 /\ ~ (Level' > 0) /\ Level' # 2 /\ Level' # 1
      BY <1>3, ZeroLevel, Zenon
    <3>3. acpi_madt_struct' \in MadtTables' \union {NULL}
      BY <1>1, <2>7
    <3>4. pc' # "madt" /\ Len(at') = Level'
      BY <2>1, <3>1, <3>2
    <3>5. QED
      BY <3>1, <3>2, <3>3, <3>4, Zenon DEF Opened
  <2>9. QED
    BY <2>4, <2>6, <2>8 DEF Shape
<1>6. QED
  BY <1>4, <1>5

LEMMA SearchingShape ==
    ASSUME Shape, MapBios \/ search_rsdp_bios \/ MapLow \/ search_rsdp_ebda
    PROVE  Shape'
<1>1. ASSUME NEW area \in {"bios", "low"}, pc \in {"bios", "ebda"},
             paging_map(AreaFrame[area], AreaWindow, AreaSize[area]),
             UNCHANGED << machine, rsdp, open, at, found >>,
             pc' \in {"search bios", "search low", "refused"},
             pc' = "search low" => pc = "ebda"
      PROVE  Shape'
  <2>1. AreaFrame[area] \in Nat /\ AreaSize[area] \in Nat /\ AreaWindow = Window(0)
    BY AreaCounts, WindowIs, Sizes DEF AreaSize, AreaFrame
  <2>2. PagingTypeOK'
    <3>1. paging_map(AreaFrame[area], Window(0), AreaSize[area])
      BY <1>1, <2>1
    <3>2. PagingTypeOK /\ 0 \in 0 .. 2
      BY DEF Shape
    <3>3. QED
      BY <2>1, <3>1, <3>2, MapsTyped
  <2>3. pc' \in {"ebda", "search low", "absent"} => Taken("bios") = {}
    BY <1>1 DEF Shape, Stage
  <2>4. pc \in Searching /\ pc' \in Searching \union {"refused", "absent"}
    BY <1>1 DEF Searching
  <2>5. UNCHANGED << machine, rsdp, open, at, acpi_madt_struct >>
    BY <1>1 DEF found
  <2>6. QED
    BY <2>2, <2>3, <2>4, <2>5, ShapeStays
<1>2. CASE MapBios
  <2>1. /\ "bios" \in {"bios", "low"} /\ pc \in {"bios", "ebda"}
        /\ paging_map(AreaFrame["bios"], AreaWindow, AreaSize["bios"])
        /\ UNCHANGED << machine, rsdp, open, at, found >>
        /\ pc' \in {"search bios", "search low", "refused"} /\ pc' # "search low"
    BY <1>2 DEF MapBios, MapArea, MapOrPanic
  <2>2. QED
    BY <1>1, <2>1, Zenon
<1>3. CASE MapLow
  <2>1. /\ "low" \in {"bios", "low"} /\ pc \in {"bios", "ebda"} /\ pc = "ebda"
        /\ paging_map(AreaFrame["low"], AreaWindow, AreaSize["low"])
        /\ UNCHANGED << machine, rsdp, open, at, found >>
        /\ pc' \in {"search bios", "search low", "refused"}
    BY <1>3 DEF MapLow, MapArea, MapOrPanic
  <2>2. QED
    BY <1>1, <2>1, Zenon
<1>4. CASE search_rsdp_bios
  BY <1>4, SearchShape DEF search_rsdp_bios, Searching
<1>5. CASE search_rsdp_ebda
  BY <1>5, SearchShape DEF search_rsdp_ebda, Searching
<1>6. QED
  BY <1>2, <1>3, <1>4, <1>5

LEMMA ParseRsdpShape == Shape /\ acpi_parse_rsdp => Shape'
<1> SUFFICES ASSUME Shape, acpi_parse_rsdp PROVE Shape'
  OBVIOUS
<1>1. /\ machine' = machine /\ rsdp' = rsdp /\ acpi_madt_struct' = acpi_madt_struct
      /\ UNCHANGED paging /\ pc = "rsdp"
  BY DEF acpi_parse_rsdp
<1>2. PagingTypeOK'
  BY <1>1 DEF Shape, PagingTypeOK, paging
<1>3. RootTable' = RootTable /\ Read' = Read /\ MadtTables' = MadtTables
  BY <1>1 DEF RootTable, Read, Tables, MadtTables
<1>4. rsdp # << >> /\ IsRoot(RootTable) /\ RootTable \in Read /\ Len(RootTable.body) \in Nat
      /\ machine \in Machines /\ rsdp[1] \in {"bios", "low"}
  BY <1>1, TablesRoot, TableSizes DEF Shape, Stage, Reading, Behind
<1>5. CASE rsdp[2].revision \in {0, 2}
  <2>1. pc' = "peek" /\ open' = << RootTable >> /\ at' = << 0 >>
    BY <1>5 DEF acpi_parse_rsdp, RootTable
  <2>2. /\ open' \in Seq(Read) /\ at' \in Seq(Nat) /\ Len(open') = 1 /\ Len(at') = 1
        /\ open'[1] = RootTable /\ at'[1] = 0
    BY <1>4, <2>1
  <2>3. Level' = 1
    BY <2>2 DEF Level
  <2>4. Stage'
    BY <1>1, <1>3, <1>4, <2>1, <2>3 DEF Stage, Searching, Reading, Behind
  <2>5. acpi_madt_struct \in MadtTables \union {NULL}
    BY DEF Shape, Opened
  <2>6. 0 \in 0 .. Len(RootTable.body)
    BY <1>4
  <2>7. Opened'
    BY <1>1, <1>3, <2>1, <2>2, <2>3, <2>5, <2>6 DEF Opened
  <2>8. QED
    BY <1>2, <2>4, <2>7 DEF Shape
<1>6. CASE rsdp[2].revision \notin {0, 2}
  BY <1>1, <1>2, <1>6, ShapeStays DEF acpi_parse_rsdp
<1>7. QED
  BY <1>5, <1>6

(* Peek, ReadLength and MapWhole.                                          *)
LEMMA LevelWindow ==
    ASSUME Shape, Level > 0
    PROVE  Level \in 0 .. 2 /\ Window(Level) \in Nat /\ Frame(Table) \in Nat /\ Size(Table) \in Nat
<1>1. Level \in {1, 2} /\ IsTable(Table)
  BY OpenTables
<1>2. Window(Level) \in Nat
  BY <1>1, WindowIs, Sizes
<1>3. Frame(Table) \in Nat /\ Size(Table) \in Nat
  BY <1>1, TableSizes
<1>4. QED
  BY <1>1, <1>2, <1>3

LEMMA ReadingLevel ==
    ASSUME Shape, pc \in Reading
    PROVE  Level > 0
<1>1. Level \in {1, 2}
  BY DEF Shape, Stage
<1>2. QED
  BY <1>1

LEMMA WindowShape ==
    ASSUME Shape, Peek \/ ReadLength \/ MapWhole
    PROVE  Shape'
<1>1. UNCHANGED << machine, rsdp, open, at, acpi_madt_struct >>
  BY DEF Peek, ReadLength, MapWhole, found
<1>2. pc \in {"peek", "length", "whole"} /\ pc \in Reading
  BY DEF Peek, ReadLength, MapWhole, Reading
<1>3. Level > 0 /\ Level \in {1, 2} /\ Level \in 0 .. 2 /\ Frame(Table) \in Nat /\ Size(Table) \in Nat
  BY <1>2, ReadingLevel, LevelWindow, OpenTables
<1>4. PagingTypeOK /\ PageSize \in Nat
  BY Sizes DEF Shape
<1>5. CASE Peek
  <2>1. paging_map(Frame(Table), Window(Level), PageSize) /\ pc' \in {"length", "refused"}
    BY <1>5 DEF Peek, MapOrPanic
  <2>2. PagingTypeOK'
    BY <1>3, <1>4, <2>1, MapsTyped
  <2>3. pc \in Reading \ {"list", "parse", "madt"} /\ pc' \in {"length", "whole", "refused", "fault"}
    BY <1>2, <2>1
  <2>4. QED
    BY <1>1, <2>2, <2>3, ShapeStays
<1>6. CASE ReadLength
  <2>1. PagingTypeOK'
    BY <1>4, <1>6, UnmapTyped DEF ReadLength, PagingTypeOK, paging
  <2>2. pc \in Reading \ {"list", "parse", "madt"} /\ pc' \in {"length", "whole", "refused", "fault"}
    BY <1>2, <1>6 DEF ReadLength
  <2>3. QED
    BY <1>1, <2>1, <2>2, ShapeStays
<1>7. CASE MapWhole
  <2>1. paging_map(Frame(Table), Window(Level), Size(Table))
    BY <1>7 DEF MapWhole, MapOrPanic
  <2>2. PagingTypeOK'
    BY <1>3, <1>4, <2>1, MapsTyped
  <2>3. /\ pc = "whole" /\ pc \in Reading \ {"list", "parse", "madt"}
        /\ \/ pc' = "refused"
           \/ Level = 1 /\ pc' = "list"
           \/ Level = 2 /\ pc' = "parse"
    BY <1>2, <1>3, <1>7 DEF MapWhole, MapOrPanic
  <2>4. QED
    BY <1>1, <2>2, <2>3, ShapeStays
<1>8. QED
  BY <1>5, <1>6, <1>7

LEMMA Appended ==
    ASSUME NEW S, NEW s \in Seq(S), NEW x \in S
    PROVE  /\ Append(s, x) \in Seq(S) /\ Len(Append(s, x)) = Len(s) + 1
           /\ \A i \in 1 .. Len(s) : Append(s, x)[i] = s[i]
           /\ Append(s, x)[Len(s) + 1] = x
BY AppendProperties

LEMMA NextTableShape == Shape /\ NextTable => Shape'
<1> SUFFICES ASSUME Shape, NextTable PROVE Shape'
  OBVIOUS
<1>1. /\ machine' = machine /\ rsdp' = rsdp /\ acpi_madt_struct' = acpi_madt_struct
      /\ UNCHANGED paging /\ pc = "list"
  BY DEF NextTable, found
<1>2. PagingTypeOK'
  BY <1>1 DEF Shape, PagingTypeOK, paging
<1>3. /\ Level = 1 /\ Level > 0
  BY <1>1 DEF Shape, Stage
<1>4. /\ Table = RootTable /\ rsdp # << >> /\ Stage /\ open[1] = RootTable
      /\ at[1] \in 0 .. Len(RootTable.body)
  BY <1>3, OpenTables DEF Shape
<1>5. /\ Len(RootTable.body) \in Nat /\ at[1] \in Nat
      /\ RootTable.body = Table.body
  BY <1>4, TablesRoot, TableSizes
<1>6. CASE pc' = "peek"
  <2> DEFINE i == at[1] + 1
  <2>1. /\ i <= Len(RootTable.body) /\ open' = Append(open, RootTable.body[i]) /\ at' = << i, 0 >>
    BY <1>4, <1>5, <1>6 DEF NextTable
  <2>2. i \in 1 .. Len(RootTable.body) /\ i \in Nat
    BY <1>5, <2>1
  <2> HIDE DEF i
  <2>3. RootTable.body[i] \in Read
    BY <1>4, <2>2, TablesRoot
  <2>4. /\ open \in Seq(Read) /\ Len(open) = 1
    BY <1>3 DEF Shape, Opened, Level
  <2>5. /\ open' \in Seq(Read) /\ Len(open') = 2 /\ open'[1] = open[1]
        /\ open'[2] = RootTable.body[i]
    <3> DEFINE longer == Append(open, RootTable.body[i])
    <3>1. /\ longer \in Seq(Read) /\ Len(longer) = Len(open) + 1
          /\ \A k \in 1 .. Len(open) : longer[k] = open[k]
          /\ longer[Len(open) + 1] = RootTable.body[i]
      BY <2>3, <2>4, Appended, ZenonT(60)
    <3> HIDE DEF longer
    <3>2. Len(open) + 1 = 2 /\ 1 \in 1 .. Len(open)
      BY <2>4
    <3>3. open' = longer
      BY <2>1 DEF longer
    <3>4. QED
      BY <3>1, <3>2, <3>3
  <2>6. at' \in Seq(Nat) /\ Len(at') = 2 /\ at'[1] = i
    BY <2>1, <2>2
  <2>7. Level' = 2
    BY <2>5 DEF Level
  <2>8. RootTable' = RootTable /\ Read' = Read /\ MadtTables' = MadtTables
    BY <1>1 DEF RootTable, Read, Tables, MadtTables
  <2>9. IsRoot(RootTable) /\ machine \in Machines /\ rsdp[1] \in {"bios", "low"}
    BY <1>4 DEF Stage
  <2>10. Stage'
    BY <1>1, <1>4, <1>6, <2>7, <2>8, <2>9 DEF Stage, Searching, Reading, Behind
  <2>11. acpi_madt_struct \in MadtTables \union {NULL}
    BY DEF Shape, Opened
  <2>12. i > 0 /\ i \in 0 .. Len(RootTable.body)
    BY <1>5, <2>2
  <2>13. Opened'
    BY <1>1, <1>4, <1>6, <2>5, <2>6, <2>7, <2>8, <2>11, <2>12 DEF Opened
  <2>14. QED
    BY <1>2, <2>10, <2>13 DEF Shape
<1>7. CASE pc' # "peek"
  <2>1. UNCHANGED << machine, rsdp, open, at, acpi_madt_struct >>
    BY <1>1, <1>7 DEF NextTable
  <2>2. \/ pc' = "fault"
        \/ pc' = "close" /\ at[1] + 1 > Len(RootTable.body)
    BY <1>4, <1>5, <1>7 DEF NextTable
  <2>3. \/ pc = "list" /\ pc' = "close" /\ at[1] = Len(RootTable.body)
        \/ pc = "list" /\ pc' = "fault"
    BY <1>1, <1>4, <1>5, <2>2
  <2>4. QED
    BY <1>2, <2>1, <2>3, ShapeStays
<1>8. QED
  BY <1>6, <1>7

(* The table closed is the last one opened.                                *)
LEMMA Fronts ==
    ASSUME NEW S, NEW s \in Seq(S), Len(s) > 0
    PROVE  /\ Front(s) \in Seq(S) /\ Len(Front(s)) = Len(s) - 1
           /\ \A i \in 1 .. Len(s) - 1 : Front(s)[i] = s[i]
<1>1. Len(s) \in Nat
  OBVIOUS
<1>2. Front(s) = [i \in 1 .. Len(s) - 1 |-> s[i]]
  BY DEF Front
<1>3. \A i \in 1 .. Len(s) - 1 : s[i] \in S
  BY <1>1
<1>4. QED
  BY <1>1, <1>2, <1>3

LEMMA CloseShape == Shape /\ Close => Shape'
<1> SUFFICES ASSUME Shape, Close PROVE Shape'
  OBVIOUS
<1>1. /\ machine' = machine /\ rsdp' = rsdp /\ acpi_madt_struct' = acpi_madt_struct
      /\ pc = "close" /\ open' = Front(open) /\ at' = Front(at)
      /\ pc' = (IF Level = 1 THEN "release" ELSE "list")
      /\ paging_unmap(Window(Level), Size(Table))
  BY DEF Close, found
<1>2. PagingTypeOK'
  BY <1>1, UnmapTyped DEF Shape
<1>3. Level > 0 /\ Level \in {1, 2}
  BY <1>1, ReadingLevel, OpenTables DEF Reading
<1>4. /\ rsdp # << >> /\ open[1] = RootTable
      /\ at[1] \in 0 .. Len(RootTable.body)
  BY <1>3, OpenTables DEF Shape
<1>5. open \in Seq(Read) /\ at \in Seq(Nat) /\ Len(open) = Level /\ Len(at) = Level
  BY DEF Shape, Opened, Level
<1>6. /\ open' \in Seq(Read) /\ Len(open') = Level - 1 /\ \A i \in 1 .. Level - 1 : open'[i] = open[i]
      /\ at' \in Seq(Nat) /\ Len(at') = Level - 1 /\ \A i \in 1 .. Level - 1 : at'[i] = at[i]
  BY <1>1, <1>3, <1>5, Fronts
<1>7. RootTable' = RootTable /\ Read' = Read /\ MadtTables' = MadtTables
  BY <1>1 DEF RootTable, Read, Tables, MadtTables
<1>8. IsRoot(RootTable) /\ machine \in Machines /\ rsdp[1] \in {"bios", "low"}
      /\ acpi_madt_struct \in MadtTables \union {NULL}
  BY <1>4 DEF Shape, Stage, Opened
<1>9. CASE Level = 1
  <2>1. Level' = 0 /\ pc' = "release" /\ Len(at') = 0
    BY <1>1, <1>6, <1>9 DEF Level
  <2>2. Stage'
    BY <1>1, <1>4, <1>7, <1>8, <2>1 DEF Stage, Searching, Reading, Behind
  <2>3. Opened'
    BY <1>1, <1>6, <1>7, <1>8, <2>1 DEF Opened
  <2>4. QED
    BY <1>2, <2>2, <2>3 DEF Shape
<1>10. CASE Level = 2
  <2>1. Level' = 1 /\ pc' = "list" /\ Len(at') = 1 /\ open'[1] = RootTable /\ at'[1] = at[1]
    BY <1>1, <1>4, <1>6, <1>10 DEF Level
  <2>2. Stage'
    BY <1>1, <1>4, <1>7, <1>8, <2>1 DEF Stage, Searching, Reading, Behind
  <2>3. Opened'
    <3>1. open' \in Seq(Read') /\ at' \in Seq(Nat) /\ Level' \in 0 .. 2 /\ Len(at') = Level'
      <4>1. Level' \in 0 .. 2 /\ Len(at') = Level'
        BY <2>1
      <4>2. open' \in Seq(Read') /\ at' \in Seq(Nat)
        BY <1>6, <1>7, Zenon
      <4>3. QED
        BY <4>1, <4>2, Zenon
    <3>2. open'[1] = RootTable' /\ at'[1] \in 0 .. Len(RootTable'.body)
      BY <1>4, <1>7, <2>1
    <3>3. acpi_madt_struct' \in MadtTables' \union {NULL} /\ Level' # 2
      BY <1>1, <1>7, <1>8, <2>1
    <3>4. QED
      BY <2>1, <3>1, <3>2, <3>3 DEF Opened
  <2>4. QED
    BY <1>2, <2>2, <2>3 DEF Shape
<1>11. QED
  BY <1>3, <1>9, <1>10

LEMMA Updated ==
    ASSUME NEW s \in Seq(Nat), NEW k \in 1 .. Len(s), NEW n \in Nat
    PROVE  /\ s[k] \in Nat
           /\ [s EXCEPT ![k] = n] \in Seq(Nat) /\ Len([s EXCEPT ![k] = n]) = Len(s)
           /\ [s EXCEPT ![k] = n][k] = n
           /\ \A i \in 1 .. Len(s) : i # k => [s EXCEPT ![k] = n][i] = s[i]
BY ExceptSeq

(* The tables. *)
LEMMA RestShape ==
    ASSUME Shape, Release \/ acpi_parse_dt \/ acpi_parse_fadt \/ EndOfWalk \/ ioapic_init \/ idt_init
    PROVE  Shape'
<1>1. machine' = machine /\ rsdp' = rsdp /\ open' = open /\ at' = at
      /\ acpi_madt_struct' = acpi_madt_struct
  BY DEF Release, acpi_parse_dt, acpi_parse_fadt, EndOfWalk, ioapic_init, idt_init, found
<1>2. PagingTypeOK
  BY DEF Shape
<1>3. CASE Release
  <2>1. PagingTypeOK'
    BY <1>2, <1>3, UnmapTyped DEF Release
  <2>2. pc \in Behind /\ pc' \in {"ioapic", "idt", "booted", "fault"}
    BY <1>3 DEF Release, Behind
  <2>3. QED
    BY <1>1, <2>1, <2>2, ShapeStays
<1>4. CASE ~ Release
  <2>1. UNCHANGED paging
    BY <1>4 DEF acpi_parse_dt, acpi_parse_fadt, EndOfWalk, ioapic_init, idt_init
  <2>2. PagingTypeOK'
    BY <1>2, <2>1 DEF PagingTypeOK, paging
  <2>3. CASE acpi_parse_dt \/ acpi_parse_fadt \/ EndOfWalk
    <3>1. pc \in {"parse", "madt"} /\ pc' \in {"close", "fault"}
      BY <2>3 DEF acpi_parse_dt, acpi_parse_fadt, EndOfWalk
    <3>2. QED
      BY <1>1, <2>2, <3>1, ShapeStays
  <2>4. CASE ioapic_init \/ idt_init
    <3>1. pc \in Behind /\ pc' \in {"ioapic", "idt", "booted", "fault"}
      BY <2>4 DEF ioapic_init, idt_init, Behind
    <3>2. QED
      BY <1>1, <2>2, <3>1, ShapeStays
  <2>5. QED
    BY <1>4, <2>3, <2>4
<1>5. QED
  BY <1>3, <1>4

LEMMA ParseApicShape == Shape /\ acpi_parse_apic => Shape'
<1> SUFFICES ASSUME Shape, acpi_parse_apic PROVE Shape'
  OBVIOUS
<1>1. /\ machine' = machine /\ rsdp' = rsdp /\ open' = open /\ UNCHANGED paging
      /\ pc = "parse" /\ Table.kind = "MADT"
  BY DEF acpi_parse_apic
<1>2. PagingTypeOK'
  BY <1>1 DEF Shape, PagingTypeOK, paging
<1>3. Level = 2 /\ Level > 0
  BY <1>1 DEF Shape, Stage
<1>4. Table = open[2] /\ Table \in Tables /\ Table \in MadtTables
  BY <1>1, <1>3, OpenTables DEF MadtTables
<1>5. CASE pc' = "madt"
  <2>1. acpi_madt_struct' = Table /\ at' = [at EXCEPT ![2] = 1]
    BY <1>5 DEF acpi_parse_apic
  <2>2. at \in Seq(Nat) /\ Len(at) = 2
    BY <1>3 DEF Shape, Opened
  <2>3. at' \in Seq(Nat) /\ Len(at') = 2 /\ at'[1] = at[1] /\ at'[2] = 1
    <3>1. 2 \in 1 .. Len(at) /\ 1 \in 1 .. Len(at) /\ 1 # 2 /\ 1 \in Nat
      BY <2>2
    <3> DEFINE set == [at EXCEPT ![2] = 1]
    <3>2. /\ set \in Seq(Nat) /\ Len(set) = Len(at) /\ set[2] = 1
          /\ \A i \in 1 .. Len(at) : i # 2 => set[i] = at[i]
      <4> DEFINE to(s, k, n) == [s EXCEPT ![k] = n]
      <4>1. \A s \in Seq(Nat), n \in Nat : \A k \in 1 .. Len(s) :
               /\ to(s, k, n) \in Seq(Nat) /\ Len(to(s, k, n)) = Len(s) /\ to(s, k, n)[k] = n
               /\ \A i \in 1 .. Len(s) : i # k => to(s, k, n)[i] = s[i]
        BY Updated
      <4>2. set = to(at, 2, 1)
        OBVIOUS
      <4> HIDE DEF to, set
      <4>3. at \in Seq(Nat) /\ 1 \in Nat /\ 2 \in 1 .. Len(at)
        BY <2>2, <3>1
      <4>4. QED
        BY <4>1, <4>2, <4>3, ZenonT(60)
    <3> HIDE DEF set
    <3>3. at' = set
      BY <2>1 DEF set
    <3>4. QED
      BY <2>2, <3>1, <3>2, <3>3
  <2>4. RootTable' = RootTable /\ Read' = Read /\ MadtTables' = MadtTables /\ Level' = Level
    BY <1>1 DEF RootTable, Read, Tables, MadtTables, Level
  <2>5. /\ open \in Seq(Read) /\ open[1] = RootTable /\ at[1] \in 0 .. Len(RootTable.body)
        /\ at[1] > 0 /\ open[2] = RootTable.body[at[1]]
    BY <1>3 DEF Shape, Opened
  <2>6. IsRoot(RootTable) /\ machine \in Machines /\ rsdp[1] \in {"bios", "low"} /\ rsdp # << >>
    BY <1>1 DEF Shape, Stage, Reading
  <2>7. Stage'
    BY <1>1, <1>3, <1>5, <2>4, <2>6 DEF Stage, Searching, Reading, Behind
  <2>8. Opened'
    <3>1. open' \in Seq(Read') /\ Level' \in 0 .. 2 /\ Len(at') = Level' /\ Level' # 1
      BY <1>1, <1>3, <2>3, <2>4, <2>5
    <3>2. open'[1] = RootTable' /\ at'[1] \in 0 .. Len(RootTable'.body)
      BY <1>1, <2>3, <2>4, <2>5
    <3>3. at'[1] > 0 /\ open'[2] = RootTable'.body[at'[1]]
      BY <1>1, <2>3, <2>4, <2>5
    <3>4. acpi_madt_struct' \in MadtTables' /\ acpi_madt_struct' = open'[2] /\ at'[2] > 0
      BY <1>1, <1>4, <2>1, <2>3, <2>4
    <3>5. QED
      BY <2>3, <3>1, <3>2, <3>3, <3>4 DEF Opened
  <2>9. QED
    BY <1>2, <2>7, <2>8 DEF Shape
<1>6. CASE pc' # "madt"
  <2>1. UNCHANGED << machine, rsdp, open, at, acpi_madt_struct >> /\ pc' = "fault"
    BY <1>1, <1>6 DEF acpi_parse_apic
  <2>2. QED
    BY <1>1, <1>2, <2>1, ShapeStays
<1>7. QED
  BY <1>5, <1>6

(* The structure the walk has come to.                                     *)
LEMMA MadtWalk ==
    ASSUME Shape, pc = "madt"
    PROVE  /\ Level = 2 /\ Table = open[2] /\ acpi_madt_struct = Table /\ Table \in MadtTables
           /\ IsListed(Table) /\ Table.kind = "MADT"
           /\ at \in Seq(Nat) /\ Len(at) = 2 /\ at[2] \in Nat \ {0}
           /\ ~ WalkEnded => at[2] + 1 \in 2 .. Len(Table.body) /\ Structure = Table.body[at[2] + 1]
           /\ ~ WalkEnded => /\ Structure.length \in Nat
                             /\ Structure.type = "cpu" => Structure.id \in Nat
                             /\ Structure.type = "ioapic" => Structure.addr \in Nat
<1>1. Level = 2 /\ Level > 0
  BY DEF Shape, Stage
<1>2. Table = open[2] /\ Table \in Tables /\ IsListed(Table) /\ IsTable(Table)
  BY <1>1, OpenTables
<1>3. acpi_madt_struct = Table /\ acpi_madt_struct # NULL /\ acpi_madt_struct \in MadtTables
  BY <1>2 DEF Shape, Opened, IsTable
<1>4. Table.kind = "MADT"
  BY <1>3 DEF MadtTables
<1>5. at \in Seq(Nat) /\ Len(at) = 2 /\ at[2] > 0
  BY <1>1 DEF Shape, Opened
<1>6. at[2] \in Nat \ {0}
  <2>1. 2 \in 1 .. Len(at) /\ 0 \in Nat
    BY <1>5
  <2>2. at[2] \in Nat
    BY <1>5, <2>1, Updated, Zenon
  <2>3. QED
    BY <1>5, <2>2
<1>7. Len(Table.body) \in Nat
  BY <1>2, TableSizes
<1>8. ~ WalkEnded => at[2] + 1 \in 2 .. Len(Table.body)
  BY <1>3, <1>6, <1>7 DEF WalkEnded
<1>9. Structure = Table.body[at[2] + 1]
  BY <1>3 DEF Structure
<1>10. \A i \in 2 .. Len(Table.body) :
           /\ Table.body[i].length \in Nat
           /\ Table.body[i].type = "cpu" => Table.body[i].id \in Nat
           /\ Table.body[i].type = "ioapic" => Table.body[i].addr \in Nat
  BY <1>2, <1>4 DEF IsListed
<1>11. QED
  BY <1>1, <1>2, <1>3, <1>4, <1>5, <1>6, <1>8, <1>9, <1>10

LEMMA TurnShape ==
    ASSUME Shape, ParseCpu \/ ParseIoapic \/ ParseOther
    PROVE  Shape'
<1>1. PICK types : Turn(types)
  BY DEF ParseCpu, ParseIoapic, ParseOther
<1>2. /\ machine' = machine /\ rsdp' = rsdp /\ open' = open /\ UNCHANGED paging
      /\ acpi_madt_struct' = acpi_madt_struct /\ pc = "madt" /\ pc' = "madt" /\ ~ WalkEnded
      /\ at' = [at EXCEPT ![2] = @ + Structure.length]
  BY <1>1 DEF Turn
<1>3. PagingTypeOK'
  BY <1>2 DEF Shape, PagingTypeOK, paging
<1>4. /\ Level = 2 /\ Structure.length \in Nat
      /\ at \in Seq(Nat) /\ Len(at) = 2 /\ at[2] \in Nat \ {0}
  BY <1>2, MadtWalk
<1>5. at' \in Seq(Nat) /\ Len(at') = 2 /\ at'[1] = at[1] /\ at'[2] > 0
  <2> DEFINE n == at[2] + Structure.length
  <2>1. n \in Nat /\ n > 0 /\ at' = [at EXCEPT ![2] = n]
    BY <1>2, <1>4
  <2> HIDE DEF n
  <2>2. QED
    BY <1>4, <2>1
<1>6. RootTable' = RootTable /\ Read' = Read /\ MadtTables' = MadtTables /\ Level' = Level
  BY <1>2 DEF RootTable, Read, Tables, MadtTables, Level
<1>7. /\ open \in Seq(Read) /\ open[1] = RootTable /\ at[1] \in 0 .. Len(RootTable.body)
      /\ at[1] > 0 /\ open[2] = RootTable.body[at[1]]
      /\ acpi_madt_struct \in MadtTables \union {NULL} /\ acpi_madt_struct = open[2]
  BY <1>2, <1>4 DEF Shape, Opened
<1>8. IsRoot(RootTable) /\ machine \in Machines /\ rsdp[1] \in {"bios", "low"} /\ rsdp # << >>
  BY <1>2 DEF Shape, Stage, Reading
<1>9. Stage'
  BY <1>2, <1>4, <1>6, <1>8 DEF Stage, Searching, Reading, Behind
<1>10. Opened'
  <2>1. open' \in Seq(Read') /\ Level' \in 0 .. 2 /\ Len(at') = Level' /\ Level' # 1
    BY <1>2, <1>4, <1>5, <1>6, <1>7
  <2>2. open'[1] = RootTable' /\ at'[1] \in 0 .. Len(RootTable'.body)
    BY <1>2, <1>5, <1>6, <1>7
  <2>3. at'[1] > 0 /\ open'[2] = RootTable'.body[at'[1]]
    BY <1>2, <1>5, <1>6, <1>7
  <2>4. acpi_madt_struct' \in MadtTables' \union {NULL} /\ acpi_madt_struct' = open'[2]
    BY <1>2, <1>6, <1>7
  <2>5. QED
    BY <1>5, <2>1, <2>2, <2>3, <2>4 DEF Opened
<1>11. QED
  BY <1>3, <1>9, <1>10 DEF Shape

LEMMA NextShape == Shape /\ [Next]_startup => Shape'
<1> SUFFICES ASSUME Shape, [Next]_startup PROVE Shape'
  OBVIOUS
<1>1. CASE AcpiInit
  BY <1>1, SearchingShape, ParseRsdpShape, WindowShape, NextTableShape, CloseShape, RestShape,
     ParseApicShape, TurnShape DEF AcpiInit
<1>2. CASE ioapic_init \/ idt_init
  BY <1>2, RestShape
<1>3. CASE UNCHANGED startup
  <2>1. /\ machine' = machine /\ pc' = pc /\ rsdp' = rsdp /\ open' = open /\ at' = at
        /\ paging_dir' = paging_dir /\ paging_directory_map' = paging_directory_map
        /\ acpi_madt_struct' = acpi_madt_struct
    BY <1>3 DEF startup, vars, paging, found
  <2>2. /\ Read' = Read /\ RootTable' = RootTable /\ MadtTables' = MadtTables
        /\ Taken("bios")' = Taken("bios") /\ Level' = Level
    BY <2>1 DEF RootTable, Read, Tables, MadtTables, Taken, memcmp, check_rsdp, Level
  <2>3. PagingTypeOK'
    BY <2>1 DEF Shape, PagingTypeOK
  <2>4. Stage'
    BY <2>1, <2>2 DEF Shape, Stage
  <2>5. Opened'
    BY <2>1, <2>2 DEF Shape, Opened
  <2>6. QED
    BY <2>3, <2>4, <2>5 DEF Shape
<1>4. QED
  BY <1>1, <1>2, <1>3 DEF Next

-----------------------------------------------------------------------------
(* What is behind the windows, if every table fits its window.             *)
LEMMA FittingBefore ==
    ASSUME Shape, [Next]_startup, Fitting'
    PROVE  Fitting
<1>1. CASE rsdp = << >>
  BY <1>1 DEF Fitting, Read
<1>2. CASE rsdp # << >>
  <2>1. ~ (pc \in Searching)
    BY <1>2 DEF Shape, Stage
  <2>2. rsdp' = rsdp
    <3>1. ~ search_rsdp_bios /\ ~ search_rsdp_ebda
      BY <2>1 DEF search_rsdp_bios, search_rsdp_ebda, Searching
    <3>2. CASE AcpiInit
      BY <3>1, <3>2 DEF AcpiInit, MapBios, MapLow, acpi_parse_rsdp, Peek, ReadLength, MapWhole, NextTable,
         Close, Release, acpi_parse_dt, acpi_parse_fadt, acpi_parse_apic, ParseCpu, ParseIoapic, ParseOther,
         Turn, EndOfWalk
    <3>3. CASE ~ AcpiInit
      BY <3>3 DEF Next, ioapic_init, idt_init, startup, vars
    <3>4. QED
      BY <3>2, <3>3
  <2>3. Read' = Read
    BY <2>2 DEF Read, Tables, RootTable
  <2>4. QED
    BY <2>3 DEF Fitting, TooLong
<1>3. QED
  BY <1>1, <1>2

LEMMA FitsWindow ==
    ASSUME Shape, Fitting, NEW t \in Read
    PROVE  IsTable(t) /\ PageCount(Size(t)) \in 1 .. TablePages
<1>1. rsdp # << >>
  BY DEF Read
<1>2. IsTable(t)
  BY <1>1, TablesRoot DEF Shape
<1>3. PageCount(Size(t)) \in Nat \ {0}
  BY <1>2, TableSizes
<1>4. ~ (PageCount(Size(t)) > TablePages)
  BY DEF Fitting, TooLong
<1>5. QED
  BY <1>2, <1>3, <1>4, Sizes

LEMMA AreaFits ==
    ASSUME NEW area \in {"bios", "low"}
    PROVE  PageCount(AreaSize[area]) \in 1 .. TablePages /\ AreaFrame[area] \in Nat
           /\ PageCount(AreaSize[area]) <= PageCount(AreaSize.bios)
<1>1. area = "bios" \/ area = "low"
  OBVIOUS
<1>2. area = "bios" => AreaSize[area] = AreaSize.bios /\ AreaFrame[area] = AreaFrame.bios
  OBVIOUS
<1>3. area = "low" => AreaSize[area] = AreaSize.low /\ AreaFrame[area] = AreaFrame.low
  OBVIOUS
<1>4. 2 \in 1 .. TablePages /\ 1 \in 1 .. TablePages /\ 1 <= 2 /\ 2 <= 2
  BY Sizes
<1>5. QED
  BY <1>1, <1>2, <1>3, <1>4, AreaCounts, Zenon

LEMMA Counts ==
    ASSUME Shape, Fitting, NEW w \in 0 .. 2, ~ Ended
    PROVE  Count(w) \in 0 .. TablePages
<1>1. 0 \in 0 .. TablePages /\ 1 \in 0 .. TablePages /\ 1 .. TablePages \subseteq 0 .. TablePages
  BY Sizes
<1>2. CASE w = 0
  <2>1. pc \notin Searching => rsdp # << >>
    BY DEF Shape, Stage, Ended, Searching, Reading, Behind
  <2>2. pc \notin Searching => rsdp[1] \in {"bios", "low"}
    BY <2>1 DEF Shape, Stage
  <2>3. AreaPages \in 0 .. TablePages
    <3>1. PageCount(AreaSize.bios) \in 1 .. TablePages /\ PageCount(AreaSize.low) \in 1 .. TablePages
      BY AreaCounts, Sizes
    <3>2. pc \notin Searching => PageCount(AreaSize[rsdp[1]]) \in 1 .. TablePages
      BY <2>2, AreaFits
    <3>3. QED
      BY <1>1, <3>1, <3>2 DEF AreaPages, Searching
  <2>4. QED
    BY <1>2, <2>3 DEF Count
<1>3. CASE w # 0
  <2>1. w \in 1 .. 2 /\ Count(w) = TablePagesOpen(w)
    BY <1>3 DEF Count
  <2>2. Level \in 0 .. 2
    BY DEF Shape, Opened
  <2>3. ~ (Level < w) => PageCount(Size(open[w])) \in 1 .. TablePages
    <3>1. ~ (Level < w) => Level > 0 /\ w \in 1 .. Level
      BY <2>1, <2>2
    <3>2. ~ (Level < w) => open[w] \in Read
      BY <3>1, OpenTables
    <3>3. QED
      BY <3>2, FitsWindow
  <2>4. QED
    BY <1>1, <2>1, <2>3 DEF TablePagesOpen
<1>4. QED
  BY <1>2, <1>3

(* A unit can be read exactly if its page is one of those mapped.          *)
LEMMA ReadableIff ==
    ASSUME Shape, Fitting, Mapping, ~ Ended, Level > 0, NEW i \in Nat
    PROVE  Readable(i) <=> ((Table.addr % PageSize) + i) \div PageSize < Count(Level)
<1> DEFINE k == ((Table.addr % PageSize) + i) \div PageSize
           n == Count(Level)
<1>1. /\ Level \in {1, 2} /\ IsTable(Table) /\ Table = open[Level] /\ Level \in 1 .. Level
      /\ Level \in 0 .. 2
  <2>1. Level \in {1, 2} /\ IsTable(Table) /\ Table = open[Level]
    BY OpenTables
  <2>2. QED
    BY <2>1
<1>2. Frame(Table) \in Nat /\ Table.addr % PageSize \in Nat /\ PageSize \in Nat \ {0}
  BY <1>1, TableSizes, Sizes
<1>3. k \in Nat
  <2>1. (Table.addr % PageSize) + i \in Nat
    BY <1>2
  <2>2. QED
    BY <1>2, <2>1, QuotientBounds
<1>4. Readable(i) <=> Mapped(Window(Level) + k, Frame(Table) + k)
  BY DEF Readable
<1>5. n \in 0 .. TablePages /\ n \in Nat
  <2>1. n \in 0 .. TablePages
    BY <1>1, Counts
  <2>2. QED
    BY <2>1
<1>6. Holds(Level, n) /\ Shows(Level, n, Frame(Table)) /\ paging_dir \subseteq 0 .. 2
  BY <1>1 DEF Mapping
<1>7. TablePages \in Nat /\ NULL \notin Nat /\ JUNK \notin Nat
  BY Sizes
<1> HIDE DEF k, n
<1>8. Frame(Table) + k \in Nat
  BY <1>2, <1>3
<1>9. CASE k < n
  <2>1. k \in 0 .. TablePages - 1 /\ k \in 0 .. n - 1 /\ n > 0
    BY <1>3, <1>5, <1>7, <1>9
  <2>2. Pd(Window(Level) + k) = Level
    BY <1>1, <2>1, WindowPages
  <2>3. Level \in paging_dir
    BY <1>6, <2>1 DEF Holds
  <2>4. paging_directory_map[Window(Level) + k] = Frame(Table) + k
    BY <1>6, <2>1 DEF Shows
  <2>5. QED
    BY <1>4, <1>9, <2>2, <2>3, <2>4 DEF Mapped, k, n
<1>10. CASE ~ (k < n) /\ k < TablePages
  <2>1. k \in n .. TablePages - 1
    BY <1>3, <1>5, <1>7, <1>10
  <2>2. paging_directory_map[Window(Level) + k] = Emptied(Window(Level) + k)
    BY <1>6, <2>1 DEF Holds
  <2>3. Emptied(Window(Level) + k) \notin Nat
    BY <1>7 DEF Emptied
  <2>4. ~ Mapped(Window(Level) + k, Frame(Table) + k)
    BY <1>8, <2>2, <2>3 DEF Mapped
  <2>5. QED
    BY <1>4, <1>10, <2>4 DEF k, n
<1>11. CASE ~ (k < TablePages)
  <2> DEFINE p == Window(Level) + k
             q == Pd(p)
             r == p % TablePages
  <2>1. p \in Nat /\ Window(Level) = Level * TablePages /\ TablePages \in Nat \ {0}
    BY <1>1, <1>3, WindowIs, Sizes DEF Window
  <2>2. q \in Nat /\ q * TablePages <= p /\ p < q * TablePages + TablePages
    BY <2>1, QuotientBounds DEF Pd
  <2>3. SUFFICES ASSUME Mapped(p, Frame(Table) + k) PROVE FALSE
    <3>1. ~ (k < n)
      BY <1>3, <1>5, <1>7, <1>11
    <3>2. QED
      BY <1>4, <2>3, <3>1 DEF k, n
  <2>4. q \in 0 .. 2
    BY <1>6, <2>3 DEF Mapped
  <2> HIDE DEF q
  <2>5. q = 2 /\ Level = 1
    <3>1. Level = 1 => p >= TablePages + TablePages
      BY <1>3, <1>11, <2>1
    <3>2. Level = 2 => p >= TablePages + TablePages + TablePages
      BY <1>3, <1>11, <2>1
    <3>3. q = 0 => p < TablePages
      <4>1. 0 * TablePages = 0
        BY <2>1
      <4>2. QED
        BY <2>1, <2>2, <4>1
    <3>4. q = 1 => p < TablePages + TablePages
      BY <2>1, <2>2
    <3>5. q = 2 => p < TablePages + TablePages + TablePages
      BY <2>1, <2>2
    <3>6. QED
      BY <1>1, <1>7, <2>1, <2>4, <3>1, <3>2, <3>3, <3>4, <3>5
  <2> DEFINE m == p - Window(2)
  <2>6. m \in 0 .. TablePages - 1 /\ p = Window(2) + m
    BY <2>1, <2>2, <2>5, WindowIs
  <2>7. Count(2) = 0
    BY <2>5 DEF Count, TablePagesOpen
  <2>8. Holds(2, 0)
    BY <2>7 DEF Mapping
  <2> HIDE DEF m
  <2>9. paging_directory_map[p] = Emptied(p)
    <3>1. paging_directory_map[Window(2) + m] = Emptied(Window(2) + m)
      BY <2>6, <2>8 DEF Holds
    <3>2. QED
      BY <2>6, <3>1
  <2>10. Emptied(p) \notin Nat
    BY <1>7 DEF Emptied
  <2>11. QED
    BY <1>8, <2>3, <2>9, <2>10 DEF Mapped
<1>12. QED
  BY <1>9, <1>10, <1>11

(* Where a table straddles a page boundary.                                *)
LEMMA StraddlesIff ==
    ASSUME NEW t, IsTable(t)
    PROVE  /\ HeaderFits(t) <=> ((t.addr % PageSize) + 1) \div PageSize < 1
           /\ ~ HeaderFits(t) => Straddles(t)
           /\ HeaderFits(t) /\ UnitFits(t, Size(t) - 1) => ~ Straddles(t)
           /\ \A i \in 0 .. Size(t) - 1 : ~ UnitFits(t, i) => Straddles(t)
<1> DEFINE o == t.addr % PageSize
           n == PageCount(Size(t))
           b == n * PageSize
<1>1. /\ o \in Nat /\ n \in Nat /\ Size(t) \in Nat /\ Size(t) >= 2 /\ Header = 2
      /\ PageSize \in Nat \ {0} /\ b \in Int
  <2>1. o \in 0 .. PageSize - 1 /\ n \in Nat \ {0} /\ Size(t) \in Nat /\ Size(t) >= Header /\ Header = 2
    BY TableSizes
  <2>2. PageSize \in Nat \ {0}
    BY Sizes
  <2>3. b \in Int
    BY <2>1, <2>2
  <2>4. QED
    BY <2>1, <2>2, <2>3
<1>2. \A i \in Nat : UnitFits(t, i) <=> o + i < b
  <2>1. SUFFICES ASSUME NEW i \in Nat PROVE UnitFits(t, i) <=> o + i < b
    OBVIOUS
  <2>2. o + i \in Nat
    BY <1>1
  <2>3. (o + i) \div PageSize < n <=> o + i < n * PageSize
    BY <1>1, <2>2, QuotientBelow
  <2>4. QED
    BY <2>3 DEF UnitFits
<1>3. (o + 1) \div PageSize < 1 <=> o + 1 < PageSize
  <2>1. o + 1 \in Nat /\ 1 \in Nat /\ 1 * PageSize = PageSize
    BY <1>1
  <2>2. (o + 1) \div PageSize < 1 <=> o + 1 < 1 * PageSize
    BY <1>1, <2>1, QuotientBelow
  <2>3. QED
    BY <2>1, <2>2
<1>4. Straddles(t) <=> o + Size(t) > b \/ o + 2 > PageSize
  BY <1>1 DEF Straddles
<1>5. HeaderFits(t) <=> o + 2 <= PageSize
  BY <1>1 DEF HeaderFits
<1>6. Size(t) - 1 \in Nat /\ \A i \in 0 .. Size(t) - 1 : i \in Nat /\ i <= Size(t) - 1
  BY <1>1
<1>7. UnitFits(t, Size(t) - 1) <=> o + (Size(t) - 1) < b
  BY <1>2, <1>6
<1> HIDE DEF o, b, n
<1>8. HeaderFits(t) /\ UnitFits(t, Size(t) - 1) => ~ Straddles(t)
  BY <1>1, <1>4, <1>5, <1>7
<1>9. ~ HeaderFits(t) => Straddles(t)
  BY <1>1, <1>4, <1>5
<1>10. ASSUME NEW i \in 0 .. Size(t) - 1, ~ UnitFits(t, i) PROVE Straddles(t)
  BY <1>1, <1>2, <1>4, <1>6, <1>10
<1>11. HeaderFits(t) <=> (o + 1) \div PageSize < 1
  BY <1>1, <1>3, <1>5
<1>12. QED
  BY <1>8, <1>9, <1>10, <1>11 DEF o

(* A step that changes the pages of one window; and one that changes none. *)
LEMMA MappingChange ==
    ASSUME Mapping, machine' = machine, NEW w \in 0 .. 2, NEW n, NEW frame,
           paging_dir \subseteq paging_dir', paging_dir' \subseteq paging_dir \union {w},
           \A v \in Pages : Pd(v) # w => paging_directory_map'[v] = paging_directory_map[v],
           Count(w)' = n, Holds(w, n)', Shows(w, n, frame)',
           w \in 1 .. Level' => frame = Frame(open'[w]),
           \A x \in (0 .. 2) \ {w} : Count(x)' = Count(x) /\ Count(x) \in 0 .. TablePages,
           \A l \in (1 .. Level') \ {w} : l \in 1 .. Level /\ open'[l] = open[l],
           Level' \in 0 .. 2
    PROVE  Mapping'
<1>1. paging_dir' \subseteq 0 .. 2
  BY DEF Mapping
<1>2. ASSUME NEW v \in Pages, Pd(v) > 2 PROVE paging_directory_map'[v] = Emptied(v)'
  <2>1. Pd(v) # w
    BY <1>2
  <2>2. paging_directory_map'[v] = Emptied(v)
    BY <1>2, <2>1 DEF Mapping
  <2>3. QED
    BY <2>2 DEF Emptied
<1>3. ASSUME NEW x \in (0 .. 2) \ {w} PROVE Holds(x, Count(x))'
  <2>1. PICK c \in 0 .. TablePages : c = Count(x) /\ Count(x)' = c
    BY <1>3
  <2>2. \A v \in Pages : Pd(v) = x => paging_directory_map'[v] = paging_directory_map[v]
    BY <1>3
  <2>3. Holds(x, c)
    BY <2>1 DEF Mapping
  <2>4. Holds(x, c)'
    BY <2>2, <2>3, WindowStays
  <2>5. QED
    BY <2>1, <2>4 DEF Holds
<1>4. Holds(w, Count(w))'
  BY DEF Holds
<1>5. ASSUME NEW l \in 1 .. Level' PROVE Shows(l, Count(l), Frame(open[l]))'
  <2>1. CASE l = w
    BY <2>1 DEF Shows
  <2>2. CASE l # w
    <3>1. l \in (0 .. 2) \ {w} /\ l \in 1 .. Level /\ open'[l] = open[l]
      BY <2>2
    <3>2. PICK c \in 0 .. TablePages : c = Count(l) /\ Count(l)' = c
      BY <3>1
    <3>3. PICK f : f = Frame(open[l]) /\ f = Frame(open'[l])
      BY <3>1
    <3>4. \A v \in Pages : Pd(v) = l => paging_directory_map'[v] = paging_directory_map[v]
      BY <2>2
    <3>5. Shows(l, c, f)
      BY <3>1, <3>2, <3>3 DEF Mapping
    <3>6. Shows(l, c, f)'
      BY <3>1, <3>4, <3>5, WindowStays
    <3>7. QED
      BY <3>2, <3>3, <3>6 DEF Shows
  <2>3. QED
    BY <2>1, <2>2
<1>6. \A x \in 0 .. 2 : Holds(x, Count(x))'
  BY <1>3, <1>4
<1>7. QED
  BY <1>1, <1>2, <1>5, <1>6 DEF Mapping

LEMMA MappingStays ==
    ASSUME Mapping, machine' = machine, UNCHANGED paging, Level' \in 0 .. 2,
           \A x \in 0 .. 2 : Count(x)' = Count(x) /\ Count(x) \in 0 .. TablePages,
           \A l \in 1 .. Level' : \/ Count(l) = 0
                                  \/ l \in 1 .. Level /\ open'[l] = open[l]
    PROVE  Mapping'
<1>1. paging_dir' = paging_dir /\ paging_directory_map' = paging_directory_map
  BY DEF paging
<1>2. paging_dir' \subseteq 0 .. 2
  BY <1>1 DEF Mapping
<1>3. \A v \in Pages : Pd(v) > 2 => paging_directory_map'[v] = Emptied(v)'
  BY <1>1 DEF Mapping, Emptied
<1>4. ASSUME NEW x \in 0 .. 2 PROVE Holds(x, Count(x))'
  <2>1. PICK c : c = Count(x) /\ Count(x)' = c
    OBVIOUS
  <2>2. Holds(x, c)
    BY <2>1 DEF Mapping
  <2>3. QED
    BY <1>1, <2>1, <2>2 DEF Holds, Emptied
<1>5. ASSUME NEW l \in 1 .. Level' PROVE Shows(l, Count(l), Frame(open[l]))'
  <2>1. l \in 0 .. 2
    OBVIOUS
  <2>2. PICK c \in 0 .. TablePages : c = Count(l) /\ Count(l)' = c
    BY <2>1
  <2>3. CASE c = 0
    <3>1. 0 .. c - 1 = {}
      BY <2>3
    <3>2. QED
      BY <2>2, <3>1 DEF Shows
  <2>4. CASE c # 0
    <3>1. l \in 1 .. Level /\ open'[l] = open[l]
      BY <2>2, <2>4
    <3>2. Shows(l, c, Frame(open[l]))
      BY <2>2, <3>1 DEF Mapping
    <3>3. QED
      BY <1>1, <2>2, <3>1, <3>2 DEF Shows
  <2>5. QED
    BY <2>3, <2>4
<1>6. QED
  BY <1>2, <1>3, <1>4, <1>5 DEF Mapping

(* What follows from the machine and the root pointer alone.               *)
LEMMA SameMachine ==
    ASSUME machine' = machine, rsdp' = rsdp
    PROVE  /\ RootTable' = RootTable /\ Read' = Read /\ Tables' = Tables
           /\ MadtTables' = MadtTables /\ DirtyTable' = DirtyTable /\ AreaClean' = AreaClean
BY DEF RootTable, Read, Tables, MadtTables, DirtyTable, UsedPages, AreaClean

LEMMA GoesOn ==
    ASSUME pc' \notin {"refused", "fault", "absent", "version", "booted"}
    PROVE  StopsExplained'
BY DEF StopsExplained

LEMMA RefusedSound ==
    ASSUME pc' = "refused", machine' = machine, rsdp' = rsdp, DirtyTable
    PROVE  Sound'
<1>1. DirtyTable'
  BY SameMachine
<1>2. Ended' /\ pc' # "booted"
  BY DEF Ended
<1>3. StopsExplained'
  BY <1>1 DEF StopsExplained
<1>4. QED
  BY <1>2, <1>3 DEF Sound

LEMMA FaultSound ==
    ASSUME pc' = "fault", machine' = machine, rsdp' = rsdp,
           rsdp[2].xsdt \/ MadtTables = {} \/ \E t \in Read : Straddles(t)
    PROVE  Sound'
<1>1. Read' = Read /\ MadtTables' = MadtTables
  BY SameMachine
<1>2. Ended' /\ pc' # "booted"
  BY DEF Ended
<1>3. StopsExplained'
  BY <1>1 DEF StopsExplained, Straddles
<1>4. QED
  BY <1>2, <1>3 DEF Sound

LEMMA NothingOpened ==
    ASSUME Level = 0
    PROVE  Count(1) = 0 /\ Count(2) = 0
BY DEF Count, TablePagesOpen

LEMMA AreaUsed ==
    ASSUME NEW k \in 0 .. PageCount(AreaSize.bios) - 1, Window(0) + k \in machine.junk
    PROVE  DirtyTable
BY WindowIs DEF DirtyTable, UsedPages, AreaWindow

LEMMA MapAreaSound ==
    ASSUME Shape, Shape', Sound, MapBios \/ MapLow
    PROVE  Sound'
<1>1. ASSUME NEW area \in {"bios", "low"}, pc \in {"bios", "ebda"},
             \/ MapArea(area, "search bios") /\ area = "bios"
             \/ MapArea(area, "search low") /\ area = "low",
             area = "low" => pc # "bios",
             machine' = machine, rsdp' = rsdp, open' = open
      PROVE  Sound'
  <2> DEFINE size == AreaSize[area]
             n == PageCount(size)
  <2>1. n \in 1 .. TablePages /\ AreaFrame[area] \in Nat /\ n <= PageCount(AreaSize.bios)
        /\ n \in Nat /\ PageCount(AreaSize.bios) = 2
    BY AreaFits, AreaCounts, Sizes
  <2>2. ~ Ended /\ Level = 0 /\ Level' = 0
    BY <1>1 DEF Ended, Shape, Stage, Searching, Level
  <2>3. Mapping /\ Walked
    BY <2>2 DEF Sound
  <2>4. Count(0) = 0 /\ Count(1) = 0 /\ Count(2) = 0
    BY <1>1, <2>2, NothingOpened DEF Count, AreaPages
  <2>5. Holds(0, 0) /\ paging_dir \subseteq 0 .. 2
    BY <2>3, <2>4 DEF Mapping
  <2>6. paging_map(AreaFrame[area], Window(0), size)
    BY <1>1, WindowIs DEF MapArea, MapOrPanic
  <2>7. /\ Accepts(Window(0), size) => pc' = (IF area = "bios" THEN "search bios" ELSE "search low")
        /\ ~ Accepts(Window(0), size) => pc' = "refused"
    BY <1>1, WindowIs DEF MapArea, MapOrPanic
  <2>8. PagingTypeOK /\ 0 \in 0 .. 2
    BY DEF Shape
  <2>9. CASE Accepts(Window(0), size)
    <3>1. /\ paging_dir' = paging_dir \union {0}
          /\ \A v \in Pages : Pd(v) # 0 => paging_directory_map'[v] = paging_directory_map[v]
          /\ Holds(0, n)'
          /\ Shows(0, n, AreaFrame[area])'
      BY <1>1, <2>1, <2>5, <2>6, <2>8, <2>9, MapWindow, Zenon
    <3>2. Count(0)' = n
      BY <2>7, <2>9 DEF Count, AreaPages
    <3>3. Count(1)' = 0 /\ Count(2)' = 0
      BY <2>2 DEF Count, TablePagesOpen
    <3>4. Mapping'
      <4>1. \A x \in (0 .. 2) \ {0} : x = 1 \/ x = 2
        OBVIOUS
      <4>2. \A x \in (0 .. 2) \ {0} : Count(x)' = Count(x) /\ Count(x) \in 0 .. TablePages
        BY <2>4, <3>3, <4>1, Sizes
      <4>3. (1 .. Level') = {} /\ Level' \in 0 .. 2
        BY <2>2
      <4> HIDE DEF n, size
      <4>4. QED
        BY <1>1, <2>3, <2>8, <3>1, <3>2, <4>2, <4>3, MappingChange
    <3>5. AreaClean
      <4>1. CASE area = "bios"
        <5>1. \A k \in 0 .. n - 1 : Window(0) + k \notin machine'.junk
          BY <3>1 DEF Holds
        <5>2. QED
          BY <1>1, <4>1, <5>1, WindowIs DEF AreaClean, AreaWindow
      <4>2. CASE area = "low"
        BY <1>1, <2>3, <4>2 DEF Walked
      <4>3. QED
        BY <4>1, <4>2
    <3>6. AreaClean'
      BY <1>1, <3>5, SameMachine
    <3>7. pc' \in {"search bios", "search low"}
      BY <2>7, <2>9
    <3>8. Walked'
      <4>1. ~ (Level' > 0) /\ Level' # 2 /\ 1 .. Level' = {}
        BY <2>2
      <4>2. QED
        BY <3>6, <3>7, <4>1 DEF Walked, Behind
    <3>9. StopsExplained'
      BY <3>7, GoesOn
    <3>10. QED
      BY <3>4, <3>8, <3>9 DEF Sound
  <2>10. CASE ~ Accepts(Window(0), size)
    <3>1. PICK k \in 0 .. n - 1 : Window(0) + k \in machine.junk
      BY <1>1, <2>1, <2>5, <2>6, <2>8, <2>10, MapWindow, Zenon
    <3>2. k \in 0 .. PageCount(AreaSize.bios) - 1
      BY <2>1
    <3>3. DirtyTable
      BY <3>1, <3>2, AreaUsed
    <3>4. QED
      BY <1>1, <2>7, <2>10, <3>3, RefusedSound
  <2>11. QED
    BY <2>9, <2>10
<1>2. CASE MapBios
  BY <1>1, <1>2 DEF MapBios
<1>3. CASE MapLow
  <2>1. /\ "low" \in {"bios", "low"} /\ pc \in {"bios", "ebda"} /\ pc # "bios"
        /\ MapArea("low", "search low")
        /\ machine' = machine /\ rsdp' = rsdp /\ open' = open
    BY <1>3 DEF MapLow
  <2>2. QED
    BY <1>1, <2>1, Zenon
<1>4. QED
  BY <1>2, <1>3

LEMMA SearchSound ==
    ASSUME Shape, Shape', Sound, search_rsdp_bios \/ search_rsdp_ebda
    PROVE  Sound'
<1>1. ASSUME NEW area \in {"bios", "low"}, NEW next, Search(area, next),
             \/ area = "bios" /\ next = "ebda" /\ pc = "search bios"
             \/ area = "low" /\ next = "absent" /\ pc = "search low"
      PROVE  Sound'
  <2>1. machine' = machine /\ open' = open
    BY <1>1 DEF Search
  <2>2. Level = 0 /\ ~ Ended /\ pc # "bios"
    BY <1>1 DEF Shape, Stage, Ended, Searching
  <2>3. Level' = 0
    BY <2>1, <2>2 DEF Level
  <2>4. Mapping /\ Walked
    BY <2>2 DEF Sound
  <2>5. /\ PageCount(AreaSize[area]) \in 1 .. TablePages /\ Count(0) = PageCount(AreaSize[area])
        /\ Count(1) = 0 /\ Count(2) = 0
    BY <1>1, <2>2, AreaFits, NothingOpened DEF Count, AreaPages
  <2>6. Count(1)' = 0 /\ Count(2)' = 0
    BY <2>3 DEF Count, TablePagesOpen
  <2>7. \A x \in (0 .. 2) \ {0} : Count(x)' = Count(x) /\ Count(x) \in 0 .. TablePages
    <3>1. \A x \in (0 .. 2) \ {0} : x = 1 \/ x = 2
      OBVIOUS
    <3>2. QED
      BY <2>5, <2>6, <3>1, Sizes
  <2>8. (1 .. Level') = {} /\ Level' \in 0 .. 2 /\ ~ (Level' > 0) /\ Level' # 2
    BY <2>3
  <2>9. AreaClean'
    BY <2>1, <2>2, <2>4 DEF Walked, AreaClean
  <2>10. pc' \in {"rsdp", "ebda"} => Walked'
    BY <2>8, <2>9 DEF Walked, Behind
  <2>11. CASE Taken(area) # {}
    <3>1. /\ pc' = "rsdp" /\ UNCHANGED paging
          /\ rsdp' = << area, machine[area][Earliest(Taken(area))] >>
      BY <1>1, <2>11 DEF Search
    <3>2. Count(0)' = Count(0)
      <4>1. rsdp'[1] = area
        BY <3>1
      <4>2. QED
        BY <2>5, <3>1, <4>1 DEF Count, AreaPages
    <3>3. \A x \in 0 .. 2 : Count(x)' = Count(x) /\ Count(x) \in 0 .. TablePages
      <4>1. \A x \in 0 .. 2 : x = 0 \/ x \in (0 .. 2) \ {0}
        OBVIOUS
      <4>2. Count(0) \in 0 .. TablePages
        BY <2>5
      <4>3. QED
        BY <2>7, <3>2, <4>1, <4>2, Zenon
    <3>4. Mapping'
      BY <2>1, <2>4, <2>8, <3>1, <3>3, MappingStays
    <3>5. StopsExplained'
      BY <3>1, GoesOn
    <3>6. QED
      BY <2>10, <3>1, <3>4, <3>5 DEF Sound
  <2>12. CASE Taken(area) = {}
    <3>1. paging_unmap(Window(0), AreaSize[area]) /\ pc' = next /\ rsdp' = rsdp
      BY <1>1, <2>12, WindowIs DEF Search
    <3>2. CASE next = "ebda"
      <4>1. Holds(0, PageCount(AreaSize[area])) /\ PagingTypeOK /\ 0 \in 0 .. 2
        BY <2>4, <2>5 DEF Mapping, Shape
      <4>2. /\ paging_dir' = paging_dir
            /\ \A v \in Pages : Pd(v) # 0 => paging_directory_map'[v] = paging_directory_map[v]
            /\ Holds(0, 0)'
        BY <2>1, <2>5, <3>1, <4>1, UnmapWindow, Zenon
      <4>3. Count(0)' = 0 /\ Shows(0, 0, 0)'
        BY <3>1, <3>2 DEF Count, AreaPages, Shows
      <4>4. paging_dir \subseteq paging_dir' /\ paging_dir' \subseteq paging_dir \union {0}
        BY <4>2
      <4>5. Mapping'
        BY <2>1, <2>4, <2>7, <2>8, <4>1, <4>2, <4>3, <4>4, MappingChange
      <4>6. StopsExplained'
        BY <3>1, <3>2, GoesOn
      <4>7. QED
        BY <2>10, <3>1, <3>2, <4>5, <4>6 DEF Sound
    <3>3. CASE next = "absent"
      <4>1. Taken("low") = {} /\ Taken("low")' = Taken("low")
        BY <1>1, <2>1, <2>12, <3>3 DEF Taken, memcmp, check_rsdp
      <4>2. Taken("bios")' = {} /\ pc' = "absent"
        BY <3>1, <3>3 DEF Shape, Stage
      <4>3. StopsExplained'
        BY <4>1, <4>2 DEF StopsExplained
      <4>4. Ended' /\ pc' # "booted"
        BY <4>2 DEF Ended
      <4>5. QED
        BY <4>3, <4>4 DEF Sound
    <3>4. QED
      BY <1>1, <3>2, <3>3
  <2>13. QED
    BY <2>11, <2>12
<1>2. CASE search_rsdp_bios
  BY <1>1, <1>2 DEF search_rsdp_bios
<1>3. CASE search_rsdp_ebda
  BY <1>1, <1>3 DEF search_rsdp_ebda
<1>4. QED
  BY <1>2, <1>3

LEMMA CountKept ==
    ASSUME rsdp' = rsdp, open' = open,
           pc \in Reading \union {"release", "rsdp"}, pc' \in Reading \union {"release", "rsdp"},
           NEW x \in 0 .. 2,
           x = Level => (pc \in {"peek", "whole"} <=> pc' \in {"peek", "whole"})
                        /\ pc # "length" /\ pc' # "length"
    PROVE  Count(x)' = Count(x)
<1>1. AreaPages' = AreaPages
  BY DEF AreaPages, Reading
<1>2. Level' = Level
  BY DEF Level
<1>3. TablePagesOpen(x)' = TablePagesOpen(x)
  BY <1>2 DEF TablePagesOpen
<1>4. QED
  BY <1>1, <1>3 DEF Count

LEMMA ParseRsdpSound ==
    ASSUME Shape, Shape', Sound, Fitting, acpi_parse_rsdp
    PROVE  Sound'
<1>1. /\ machine' = machine /\ rsdp' = rsdp /\ UNCHANGED paging /\ pc = "rsdp" /\ ~ Ended
      /\ Mapping /\ Walked
  BY DEF acpi_parse_rsdp, Sound, Ended
<1>2. Level = 0
  BY <1>1 DEF Shape, Stage
<1>3. CASE rsdp[2].revision \in {0, 2}
  <2>1. pc' = "peek" /\ open' = << RootTable >> /\ at' = << 0 >>
    BY <1>3 DEF acpi_parse_rsdp, RootTable
  <2>2. Level' = 1 /\ at'[1] = 0
    BY <2>1 DEF Level
  <2>3. /\ AreaPages' = AreaPages /\ Count(1)' = 0 /\ Count(2)' = 0 /\ Count(1) = 0 /\ Count(2) = 0
    BY <1>1, <1>2, <2>1, <2>2 DEF AreaPages, Count, TablePagesOpen
  <2>4. Count(0)' = Count(0)
    BY <2>3 DEF Count
  <2>5. \A x \in 0 .. 2 : Count(x)' = Count(x) /\ Count(x) \in 0 .. TablePages
    <3>1. \A x \in 0 .. 2 : x = 0 \/ x = 1 \/ x = 2
      OBVIOUS
    <3>2. \A x \in 0 .. 2 : Count(x) \in 0 .. TablePages
      BY <1>1, Counts
    <3>3. QED
      BY <2>3, <2>4, <3>1, <3>2, Zenon
  <2>6. Level' \in 0 .. 2 /\ \A l \in 1 .. Level' : Count(l) = 0
    BY <2>2, <2>3
  <2>7. Mapping'
    BY <1>1, <2>5, <2>6, MappingStays
  <2>8. AreaClean'
    BY <1>1, SameMachine DEF Walked
  <2>9. Walked'
    <3>1. /\ \A l \in 1 .. Level' : Level' = l /\ pc' \in {"peek", "length"}
          /\ 1 .. at'[1] = {} /\ Level' # 2 /\ pc' \notin Behind
      BY <2>1, <2>2 DEF Behind
    <3>2. QED
      BY <2>8, <3>1 DEF Walked
  <2>10. StopsExplained'
    BY <2>1, GoesOn
  <2>11. QED
    BY <2>7, <2>9, <2>10 DEF Sound
<1>4. CASE rsdp[2].revision \notin {0, 2}
  <2>1. pc' = "version" /\ rsdp'[2].revision \notin {0, 2}
    BY <1>1, <1>4 DEF acpi_parse_rsdp
  <2>2. Ended' /\ pc' # "booted"
    BY <2>1 DEF Ended
  <2>3. StopsExplained'
    BY <2>1 DEF StopsExplained
  <2>4. QED
    BY <2>2, <2>3 DEF Sound
<1>5. QED
  BY <1>3, <1>4

LEMMA WalkedKept ==
    ASSUME Walked, machine' = machine, rsdp' = rsdp, open' = open, at'[1] = at[1],
           acpi_madt_struct' = acpi_madt_struct, pc # "bios", pc' \in Reading,
           \A l \in 1 .. Level : \/ Level = l /\ pc' \in {"peek", "length"}
                                 \/ HeaderFits(open[l]),
           Level = 2 /\ pc' \in {"madt", "close"} /\ open[2].kind = "MADT" =>
               ~ Straddles(open[2]) /\ acpi_madt_struct # NULL
    PROVE  Walked'
<1>1. Level' = Level /\ RootTable' = RootTable /\ AreaClean' = AreaClean
  BY SameMachine DEF Level
<1>2. \A t : Done(t)' <=> Done(t)
  BY DEF Done, Clean, Straddles, PagesOf
<1>3. \A t, i : (HeaderFits(t)' <=> HeaderFits(t)) /\ (UnitFits(t, i)' <=> UnitFits(t, i))
                /\ (Straddles(t)' <=> Straddles(t))
  BY DEF HeaderFits, UnitFits, Straddles
<1>4. pc' \notin Behind
  BY DEF Reading, Behind
<1>5. AreaClean'
  BY <1>1 DEF Walked
<1>6. \A l \in 1 .. Level' : \/ Level' = l /\ pc' \in {"peek", "length"}
                             \/ HeaderFits(open'[l])
  BY <1>1
<1>7. Level' > 0 =>
          /\ \A i \in 1 .. at'[1] : UnitFits(RootTable', Header + i - 1)
          /\ \A j \in 1 .. (IF Level' = 2 THEN at'[1] - 1 ELSE at'[1]) : Done(RootTable.body[j])'
  BY <1>1, <1>2 DEF Walked
<1>8. Level' = 2 /\ pc' \in {"madt", "close"} /\ open'[2].kind = "MADT" =>
          ~ Straddles(open'[2]) /\ acpi_madt_struct' # NULL
  BY <1>1
<1>9. QED
  BY <1>4, <1>5, <1>6, <1>7, <1>8 DEF Walked

LEMMA TableUsed ==
    ASSUME Shape, Level > 0
    PROVE  /\ PagesOf(Table) = 0 .. PageCount(Size(Table)) - 1
           /\ \A k \in PagesOf(Table) : Window(Level) + k \in machine.junk => DirtyTable
           /\ (\A k \in PagesOf(Table) : Window(Level) + k \notin machine.junk) => Clean(Table)
<1>1. Table \in Read /\ (IF Table.kind = "root" THEN 1 ELSE 2) = Level
  BY OpenTables
<1>2. \A k \in PagesOf(Table) : Window(Level) + k \in UsedPages
  BY <1>1 DEF UsedPages
<1>3. QED
  BY <1>1, <1>2 DEF DirtyTable, Clean, PagesOf

(* A page or all the pages of a table are mapped.                          *)
LEMMA LevelMapped ==
    ASSUME Shape, Fitting, Mapping, ~ Ended, Level > 0, pc \in {"peek", "whole"},
           NEW size, PageCount(size) \in 1 .. PageCount(Size(Table)),
           paging_map(Frame(Table), Window(Level), size),
           machine' = machine, rsdp' = rsdp, open' = open
    PROVE  /\ Accepts(Window(Level), size) /\ pc' \in Reading /\ Count(Level)' = PageCount(size) => Mapping'
           /\ ~ Accepts(Window(Level), size) => DirtyTable
<1> DEFINE n == PageCount(size)
<1>1. /\ Level \in {1, 2} /\ Level \in 0 .. 2 /\ Level \in 1 .. Level /\ Table = open[Level] /\ Table \in Read
      /\ Frame(Table) \in Nat
  <2>1. Level \in {1, 2} /\ Table = open[Level] /\ Table \in Read
    BY OpenTables
  <2>2. QED
    BY <2>1, LevelWindow
<1>2. n \in 1 .. TablePages /\ n \in 1 .. PageCount(Size(Table))
  <2>1. PageCount(Size(Table)) \in 1 .. TablePages
    BY <1>1, FitsWindow
  <2>2. QED
    BY <2>1, Sizes
<1>3. Count(Level) = 0
  BY <1>1 DEF Count, TablePagesOpen
<1>4. Holds(Level, 0) /\ paging_dir \subseteq 0 .. 2 /\ PagingTypeOK
  BY <1>1, <1>3 DEF Mapping, Shape
<1> HIDE DEF n
<1>5. ASSUME Accepts(Window(Level), size), pc' \in Reading, Count(Level)' = n PROVE Mapping'
  <2>1. PICK w \in 0 .. 2 : w = Level
    BY <1>1
  <2>2. PICK frame \in Nat : frame = Frame(Table)
    BY <1>1
  <2>3. Holds(w, 0) /\ paging_map(frame, Window(w), size) /\ Accepts(Window(w), size)
    BY <1>4, <1>5, <2>1, <2>2
  <2>4. /\ paging_dir' = paging_dir \union {w}
        /\ \A v \in Pages : Pd(v) # w => paging_directory_map'[v] = paging_directory_map[v]
        /\ Holds(w, n)'
        /\ Shows(w, n, frame)'
    BY <1>2, <1>4, <2>3, MapWindow, Zenon DEF n
  <2>5. Level' = Level
    BY DEF Level
  <2>6. Count(w)' = n
    <3>1. w = Level'
      BY <2>1, <2>5
    <3>2. QED
      BY <1>5, <3>1 DEF Count, TablePagesOpen
  <2>7. \A x \in (0 .. 2) \ {w} : Count(x)' = Count(x) /\ Count(x) \in 0 .. TablePages
    <3>1. pc \in Reading \union {"release", "rsdp"} /\ pc' \in Reading \union {"release", "rsdp"}
      BY <1>5 DEF Reading
    <3>2. QED
      BY <2>1, <3>1, CountKept, Counts
  <2>8. /\ w \in 1 .. Level' => frame = Frame(open'[w])
        /\ \A l \in (1 .. Level') \ {w} : l \in 1 .. Level /\ open'[l] = open[l]
        /\ Level' \in 0 .. 2
    BY <1>1, <2>1, <2>2, <2>5
  <2>9. paging_dir \subseteq paging_dir' /\ paging_dir' \subseteq paging_dir \union {w}
    BY <2>4
  <2>10. QED
    BY <2>4, <2>6, <2>7, <2>8, <2>9, MappingChange
<1>6. ASSUME ~ Accepts(Window(Level), size) PROVE DirtyTable
  <2>1. PICK k \in 0 .. n - 1 : Window(Level) + k \in machine.junk
    BY <1>1, <1>2, <1>4, <1>6, MapWindow, Zenon DEF n
  <2>2. k \in PagesOf(Table)
    <3>1. PagesOf(Table) = 0 .. PageCount(Size(Table)) - 1
      BY TableUsed
    <3>2. PageCount(Size(Table)) \in 1 .. TablePages
      BY <1>1, FitsWindow
    <3>3. QED
      BY <1>2, <3>1, <3>2
  <2>3. QED
    BY <2>1, <2>2, TableUsed
<1>7. QED
  BY <1>5, <1>6 DEF n

(* They are unmapped.                                                      *)
LEMMA LevelUnmapped ==
    ASSUME Shape, Mapping, NEW w \in {1, 2}, w = Level, NEW size,
           PageCount(size) \in 1 .. TablePages, Count(w) = PageCount(size),
           paging_unmap(Window(w), size), machine' = machine, Level' \in 0 .. w, Count(w)' = 0,
           \A x \in (0 .. 2) \ {w} : Count(x)' = Count(x) /\ Count(x) \in 0 .. TablePages,
           \A l \in (1 .. Level') \ {w} : open'[l] = open[l]
    PROVE  Mapping'
<1>1. w \in 0 .. 2 /\ w \in 1 .. Level /\ PagingTypeOK
  BY DEF Shape
<1>2. Holds(w, PageCount(size))
  BY <1>1 DEF Mapping
<1>3. /\ paging_dir' = paging_dir
      /\ \A v \in Pages : Pd(v) # w => paging_directory_map'[v] = paging_directory_map[v]
      /\ Holds(w, 0)'
  BY <1>1, <1>2, UnmapWindow, Zenon
<1>4. PICK frame : frame = Frame(open'[w])
  OBVIOUS
<1>5. Shows(w, 0, frame)'
  BY DEF Shows
<1>6. /\ \A l \in (1 .. Level') \ {w} : l \in 1 .. Level /\ open'[l] = open[l]
      /\ Level' \in 0 .. 2
  OBVIOUS
<1>7. paging_dir \subseteq paging_dir' /\ paging_dir' \subseteq paging_dir \union {w}
  BY <1>3
<1>8. QED
  BY <1>1, <1>3, <1>4, <1>5, <1>6, <1>7, MappingChange

LEMMA ReadingSound ==
    ASSUME Sound, pc \in Reading
    PROVE  ~ Ended /\ Mapping /\ Walked /\ pc # "bios"
BY DEF Sound, Ended, Reading

LEMMA PeekSound ==
    ASSUME Shape, Sound, Fitting, Peek
    PROVE  Sound'
<1>1. /\ machine' = machine /\ rsdp' = rsdp /\ open' = open /\ at' = at /\ pc = "peek" /\ pc \in Reading
      /\ acpi_madt_struct' = acpi_madt_struct
      /\ paging_map(Frame(Table), Window(Level), PageSize)
      /\ pc' = (IF Accepts(Window(Level), PageSize) THEN "length" ELSE "refused")
  BY DEF Peek, found, MapOrPanic, Reading
<1>2. ~ Ended /\ Mapping /\ Walked /\ pc # "bios" /\ Level > 0 /\ Level \in {1, 2}
  BY <1>1, ReadingSound, ReadingLevel, OpenTables
<1>3. PageCount(PageSize) \in 1 .. PageCount(Size(Table)) /\ PageCount(PageSize) = 1
  <2>1. Table \in Read
    BY <1>2, OpenTables
  <2>2. PageCount(Size(Table)) \in 1 .. TablePages
    BY <2>1, FitsWindow
  <2>3. QED
    BY <2>2, AreaCounts
<1>4. CASE Accepts(Window(Level), PageSize)
  <2>1. pc' = "length" /\ pc' \in Reading
    BY <1>1, <1>4 DEF Reading
  <2>2. Level' = Level
    BY <1>1 DEF Level
  <2>3. Count(Level)' = PageCount(PageSize)
    BY <1>2, <1>3, <2>1, <2>2 DEF Count, TablePagesOpen
  <2>4. Mapping'
    BY <1>1, <1>2, <1>3, <1>4, <2>1, <2>3, LevelMapped
  <2>5. \A l \in 1 .. Level : \/ Level = l /\ pc' \in {"peek", "length"}
                              \/ HeaderFits(open[l])
    BY <1>1, <1>2, <2>1 DEF Walked
  <2>6. Walked'
    BY <1>1, <1>2, <2>1, <2>5, WalkedKept
  <2>7. QED
    BY <2>1, <2>4, <2>6, GoesOn DEF Sound
<1>5. CASE ~ Accepts(Window(Level), PageSize)
  <2>1. DirtyTable
    BY <1>1, <1>2, <1>3, <1>5, LevelMapped
  <2>2. QED
    BY <1>1, <1>5, <2>1, RefusedSound
<1>6. QED
  BY <1>4, <1>5

LEMMA ReadLengthSound ==
    ASSUME Shape, Sound, Fitting, ReadLength
    PROVE  Sound'
<1>1. /\ machine' = machine /\ rsdp' = rsdp /\ open' = open /\ at' = at /\ pc = "length" /\ pc \in Reading
      /\ acpi_madt_struct' = acpi_madt_struct
  BY DEF ReadLength, found, Reading
<1>2. ~ Ended /\ Mapping /\ Walked /\ pc # "bios" /\ Level > 0 /\ Level \in {1, 2}
      /\ Table \in Read /\ IsTable(Table) /\ Table = open[Level]
  BY <1>1, ReadingSound, ReadingLevel, OpenTables
<1>3. Count(Level) = 1
  BY <1>1, <1>2 DEF Count, TablePagesOpen
<1>4. Readable(1) <=> HeaderFits(Table)
  BY <1>2, <1>3, ReadableIff, StraddlesIff
<1>5. CASE Readable(1)
  <2>1. pc' = "whole" /\ paging_unmap(Window(Level), PageSize) /\ pc' \in Reading
    BY <1>5 DEF ReadLength, Reading
  <2>2. Level' = Level
    BY <1>1 DEF Level
  <2>3. PICK w \in {1, 2} : w = Level
    BY <1>2
  <2>4. Count(w)' = 0
    BY <1>2, <2>1, <2>2, <2>3 DEF Count, TablePagesOpen
  <2>5. \A x \in (0 .. 2) \ {w} : Count(x)' = Count(x) /\ Count(x) \in 0 .. TablePages
    BY <1>1, <1>2, <2>1, <2>3, CountKept, Counts
  <2>6. PageCount(PageSize) = 1 /\ PageCount(PageSize) \in 1 .. TablePages /\ Level' \in 0 .. w
    BY <2>2, <2>3, AreaCounts, Sizes
  <2>7. Mapping'
    BY <1>1, <1>2, <1>3, <2>1, <2>3, <2>4, <2>5, <2>6, LevelUnmapped
  <2>8. \A l \in 1 .. Level : HeaderFits(open[l])
    BY <1>2, <1>4, <1>5 DEF Walked
  <2>9. Walked'
    BY <1>1, <1>2, <2>1, <2>8, WalkedKept
  <2>10. QED
    BY <2>1, <2>7, <2>9, GoesOn DEF Sound
<1>6. CASE ~ Readable(1)
  <2>1. Straddles(Table) /\ pc' = "fault"
    BY <1>2, <1>4, <1>6, StraddlesIff DEF ReadLength
  <2>2. QED
    BY <1>1, <1>2, <2>1, FaultSound
<1>7. QED
  BY <1>5, <1>6

LEMMA MapWholeSound ==
    ASSUME Shape, Sound, Fitting, MapWhole
    PROVE  Sound'
<1>1. /\ machine' = machine /\ rsdp' = rsdp /\ open' = open /\ at' = at /\ pc = "whole" /\ pc \in Reading
      /\ acpi_madt_struct' = acpi_madt_struct
      /\ paging_map(Frame(Table), Window(Level), Size(Table))
      /\ Accepts(Window(Level), Size(Table)) => pc' \in {"list", "parse"}
      /\ ~ Accepts(Window(Level), Size(Table)) => pc' = "refused"
  BY DEF MapWhole, found, MapOrPanic, Reading
<1>2. ~ Ended /\ Mapping /\ Walked /\ pc # "bios" /\ Level > 0 /\ Level \in {1, 2}
      /\ Table = open[Level]
  BY <1>1, ReadingSound, ReadingLevel, OpenTables
<1>3. PageCount(Size(Table)) \in 1 .. PageCount(Size(Table))
  <2>1. Table \in Read
    BY <1>2, OpenTables
  <2>2. PageCount(Size(Table)) \in 1 .. TablePages
    BY <2>1, FitsWindow
  <2>3. QED
    BY <2>2
<1>4. CASE Accepts(Window(Level), Size(Table))
  <2>1. pc' \in {"list", "parse"} /\ pc' \in Reading
    BY <1>1, <1>4 DEF Reading
  <2>2. Level' = Level
    BY <1>1 DEF Level
  <2>3. Count(Level)' = PageCount(Size(Table))
    BY <1>1, <1>2, <2>1, <2>2 DEF Count, TablePagesOpen
  <2>4. Mapping'
    BY <1>1, <1>2, <1>3, <1>4, <2>1, <2>3, LevelMapped
  <2>5. \A l \in 1 .. Level : HeaderFits(open[l])
    BY <1>1, <1>2 DEF Walked
  <2>6. Walked'
    BY <1>1, <1>2, <2>1, <2>5, WalkedKept
  <2>7. QED
    BY <2>1, <2>4, <2>6, GoesOn DEF Sound
<1>5. CASE ~ Accepts(Window(Level), Size(Table))
  <2>1. DirtyTable
    BY <1>1, <1>2, <1>3, <1>5, LevelMapped
  <2>2. QED
    BY <1>1, <1>5, <2>1, RefusedSound
<1>6. QED
  BY <1>4, <1>5

(* The whole of a table is behind its window while it is read.             *)
LEMMA WholeReadable ==
    ASSUME Shape, Sound, Fitting, pc \in {"list", "parse", "madt", "close"}
    PROVE  /\ ~ Ended /\ Mapping /\ Walked /\ pc # "bios" /\ pc \in Reading
           /\ Level > 0 /\ Level \in {1, 2} /\ Table = open[Level] /\ Table \in Read /\ IsTable(Table)
           /\ Count(Level) = PageCount(Size(Table))
           /\ \A i \in Nat : Readable(i) <=> UnitFits(Table, i)
           /\ HeaderFits(Table)
           /\ \A l \in 1 .. Level : HeaderFits(open[l])
<1>1. pc \in Reading
  BY DEF Reading
<1>2. ~ Ended /\ Mapping /\ Walked /\ pc # "bios" /\ Level > 0 /\ Level \in {1, 2}
      /\ Table \in Read /\ IsTable(Table) /\ Table = open[Level]
  BY <1>1, ReadingSound, ReadingLevel, OpenTables
<1>3. Count(Level) = PageCount(Size(Table))
  BY <1>2 DEF Count, TablePagesOpen
<1>4. \A i \in Nat : Readable(i) <=> UnitFits(Table, i)
  BY <1>2, <1>3, ReadableIff DEF UnitFits
<1>5. \A l \in 1 .. Level : HeaderFits(open[l])
  BY <1>2 DEF Walked
<1>6. HeaderFits(Table)
  BY <1>2, <1>5
<1>7. QED
  BY <1>1, <1>2, <1>3, <1>4, <1>5, <1>6

(* Steps that map nothing, while the same tables are open.                 *)
LEMMA SamePages ==
    ASSUME Shape, Sound, Fitting, pc \in {"list", "parse", "madt", "close"},
           pc' \in {"list", "parse", "madt", "close"},
           machine' = machine, rsdp' = rsdp, open' = open, UNCHANGED paging
    PROVE  Mapping'
<1>1. ~ Ended /\ Mapping /\ Level \in {1, 2}
  BY WholeReadable
<1>2. Level' = Level
  BY DEF Level
<1>3. pc \in Reading \union {"release", "rsdp"} /\ pc' \in Reading \union {"release", "rsdp"}
  BY DEF Reading
<1>4. \A x \in 0 .. 2 : Count(x)' = Count(x) /\ Count(x) \in 0 .. TablePages
  BY <1>1, <1>3, CountKept, Counts
<1>5. Level' \in 0 .. 2 /\ \A l \in 1 .. Level' : l \in 1 .. Level /\ open'[l] = open[l]
  BY <1>1, <1>2
<1>6. QED
  BY <1>1, <1>4, <1>5, MappingStays

LEMMA NextTableSound ==
    ASSUME Shape, Shape', Sound, Fitting, NextTable
    PROVE  Sound'
<1>1. /\ machine' = machine /\ rsdp' = rsdp /\ UNCHANGED paging /\ pc = "list"
      /\ acpi_madt_struct' = acpi_madt_struct
      /\ pc' \in {"close", "peek", "fault"}
  BY DEF NextTable, found
<1>2. /\ ~ Ended /\ Mapping /\ Walked /\ pc # "bios" /\ Level > 0 /\ Table \in Read /\ IsTable(Table)
      /\ Count(Level) = PageCount(Size(Table)) /\ \A i \in Nat : Readable(i) <=> UnitFits(Table, i)
      /\ \A l \in 1 .. Level : HeaderFits(open[l])
  BY <1>1, WholeReadable
<1>3. Level = 1 /\ Table = RootTable /\ open[1] = RootTable /\ Table.kind = "root"
      /\ at[1] \in 0 .. Len(RootTable.body) /\ Len(RootTable.body) \in Nat
      /\ Size(Table) = 2 + Len(RootTable.body) /\ Header = 2
  <2>1. Level = 1
    BY <1>1 DEF Shape, Stage
  <2>2. QED
    BY <1>2, <2>1, OpenTables, TableSizes
<1>4. CASE pc' = "close"
  <2>1. open' = open /\ at' = at
    BY <1>4 DEF NextTable
  <2>2. Mapping'
    BY <1>1, <1>4, <2>1, SamePages
  <2>3. pc' \in Reading /\ Level # 2
    BY <1>3, <1>4 DEF Reading
  <2>4. Walked'
    BY <1>1, <1>2, <2>1, <2>3, WalkedKept
  <2>5. QED
    BY <1>4, <2>2, <2>4, GoesOn DEF Sound
<1>5. CASE pc' = "peek"
  <2> DEFINE i == at[1] + 1
  <2>1. /\ ~ (i > Len(RootTable.body)) /\ Readable(Header + i - 1)
        /\ open' = Append(open, RootTable.body[i]) /\ at' = << i, 0 >>
    BY <1>3, <1>5 DEF NextTable
  <2>2. i \in 1 .. Len(RootTable.body) /\ i \in Nat /\ at[1] \in Nat
    BY <1>3, <2>1
  <2>3. UnitFits(RootTable, Header + i - 1)
    <3>1. Header + i - 1 \in Nat
      BY <1>3, <2>2
    <3>2. QED
      BY <1>2, <1>3, <2>1, <3>1
  <2>4. at'[1] = i
    BY <2>1
  <2>5. Level' = 2 /\ open'[1] = open[1]
    <3>1. open \in Seq(Read) /\ Len(open) = 1
      BY <1>3 DEF Shape, Opened, Level
    <3>2. RootTable.body[i] \in Read
      BY <1>2, <2>2, TablesRoot, OpenTables DEF Shape
    <3> DEFINE longer == Append(open, RootTable.body[i])
    <3>3. /\ Len(longer) = Len(open) + 1
          /\ \A k \in 1 .. Len(open) : longer[k] = open[k]
      <4>1. open \in Seq(Read)
        BY <3>1
      <4>2. QED
        BY <3>2, <4>1, Appended, ZenonT(60)
    <3>4. open' = longer
      BY <2>1
    <3> HIDE DEF longer
    <3>5. 1 \in 1 .. Len(open)
      BY <3>1
    <3>6. QED
      BY <3>1, <3>3, <3>4, <3>5 DEF Level
  <2> HIDE DEF i
  <2>6. Count(0)' = Count(0) /\ Count(2) = 0 /\ Count(2)' = 0
    BY <1>1, <1>3, <1>5, <2>5 DEF Count, AreaPages, TablePagesOpen
  <2>7. Count(1)' = Count(1)
    BY <1>1, <1>3, <1>5, <2>5 DEF Count, TablePagesOpen
  <2>8. \A x \in 0 .. 2 : Count(x)' = Count(x) /\ Count(x) \in 0 .. TablePages
    <3>1. \A x \in 0 .. 2 : x = 0 \/ x = 1 \/ x = 2
      OBVIOUS
    <3>2. \A x \in 0 .. 2 : Count(x) \in 0 .. TablePages
      BY <1>2, Counts
    <3>3. QED
      BY <2>6, <2>7, <3>1, <3>2, Zenon
  <2>9. Level' \in 0 .. 2 /\ \A l \in 1 .. Level' : Count(l) = 0 \/ (l \in 1 .. Level /\ open'[l] = open[l])
    <3>1. \A l \in 1 .. 2 : l = 1 \/ l = 2
      OBVIOUS
    <3>2. QED
      BY <1>3, <2>5, <2>6, <3>1
  <2>10. Mapping'
    BY <1>1, <1>2, <2>8, <2>9, MappingStays
  <2>11. Walked'
    <3>1. AreaClean' /\ RootTable' = RootTable
      BY <1>1, <1>2, SameMachine DEF Walked
    <3>2. \A l \in 1 .. Level' : \/ Level' = l /\ pc' \in {"peek", "length"}
                                 \/ HeaderFits(open'[l])
      <4>1. \A l \in 1 .. 2 : l = 1 \/ l = 2
        OBVIOUS
      <4>2. HeaderFits(open'[1])
        BY <1>2, <1>3, <2>5
      <4>3. QED
        BY <1>5, <2>5, <4>1, <4>2
    <3>3. \A k \in 1 .. i : UnitFits(RootTable', Header + k - 1)
      <4>1. \A k \in 1 .. i : k \in 1 .. at[1] \/ k = i
        BY <2>2 DEF i
      <4>2. \A k \in 1 .. at[1] : UnitFits(RootTable, Header + k - 1)
        BY <1>2 DEF Walked
      <4>3. QED
        BY <2>3, <3>1, <4>1, <4>2
    <3>4. \A j \in 1 .. i - 1 : Done(RootTable.body[j])'
      <4>1. i - 1 = at[1]
        BY <2>2 DEF i
      <4>2. \A j \in 1 .. at[1] : Done(RootTable.body[j])
        BY <1>2, <1>3 DEF Walked
      <4>3. QED
        BY <1>1, <3>1, <4>1, <4>2 DEF Done, Clean, Straddles, PagesOf
    <3>5. pc' \notin Behind /\ pc' \notin {"madt", "close"}
      BY <1>5 DEF Behind
    <3>6. QED
      BY <2>4, <2>5, <3>1, <3>2, <3>3, <3>4, <3>5 DEF Walked
  <2>12. QED
    BY <1>5, <2>10, <2>11, GoesOn DEF Sound
<1>6. CASE pc' = "fault"
  <2>1. /\ ~ (at[1] + 1 > Len(RootTable.body))
        /\ ~ Readable(Header + (at[1] + 1) - 1) \/ rsdp[2].xsdt
    BY <1>3, <1>6 DEF NextTable
  <2>2. Header + (at[1] + 1) - 1 \in 0 .. Size(Table) - 1 /\ Header + (at[1] + 1) - 1 \in Nat
    BY <1>3, <2>1
  <2>3. ~ Readable(Header + (at[1] + 1) - 1) => Straddles(Table)
    BY <1>2, <2>2, StraddlesIff
  <2>4. QED
    BY <1>1, <1>2, <1>6, <2>1, <2>3, FaultSound
<1>7. QED
  BY <1>1, <1>4, <1>5, <1>6

LEMMA ParsedSound ==
    ASSUME Shape, Sound, Fitting, acpi_parse_dt \/ acpi_parse_fadt \/ EndOfWalk
    PROVE  Sound'
<1>1. /\ machine' = machine /\ rsdp' = rsdp /\ UNCHANGED paging /\ open' = open /\ at' = at
      /\ acpi_madt_struct' = acpi_madt_struct /\ pc \in {"parse", "madt"}
      /\ pc' \in {"close", "fault"}
  BY DEF acpi_parse_dt, acpi_parse_fadt, EndOfWalk, found
<1>2. /\ ~ Ended /\ Mapping /\ Walked /\ pc # "bios" /\ Level > 0 /\ Table \in Read /\ IsTable(Table)
      /\ Table = open[Level] /\ \A i \in Nat : Readable(i) <=> UnitFits(Table, i)
      /\ \A l \in 1 .. Level : HeaderFits(open[l])
  BY <1>1, WholeReadable
<1>3. Level = 2 /\ IsListed(Table)
  <2>1. Level = 2
    BY <1>1 DEF Shape, Stage
  <2>2. QED
    BY <1>2, <2>1, OpenTables
<1>4. CASE pc' = "close"
  <2>1. Mapping'
    BY <1>1, <1>4, SamePages
  <2>2. open[2].kind = "MADT" => EndOfWalk
    BY <1>2, <1>3 DEF acpi_parse_dt, acpi_parse_fadt
  <2>3. open[2].kind = "MADT" => ~ Straddles(open[2]) /\ acpi_madt_struct # NULL
    BY <1>2, <1>3, <2>2 DEF EndOfWalk, Walked
  <2>4. pc' \in Reading
    BY <1>4 DEF Reading
  <2>5. Walked'
    BY <1>1, <1>2, <2>3, <2>4, WalkedKept
  <2>6. QED
    BY <1>4, <2>1, <2>5, GoesOn DEF Sound
<1>5. CASE pc' = "fault"
  <2>1. acpi_parse_fadt /\ Table.kind = "FADT"
    BY <1>5 DEF acpi_parse_dt, acpi_parse_fadt, EndOfWalk
  <2>2. ~ Readable(Header + 1) \/ ~ Readable(Header)
    BY <1>5, <2>1 DEF acpi_parse_fadt
  <2>3. Len(Table.body) = 2
    BY <1>3, <2>1 DEF IsListed
  <2>4. Size(Table) = 4 /\ Header = 2
    <3>1. \A t : IsTable(t) => Size(t) = Header + Len(t.body) /\ Header = 2
      BY TableSizes
    <3>2. Size(Table) = Header + Len(Table.body) /\ Header = 2
      BY <1>2, <3>1, Zenon
    <3> DEFINE n == Len(Table.body)
    <3>3. n = 2 /\ Size(Table) = Header + n
      BY <2>3, <3>2, Zenon
    <3> HIDE DEF n
    <3>4. QED
      BY <3>2, <3>3
  <2>5. /\ Header + 1 \in Nat /\ Header + 1 \in 0 .. Size(Table) - 1
        /\ Header \in Nat /\ Header \in 0 .. Size(Table) - 1
    BY <2>4
  <2>6. Straddles(Table)
    BY <1>2, <2>2, <2>5, StraddlesIff
  <2>7. QED
    BY <1>1, <1>2, <1>5, <2>6, FaultSound
<1>6. QED
  BY <1>1, <1>4, <1>5

LEMMA ParseApicSound ==
    ASSUME Shape, Sound, Fitting, acpi_parse_apic
    PROVE  Sound'
<1>1. /\ machine' = machine /\ rsdp' = rsdp /\ UNCHANGED paging /\ open' = open
      /\ pc = "parse" /\ pc' \in {"madt", "fault"}
  BY DEF acpi_parse_apic
<1>2. /\ ~ Ended /\ Mapping /\ Walked /\ pc # "bios" /\ Level > 0 /\ Table \in Read /\ IsTable(Table)
      /\ Table = open[Level] /\ \A i \in Nat : Readable(i) <=> UnitFits(Table, i)
      /\ HeaderFits(Table) /\ \A l \in 1 .. Level : HeaderFits(open[l])
  BY <1>1, WholeReadable
<1>3. Level = 2 /\ Level' = 2
  BY <1>1 DEF Shape, Stage, Level
<1>4. Size(Table) - 1 \in Nat /\ Size(Table) - 1 \in 0 .. Size(Table) - 1
      /\ \A i \in 0 .. Size(Table) - 1 : i \in Nat
  <2>1. Size(Table) \in Nat /\ Size(Table) >= 2
    BY <1>2, TableSizes
  <2>2. QED
    BY <2>1
<1>5. CASE pc' = "madt"
  <2>1. /\ \A i \in 0 .. Size(Table) - 1 : Readable(i)
        /\ acpi_madt_struct' = Table /\ at' = [at EXCEPT ![2] = 1]
    BY <1>5 DEF acpi_parse_apic
  <2>2. ~ Straddles(Table) /\ Table # NULL
    BY <1>2, <1>4, <2>1, StraddlesIff DEF IsTable
  <2>3. Mapping'
    BY <1>1, <1>5, SamePages
  <2>4. at'[1] = at[1]
    <3>1. at \in Seq(Nat) /\ Len(at) = 2
      BY <1>3 DEF Shape, Opened
    <3> DEFINE to(s, k, n) == [s EXCEPT ![k] = n]
    <3>2. \A s \in Seq(Nat), n \in Nat : \A k \in 1 .. Len(s) :
             \A i \in 1 .. Len(s) : i # k => to(s, k, n)[i] = s[i]
      BY Updated
    <3>3. at' = to(at, 2, 1)
      BY <2>1
    <3>4. 1 \in 1 .. Len(at) /\ 2 \in 1 .. Len(at) /\ 1 # 2 /\ 1 \in Nat
      BY <3>1
    <3> HIDE DEF to
    <3>5. QED
      BY <3>1, <3>2, <3>3, <3>4, Zenon
  <2>5. Walked'
    <3>1. AreaClean' /\ RootTable' = RootTable
      BY <1>1, <1>2, SameMachine DEF Walked
    <3>2. \A t : Done(t) => Done(t)'
      BY <1>1, <2>1, <2>2 DEF Done, Clean, Straddles, PagesOf
    <3>3. /\ \A i \in 1 .. at'[1] : UnitFits(RootTable', Header + i - 1)
          /\ \A j \in 1 .. at'[1] - 1 : Done(RootTable.body[j])'
      BY <1>2, <1>3, <2>4, <3>1, <3>2 DEF Walked
    <3>4. \A l \in 1 .. Level' : HeaderFits(open'[l])
      BY <1>1, <1>2, <1>3
    <3>5. ~ Straddles(open'[2]) /\ acpi_madt_struct' # NULL
      BY <1>1, <1>2, <1>3, <2>1, <2>2
    <3>6. pc' \notin Behind
      BY <1>5 DEF Behind
    <3>7. QED
      BY <1>3, <3>1, <3>3, <3>4, <3>5, <3>6 DEF Walked
  <2>6. QED
    BY <1>5, <2>3, <2>5, GoesOn DEF Sound
<1>6. CASE pc' = "fault"
  <2>1. PICK i \in 0 .. Size(Table) - 1 : ~ Readable(i)
    BY <1>6 DEF acpi_parse_apic
  <2>2. Straddles(Table)
    BY <1>2, <1>4, <2>1, StraddlesIff
  <2>3. QED
    BY <1>1, <1>2, <1>6, <2>2, FaultSound
<1>7. QED
  BY <1>1, <1>5, <1>6

LEMMA TurnSound ==
    ASSUME Shape, Sound, Fitting, ParseCpu \/ ParseIoapic \/ ParseOther
    PROVE  Sound'
<1>1. PICK types : Turn(types)
  BY DEF ParseCpu, ParseIoapic, ParseOther
<1>2. /\ machine' = machine /\ rsdp' = rsdp /\ open' = open /\ UNCHANGED paging
      /\ acpi_madt_struct' = acpi_madt_struct /\ pc = "madt" /\ pc' = "madt" /\ ~ WalkEnded
      /\ at' = [at EXCEPT ![2] = @ + Structure.length]
  BY <1>1 DEF Turn
<1>3. /\ ~ Ended /\ Mapping /\ Walked /\ pc # "bios" /\ pc \in Reading
      /\ \A l \in 1 .. Level : HeaderFits(open[l])
  BY <1>2, WholeReadable
<1>4. Mapping'
  BY <1>2, SamePages
<1>5. at'[1] = at[1]
  <2>1. Structure.length \in Nat /\ at \in Seq(Nat) /\ Len(at) = 2 /\ at[2] \in Nat \ {0}
    BY <1>2, MadtWalk
  <2> DEFINE m == at[2] + Structure.length
             to(s, k, n) == [s EXCEPT ![k] = n]
  <2>2. \A s \in Seq(Nat), n \in Nat : \A k \in 1 .. Len(s) :
           \A i \in 1 .. Len(s) : i # k => to(s, k, n)[i] = s[i]
    BY Updated
  <2>3. at' = to(at, 2, m)
    BY <1>2
  <2>4. 1 \in 1 .. Len(at) /\ 2 \in 1 .. Len(at) /\ 1 # 2 /\ m \in Nat
    BY <2>1
  <2> HIDE DEF to, m
  <2>5. QED
    BY <2>1, <2>2, <2>3, <2>4, Zenon
<1>6. Level = 2 /\ pc' \in {"madt", "close"} /\ open[2].kind = "MADT" =>
          ~ Straddles(open[2]) /\ acpi_madt_struct # NULL
  BY <1>2, <1>3 DEF Walked
<1>7. Walked'
  BY <1>2, <1>3, <1>5, <1>6, WalkedKept
<1>8. QED
  BY <1>2, <1>4, <1>7, GoesOn DEF Sound

(* The pages of the table being closed are clean: they were mapped.        *)
LEMMA ClosedClean ==
    ASSUME Shape, Sound, Fitting, pc = "close"
    PROVE  Clean(Table)
<1>1. /\ Level > 0 /\ Level \in {1, 2} /\ Mapping /\ Count(Level) = PageCount(Size(Table))
  BY WholeReadable
<1>2. Holds(Level, PageCount(Size(Table)))
  BY <1>1 DEF Mapping
<1>3. \A k \in PagesOf(Table) : Window(Level) + k \notin machine.junk
  BY <1>1, <1>2, TableUsed DEF Holds
<1>4. QED
  BY <1>1, <1>3, TableUsed

LEMMA CloseMapping ==
    ASSUME Shape, Sound, Fitting, Close
    PROVE  /\ Mapping' /\ Level' = Level - 1
           /\ Level = 2 => open'[1] = open[1] /\ at'[1] = at[1]
<1>1. /\ machine' = machine /\ rsdp' = rsdp /\ pc = "close"
      /\ open' = Front(open) /\ at' = Front(at)
      /\ pc' = (IF Level = 1 THEN "release" ELSE "list")
      /\ paging_unmap(Window(Level), Size(Table))
  BY DEF Close
<1>2. /\ ~ Ended /\ Mapping /\ Level > 0 /\ Level \in {1, 2} /\ Table = open[Level] /\ Table \in Read
      /\ Count(Level) = PageCount(Size(Table))
  BY <1>1, WholeReadable
<1>3. PageCount(Size(Table)) \in 1 .. TablePages
  BY <1>2, FitsWindow
<1>4. open \in Seq(Read) /\ at \in Seq(Nat) /\ Len(open) = Level /\ Len(at) = Level
  BY DEF Shape, Opened, Level
<1>5. /\ Len(open') = Level - 1 /\ \A i \in 1 .. Level - 1 : open'[i] = open[i]
      /\ \A i \in 1 .. Level - 1 : at'[i] = at[i]
  BY <1>1, <1>2, <1>4, Fronts
<1>6. Level' = Level - 1
  BY <1>5 DEF Level
<1>7. Count(0)' = Count(0)
  BY <1>1 DEF Count, AreaPages
<1>8. \A x \in 0 .. 2 : Count(x) \in 0 .. TablePages
  BY <1>2, Counts
<1>9. PICK w \in {1, 2} : w = Level
  BY <1>2
<1>10. \A x \in (0 .. 2) \ {w} : Count(x)' = Count(x)
  <2>1. CASE w = 1
    <3>1. Level = 1 /\ Level' = 0
      BY <1>6, <1>9, <2>1
    <3>2. Count(2)' = 0 /\ Count(2) = 0
      BY <3>1 DEF Count, TablePagesOpen
    <3>3. \A x \in (0 .. 2) \ {w} : x = 0 \/ x = 2
      BY <2>1
    <3>4. QED
      BY <1>7, <3>2, <3>3, Zenon
  <2>2. CASE w = 2
    <3>1. Level = 2 /\ Level' = 1 /\ open'[1] = open[1] /\ pc' = "list"
      BY <1>1, <1>5, <1>6, <1>9, <2>2
    <3>2. Count(1)' = Count(1)
      BY <1>1, <3>1 DEF Count, TablePagesOpen
    <3>3. \A x \in (0 .. 2) \ {w} : x = 0 \/ x = 1
      BY <2>2
    <3>4. QED
      BY <1>7, <3>2, <3>3, Zenon
  <2>3. QED
    BY <2>1, <2>2
<1>11. Count(w)' = 0
  <2>1. Level' < w /\ w # 0
    BY <1>6, <1>9
  <2>2. QED
    BY <2>1 DEF Count, TablePagesOpen
<1>12. Level' \in 0 .. w /\ \A l \in (1 .. Level') \ {w} : open'[l] = open[l]
  BY <1>5, <1>6, <1>9
<1>13. Count(w) = PageCount(Size(Table)) /\ paging_unmap(Window(w), Size(Table))
  BY <1>1, <1>2, <1>9
<1>14. Mapping'
  BY <1>1, <1>2, <1>3, <1>8, <1>9, <1>10, <1>11, <1>12, <1>13, LevelUnmapped
<1>15. Level = 2 => open'[1] = open[1] /\ at'[1] = at[1]
  BY <1>5
<1>16. QED
  BY <1>6, <1>14, <1>15

LEMMA CloseSound ==
    ASSUME Shape, Sound, Fitting, Close
    PROVE  Sound'
<1>1. /\ machine' = machine /\ rsdp' = rsdp /\ acpi_madt_struct' = acpi_madt_struct /\ pc = "close"
      /\ pc' = (IF Level = 1 THEN "release" ELSE "list")
  BY DEF Close, found
<1>2. /\ Walked /\ pc # "bios" /\ Level > 0 /\ Level \in {1, 2} /\ Table = open[Level]
      /\ HeaderFits(Table) /\ \A l \in 1 .. Level : HeaderFits(open[l])
  BY <1>1, WholeReadable
<1>3. /\ rsdp # << >> /\ open[1] = RootTable /\ IsTable(Table) /\ Stage
      /\ Level = 2 => at[1] \in 1 .. Len(RootTable.body) /\ Table = RootTable.body[at[1]]
  BY <1>2, OpenTables DEF Shape
<1>4. Mapping' /\ Level' = Level - 1 /\ (Level = 2 => open'[1] = open[1] /\ at'[1] = at[1])
  BY CloseMapping
<1>5. AreaClean' /\ RootTable' = RootTable /\ Tables' = Tables
  BY <1>1, <1>2, SameMachine DEF Walked
<1>6. Clean(Table)
  BY <1>1, ClosedClean
<1>7. \A t : Done(t) => Done(t)'
  BY <1>1 DEF Done, Clean, Straddles, PagesOf
<1>8. CASE Level = 2
  <2>1. Level' = 1 /\ pc' = "list"
    BY <1>1, <1>4, <1>8
  <2>2. Done(Table)
    BY <1>1, <1>2, <1>6, <1>8 DEF Done, Walked
  <2>3. \A j \in 1 .. at[1] : Done(RootTable.body[j])
    <3>1. \A j \in 1 .. at[1] : j \in 1 .. at[1] - 1 \/ j = at[1]
      <4>1. at[1] \in Nat
        BY <1>3, <1>8
      <4>2. QED
        BY <4>1
    <3>2. \A j \in 1 .. at[1] - 1 : Done(RootTable.body[j])
      BY <1>2, <1>8 DEF Walked
    <3>3. QED
      BY <1>3, <1>8, <2>2, <3>1, <3>2
  <2>4. \A i \in 1 .. at[1] : UnitFits(RootTable, Header + i - 1)
    BY <1>2 DEF Walked
  <2>5. \A l \in 1 .. Level' : HeaderFits(open'[l])
    <3>1. \A l \in 1 .. 1 : l = 1
      OBVIOUS
    <3>2. HeaderFits(open'[1])
      BY <1>2, <1>4, <1>8
    <3>3. QED
      BY <2>1, <3>1, <3>2
  <2>6. pc' \notin Behind /\ Level' # 2
    BY <2>1 DEF Behind
  <2>7. Walked'
    BY <1>4, <1>5, <1>7, <1>8, <2>1, <2>3, <2>4, <2>5, <2>6 DEF Walked
  <2>8. QED
    BY <1>4, <2>1, <2>7, GoesOn DEF Sound
<1>9. CASE Level = 1
  <2>1. /\ Level' = 0 /\ pc' = "release" /\ Table = RootTable /\ at[1] = Len(RootTable.body)
        /\ Len(RootTable.body) \in Nat
    BY <1>1, <1>2, <1>3, <1>4, <1>9, TableSizes DEF Shape, Opened
  <2>2. ~ Straddles(RootTable)
    <3>1. HeaderFits(RootTable) /\ IsTable(RootTable)
      BY <1>2, <1>3, <2>1
    <3>2. Size(RootTable) = Header + Len(RootTable.body) /\ Header = 2
          /\ PageCount(Size(RootTable)) \in Nat \ {0}
      BY <3>1, TableSizes
    <3> DEFINE n == Len(RootTable.body)
    <3>3. \A i \in 1 .. n : UnitFits(RootTable, Header + i - 1)
      BY <1>2, <2>1 DEF Walked
    <3>4. n \in Nat /\ Size(RootTable) = Header + n
      BY <2>1, <3>2
    <3> HIDE DEF n
    <3>5. CASE n = 0
      <4>1. Size(RootTable) - 1 = 1
        BY <3>2, <3>4, <3>5
      <4>2. ((RootTable.addr % PageSize) + 1) \div PageSize < 1
        BY <3>1, StraddlesIff
      <4>3. /\ (RootTable.addr % PageSize) \in Nat /\ PageSize \in Nat \ {0}
        BY <3>1, Sizes, TableSizes
      <4>4. ((RootTable.addr % PageSize) + 1) \div PageSize \in Nat
        BY <4>3, QuotientBounds
      <4>5. UnitFits(RootTable, 1)
        BY <3>2, <4>2, <4>4 DEF UnitFits
      <4>6. QED
        BY <3>1, <4>1, <4>5, StraddlesIff
    <3>6. CASE n # 0
      <4>1. n \in 1 .. n /\ Header + n - 1 = Size(RootTable) - 1
        BY <3>2, <3>4, <3>6
      <4>2. UnitFits(RootTable, Size(RootTable) - 1)
        BY <3>3, <4>1
      <4>3. QED
        BY <3>1, <4>2, StraddlesIff
    <3>7. QED
      BY <3>5, <3>6
  <2>3. \A t \in Tables : Done(t)
    <3>1. \A j \in 1 .. Len(RootTable.body) : Done(RootTable.body[j])
      BY <1>2, <1>9, <2>1 DEF Walked
    <3>2. \A t \in Tables : \E i \in 1 .. Len(RootTable.body) : t = RootTable.body[i]
      BY <1>3, TablesRoot
    <3>3. QED
      BY <3>1, <3>2, Zenon
  <2>4. /\ Clean(RootTable)' /\ (~ Straddles(RootTable))' /\ \A t \in Tables' : Done(t)'
    BY <1>1, <1>5, <1>6, <1>7, <2>1, <2>2, <2>3 DEF Clean, PagesOf, Straddles
  <2>5. /\ ~ (Level' > 0) /\ Level' # 2 /\ 1 .. Level' = {}
    BY <2>1
  <2>6. Walked'
    BY <1>5, <2>1, <2>4, <2>5 DEF Walked
  <2>7. QED
    BY <1>4, <2>1, <2>6, GoesOn DEF Sound
<1>10. QED
  BY <1>2, <1>8, <1>9

(* What is known once acpi_init has let go of the tables.                  *)
LEMMA BehindSound ==
    ASSUME Shape, Sound, pc \in {"release", "ioapic", "idt"}
    PROVE  /\ ~ Ended /\ Mapping /\ Walked /\ Level = 0 /\ rsdp # << >> /\ Stage
           /\ AreaClean /\ Clean(RootTable) /\ ~ Straddles(RootTable)
           /\ \A t \in Tables : Done(t)
<1>1. ~ Ended /\ Mapping /\ Walked
  BY DEF Ended, Sound
<1>2. Level = 0 /\ rsdp # << >> /\ Stage
  BY DEF Shape, Stage, Behind
<1>3. /\ AreaClean /\ Clean(RootTable) /\ ~ Straddles(RootTable)
      /\ \A t \in Tables : Done(t)
  BY <1>1 DEF Walked, Behind
<1>4. QED
  BY <1>1, <1>2, <1>3

LEMMA BehindKept ==
    ASSUME Shape, Sound, pc \in {"release", "ioapic", "idt"}, pc' \in Behind,
           machine' = machine, rsdp' = rsdp, open' = open, acpi_madt_struct' = acpi_madt_struct
    PROVE  Walked' /\ Level' = 0
<1>1. /\ AreaClean /\ Clean(RootTable) /\ ~ Straddles(RootTable) /\ \A t \in Tables : Done(t)
      /\ Level = 0
  BY BehindSound
<1>2. AreaClean' /\ RootTable' = RootTable /\ Tables' = Tables
  BY <1>1, SameMachine
<1>3. Level' = 0 /\ ~ (Level' > 0) /\ Level' # 2 /\ 1 .. Level' = {}
  BY <1>1 DEF Level
<1>4. /\ Clean(RootTable)' /\ (~ Straddles(RootTable))' /\ \A t \in Tables' : Done(t)'
  BY <1>1, <1>2 DEF Clean, PagesOf, Straddles, Done
<1>5. QED
  BY <1>2, <1>3, <1>4 DEF Walked

LEMMA ReleaseSound ==
    ASSUME Shape, Sound, Release
    PROVE  Sound'
<1>1. /\ machine' = machine /\ rsdp' = rsdp /\ open' = open /\ acpi_madt_struct' = acpi_madt_struct
      /\ pc = "release" /\ pc' = "ioapic" /\ paging_unmap(Window(0), AreaSize[rsdp[1]])
  BY WindowIs DEF Release, found
<1>2. ~ Ended /\ Mapping /\ Level = 0 /\ rsdp # << >> /\ Stage
  BY <1>1, BehindSound
<1>3. Walked' /\ Level' = 0
  BY <1>1, BehindKept DEF Behind
<1>4. PICK area \in {"bios", "low"} : area = rsdp[1]
  BY <1>2 DEF Stage
<1>5. PageCount(AreaSize[area]) \in 1 .. TablePages /\ Count(0) = PageCount(AreaSize[area])
  BY <1>1, <1>4, AreaFits DEF Count, AreaPages
<1>6. Holds(0, PageCount(AreaSize[area])) /\ PagingTypeOK /\ 0 \in 0 .. 2
  BY <1>2, <1>5 DEF Mapping, Shape
<1>7. /\ paging_dir' = paging_dir
      /\ \A v \in Pages : Pd(v) # 0 => paging_directory_map'[v] = paging_directory_map[v]
      /\ Holds(0, 0)'
  BY <1>1, <1>4, <1>5, <1>6, UnmapWindow, Zenon
<1>8. Count(0)' = 0 /\ Shows(0, 0, 0)'
  BY <1>1 DEF Count, AreaPages, Shows
<1>9. \A x \in (0 .. 2) \ {0} : Count(x)' = Count(x) /\ Count(x) \in 0 .. TablePages
  <2>1. \A x \in (0 .. 2) \ {0} : x = 1 \/ x = 2
    OBVIOUS
  <2>2. Count(1) = 0 /\ Count(2) = 0
    BY <1>2, NothingOpened
  <2>3. Count(1)' = 0 /\ Count(2)' = 0
    BY <1>3 DEF Count, TablePagesOpen
  <2>4. QED
    BY <2>1, <2>2, <2>3, Sizes
<1>10. 1 .. Level' = {} /\ Level' \in 0 .. 2
  BY <1>3
<1>11. paging_dir \subseteq paging_dir' /\ paging_dir' \subseteq paging_dir \union {0}
  BY <1>7
<1>12. Mapping'
  BY <1>1, <1>2, <1>6, <1>7, <1>8, <1>9, <1>10, <1>11, MappingChange
<1>13. QED
  BY <1>1, <1>3, <1>12, GoesOn DEF Sound

LEMMA IoapicSound ==
    ASSUME Shape, Sound, Fitting, ioapic_init
    PROVE  Sound'
<1>1. /\ machine' = machine /\ rsdp' = rsdp /\ open' = open /\ acpi_madt_struct' = acpi_madt_struct
      /\ UNCHANGED paging /\ pc = "ioapic" /\ pc' = "idt"
  BY DEF ioapic_init, found
<1>2. ~ Ended /\ Mapping /\ Level = 0
  BY <1>1, BehindSound
<1>3. Walked' /\ Level' = 0
  BY <1>1, BehindKept DEF Behind
<1>4. \A x \in 0 .. 2 : Count(x) \in 0 .. TablePages
  BY <1>2, Counts
<1>5. \A x \in 0 .. 2 : Count(x)' = Count(x)
  <2>1. \A x \in 0 .. 2 : x = 0 \/ x = 1 \/ x = 2
    OBVIOUS
  <2>2. Count(1) = 0 /\ Count(2) = 0
    BY <1>2, NothingOpened
  <2>3. Count(1)' = 0 /\ Count(2)' = 0
    BY <1>3 DEF Count, TablePagesOpen
  <2>4. Count(0)' = Count(0)
    BY <1>1 DEF Count, AreaPages
  <2>5. QED
    BY <2>1, <2>2, <2>3, <2>4, Zenon
<1>6. 1 .. Level' = {} /\ Level' \in 0 .. 2
  BY <1>3
<1>7. Mapping'
  BY <1>1, <1>2, <1>4, <1>5, <1>6, MappingStays
<1>8. QED
  BY <1>1, <1>3, <1>7, GoesOn DEF Sound

(* A boot that ends well has had the firmware's tables read to their end.  *)
LEMMA IdtSound ==
    ASSUME Shape, Sound, Fitting, idt_init
    PROVE  Sound'
<1>1. /\ machine' = machine /\ rsdp' = rsdp /\ open' = open /\ acpi_madt_struct' = acpi_madt_struct
      /\ pc = "idt" /\ pc' \in {"fault", "booted"}
      /\ (pc' = "fault" <=> acpi_madt_struct = NULL)
  BY DEF idt_init, found
<1>2. /\ AreaClean /\ Clean(RootTable) /\ ~ Straddles(RootTable)
      /\ rsdp # << >> /\ Stage /\ \A t \in Tables : Done(t)
  BY <1>1, BehindSound
<1>3. CASE pc' = "fault"
  <2>1. \A t \in MadtTables : t \in Tables /\ t.kind = "MADT"
    BY DEF MadtTables
  <2>2. MadtTables = {}
    BY <1>1, <1>2, <1>3, <2>1 DEF Done
  <2>3. QED
    BY <1>1, <1>3, <2>2, FaultSound
<1>4. CASE pc' = "booted"
  <2>1. MadtTables # {}
    BY <1>1, <1>4 DEF Shape, Opened
  <2>2. \A t \in {RootTable} \union MadtTables : t \in Read /\ ~ Straddles(t) /\ ~ TooLong(t)
    <3>1. RootTable \in Read /\ \A t \in MadtTables : t \in Read /\ t \in Tables /\ t.kind = "MADT"
      BY <1>2, TablesRoot DEF MadtTables
    <3>2. \A t \in MadtTables : ~ Straddles(t)
      BY <1>2, <3>1 DEF Done
    <3>3. QED
      BY <1>2, <3>1, <3>2 DEF Fitting
  <2>3. ~ DirtyTable
    <3>1. \A t \in Read : Clean(t)
      <4>1. Read = Tables \union {RootTable}
        BY <1>2, TablesRoot
      <4>2. QED
        BY <1>2, <4>1 DEF Done
    <3>2. \A v \in UsedPages : v \notin machine.junk
      BY <1>2, <3>1 DEF UsedPages, AreaClean, Clean
    <3>3. QED
      BY <3>2 DEF DirtyTable
  <2>4. (~ DirtyTable)' /\ MadtTables' = MadtTables /\ RootTable' = RootTable
    BY <1>1, <2>3, SameMachine
  <2>5. \A t : (Straddles(t)' <=> Straddles(t)) /\ (TooLong(t)' <=> TooLong(t))
    BY DEF Straddles, TooLong
  <2>6. StopsExplained'
    BY <1>4, <2>1, <2>2, <2>4, <2>5 DEF StopsExplained
  <2>7. Walked'
    BY <1>1, <1>4, BehindKept DEF Behind
  <2>8. Ended'
    BY <1>4 DEF Ended
  <2>9. QED
    BY <2>6, <2>7, <2>8 DEF Sound
<1>5. QED
  BY <1>1, <1>3, <1>4

LEMMA InitSound ==
    ASSUME StartupInit, Shape
    PROVE  Sound
<1>1. /\ paging_dir = {} /\ pc = "bios" /\ Level = 0 /\ ~ Ended
      /\ \A v \in Pages : paging_directory_map[v] = Emptied(v)
  BY DEF StartupInit, Init, PagingInit, Level, Ended, Emptied
<1>2. Count(0) = 0 /\ Count(1) = 0 /\ Count(2) = 0
  BY <1>1, NothingOpened DEF Count, AreaPages
<1>3. ASSUME NEW w \in 0 .. 2 PROVE Holds(w, 0)
  <2>1. \A k \in 0 .. TablePages - 1 : Window(w) + k \in Pages
    BY WindowPages
  <2>2. 0 .. 0 - 1 = {}
    OBVIOUS
  <2>3. QED
    BY <1>1, <2>1, <2>2 DEF Holds
<1>4. \A w \in 0 .. 2 : Holds(w, Count(w))
  <2>1. \A w \in 0 .. 2 : w = 0 \/ w = 1 \/ w = 2
    OBVIOUS
  <2>2. QED
    BY <1>2, <1>3, <2>1
<1>5. 1 .. Level = {} /\ ~ (Level > 0) /\ Level # 2
  BY <1>1
<1>6. Mapping
  BY <1>1, <1>4, <1>5 DEF Mapping
<1>7. Walked
  BY <1>1, <1>5 DEF Walked, Behind
<1>8. StopsExplained
  BY <1>1 DEF StopsExplained
<1>9. QED
  BY <1>6, <1>7, <1>8 DEF Sound

LEMMA SoundStutters ==
    ASSUME Shape, Sound, Fitting, UNCHANGED startup
    PROVE  Sound'
<1>1. /\ machine' = machine /\ pc' = pc /\ rsdp' = rsdp /\ open' = open /\ at' = at
      /\ paging_dir' = paging_dir /\ paging_directory_map' = paging_directory_map
      /\ acpi_madt_struct' = acpi_madt_struct
  BY DEF startup, vars, paging, found
<1>2. /\ Read' = Read /\ RootTable' = RootTable /\ Tables' = Tables /\ MadtTables' = MadtTables
      /\ DirtyTable' = DirtyTable /\ AreaClean' = AreaClean
  BY <1>1, SameMachine
<1>3. Level' = Level /\ Ended' = Ended
  BY <1>1 DEF Level, Ended
<1>4. Mapping => Mapping'
  <2>1. \A w : Count(w)' = Count(w)
    BY <1>1, <1>3 DEF Count, AreaPages, TablePagesOpen
  <2>2. \A w, n : Holds(w, n) => /\ n > 0 => w \in paging_dir'
                                 /\ \A k \in 0 .. n - 1 : Window(w) + k \notin machine'.junk
                                 /\ \A k \in n .. TablePages - 1 :
                                       paging_directory_map'[Window(w) + k] = Emptied(Window(w) + k)'
    BY <1>1 DEF Holds, Emptied
  <2>3. QED
    BY <1>1, <1>3, <2>1, <2>2 DEF Mapping, Holds, Shows, Emptied
<1>5. Walked => Walked'
  BY <1>1, <1>2, <1>3 DEF Walked, Done, Clean, Straddles, PagesOf
<1>6. StopsExplained => StopsExplained'
  BY <1>1, <1>2 DEF StopsExplained, Straddles, TooLong, Taken, memcmp, check_rsdp
<1>7. QED
  BY <1>1, <1>3, <1>4, <1>5, <1>6 DEF Sound

LEMMA NextIInv == IInv /\ [Next]_startup => IInv'
<1> SUFFICES ASSUME IInv, [Next]_startup, Fitting' PROVE Shape' /\ Sound'
  BY NextShape DEF IInv
<1>1. Shape /\ Shape'
  BY NextShape DEF IInv
<1>2. Fitting
  BY <1>1, FittingBefore
<1>3. Sound
  BY <1>2 DEF IInv
<1>4. CASE MapBios \/ MapLow
  BY <1>1, <1>3, <1>4, MapAreaSound
<1>5. CASE search_rsdp_bios \/ search_rsdp_ebda
  BY <1>1, <1>3, <1>5, SearchSound
<1>6. CASE acpi_parse_rsdp
  BY <1>1, <1>2, <1>3, <1>6, ParseRsdpSound
<1>7. CASE Peek \/ ReadLength \/ MapWhole
  BY <1>1, <1>2, <1>3, <1>7, PeekSound, ReadLengthSound, MapWholeSound
<1>8. CASE NextTable \/ Close
  BY <1>1, <1>2, <1>3, <1>8, NextTableSound, CloseSound
<1>9. CASE Release
  BY <1>1, <1>3, <1>9, ReleaseSound
<1>10. CASE acpi_parse_dt \/ acpi_parse_fadt \/ EndOfWalk
  BY <1>1, <1>2, <1>3, <1>10, ParsedSound
<1>11. CASE acpi_parse_apic
  BY <1>1, <1>2, <1>3, <1>11, ParseApicSound
<1>12. CASE ParseCpu \/ ParseIoapic \/ ParseOther
  BY <1>1, <1>2, <1>3, <1>12, TurnSound
<1>13. CASE ioapic_init
  BY <1>1, <1>2, <1>3, <1>13, IoapicSound
<1>14. CASE idt_init
  BY <1>1, <1>2, <1>3, <1>14, IdtSound
<1>15. CASE UNCHANGED startup
  BY <1>1, <1>2, <1>3, <1>15, SoundStutters
<1>16. QED
  BY <1>1, <1>4, <1>5, <1>6, <1>7, <1>8, <1>9, <1>10, <1>11, <1>12, <1>13, <1>14, <1>15
     DEF Next, AcpiInit

(* While the machine boots, every entry of a window is what the window has *)
(* mapped or what the memory of its page table held.                       *)
LEMMA MappingReleases ==
    ASSUME Shape, Mapping
    PROVE  \A v \in Pages \ machine.junk :
               paging_directory_map[v] # NULL =>
                   IF v \div TablePages = 0
                   THEN pc \notin {"bios", "ebda", "ioapic", "idt"}
                   ELSE /\ v \div TablePages <= Level
                        /\ v \div TablePages = Level => pc \notin {"peek", "whole"}
<1> SUFFICES ASSUME NEW v \in Pages, v \notin machine.junk, paging_directory_map[v] # NULL
             PROVE  IF Pd(v) = 0
                    THEN pc \notin {"bios", "ebda", "ioapic", "idt"}
                    ELSE Pd(v) <= Level /\ (Pd(v) = Level => pc \notin {"peek", "whole"})
  BY DEF Pd
<1>1. paging_directory_map[v] # Emptied(v)
  BY DEF Emptied
<1>2. PICK w \in 0 .. paging_size : w = Pd(v)
  BY PdIs
<1>3. w \in 0 .. 2
  <2>1. ~ (w > 2)
    BY <1>1, <1>2 DEF Mapping
  <2>2. QED
    BY <1>2, <2>1, Sizes
<1>4. PICK k \in 0 .. TablePages - 1 : k = v - Window(w)
  BY <1>2, <1>3, PdIs
<1>5. Window(w) + k = v
  <2>1. v \in Nat /\ Window(w) \in Nat
    BY <1>3, <1>4, PdIs, WindowPages
  <2>2. QED
    BY <1>4, <2>1
<1>6. Count(w) # 0
  <2>1. ~ (k \in Count(w) .. TablePages - 1)
    BY <1>1, <1>3, <1>5 DEF Mapping, Holds
  <2>2. QED
    BY <1>4, <2>1
<1>7. CASE w = 0
  BY <1>2, <1>6, <1>7 DEF Count, AreaPages
<1>8. CASE w # 0
  <2>1. ~ (Level < w) /\ ~ (Level = w /\ pc \in {"peek", "whole"})
    BY <1>6, <1>8 DEF Count, TablePagesOpen
  <2>2. Level \in Nat
    BY DEF Shape, Opened
  <2>3. QED
    BY <1>2, <1>3, <1>8, <2>1, <2>2
<1>9. QED
  BY <1>7, <1>8

-----------------------------------------------------------------------------
(* What acpi_init has found, and the redirection tables.                   *)
Flags == acpi_ps2_controller_exists \in BOOLEAN /\ overlaid \in BOOLEAN

Arrays ==
    /\ acpi_cpu_ids \in Seq(Nat) /\ Len(acpi_cpu_ids) <= MAX_CPU_COUNT
    /\ ioapic_addrs \in Seq(Nat) /\ Len(ioapic_addrs) <= MAX_IOAPIC_COUNT + 1
    /\ kdevmap \in Seq(Nat) /\ lapic_addr \in 0 .. Len(kdevmap)
    /\ \A i \in 1 .. Len(ioapic_addrs) : ioapic_addrs[i] \in 1 .. Len(kdevmap)

Entries == {"left", "masked"} \union Lines
Redirected == \A c \in DOMAIN redtbl : \A p \in DOMAIN redtbl[c] : redtbl[c][p] \in Entries

Typed == Flags /\ Arrays /\ Redirected

LEMMA ArrayBounds == MAX_CPU_COUNT \in Nat \ {0} /\ MAX_IOAPIC_COUNT \in Nat \ {0}
BY AcpiAssumption

LEMMA TypedInit == StartupInit => Typed
<1> SUFFICES ASSUME StartupInit PROVE Typed
  OBVIOUS
<1>1. Flags
  BY DEF StartupInit, Init, Flags
<1>2. Arrays
  <2>1. acpi_cpu_ids = << >> /\ ioapic_addrs = << >> /\ kdevmap = << >> /\ lapic_addr = 0
    BY DEF StartupInit, Init
  <2>2. << >> \in Seq(Nat) /\ Len(<< >>) = 0
    BY NothingIsSequence
  <2>3. 1 .. 0 = {} /\ 0 <= MAX_CPU_COUNT /\ 0 <= MAX_IOAPIC_COUNT + 1 /\ 0 \in 0 .. 0
    BY ArrayBounds
  <2>4. QED
    BY <2>1, <2>2, <2>3 DEF Arrays
<1>3. Redirected
  BY DEF StartupInit, Redirected, Entries
<1>4. QED
  BY <1>1, <1>2, <1>3 DEF Typed

LEMMA FlagsStep == Shape /\ Flags /\ [Next]_startup => Flags'
<1> SUFFICES ASSUME Shape, Flags, [Next]_startup PROVE Flags'
  OBVIOUS
<1>1. CASE acpi_parse_rsdp
  BY <1>1 DEF acpi_parse_rsdp, Flags
<1>2. CASE acpi_parse_fadt
  <2>1. pc = "parse" /\ Table.kind = "FADT" /\ overlaid' = overlaid
    BY <1>2 DEF acpi_parse_fadt
  <2>2. Level = 2 /\ Level > 0
    BY <2>1 DEF Shape, Stage
  <2>3. Table.body[2] \in BOOLEAN
    BY <2>1, <2>2, OpenTables DEF IsListed
  <2>4. QED
    BY <1>2, <2>1, <2>3 DEF acpi_parse_fadt, Flags
<1>3. CASE ParseIoapic
  BY <1>3 DEF ParseIoapic, Flags
<1>4. CASE acpi_parse_apic \/ ParseCpu \/ ParseOther
  BY <1>4 DEF acpi_parse_apic, ParseCpu, ParseOther, Flags
<1>5. CASE UNCHANGED found
  BY <1>5 DEF found, Flags
<1>6. QED
  BY <1>1, <1>2, <1>3, <1>4, <1>5 DEF Next, AcpiInit, startup, vars, MapBios, search_rsdp_bios, MapLow,
     search_rsdp_ebda, Search, Peek, ReadLength, MapWhole, NextTable, Close, Release, acpi_parse_dt, EndOfWalk,
     ioapic_init, idt_init

LEMMA DeviceMapped ==
    ASSUME Arrays, NEW addr \in Nat, kernel_map_device_map(addr)
    PROVE  /\ kdevmap' \in Seq(Nat) /\ Len(kdevmap') = Len(kdevmap) + 1
           /\ Len(kdevmap) \in Nat /\ lapic_addr \in 0 .. Len(kdevmap')
           /\ \A i \in 1 .. Len(ioapic_addrs) : ioapic_addrs[i] \in 1 .. Len(kdevmap')
<1>1. kdevmap \in Seq(Nat) /\ Len(kdevmap) \in Nat
  BY DEF Arrays
<1> DEFINE frame == addr \div PageSize
<1>2. frame \in Nat
  BY Sizes, QuotientBounds
<1>3. kdevmap' = Append(kdevmap, frame)
  BY DEF kernel_map_device_map
<1> HIDE DEF frame
<1>4. kdevmap' \in Seq(Nat) /\ Len(kdevmap') = Len(kdevmap) + 1
  BY <1>1, <1>2, <1>3, Appended, Zenon
<1>5. QED
  BY <1>1, <1>4 DEF Arrays

LEMMA ArraysStep == Shape /\ Arrays /\ [Next]_startup => Arrays'
<1> SUFFICES ASSUME Shape, Arrays, [Next]_startup PROVE Arrays'
  OBVIOUS
<1>1. CASE acpi_parse_apic
  <2>1. acpi_cpu_ids' = acpi_cpu_ids /\ ioapic_addrs' = ioapic_addrs
    BY <1>1 DEF acpi_parse_apic
  <2>2. CASE kdevmap' = kdevmap /\ lapic_addr' = lapic_addr
    BY <2>1, <2>2 DEF Arrays
  <2>3. CASE kernel_map_device_map(Table.body[1]) /\ lapic_addr' = Len(kdevmap')
    <3>1. pc = "parse" /\ Table.kind = "MADT"
      BY <1>1 DEF acpi_parse_apic
    <3>2. Level = 2 /\ Level > 0
      BY <3>1 DEF Shape, Stage
    <3>3. Table.body[1] \in Nat
      BY <3>1, <3>2, OpenTables DEF IsListed
    <3>4. /\ kdevmap' \in Seq(Nat) /\ Len(kdevmap') = Len(kdevmap) + 1
          /\ Len(kdevmap) \in Nat
          /\ \A i \in 1 .. Len(ioapic_addrs) : ioapic_addrs[i] \in 1 .. Len(kdevmap')
      BY <2>3, <3>3, DeviceMapped
    <3>5. lapic_addr' \in 0 .. Len(kdevmap')
      BY <2>3, <3>4
    <3>6. QED
      BY <2>1, <3>4, <3>5 DEF Arrays
  <2>4. QED
    BY <1>1, <2>2, <2>3 DEF acpi_parse_apic
<1>2. CASE ParseCpu
  <2>1. /\ pc = "madt" /\ ~ WalkEnded /\ Structure.type = "cpu"
        /\ lapic_addr' = lapic_addr /\ ioapic_addrs' = ioapic_addrs /\ kdevmap' = kdevmap
    BY <1>2 DEF ParseCpu, Turn
  <2>2. Structure.id \in Nat
    BY <2>1, MadtWalk
  <2>3. CASE acpi_cpu_ids' = acpi_cpu_ids
    BY <2>1, <2>3 DEF Arrays
  <2>4. CASE Len(acpi_cpu_ids) < MAX_CPU_COUNT /\ acpi_cpu_ids' = Append(acpi_cpu_ids, Structure.id)
    <3>1. acpi_cpu_ids \in Seq(Nat) /\ Len(acpi_cpu_ids) \in Nat
      BY DEF Arrays
    <3>2. acpi_cpu_ids' \in Seq(Nat) /\ Len(acpi_cpu_ids') = Len(acpi_cpu_ids) + 1
      BY <2>2, <2>4, <3>1, Appended, Zenon
    <3>3. Len(acpi_cpu_ids') <= MAX_CPU_COUNT
      BY <2>4, <3>1, <3>2, ArrayBounds
    <3>4. QED
      BY <2>1, <3>2, <3>3 DEF Arrays
  <2>5. QED
    BY <1>2, <2>3, <2>4 DEF ParseCpu
<1>3. CASE ParseIoapic
  <2>1. /\ pc = "madt" /\ ~ WalkEnded /\ Structure.type = "ioapic"
        /\ lapic_addr' = lapic_addr /\ acpi_cpu_ids' = acpi_cpu_ids
        /\ kernel_map_device_map(Structure.addr) /\ Len(ioapic_addrs) <= MAX_IOAPIC_COUNT
        /\ ioapic_addrs' = Append(ioapic_addrs, Len(kdevmap'))
    BY <1>3 DEF ParseIoapic, Turn
  <2>2. Structure.addr \in Nat
    BY <2>1, MadtWalk
  <2>3. /\ kdevmap' \in Seq(Nat) /\ Len(kdevmap') = Len(kdevmap) + 1
        /\ Len(kdevmap) \in Nat /\ lapic_addr \in 0 .. Len(kdevmap')
        /\ \A i \in 1 .. Len(ioapic_addrs) : ioapic_addrs[i] \in 1 .. Len(kdevmap')
    BY <2>1, <2>2, DeviceMapped
  <2>4. PICK n \in Nat : n = Len(kdevmap') /\ n > 0
    BY <2>3
  <2>5. ioapic_addrs \in Seq(Nat) /\ Len(ioapic_addrs) \in Nat
    BY DEF Arrays
  <2>6. /\ ioapic_addrs' \in Seq(Nat) /\ Len(ioapic_addrs') = Len(ioapic_addrs) + 1
        /\ \A i \in 1 .. Len(ioapic_addrs) : ioapic_addrs'[i] = ioapic_addrs[i]
        /\ ioapic_addrs'[Len(ioapic_addrs) + 1] = n
    <3>1. ioapic_addrs' = Append(ioapic_addrs, n)
      BY <2>1, <2>4
    <3>2. ioapic_addrs \in Seq(Nat) /\ n \in Nat
      BY <2>4, <2>5
    <3>3. QED
      BY <3>1, <3>2, Appended, ZenonT(60)
  <2>7. ASSUME NEW i \in 1 .. Len(ioapic_addrs') PROVE ioapic_addrs'[i] \in 1 .. n
    <3>1. i \in 1 .. Len(ioapic_addrs) \/ i = Len(ioapic_addrs) + 1
      BY <2>5, <2>6
    <3>2. \A j \in 1 .. Len(ioapic_addrs) : ioapic_addrs'[j] \in 1 .. n
      BY <2>3, <2>4, <2>6
    <3>3. n \in 1 .. n
      BY <2>4
    <3>4. QED
      BY <2>6, <3>1, <3>2, <3>3
  <2>8. Len(ioapic_addrs') <= MAX_IOAPIC_COUNT + 1
    BY <2>1, <2>5, <2>6, ArrayBounds
  <2>9. acpi_cpu_ids' \in Seq(Nat) /\ Len(acpi_cpu_ids') <= MAX_CPU_COUNT
    BY <2>1 DEF Arrays
  <2>10. QED
    BY <2>1, <2>3, <2>4, <2>6, <2>7, <2>8, <2>9, Zenon DEF Arrays
<1>4. CASE acpi_parse_rsdp \/ acpi_parse_fadt \/ ParseOther
  BY <1>4 DEF acpi_parse_rsdp, acpi_parse_fadt, ParseOther, Turn, Arrays
<1>5. CASE UNCHANGED found
  BY <1>5 DEF found, Arrays
<1>6. QED
  BY <1>1, <1>2, <1>3, <1>4, <1>5 DEF Next, AcpiInit, startup, vars, MapBios, search_rsdp_bios, MapLow,
     search_rsdp_ebda, Search, Peek, ReadLength, MapWhole, NextTable, Close, Release, acpi_parse_dt, EndOfWalk,
     ioapic_init, idt_init

(* What the two routines write into a table keeps its entries entries.     *)
LEMMA EntriesSet ==
    ASSUME NEW table, \A c \in DOMAIN table : \A p \in DOMAIN table[c] : table[c][p] \in Entries,
           NEW data \in Entries, NEW pin, NEW i, NEW pins
    PROVE  /\ \A c \in DOMAIN ioapic_set_entry(table, i, pins, data) :
                \A p \in DOMAIN ioapic_set_entry(table, i, pins, data)[c] :
                    ioapic_set_entry(table, i, pins, data)[c][p] \in Entries
           /\ \A c \in DOMAIN ioapic_all_set_entry(table, pin, data) :
                \A p \in DOMAIN ioapic_all_set_entry(table, pin, data)[c] :
                    ioapic_all_set_entry(table, pin, data)[c][p] \in Entries
BY DEF ioapic_set_entry, ioapic_all_set_entry

LEMMA RedirectedStep == Redirected /\ [Next]_startup => Redirected'
<1> SUFFICES ASSUME Redirected, [Next]_startup PROVE Redirected'
  OBVIOUS
<1>1. \A c \in DOMAIN redtbl : \A p \in DOMAIN redtbl[c] : redtbl[c][p] \in Entries
  BY DEF Redirected
<1>2. CASE ioapic_init
  <2>1. PICK pins : redtbl' = redtbl \/ redtbl' = ioapic_set_entry(redtbl, 1, pins, "masked")
    BY <1>2 DEF ioapic_init
  <2>2. "masked" \in Entries
    BY DEF Entries
  <2>3. QED
    BY <1>1, <2>1, <2>2, EntriesSet DEF Redirected
<1>3. CASE idt_init
  <2>1. {"timer", "ps2_first", "ps2_second"} \subseteq Entries
    BY DEF Entries, Lines
  <2> DEFINE one == Routed(redtbl, "timer")
             two == Routed(one, "ps2_first")
             three == Routed(two, "ps2_second")
  <2>2. redtbl' = redtbl \/ redtbl' = three
    BY <1>3 DEF idt_init
  <2>3. \A c \in DOMAIN one : \A p \in DOMAIN one[c] : one[c][p] \in Entries
    BY <1>1, <2>1, EntriesSet DEF Routed
  <2> HIDE DEF one
  <2>4. \A c \in DOMAIN two : \A p \in DOMAIN two[c] : two[c][p] \in Entries
    BY <2>1, <2>3, EntriesSet DEF Routed
  <2> HIDE DEF two
  <2>5. \A c \in DOMAIN three : \A p \in DOMAIN three[c] : three[c][p] \in Entries
    BY <2>1, <2>4, EntriesSet DEF Routed
  <2>6. QED
    BY <1>1, <2>2, <2>5 DEF Redirected
<1>4. CASE UNCHANGED redtbl
  BY <1>4 DEF Redirected
<1>5. QED
  BY <1>2, <1>3, <1>4 DEF Next, startup

LEMMA TypedTypeOK == Shape /\ Typed => TypeOK
<1> SUFFICES ASSUME Shape, Typed PROVE TypeOK
  OBVIOUS
<1>1. PagingTypeOK
  BY DEF Shape
<1>2. open \in Seq(Read) /\ at \in Seq(Nat) /\ Len(open) \in 0 .. 2 /\ Len(at) = Len(open)
  BY DEF Shape, Opened, Level
<1>3. \A l \in DOMAIN open : at[l] \in Nat
  <2>1. DOMAIN open = 1 .. Len(at)
    BY <1>2
  <2>2. QED
    BY <1>2, <2>1
<1>4. acpi_madt_struct \in Tables \union {NULL}
  BY DEF Shape, Opened, MadtTables
<1>5. /\ Len(acpi_cpu_ids) <= MAX_CPU_COUNT /\ Len(ioapic_addrs) <= MAX_IOAPIC_COUNT + 1
      /\ lapic_addr \in 0 .. Len(kdevmap)
      /\ \A i \in DOMAIN ioapic_addrs : ioapic_addrs[i] \in DOMAIN kdevmap
  <2>1. DOMAIN ioapic_addrs = 1 .. Len(ioapic_addrs) /\ DOMAIN kdevmap = 1 .. Len(kdevmap)
    BY DEF Typed, Arrays
  <2>2. QED
    BY <2>1 DEF Typed, Arrays
<1>6. QED
  BY <1>1, <1>2, <1>3, <1>4, <1>5 DEF TypeOK, Typed, Flags, Redirected, Entries

-----------------------------------------------------------------------------
(* The inductive invariant: which tables are open and how far they are     *)
(* read, what each window holds (paging_map and paging_unmap of paging.c,  *)
(* as acpi.c pairs them), and what the reads that did not fault say of the *)
(* tables.                                                                 *)
THEOREM StartupInvariant == Spec => []IInv
<1>1. StartupInit => IInv
  BY ShapeInit, InitSound DEF IInv
<1>2. QED
  BY <1>1, NextIInv, PTL DEF Spec

(* A window holds pages only while its table is read, and nothing stays    *)
(* mapped when acpi_init returns: every paging_map of acpi.c has its       *)
(* paging_unmap, on every way through it, if the tables fit their windows. *)
THEOREM WindowsAreReleased == Spec => [](Fitting => WindowsReleased)
<1>1. IInv => (Fitting => WindowsReleased)
  BY MappingReleases DEF IInv, Sound, WindowsReleased
<1>2. QED
  BY <1>1, StartupInvariant, PTL

(* The boot stops for a reason outside the kernel: a page table that was   *)
(* not clear, a table that straddles a page boundary, an XSDT, a missing   *)
(* MADT or root pointer; and it does not go on past any of them.           *)
THEOREM StopsAreExplained == Spec => [](Fitting => StopsExplained)
<1>1. IInv => (Fitting => StopsExplained)
  BY DEF IInv, Sound
<1>2. QED
  BY <1>1, StartupInvariant, PTL

(* The types, and that the arrays acpi_parse_apic fills stay within their  *)
(* bounds, but for the one I/O APIC written behind ioapic_addrs; an        *)
(* address kept there is that of a page kernel_map_device_map has given.   *)
THEOREM StartupTypeOK == Spec => []TypeOK
<1>1. StartupInit => Shape /\ Typed
  BY ShapeInit, TypedInit
<1>2. Shape /\ Typed /\ [Next]_startup => (Shape /\ Typed)'
  BY NextShape, FlagsStep, ArraysStep, RedirectedStep DEF Typed
<1>3. Shape /\ Typed => TypeOK
  BY TypedTypeOK
<1>4. QED
  BY <1>1, <1>2, <1>3, PTL DEF Spec

================================================================================
