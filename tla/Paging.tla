-------------------------------- MODULE Paging --------------------------------
(***************************************************************************)
(* i386/pc/paging.c: the page tables behind the virtual addresses from     *)
(* PAGING_DEVMAP_START on.  Pages, and the indices of their tables, are    *)
(* counted from there; a physical page is a frame number.  The code above  *)
(* runs before interrupts exist, so a call of paging_map is one step.      *)
(*                                                                         *)
(* A table is taken from the page source when its first page is mapped     *)
(* and is not cleared: its entries are what the memory held.  An entry of  *)
(* paging_directory_map is therefore, before its table exists, the word    *)
(* that the memory of the table will hold.                                 *)
(***************************************************************************)
EXTENDS Integers, FiniteSets

CONSTANTS
    PageSize,       \* units of address space in a page
    TablePages,     \* pages behind a table (1024)
    paging_size,    \* the bound of the directory, counted like the indices
    MaxTables,      \* tables the page source can give
    NULL,           \* a cleared entry
    JUNK            \* an entry nobody wrote

ASSUME PagingAssumption ==
    /\ {PageSize, TablePages, paging_size, MaxTables} \subseteq Nat \ {0}
    /\ NULL # JUNK
    /\ NULL \notin Nat /\ JUNK \notin Nat

VARIABLES
    paging_dir,             \* the indices that have a table
    paging_directory_map    \* the entries, by virtual page

paging == << paging_dir, paging_directory_map >>

(* The bound test lets the index paging_size itself through.               *)
Pages == 0 .. (paging_size + 1) * TablePages - 1
Pd(page) == page \div TablePages

(* Both loops run before they test: size 0 is a page.                      *)
PageCount(size) == IF size = 0 THEN 1 ELSE (size + PageSize - 1) \div PageSize

PagingInit(junk) ==
    /\ paging_dir = {}
    /\ paging_directory_map = [v \in Pages |-> IF v \in junk THEN JUNK ELSE NULL]

Mapped(page, frame) ==
    /\ Pd(page) \in paging_dir
    /\ paging_directory_map[page] = frame

(* A page beyond the bound, or whose table the page source cannot give (a  *)
(* panic there); and one whose entry is in use.                            *)
HasNoTable(virt, k) ==
    \/ Pd(virt + k) > paging_size
    \/ Cardinality(paging_dir \union {Pd(virt + j) : j \in 0 .. k}) > MaxTables
Refuses(virt, k) == HasNoTable(virt, k) \/ paging_directory_map[virt + k] # NULL

Accepts(virt, size) == \A k \in 0 .. PageCount(size) - 1 : ~ Refuses(virt, k)

(* The pages before the one that is refused stay mapped.                   *)
paging_map(frame, virt, size) ==
    LET tried == {k \in 0 .. PageCount(size) - 1 :
                     \A j \in 0 .. k - 1 : ~ Refuses(virt, j)}
        tabled == {k \in tried : ~ HasNoTable(virt, k)}
        done == {k \in tried : ~ Refuses(virt, k)}
    IN  /\ paging_dir' = paging_dir \union {Pd(virt + k) : k \in tabled}
        /\ paging_directory_map' =
             [v \in Pages |-> IF v - virt \in done THEN frame + (v - virt)
                              ELSE paging_directory_map[v]]

(* The loop stops a page short.                                            *)
paging_unmap_Mutant(virt, size) ==
    /\ paging_directory_map' =
         [v \in Pages |-> IF v - virt \in 0 .. size \div PageSize - 1 /\ Pd(v) \in paging_dir
                          THEN NULL ELSE paging_directory_map[v]]
    /\ UNCHANGED paging_dir

(* A page whose table does not exist is passed over.                       *)
paging_unmap(virt, size) ==
    /\ paging_directory_map' =
         [v \in Pages |-> IF v - virt \in 0 .. PageCount(size) - 1 /\ Pd(v) \in paging_dir
                          THEN NULL ELSE paging_directory_map[v]]
    /\ UNCHANGED paging_dir

PagingTypeOK ==
    /\ paging_dir \subseteq 0 .. paging_size
    /\ paging_directory_map \in [Pages -> Nat \union {NULL, JUNK}]
================================================================================
