------------------------------ MODULE MemoryMap ------------------------------
(***************************************************************************)
(* The walk of kernel_premain over the boot loader's memory map, which     *)
(* looks for an entry to take the kernel heap from and enters the pages of *)
(* it in the page tables of the heap.                                      *)
(*                                                                         *)
(* A map is [entries, behind]: a sequence of entries [available, addr,     *)
(* len], all of one size as boot loaders write them, and what the bytes    *)
(* behind the last one look like.                                          *)
(***************************************************************************)
EXTENDS Integers, Sequences

CONSTANTS
    FrameSize,      \* bytes of a page, 4096
    HeapFrames,     \* pages of the heap, 32 * 1024 / 4
    KernelFrames,   \* pages left to the kernel before it, 0x300000 / 4096
    AddressLimit    \* 2^32: entries of the page tables are that wide

MemoryMapAssumption ==
    /\ {FrameSize, HeapFrames, KernelFrames, AddressLimit} \subseteq Nat \ {0}
    /\ AddressLimit % FrameSize = 0

Entry == [available : BOOLEAN, addr : Nat, len : Nat]
Map == [entries : Seq(Entry) \ {<< >>}, behind : Entry]

(* Lengths are uint64_t; the square of the limit is as far beyond the maps. *)
Length64 == AddressLimit * AddressLimit

Misalignment(e) == e.addr % FrameSize

(* The addr and the len the walk works out for an entry. *)
HeapAddr(e) == e.addr + Misalignment(e)

UsableLen(e) == (e.len - Misalignment(e)) % Length64

(* The walk steps before it reads: it begins with the second entry and     *)
(* ends behind the last.                                                   *)
Walked(m) == Append(Tail(m.entries), m.behind)

LargeEnough_Mutant(len) == len > HeapFrames * FrameSize
LargeEnough(len) == len > (HeapFrames + KernelFrames) * FrameSize

Candidates(m) ==
    {i \in DOMAIN Walked(m) :
        Walked(m)[i].available /\ LargeEnough(UsableLen(Walked(m)[i]))}

MemorySetup(m) == Candidates(m) # {}

(* The first one is taken. *)
HeapEntry(m) ==
    Walked(m)[CHOOSE i \in Candidates(m) : \A j \in Candidates(m) : i <= j]

(* The physical pages behind the heap: page table entries keep 32 bits, of *)
(* which the lowest are flags, whatever is left there of the misalignment. *)
PageTable(m) ==
    [i \in 0 .. HeapFrames - 1 |->
        ((HeapAddr(HeapEntry(m)) + (i + KernelFrames) * FrameSize) % AddressLimit)
            \div FrameSize]

-----------------------------------------------------------------------------
(* The pages that lie in available memory as a whole, as the map has it.   *)
Entries(m) == {m.entries[i] : i \in DOMAIN m.entries}

Ram(m) ==
    {p \in 0 .. AddressLimit \div FrameSize - 1 :
        \E e \in Entries(m) :
            e.available /\ e.addr <= p * FrameSize /\ (p + 1) * FrameSize <= e.addr + e.len}

(* Maps the walk is written for: nothing behind them looks like an         *)
(* available entry, no entry is shorter than its start is out of line, and *)
(* memory ends at 4 GiB.                                                   *)
Plain(m) ==
    /\ ~m.behind.available
    /\ \A e \in Entries(m) : Misalignment(e) <= e.len /\ e.addr + e.len <= AddressLimit

(* The heap lies in available memory, on pages of its own, behind what is  *)
(* left to the kernel.                                                     *)
HeapInRam(m) ==
    MemorySetup(m) /\ Plain(m) =>
        /\ \A i \in DOMAIN PageTable(m) :
              /\ PageTable(m)[i] \in Ram(m)
              /\ PageTable(m)[i] * FrameSize >= HeapEntry(m).addr + (KernelFrames - 1) * FrameSize
        /\ \A i, j \in DOMAIN PageTable(m) : i # j => PageTable(m)[i] # PageTable(m)[j]
=============================================================================
