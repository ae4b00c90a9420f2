-------------------------------- MODULE Startup --------------------------------
(***************************************************************************)
(* From power-on to the first interrupt: kernel_premain reads the          *)
(* firmware's tables (module Acpi), kernel_main masks the I/O APICs        *)
(* (ioapic.c) and routes the lines of the timer and of the two PS/2 ports  *)
(* to their vectors (idt_init).  Where interrupts go from there on is      *)
(* module Interrupts.                                                      *)
(***************************************************************************)
EXTENDS Acpi

VARIABLE redtbl     \* the redirection tables, by the address of their chip

startup == << vars, redtbl >>

(***************************************************************************)
(* The machine.                                                            *)
(***************************************************************************)
Irq == [timer |-> 2, ps2_first |-> 1, ps2_second |-> 12]
Lines == {"timer", "ps2_first", "ps2_second"}

(* What the accepted paragraph leads to: the tables listed, and the        *)
(* structures of an MADT that a reader who respects the lengths gets to    *)
(* see.                                                                    *)
RootTable == rsdp[2].root
Tables == IF rsdp = << >> THEN {} ELSE ToSet(RootTable.body)
MadtTables == {t \in Tables : t.kind = "MADT"}
Madts == IF rsdp = << >> THEN << >>
         ELSE SelectSeq(RootTable.body, LAMBDA t : t.kind = "MADT")
Seen(t) ==
    LET n == Len(t.body)
        seen[i \in 2 .. n] ==
            i = 2 \/ \E j \in 2 .. i - 1 : seen[j] /\ i = j + t.body[j].length
    IN  {i \in 2 .. n : seen[i]}
Structures(t, type) ==
    LET seen == Seen(t)
        Wanted == {i \in seen : t.body[i].type = type}
    IN  [k \in 1 .. Cardinality(Wanted) |->
            t.body[CHOOSE i \in Wanted : Cardinality({j \in Wanted : j <= i}) = k]]
AllStructures(type) ==
    FlattenSeq([k \in 1 .. Len(Madts) |-> Structures(Madts[k], type)])


(***************************************************************************)
(* The I/O APICs.  Their tables hold what the firmware left.               *)
(***************************************************************************)
StartupInit ==
    /\ Init
    /\ redtbl = [c \in DOMAIN machine.chips |-> [p \in 0 .. machine.chips[c] - 1 |-> "left"]]

(* What answers at the address of I/O APIC i: the start of a page.  One    *)
(* behind the array may have lost its address to the flag.                 *)
Register(i) ==
    IF overlaid /\ i > MAX_IOAPIC_COUNT /\ acpi_ps2_controller_exists
    THEN -1
    ELSE kdevmap[ioapic_addrs[i]] * PageSize
Answers(i) == Register(i) \in DOMAIN redtbl

(* A write to an entry the chip does not have is lost, one to an address   *)
(* where no chip is too.                                                   *)
ioapic_set_entry(table, i, pins, data) ==
    IF ~ Answers(i) THEN table
    ELSE [table EXCEPT ![Register(i)] =
             [p \in DOMAIN @ |-> IF p \in pins THEN data ELSE @[p]]]

(* Where nothing answers every bit reads as one.                           *)
MaxRedirectCount(i) == IF Answers(i) THEN Cardinality(DOMAIN redtbl[Register(i)]) ELSE 256

(* The masks stop one entry short.                                         *)
ioapic_init_Mutant ==
    /\ pc = "ioapic"
    /\ redtbl' = IF ioapic_addrs = << >> THEN redtbl
                 ELSE ioapic_set_entry(redtbl, 1, 0 .. MaxRedirectCount(1) - 2, "masked")
    /\ pc' = "idt"
    /\ UNCHANGED << paging, machine, rsdp, open, at, found >>

(* ioapic_init passes the address in place of the index: its low byte is   *)
(* all that arrives, and that is 0, the first I/O APIC.                    *)
ioapic_init ==
    LET counts == {MaxRedirectCount(i) : i \in DOMAIN ioapic_addrs}
    IN  /\ pc = "ioapic"
        /\ redtbl' =
             IF counts = {} THEN redtbl
             ELSE ioapic_set_entry(redtbl, 1, 0 .. (CHOOSE m \in counts :
                                       \A n \in counts : n <= m) - 1, "masked")
        /\ pc' = "idt"
        /\ UNCHANGED << paging, machine, rsdp, open, at, found >>

ioapic_all_set_entry(table, pin, data) ==
    LET reached == {Register(i) : i \in DOMAIN ioapic_addrs}
    IN  [c \in DOMAIN table |->
            [p \in DOMAIN table[c] |-> IF c \in reached /\ p = pin THEN data ELSE table[c][p]]]

(* The last part of idt_init, before the table is loaded: the interrupt of *)
(* a line is set to the line's vector on every I/O APIC.                   *)
Routed(table, l) == ioapic_all_set_entry(table, acpi_remap_irq(Irq[l]), l)

idt_init ==
    /\ pc = "idt"
    /\ IF acpi_madt_struct = NULL
       THEN pc' = "fault" /\ UNCHANGED redtbl
       ELSE /\ redtbl' = Routed(Routed(Routed(redtbl, "timer"), "ps2_first"), "ps2_second")
            /\ pc' = "booted"
    /\ UNCHANGED << paging, machine, rsdp, open, at, found >>

Next ==
    \/ AcpiInit /\ UNCHANGED redtbl
    \/ ioapic_init
    \/ idt_init

(* kernel_premain runs alone, with interrupts off.                         *)
Spec == StartupInit /\ [][Next]_startup
FairSpec == Spec /\ WF_startup(Next)

(***************************************************************************)
(* What a machine may have that the code does not cope with.               *)
(***************************************************************************)
Read == IF rsdp = << >> THEN {} ELSE Tables \union {RootTable}
PagesOf(t) == 0 .. PageCount(Size(t)) - 1
UsedPages ==
    {AreaWindow + k : k \in 0 .. PageCount(AreaSize.bios) - 1}
        \union UNION {{Window(IF t.kind = "root" THEN 1 ELSE 2) + k : k \in PagesOf(t)} :
                         t \in Read}
DirtyTable == machine.junk \cap UsedPages # {}
TooLong(t) == PageCount(Size(t)) > TablePages

(* Its last unit lies behind the pages its length asks for.                *)
Straddles(t) ==
    \/ (t.addr % PageSize) + Size(t) > PageCount(Size(t)) * PageSize
    \/ (t.addr % PageSize) + Header > PageSize
Ioapics == AllStructures("ioapic")
WellFormed ==
    /\ \A k \in DOMAIN Madts : \A i \in Seen(Madts[k]) : Madts[k].body[i].length > 0
    /\ Len(Ioapics) <= MAX_IOAPIC_COUNT + 1

AcpiDone == pc \in {"ioapic", "idt", "booted"}
Ended == pc \in {"booted", "refused", "absent", "version", "fault"}

(***************************************************************************)
(* Properties.                                                             *)
(***************************************************************************)
TypeOK ==
    /\ PagingTypeOK
    /\ Len(open) \in 0 .. 2 /\ Len(at) = Len(open)
    /\ \A l \in DOMAIN open : at[l] \in Nat
    /\ acpi_ps2_controller_exists \in BOOLEAN
    /\ acpi_madt_struct \in Tables \union {NULL}
    /\ Len(acpi_cpu_ids) <= MAX_CPU_COUNT
    /\ Len(ioapic_addrs) <= MAX_IOAPIC_COUNT + 1
    /\ lapic_addr \in 0 .. Len(kdevmap)
    /\ \A i \in DOMAIN ioapic_addrs : ioapic_addrs[i] \in DOMAIN kdevmap
    /\ overlaid \in BOOLEAN
    /\ \A c \in DOMAIN redtbl : \A p \in DOMAIN redtbl[c] :
         redtbl[c][p] \in {"left", "masked"} \union Lines

(* A window holds pages only while its table is read: it is empty again    *)
(* when the next table is to be mapped into it, which paging_map would     *)
(* otherwise refuse, and nothing stays mapped when acpi_init returns.      *)
WindowsReleased ==
    ~ Ended => \A v \in Pages \ machine.junk :
        paging_directory_map[v] # NULL =>
            IF v \div TablePages = 0
            THEN pc \notin {"bios", "ebda", "ioapic", "idt"}
            ELSE /\ v \div TablePages <= Level
                 /\ v \div TablePages = Level => pc \notin {"peek", "whole"}

(* The boot stops for a reason outside the kernel: an uncleared page table *)
(* refuses a page or a table is longer than its window, a table straddles  *)
(* a page boundary, there is an XSDT or no MADT, or no paragraph is taken. *)
(* And it does not go on with a page that is not the table's.              *)
StopsExplained ==
    /\ pc = "refused" => DirtyTable \/ \E t \in Read : TooLong(t)
    /\ pc = "fault" => rsdp[2].xsdt \/ MadtTables = {} \/ \E t \in Read : Straddles(t)
    /\ pc = "absent" => Taken("bios") = {} /\ Taken("low") = {}
    /\ pc = "version" => rsdp[2].revision \notin {0, 2}
    /\ pc = "booted" =>
         /\ ~ DirtyTable
         /\ MadtTables # {}
         /\ \A t \in {RootTable} \union MadtTables : ~ Straddles(t) /\ ~ TooLong(t)

(* What acpi_init has found is what the tables say, whatever their order:  *)
(* the processors (as many as fit), the I/O APICs, the keyboard controller *)
(* (unless the I/O APICs outgrew their array) and the last MADT.           *)
TablesRead ==
    LET cpus == AllStructures("cpu")
    IN  AcpiDone =>
          /\ acpi_cpu_ids = [i \in 1 .. Min({MAX_CPU_COUNT, Len(cpus)}) |-> cpus[i].id]
          /\ Len(ioapic_addrs) = Len(Ioapics)
          /\ \A i \in DOMAIN Ioapics :
               kdevmap[ioapic_addrs[i]] = Ioapics[i].addr \div PageSize
          /\ Len(Ioapics) <= MAX_IOAPIC_COUNT =>
               (acpi_ps2_controller_exists <=>
                   \/ rsdp[2].revision = 0
                   \/ \E t \in Tables : t.kind = "FADT" /\ t.body[2])
          /\ IF Madts = << >> THEN acpi_madt_struct = NULL
             ELSE /\ acpi_madt_struct = Last(Madts)
                  /\ kdevmap[lapic_addr] = Last(Madts).body[1] \div PageSize

(* At the end of idt_init a line arrives with its vector on the pin the    *)
(* overrides give it, on every I/O APIC, and on no other pin.  What is no  *)
(* line's pin is silent on the first I/O APIC (ioapic_init, idt_init).  A  *)
(* chip whose registers do not begin a page is not reached.                *)
Pin(l) ==
    LET overrides == SelectSeq(Structures(Last(Madts), "override"),
                               LAMBDA s : s.source = Irq[l])
    IN  IF overrides = << >> THEN Irq[l] ELSE overrides[1].interrupt
LinesOn(p) == {l \in Lines : Pin(l) = p}

ChipPage(i) == (Ioapics[i].addr \div PageSize) * PageSize
Chips == {ChipPage(i) : i \in 1 .. Min({Len(Ioapics), MAX_IOAPIC_COUNT})} \cap DOMAIN redtbl

LinesRouted ==
    pc = "booted" =>
        \A c \in Chips : \A p \in DOMAIN redtbl[c] :
            IF LinesOn(p) # {} THEN redtbl[c][p] \in LinesOn(p)
            ELSE /\ redtbl[c][p] \notin Lines
                 /\ c = ChipPage(1) => redtbl[c][p] = "masked"

(* "Disable interrupts" (ioapic.c:43), in the loop over the I/O APICs: the *)
(* pins of each are silent but for those the lines are routed to.          *)
LinesMasked ==
    pc = "booted" =>
        \A c \in Chips : \A p \in DOMAIN redtbl[c] :
            LinesOn(p) = {} => redtbl[c][p] = "masked"

(* The walks end, if every structure has a length and the I/O APICs are    *)
(* not more than the array takes and one.                                  *)
StartupEnds == <>(Ended \/ ~ WellFormed)

(* "Cannot find ACPI tables" (acpi.c:349) is said only of a machine that   *)
(* has no root pointer in the areas searched.                              *)
AbsentMeansNoPointer ==
    pc = "absent" =>
        \A p \in ToSet(machine.bios) \union ToSet(machine.low) : ~ (p.signature /\ p.sums)
================================================================================
