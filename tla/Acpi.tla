--------------------------------- MODULE Acpi ---------------------------------
(***************************************************************************)
(* acpi.c: how kernel_premain finds and reads the tables of the firmware.  *)
(* A table is looked at through a window of virtual pages: one page is     *)
(* mapped to learn the table's length, unmapped, and as many pages as the  *)
(* length needs are mapped in its place.  There are three windows, for the *)
(* area of the root pointer, for the root table and for the table it       *)
(* lists; `open` holds the tables behind the second and the third.         *)
(*                                                                         *)
(* A table is a header of two units (signature, length) and a body of one  *)
(* unit per element:                                                       *)
(*   root   the tables it lists                                            *)
(*   FADT   smi_command_port, boot_architecture_flags (has it a keyboard   *)
(*          controller?)                                                   *)
(*   MADT   localApicAddr, then the structures of the interrupt            *)
(*          controllers, each with the length it states                    *)
(* A paragraph is 16 bytes of memory where a root pointer may begin: does  *)
(* it bear the signature, does the sum of its first 20 bytes vanish, and   *)
(* what a reader finds who takes it for a root pointer.                    *)
(***************************************************************************)
EXTENDS Paging, Sequences, SequencesExt

CONSTANTS
    Machines,           \* what firmware and memory hold at start-up
    MAX_CPU_COUNT,      \* 16
    MAX_IOAPIC_COUNT    \* 16

ASSUME AcpiAssumption == {MAX_CPU_COUNT, MAX_IOAPIC_COUNT} \subseteq Nat \ {0}

(* The area searched is shorter than a window, the three windows lie within *)
(* the bound of the directory, and the page source has a table for each.   *)
ASSUME WindowsAssumption == TablePages > 1 /\ paging_size > 1 /\ MaxTables > 2

VARIABLES
    machine,                    \* the one this is
    pc,
    rsdp,                       \* the area and the paragraph taken for the pointer
    open,                       \* the tables being read, root first
    at,                         \* the elements read of each
    acpi_ps2_controller_exists,
    acpi_madt_struct,           \* the copy of the MADT, or NULL
    acpi_cpu_ids,
    ioapic_addrs, lapic_addr,   \* indices into kdevmap
    kdevmap,                    \* the frames behind kernel_map_device_map
    overlaid                    \* the write past ioapic_addrs hit the flag

found == << acpi_ps2_controller_exists, acpi_madt_struct, acpi_cpu_ids,
            ioapic_addrs, lapic_addr, kdevmap, overlaid >>
vars == << paging, machine, pc, rsdp, open, at, found >>

Header == 2
Size(t) == Header + Len(t.body)

(* What a reader finds in memory.  A structure of the interrupt controllers *)
(* states any length.                                                      *)
IsTable(t) ==
    /\ t # NULL
    /\ t.addr \in Nat
    /\ DOMAIN t.body = 1 .. Len(t.body) /\ Len(t.body) \in Nat
IsListed(t) ==
    /\ IsTable(t)
    /\ t.kind \in {"FADT", "MADT", "other"}
    /\ t.kind = "FADT" => Len(t.body) = 2 /\ t.body[2] \in BOOLEAN
    /\ t.kind = "MADT" => /\ Len(t.body) > 0 /\ t.body[1] \in Nat
                          /\ \A i \in 2 .. Len(t.body) :
                               /\ t.body[i].length \in Nat
                               /\ t.body[i].type = "cpu" => t.body[i].id \in Nat
                               /\ t.body[i].type = "ioapic" => t.body[i].addr \in Nat
IsRoot(t) ==
    /\ IsTable(t)
    /\ t.kind = "root"
    /\ \A i \in DOMAIN t.body : IsListed(t.body[i])

ASSUME FirmwareAssumption ==
    \A m \in Machines :
        \A area \in {m.bios, m.low} :
            /\ DOMAIN area = 1 .. Len(area) /\ Len(area) \in Nat
            /\ \A i \in DOMAIN area : IsRoot(area[i].root)

(* PAGING_DEVMAP_START, + 0x1000000, + 0x2000000: 4 tables apart, here one. *)
AreaWindow == 0
Window(level) == level * TablePages

(* The areas searched: from 0xe0000 on, and the first page of memory, of   *)
(* which less than a page is asked for.                                    *)
AreaFrame == [bios |-> 14, low |-> 0]
AreaSize == [bios |-> 2 * PageSize, low |-> 1]

Level == Len(open)
Table == Last(open)
Frame(t) == t.addr \div PageSize

(* Unit i of the table being read is behind its window.                    *)
Readable(i) ==
    LET k == ((Table.addr % PageSize) + i) \div PageSize
    IN  Mapped(Window(Level) + k, Frame(Table) + k)

Init ==
    /\ machine \in Machines
    /\ PagingInit(machine.junk)
    /\ pc = "bios"
    /\ rsdp = << >>
    /\ open = << >>
    /\ at = << >>
    /\ acpi_ps2_controller_exists = FALSE
    /\ acpi_madt_struct = NULL
    /\ acpi_cpu_ids = << >>
    /\ ioapic_addrs = << >>
    /\ lapic_addr = 0
    /\ kdevmap = << >>
    /\ overlaid = FALSE

(* A map that is refused is a panic.                                       *)
MapOrPanic(frame, virt, size, next) ==
    /\ paging_map(frame, virt, size)
    /\ pc' = IF Accepts(virt, size) THEN next ELSE "refused"

(***************************************************************************)
(* The root pointer.  memcmp of string.c returns 1 for equal strings and 0 *)
(* for different ones, and the searches take 0 for equal.                  *)
(***************************************************************************)
memcmp(p) == IF p.signature THEN 1 ELSE 0
check_rsdp(p) == IF p.sums THEN 0 ELSE 1
Taken(area) == {i \in DOMAIN machine[area] :
                    memcmp(machine[area][i]) = 0 /\ check_rsdp(machine[area][i]) = 0}
Earliest(S) == CHOOSE i \in S : \A j \in S : i <= j

MapArea(area, next) == MapOrPanic(AreaFrame[area], AreaWindow, AreaSize[area], next)

(* The area searched in vain is left mapped.                               *)
Search_Mutant(area, next) ==
    /\ IF Taken(area) # {}
       THEN /\ rsdp' = << area, machine[area][Earliest(Taken(area))] >>
            /\ pc' = "rsdp"
       ELSE pc' = next /\ UNCHANGED rsdp
    /\ UNCHANGED << paging, machine, open, at, found >>

(* The area stays mapped when something is found in it.                    *)
Search(area, next) ==
    /\ IF Taken(area) # {}
       THEN /\ rsdp' = << area, machine[area][Earliest(Taken(area))] >>
            /\ pc' = "rsdp"
            /\ UNCHANGED paging
       ELSE /\ paging_unmap(AreaWindow, AreaSize[area])
            /\ pc' = next
            /\ UNCHANGED rsdp
    /\ UNCHANGED << machine, open, at, found >>

MapBios ==
    /\ pc = "bios"
    /\ MapArea("bios", "search bios")
    /\ UNCHANGED << machine, rsdp, open, at, found >>

search_rsdp_bios ==
    /\ pc = "search bios"
    /\ Search("bios", "ebda")

(* search_rsdp_ebda looks behind address 0x40e, where the address of the   *)
(* EBDA is stored, and not at the address stored there.  Nothing found is  *)
(* a panic.                                                                *)
MapLow ==
    /\ pc = "ebda"
    /\ MapArea("low", "search low")
    /\ UNCHANGED << machine, rsdp, open, at, found >>

search_rsdp_ebda ==
    /\ pc = "search low"
    /\ Search("low", "absent")

acpi_parse_rsdp ==
    /\ pc = "rsdp"
    /\ IF rsdp[2].revision \in {0, 2}
       THEN pc' = "peek" /\ open' = << rsdp[2].root >> /\ at' = << 0 >>
       ELSE pc' = "version" /\ UNCHANGED << open, at >>
    /\ acpi_ps2_controller_exists' =
         (acpi_ps2_controller_exists \/ rsdp[2].revision = 0)
    /\ UNCHANGED << paging, machine, rsdp, acpi_madt_struct, acpi_cpu_ids, ioapic_addrs,
                    lapic_addr, kdevmap, overlaid >>

(***************************************************************************)
(* The windows: the same five calls for the root table and for the tables  *)
(* it lists.                                                               *)
(***************************************************************************)
Peek ==
    /\ pc = "peek"
    /\ MapOrPanic(Frame(Table), Window(Level), PageSize, "length")
    /\ UNCHANGED << machine, rsdp, open, at, found >>

ReadLength ==
    /\ pc = "length"
    /\ IF Readable(1)
       THEN pc' = "whole" /\ paging_unmap(Window(Level), PageSize)
       ELSE pc' = "fault" /\ UNCHANGED paging
    /\ UNCHANGED << machine, rsdp, open, at, found >>

MapWhole ==
    /\ pc = "whole"
    /\ MapOrPanic(Frame(Table), Window(Level), Size(Table),
                  IF Level = 1 THEN "list" ELSE "parse")
    /\ UNCHANGED << machine, rsdp, open, at, found >>

(* The length at the unmap is the one read, for the root table still       *)
(* behind its window.                                                      *)
Close ==
    /\ pc = "close"
    /\ paging_unmap(Window(Level), Size(Table))
    /\ open' = Front(open)
    /\ at' = Front(at)
    /\ pc' = IF Level = 1 THEN "release" ELSE "list"
    /\ UNCHANGED << machine, rsdp, found >>

(* acpi_parse_rsdt and acpi_parse_xsdt.  The latter maps nothing: it takes *)
(* the physical address of a table for a virtual one.                      *)
NextTable ==
    LET i == at[1] + 1
    IN  /\ pc = "list"
        /\ IF i > Len(Table.body)
           THEN pc' = "close" /\ UNCHANGED << open, at >>
           ELSE IF Readable(Header + i - 1) /\ ~ rsdp[2].xsdt
           THEN /\ pc' = "peek"
                /\ open' = Append(open, Table.body[i])
                /\ at' = << i, 0 >>
           ELSE pc' = "fault" /\ UNCHANGED << open, at >>
        /\ UNCHANGED << paging, machine, rsdp, found >>

(* acpi_init unmaps what its search has left mapped.                       *)
Release ==
    /\ pc = "release"
    /\ paging_unmap(AreaWindow, AreaSize[rsdp[1]])
    /\ pc' = "ioapic"
    /\ UNCHANGED << machine, rsdp, open, at, found >>

(***************************************************************************)
(* The tables.                                                             *)
(***************************************************************************)
acpi_parse_dt ==
    /\ pc = "parse"
    /\ Table.kind = "other"
    /\ pc' = "close"
    /\ UNCHANGED << paging, machine, rsdp, open, at, found >>

(* The flags are read only while no controller is known of.                *)
acpi_parse_fadt ==
    /\ pc = "parse"
    /\ Table.kind = "FADT"
    /\ IF (acpi_ps2_controller_exists \/ Readable(Header + 1)) /\ Readable(Header)
       THEN /\ acpi_ps2_controller_exists' =
                 (acpi_ps2_controller_exists \/ Table.body[2])
            /\ pc' = "close"
       ELSE pc' = "fault" /\ UNCHANGED acpi_ps2_controller_exists
    /\ UNCHANGED << paging, machine, rsdp, open, at, acpi_madt_struct, acpi_cpu_ids,
                    ioapic_addrs, lapic_addr, kdevmap, overlaid >>

(* kernel_map_device_map: the next page of the device area.  The address   *)
(* it returns is the page's, whatever the offset of what was asked for.    *)
kernel_map_device_map(addr) == kdevmap' = Append(kdevmap, addr \div PageSize)

(* The MADT is copied before it is walked.                                 *)
acpi_parse_apic ==
    /\ pc = "parse"
    /\ Table.kind = "MADT"
    /\ IF \A i \in 0 .. Size(Table) - 1 : Readable(i)
       THEN /\ acpi_madt_struct' = Table
            /\ kernel_map_device_map(Table.body[1])
            /\ lapic_addr' = Len(kdevmap')
            /\ at' = [at EXCEPT ![2] = 1]
            /\ pc' = "madt"
       ELSE pc' = "fault" /\ UNCHANGED << acpi_madt_struct, kdevmap, lapic_addr, at >>
    /\ UNCHANGED << paging, machine, rsdp, open, acpi_ps2_controller_exists, acpi_cpu_ids,
                    ioapic_addrs, overlaid >>

(* A turn of its loop, over the structures.  It goes on behind each by the *)
(* length the structure states.                                            *)
Structure == acpi_madt_struct.body[at[2] + 1]
WalkEnded == at[2] >= Len(acpi_madt_struct.body)

(* The walk does not go on behind a structure it does not know.            *)
Turn_Mutant(types) ==
    /\ pc = "madt"
    /\ ~ WalkEnded
    /\ Structure.type \in types
    /\ at' = IF Structure.type = "unknown" THEN at
             ELSE [at EXCEPT ![2] = @ + Structure.length]
    /\ UNCHANGED << paging, machine, pc, rsdp, open, acpi_madt_struct, lapic_addr >>

Turn(types) ==
    /\ pc = "madt"
    /\ ~ WalkEnded
    /\ Structure.type \in types
    /\ at' = [at EXCEPT ![2] = @ + Structure.length]
    /\ UNCHANGED << paging, machine, pc, rsdp, open, acpi_madt_struct, lapic_addr >>

(* The last processor is dropped.                                          *)
ParseCpu_Mutant ==
    /\ Turn({"cpu"})
    /\ acpi_cpu_ids' = IF Len(acpi_cpu_ids) < MAX_CPU_COUNT - 1
                       THEN Append(acpi_cpu_ids, Structure.id) ELSE acpi_cpu_ids
    /\ UNCHANGED << acpi_ps2_controller_exists, ioapic_addrs, kdevmap, overlaid >>

ParseCpu ==
    /\ Turn({"cpu"})
    /\ acpi_cpu_ids' = IF Len(acpi_cpu_ids) < MAX_CPU_COUNT
                       THEN Append(acpi_cpu_ids, Structure.id) ELSE acpi_cpu_ids
    /\ UNCHANGED << acpi_ps2_controller_exists, ioapic_addrs, kdevmap, overlaid >>

(* The size of the array is not looked at.                                 *)
ParseIoapic_Mutant ==
    /\ Turn({"ioapic"})
    /\ kernel_map_device_map(Structure.addr)
    /\ ioapic_addrs' = Append(ioapic_addrs, Len(kdevmap'))
    /\ overlaid' \in {FALSE, Len(ioapic_addrs) = MAX_IOAPIC_COUNT}
    /\ acpi_ps2_controller_exists' = (acpi_ps2_controller_exists /\ ~ overlaid')
    /\ UNCHANGED acpi_cpu_ids

(* With more than MAX_IOAPIC_COUNT known the loop goes round without a     *)
(* change, which is a stuttering step.  The one before that is written     *)
(* behind the array, where an unoptimised build may have placed            *)
(* acpi_ps2_controller_exists: the low byte of the address, 0, clears it.  *)
ParseIoapic ==
    /\ Turn({"ioapic"})
    /\ Len(ioapic_addrs) <= MAX_IOAPIC_COUNT
    /\ kernel_map_device_map(Structure.addr)
    /\ ioapic_addrs' = Append(ioapic_addrs, Len(kdevmap'))
    /\ overlaid' \in {FALSE, Len(ioapic_addrs) = MAX_IOAPIC_COUNT}
    /\ acpi_ps2_controller_exists' = (acpi_ps2_controller_exists /\ ~ overlaid')
    /\ UNCHANGED acpi_cpu_ids

(* An interrupt override is only logged here, an unknown structure too.    *)
ParseOther ==
    /\ Turn({"override", "unknown"})
    /\ UNCHANGED << acpi_ps2_controller_exists, acpi_cpu_ids, ioapic_addrs, kdevmap,
                    overlaid >>

EndOfWalk ==
    /\ pc = "madt"
    /\ WalkEnded
    /\ pc' = "close"
    /\ UNCHANGED << paging, machine, rsdp, open, at, found >>

AcpiInit ==
    \/ MapBios \/ search_rsdp_bios \/ MapLow \/ search_rsdp_ebda \/ acpi_parse_rsdp
    \/ Peek \/ ReadLength \/ MapWhole \/ NextTable \/ Close \/ Release
    \/ acpi_parse_dt \/ acpi_parse_fadt \/ acpi_parse_apic
    \/ ParseCpu \/ ParseIoapic \/ ParseOther \/ EndOfWalk

(***************************************************************************)
(* acpi_remap_irq: the first override of a source, or the source itself.   *)
(***************************************************************************)
acpi_remap_irq(irq) ==
    LET body == acpi_madt_struct.body
        walk[i \in Nat] ==
            IF i >= Len(body) THEN irq
            ELSE IF body[i + 1].type = "override" /\ body[i + 1].source = irq
                 THEN body[i + 1].interrupt
                 ELSE walk[i + body[i + 1].length]
    IN  walk[1]
================================================================================
