# osserver: specifications and proofs

osserver is a kernel for 32-bit x86 PCs (C and NASM, one processor, built
without optimisation). It boots through multiboot, sets up paging, a heap,
interrupts, a timer and the PS/2 ports, and then idles; its whole behaviour
from there on happens in interrupt handlers. The repository has no tests and no
documents, so the code and its comments are the only reference.

This directory holds TLA+ modules translated from that code, TLC
configurations that check them on small instances, and proofs for TLAPS of the
facts that matter most. File names below are relative to `src/kernel/`.

    tlc -config PageAlloc.cfg PageAlloc      check a configuration
    tlapm PageAllocProofs.tla                check the proofs of a module

`PROJECT.json` lists every configuration with what it shows, the code each
definition stands for, the hazards and the disagreements found.

## 1. The system

### Components

| Component | State | Operations | What makes it correct |
|---|---|---|---|
| Page source (`generic/sys/mem/kmem.c`) | a linked list of free extents, a chain of spare records, 8192 records | `memory_kernel_init`, `kmem_liballoc_alloc`, `kmem_liballoc_free`, the lock hooks, the `k*` wrappers | a page has one owner, none is lost, walks end |
| Kernel heap (`generic/sys/mem/kmem_liballoc.c`) | boundary tags in memory, bins of free pieces, a count of whole free blocks per bin | `kmem_malloc`, `kmem_free`, `kmem_calloc`, `kmem_realloc` | regions are disjoint, lists exact, freed memory merged, pages given back as they were taken |
| Interrupt switch and table (`i386/pc/idt.c`, `idt.asm`) | `idt_interrupts_enabled`, `idt_setup`, the table | `idt_init`, `idt_int_disable`, `idt_int_enable`, the handlers | the heap is exclusive, interrupts come back, the flag is right |
| Boot (`i386/pc/kernel.c`, `boot.asm`, `bootstrap.asm`) | the stage reached, the memory range of the heap | `kernel_premain`, `kernel_main`, `kpanic`, `kernel_map_device_map` | the boot ends in the idle loop or in a panic |
| Log (`generic/sys/klog.c`) | none | `klog`, `kwarning`, `kerror`: an allocation, a text, a line on the screen, a free | a line stays in its buffer, ends, and leaves memory as it found it |
| Local APIC (`generic/sys/interrupt/lapic.c`) | registers; requests and interrupts in service | `lapic_init`, `lapic_reset_irq` | handlers acknowledge their own interrupt |
| I/O APIC (`generic/sys/interrupt/ioapic.c`) | redirection tables | `ioapic_init`, `ioapic_set_entry`, `ioapic_all_set_entry` | the wanted lines routed to their vectors, everything else masked |
| Old PIC (`generic/sys/interrupt/pic.c`) | masks, vectors | `pic_init` | silent once the APIC is used |
| Exceptions (`generic/sys/interrupt/exception.c`) | none | log and spin | reports and stops |
| Timer and timer tasks (`generic/sys/time/pit.c`, `ktimer.c`) | a list of tasks with countdowns, a count of ticks | `ktimer_add_task`, `ktimer_remove_task`, the tick | a task runs on its interval, nothing is dropped, a tick ends |
| PS/2 (`generic/sys/ps2/controller.c`, `manager.c`, `keyboard.c`) | per port: state, type, identification buffer, time since the last echo; two sets of countdowns | `handle_irq`, three timer tasks, `ps2_manager_init`, sends | what is plugged in is identified, what answers stays connected, what leaves is noticed |
| ACPI tables (`generic/sys/acpi/acpi.c`) | a copy of the MADT, the processors, the I/O APICs, whether there is a keyboard controller | the search for the root pointer, the walks of RSDT and MADT, `acpi_remap_irq` | walks end and find what is there |
| Paging (`i386/pc/paging.c`) | page directory, page tables | `__32_paging_init`, `paging_map`, `paging_unmap` | a page is mapped where it was asked for, and free again after use |
| CPU detection, MSRs (`generic/sys/cpu/detect.c`, `msr.asm`) | a structure | reads CPUID once | |
| Segments (`i386/pc/gdt.c`, `gdt.asm`) | a constant table | built once | |
| Text screen (`generic/sys/dev/vga.c`) | the cursor, the screen | `vga_init`, `vga_write_line` | the screen shows the end of the log |
| Clock and NMI helpers (`include/sys/rtc.c`, `nmi.h`) | | no caller | |
| Formatting, strings (`generic/std/`, `include/std/`) | none | `vsnprintf`, `div`, `memcmp`, copying | stay in their buffers, say the number they were given |

### How they interact

    kernel_premain -> acpi_init -> paging_map, paging_unmap (windows on the tables)
    kernel_main ----> ioapic_init, idt_init (the lines, by what acpi_init found)
        |
        |----------- klog ----> heap ----> page source
        |                        ^  lock/unlock = idt_int_disable/enable
        |                        |
        |   interrupt (timer) -> tick -> timer tasks: PS/2 timeouts, port check
        |   interrupt (port)  -> handle_irq -> keyboard driver, log

* *Calls.* Every log line allocates and frees a buffer. The heap calls the page
  source for blocks of pages; only `paging_map` calls the page source directly.
* *Shared state.* Handlers and `kernel_main` share the heap, the timer list,
  the records of the PS/2 devices, the PS/2 controller and the screen. The heap
  is the only one with a lock, and the lock is the interrupt switch: it turns
  interrupts off, stores that they are off, and its unlock turns them on again
  whenever they are believed off. It does not count, and it does not remember
  what it found.
* *Callbacks.* The timer list holds function pointers, called in the handler of
  the timer.
* *Messages.* A PS/2 device answers commands one byte at a time, each byte an
  interrupt, and can be plugged in or out at any moment.

### What is hard here

* The heap's lock is not a lock but a flag and a processor instruction that
  other activations change between its steps; the unlock turns interrupts on
  inside handlers, before their end-of-interrupt.
* The page source runs out of records long before it runs out of pages: the
  loop of `memory_kernel_init` chains the spare records into a cycle that only
  ever gives out two of them, so three records exist in practice.
* The identification of a PS/2 device is a protocol over several interrupts,
  raced by a timer, by a check every second, by the device's own resets, by
  lost bytes and by `kernel_main`.
* Timer tasks are linked while the list is walked.
* Frees in any order must leave tags, neighbours, bins and counts consistent.
* The firmware's tables are read through windows of a few pages that must be
  mapped, measured, unmapped and mapped again, over page tables nobody cleared.
* Memory and records run out; so do retries (`PS2_MAX_TIMEOUT`).

Nothing is persisted, so there is no crash recovery; one processor, so there is
no true parallelism: an interleaving is always an interrupt.

The hazards, each at its line with the properties that would catch it, are in
`PROJECT.json`.

## 2. The modules

| Module | Models | Lines of code behind it |
|---|---|---|
| `ExtentPool` | abstract: what an allocator promises | the contract in `kmem_liballoc.h` and the comments of `kmem.c` |
| `PageAlloc` | the page source | `kmem.c` |
| `PageAllocProofs` | theorems about `PageAlloc` | |
| `Liballoc` | the kernel heap over `ExtentPool` | `kmem_liballoc.c` |
| `LiballocProofs` | theorems about `Liballoc` | |
| `Interrupts` | the switch, handlers, local APIC, old PIC, boot sequence, log | `idt.c`, `idt.asm`, `lapic.c`, `pic.c`, `klog.c`, `kernel.c`, `exception.c` |
| `InterruptsProofs` | theorems about `Interrupts` | |
| `Ktimer` | the timer tasks | `ktimer.c`, `pit.c` |
| `Ps2` | the PS/2 ports | `controller.c`, `manager.c`, `keyboard.c` |
| `Paging` | mapping and unmapping of pages | `paging.c` |
| `Acpi` | the search and the walks of the firmware's tables, over `Paging` | `acpi.c`, `string.c` (`memcmp`), `kernel.c` (`kernel_map_device_map`) |
| `MemoryMap` | the walk that finds the heap's memory | `kernel.c` |
| `Format` | formatted text | `format.c`, `stdlib.c` |
| `KernelLog` | the log over heap, page source, formatter and screen | `klog.c`, `vga.c`, `kernel.c`, `keyboard.c`, and through `Liballoc`, `PageAlloc`, `Format` and `MemoryMap` what they model |
| `MemoryMapProofs`, `KernelLogProofs` | theorems about `MemoryMap` and `KernelLog` | |
| `MCKernelLog` | memory maps, messages and keys for `KernelLog` | |
| `Startup` | from there to the routed interrupt lines, over `Acpi` | `ioapic.c`, `idt.c`, `kernel.c` |
| `StartupProofs` | theorems about `Startup`, `Acpi` and `Paging` | |
| `MCStartup` | machines for `Startup` | |

How they fit together: `PageAlloc` implements `ExtentPool` with pages as units;
`Liballoc` uses an `ExtentPool` of pages and implements an `ExtentPool` of bytes.
`KernelLog` puts the two together, with `PageAlloc` in place of the ideal pool and
the kernel's own calls in place of arbitrary clients, and checks that this heap
still implements `Liballoc`.
`Interrupts` shows that the body of a heap call is never interrupted by another
one, which is why `Liballoc` and `PageAlloc` need no concurrency, and that at
most one handler is short of its end-of-interrupt, which is why a tick in
`Ktimer` and a handler in `Ps2` run to their end. `Startup` ends where
`Interrupts` begins: its redirection tables say which line raises which vector. `Ktimer` shows that tasks run
on their interval, which is why `Ps2` counts time in windows of one interval.

### Conventions

A step is an instruction, a loop iteration or a stretch of code that neither
reads nor writes what another activation writes. The kernel is built without
optimisation, so memory accesses happen in program order. Variables bear the
names of the source; `pc` and the cursors stand for a call in progress. Where
the code writes through a null pointer, panics or loops for ever, the model
moves to a state with no successor (`fault`, `panic`, `hung`, `spin`,
`garbled`): the properties say which of these can be reached. Definitions whose
names end in `_Mutant` are plausible errors of the code, kept beside what they
alter; no behaviour uses them. They show that each property can fail.

### PageAlloc

A pointer to a record is its index, an address is a page number. The variables
are the two list heads, the fields of the records and the cursors of the call in
progress; `live` and `onList` are ghosts. `AllocExact`, `AllocSplit`,
`AllocAdvance` and `AllocFail` are the branches of the loop of
`kmem_liballoc_alloc`; `CallFree`, `FreeAdvance`, `FreeMerge`
and `FreeInsert` those of `kmem_liballoc_free`, each with the
trailing statement (`AbsorbPage`) that merges once more. Sizes are taken modulo
2^16.

`kmem_liballoc_free` does not do its work for every legal free. `Servable` is the
weakest condition under which it does: something is free, and either the freed
extent follows a listed one, or a record is spare, nothing listed past the head
begins where the freed one ends, and the new record would not be unlinked in
the same call. `PageAlloc` lets clients make servable frees only: its runs and
theorems say that inside this discipline the code is a page source. The kernel
does not keep to it, and `KernelLog` shows what happens then: the actions take a
record that is in use, as the code does (`FreeInsert`), merge without moving a start
(`FreeMerge`) and unlink what they have just linked (`AbsorbPage`).

The allocator is modelled at its interface with the lock taken; who may call it is
`Interrupts`.

### Liballoc

Addresses are byte numbers; the tags in memory are a function from addresses to
tags, so that a tag swallowed by a merge or overwritten by a client's bytes is
gone from it. Bins, neighbours, the counts of whole blocks and the wrapping
arithmetic of the fit test and of the division of a piece are the code's. One
step is an iteration of the search or merge loop, or the straight code between
two loops. A call of `kmem_realloc` goes through the states of its `kmem_malloc`,
its copy and its `kmem_free`. `AddBlock` is what `kmem_malloc` does with an extent that the
page source has granted. Left out: the magic number (tags are only reached
through pointers the model shows right), the content of regions, the locked read
of the old size in `kmem_realloc` (no two activations share a region) and the
`size` field of free tags (never read).

### Interrupts

There is one stack of activations: `kernel_main` at the bottom, handlers above.
`idt_int_disable` is three steps (test, `cli`, store), `idt_int_enable` as many; any
of them can be followed by an interrupt when the processor's flag allows it. The
local APIC delivers the highest vector requested unless one of its priority
class is in service, as the hardware does; the end-of-interrupt retires the
highest in service. `Boot` is `kernel_main` from just before `idt_init` on, as a
sequence of calls that log or touch interrupts. The unlock of the first log line
after `idt_init` turns interrupts on, long before `idt_int_enable` at
`i386/pc/kernel.c:113` and before the old PIC is masked; `FirmwareTimer` says whether the
firmware left the timer line of that PIC open, in which case a tick arrives at
the vector of the double fault.

### Ktimer

`kernel_main` adds and removes tasks with interrupts on; every access to the list
is a step and a tick may come between any two. `since` is a ghost that counts
ticks. Nothing in the code resets the link of a task that has been removed, so
adding it again while it still points into the list would tie the list into a
loop: `Addable` is the discipline that avoids it, and the kernel, which adds
three tasks once, keeps to it. `RemoveTask` removes only the head, as the code does:
its loop compares against a local variable that hides the parameter.

### Ps2

Time passes in windows of `PS2_INTERVAL` (5 ms): the timer task of the controller,
the two halves of the manager's, and at times the port check. Between them come
the interrupts of the ports, what the devices do, and the one check that
`ps2_manager_init` runs in `kernel_main` with interrupts on (`MainCheck`,
`MainTest`, `MainSend`). A device is modelled by its answers (`Answer`, `Id`,
`Scans`); `line` holds the bytes on their way.

Assumptions about the environment: a controller that is busy becomes ready in
the end (a stuck one hangs the kernel, since the waits in handlers count on the
timer interrupt); a byte reaches its handler before the next window is over
(`late`; a byte takes about 1 ms); `ps2_manager_init` is over before the check it
has scheduled. The seven bytes of the keyboard's setup count as one command with
two acknowledgements. A byte that arrives while the setup waits for the
controller's configuration is written back as that configuration; nothing is
said after that (`stopped = "garbled"`). `ps2_controller_has_second_port` is false in
every build, so the port check looks at the first port only.

### Paging, Acpi, Startup

Everything here runs once, alone, with interrupts off, over what firmware and
memory happen to hold: the initial states are machines (`machine`), each with two
searched areas, the tables its paragraphs lead to, the chips that answer at
addresses, and the entries that are not empty in page tables yet to be made
(`junk`). `paging_map` is one step; a table is taken for the first page of it that
is mapped and is not cleared, so a stale entry refuses a page, and what was mapped
before the refusal stays.

`Acpi` keeps the order of the code: map a page, read the length, unmap, map as many
pages as the length needs, read, unmap. The window of the root table and the window
of the table it lists are `Window(1)` and `Window(2)`; the root pointer is searched in
window 0, which is released at the very end. A read is good only if the very page
is mapped (`Readable`): the code asks for the pages a length needs without
regard to the offset in the first, so a table that straddles a boundary faults.

`memcmp` answers 1 for equal strings and the searches take 0 for equal
(`Taken`), so the pointer found is never the one with the signature. The rest of
the walk is modelled as the code does it, on the paragraph it takes. Tables listed
in an XSDT are read at their physical address, where nothing is mapped.

The test on the number of I/O APICs lets one be written behind the array. What lies
there is up to the build; `overlaid` chooses between the flag of the keyboard
controller, which the write clears and a later FADT may set again, and something
nobody reads.

`Startup` adds the redirection tables, whose entries the firmware left in some state
("left"). `ioapic_init` passes a register address where an index is expected; its low
byte is 0, so the first chip is masked over and over, with the count of the largest.

Taken for granted here: the copy of the MADT can be allocated (`KernelLog` makes the
allocation), and the 1024 device pages suffice.

### MemoryMap, Format, KernelLog

`MemoryMap` and `Format` are operators. `MemoryMap` is the walk as it is: it steps before
it reads, so it leaves out the first entry and takes what lies behind the last one
for another (`Walked`); an unaligned start is rounded by adding its offset
once more; entries of a page table keep 32 bits. `Format` has the loops of the
formatter as functions over their rounds, integers with their width, and `div`
with its errors: it makes as many rounds as the number says, leaves the last bit
out and compares with `>`. Characters are their codes less that of `0`, which is what
arithmetic on digits makes of them.

`KernelLog` has two activations. `main` runs the boot (`BootProgram`): six lines, the walk
of the firmware's tables with its three page tables, a line after the first of
them and `TableLines` later ones, the copy of the MADT, which is never freed, and
`LaterLines`. `keys` is the handler of the keyboard, which logs every byte; once the
keyboard is set up it may come between any two steps of `main` outside a heap call,
and runs to its end. Each line is `BeginLine`, the steps of `Liballoc` and `PageAlloc` as far
as a line takes them, `FormatLine`, the steps of `vga_write_line`, and `BeginKfree` with the
steps of both again. A line never finds a piece in its bin: a whole block that was
freed is kept in the bin of its own size, and none is split off that a line fits
in; so the search ends at once, and of the merges only those to the right happen.
Should it be otherwise, no action would be enabled and `LinesEnd` would fail.

`line` is what `vsnprintf` wrote into the buffer. `log`, `raced`, `nested` and `recycled` are
ghosts: the texts given to the screen in order, whether one was put inside another's
`vga_write_line`, whether a line was begun inside another, and whether pages were
taken elsewhere than from the front of the large extent the list begins with. `Walk` gives
the records on the list as the least set that holds its first and is closed under `next`, so
that it needs no recursion.

Calls are made on any list, one that offers pages somebody holds (`~Sane`) included, as the
code makes them. When such a page is given out (`Granting`), the activation is at "shared" and
the model ends: two clients now write over each other's bytes, tags among them, and what comes
of it depends on the order of those writes. The run of `KernelLog.cfg` comes to such states, with
lines begun inside others and without: freed blocks have merged, the merge has not moved the start
of what it grows (`kmem.c:102`), the large extent is used up, and a line is given pages another's
buffer lies in. The properties about the heap say up to where they hold: until then, and not
before a line was begun inside another or the large extent failed to serve.

A `kmalloc` that walks to the end of a list that is not empty, and one served by a piece
found in a bin, are not steps of `KernelLog`: the boot makes neither, and
`LinesEnd` would fail at a state where a line needed one.

When the map has no room for the heap, `Program` is the first line and the panic, over
a free list that is still the zeroes of `.bss` (`NoMemory`).

## 3. What is checked

| Configuration | Specification | Shows |
|---|---|---|
| `PageAlloc.cfg` | `FairSpec` | pages have one owner (`NoOverlap`), none is lost (`NoLeak`), spare records are spare (`SparePoolSound`), the inductive invariant (`Inv`, which holds that the list is ordered and merged), calls return, the page source is implemented (`PageSourceSpec`) |
| `Liballoc.cfg` | `FairSpec` | pieces tile their blocks, free neighbours are merged and blocks go back whole (`BlocksSound`), bins and the counts of whole blocks are exact (`BinsSound`), regions lie in their pieces, the heap implements a pool of bytes, calls return |
| `Interrupts.cfg` | `FairSpec` | exclusive heap, one handler in service, right flag, the inductive invariant; interrupts come back on, all are taken, the boot ends |
| `InterruptsUnlock.cfg` | `Spec` | fails: the unlock turns interrupts on that its lock found off |
| `Ktimer.cfg` | `FairSpec` | tasks run never late and never early, nobody is dropped, ticks end |
| `Ps2.cfg` | `FairSpec` | an identification always has its timer running, ends, and is right unless disturbed; a keyboard that answers stays connected; an empty port is noticed |
| `Ps2Presumed.cfg` | `FairSpec` | fails: a mouse is taken for a keyboard |
| `Startup.cfg` | `FairSpec` | windows are empty when the next table is mapped, a stop has its cause in the firmware or in memory, what is found is what the tables say, each line arrives on every I/O APIC where the overrides say and on no other pin, and the other pins of the first I/O APIC are masked (`LinesRouted`), the walks end |
| `StartupAbsent.cfg` | `Spec` | fails: "Cannot find ACPI tables" with a root pointer in place |
| `StartupMasked.cfg` | `Spec` | fails: pins of an I/O APIC behind the first keep what the firmware left |
| `KernelLog.cfg` | `LogFairSpec` | pages stay with one owner while the large extent of the beginning lasts (`PagesApart`), the screen shows the end of the log (`ScreenShowsLog`), a line stays in its buffer and is terminated (`BufferHoldsLine`), hexadecimal numerals are right and fit theirs (`HexNumeralsRight`), the heap lies in memory on every map (`HeapInRam`), the heap over `kmem.c` implements `Liballoc` but for the step that gives out what somebody holds, and that step takes a line inside another or a large extent that fails to serve (`ImplementsLiballoc`), lines end or memory is shared (`LinesEnd`) |
| `KernelLogMemory.cfg` | `LogSpec` | fails: an ordinary boot loses pages |

### Disagreements between code and comments

1. `kmem.c:76`: "This frees previously allocated memory". In an ordinary boot it does
   not: every line takes a new block; from the sixth on, each gives one back;
   the page tables and the copy of the MADT, which stay, lie between the blocks given
   back, so these need a record each; and only two records are ever spare
   (`kmem.c:22`). The third stand-alone extent takes a record that is on the list, and the
   pages that record stood for are gone.
2. `ioapic.c:43`: "Disable interrupts" stands inside the loop over the I/O APICs, but
   `ioapic_set_entry` is passed a register address where it takes an index. The first chip is
   masked once for every one found, and the pins of the others stay as the firmware left them.
3. `idt.c:94`: "If it disabled interrupts, it enables interrupts": the unlock
   enables them whatever the lock found.
4. `manager.c:140`: "Keyboard doesn't want to configure because it already is": the
   device may as well be a mouse whose answer comes late.
5. `string.c:15`, `acpi.c:316`: `memcmp` is inverted, so the search passes over the root
   pointer and the panic "Cannot find ACPI tables" (`acpi.c:349`) is said of machines
   that have it where it was looked for.

Seen without a configuration of their own, because nothing written in the repository
speaks of them:

* A machine without room for the heap is not told so: the line of `klog_init`
  (`kernel.c:79`) writes through NULL before `kernel.c:82` comes to its panic, and page 0 is not mapped.
  `KernelLog` stops there (`fault`).
* With memory exhausted `kmem_realloc` and `kmem_calloc` (`kmem_liballoc.c:497` and `:527`) write
  through the null pointer `kmem_malloc` gave them, and `kmem_realloc` then frees the old
  region. `Liballoc` stops there (`fault`).
* `kmem.c:85`: with an empty free list a free panics with "not enough free page structs",
  though records are spare; the branch behind that would take one is dead.
  The kernel never allocates every page. `PageAlloc` stops there (`panic`).
* `kmem.c:102`: a forward merge grows the successor but does not move its start. After
  enough lines the list offers pages behind what was freed; a key pressed while `main` logs
  can have that effect much earlier (`nested`). Some five hundred lines into the kernel's life the large
  extent of the beginning is used up and what was freed serves in its place (`recycled`): lines
  then overwrite each other's buffers and the copy of the MADT. `PagesApart` and
  `ImplementsLiballoc` say that nothing of the kind happens before.
* `%d` (`stdlib.c:8`): numbers up to 21 are printed as the digit of their half (20 as a
  colon), larger ones as something else again, and for 33 to 37, 44 and many above 50
  the loops of `div` run 10^8 to 10^9 rounds; the handler of the keyboard prints every scan
  code with it. `Format` has that loop, but no property speaks of it: what a decimal
  numeral shows is promised nowhere, that many rounds are out of TLC's reach, and words of
  fewer bits say nothing of 32, since the quotients come from shifts by the width.
* A line of the keyboard's handler inside a line of `main` (`raced`) moves the cursor under it:
  one of the two overwrites the other, or the cursor passes the last row, from where
  the test for equality (`vga.c:31`) never scrolls again.

### Bounds, and why they are enough

* `PageAlloc`: 6 pages, requests of 1 to 3. Three records circulate, so a list of
  three with gaps and held extents between them is the largest shape there is:
  it takes five pages. The proofs cover every size.
* `Liballoc`: 6 pages of 8 bytes, blocks of at least two pages, header 1, bins 2 to
  6, sizes 1, 6 and 16 (less than the quantum, part of a block, a block larger
  than the minimum), one whole block kept per bin (five in the code). Three blocks
  can exist at once, so a bin can overflow; a block can hold three pieces, so
  merges happen on both sides. Memory runs out
  at the third large region.
* `Interrupts`: two interrupts, so that two handlers can lie on top of `kernel_main`;
  the proofs cover every number.
* `Ktimer`: three tasks as in the kernel, intervals up to 3 so that all ratios of
  short and long occur, counters modulo 8 in place of 2^32.
* `Ps2`: the timeout is 2 windows (4 in the code: 20 ms), a check every 2 windows,
  silence allowed for 4. What matters is the ratio of silence to check (3000 and
  1000 ms in the code, 4 and 2 here): a ratio of r tolerates r - 1 lost messages.
  With a ratio of 3, two losses were tried by hand and are survived, three
  are not. Buffer of 3, one plugging-in, one lost message, one key in flight, one
  port populated.
* `Startup`: pages of four units and tables of four pages, so that a table of the
  firmware can end in, on and behind a page boundary and be longer than a window;
  windows one table apart (four in the code); three page tables, all that the
  windows need. Two processors and two I/O APICs fit (16 and 16), and the MADTs have
  up to four structures of seven kinds in every order, so both arrays overflow, the
  I/O APICs by two.

* `KernelLog`: blocks of two pages of 8 bytes, and the kernel's five whole blocks kept
  per bin, so the sixth line is the first to give a block back; the three
  page tables and the MADT as in the kernel; 34 pages, even because the number left by
  the tables must not be a multiple of a block, as in the kernel
  ((8192 - 3) mod 16 = 13). Two lines before and four behind the MADT and four keys, each
  of which may fall anywhere: more lines than the screen's three rows, than the
  blocks kept and than the records there are, and enough that the large extent is used up
  and memory is shared. Messages that fit, that the
  screen cuts and that the buffer cuts, with `%d`, `%x`, `%s` and `%p`. Words of 30 bits, not 32,
  since TLC's integers have 32 with their sign; nothing printed here comes
  near either, and the decimal numbers printed are so small that no shift of `div` comes
  to the width of a word. The hexadecimal numerals are those of all bytes and of words of any length. 420 memory maps:
  three entries, aligned or not, around the size that is just enough, with and
  without something behind the map that looks like an entry.

### Fairness

Weak fairness of a call's steps in `PageAlloc` and `Liballoc`: a call runs with
interrupts off, nothing takes the processor away. In `Interrupts`, weak fairness
of the running activation and strong fairness of the delivery of each line: the
processor takes a pending interrupt when it is enabled often enough, though an
activation may turn interrupts off in between. In `Ktimer`, weak fairness of the
tick that has begun. In `Ps2`, weak fairness of the timer together with
`kernel_main`, and of the handler of each port: what `InterruptsTaken` and
`BootCompletes` establish. In `Startup`, weak fairness
of the one sequence of steps, which nothing interrupts. In `KernelLog`, weak fairness
of `Progress`, the step of whoever is on top. Devices, clients and
interrupts are never forced to act.

`CHECK_DEADLOCK FALSE` is set where the system stops by design: the idle loop, a
panic, a spinning exception handler, a write through NULL.

## 4. What is proved

For every value of the constants that meets the assumptions of the modules:

* `PageAllocProofs`: `Invariance`, and from it `TypeCorrect` (16-bit sizes never
  wrap), `PagesHaveOneOwner`, `NoPageIsLost`, `FreeListCoalesced`,
  `SpareRecordsAreSpare`, and `ImplementsPageSource`, the refinement of
  `ExtentPool`.
* `LiballocProofs`: `HeapInvariant`, and from it `HeapTypeOK`, `HeapBlocksSound`
  (blocks lie in their region, do not overlap, are merged), `HeapBinsSound`,
  `HeapRegionsInPieces`, and `HeapImplementsPool`, the refinement of `ExtentPool`.
* `InterruptsProofs`: `Invariance`, and from it `TypeCorrect`, `HeapIsExclusive`,
  `HandlersOneByOne`, `FlagIsRight`.
* `KtimerProofs`: `TimerInvariant`, and from it `TimerTypeOK`, `TasksNeverLate`,
  `TasksNeverEarly`, `OthersKept` (unlinking a task leaves the others linked).
* `Ps2Proofs`: `PortsTypeOK`, `IdentificationAlwaysTimed`, under `Tolerance`
  `KeyboardKeptAlive`, and under `Patience` `IdentificationIsRight`.
* `MemoryMapProofs`: `HeapIsMemory`, and from it `KernelLogProofs`: `HeapIsInRam`.
* `StartupProofs`: `StartupInvariant`, and from it `StartupTypeOK`, `WindowsAreReleased` and
  `StopsAreExplained`, the last two for machines whose tables fit their windows (`Fitting`).
* `KernelLogProofs`: `ScreenShowsLastLines`: the screen shows the last lines of the
  log, unless a writer was interrupted by another one. `PagesStayApart`: the list offers nothing that is held, as long as
  lines come one after another and the large extent serves them.
  `SharingTakesNesting`: before that ends nobody is given what another holds.
  `HeapUnderLogIsLiballoc`: every step of the heap over `kmem.c`'s own list is one of `Liballoc`, a
  stutter, or the one that gives out what somebody holds; with `HeapImplementsPool` that makes it a
  pool of bytes up to that step (`HeapUnderLogIsPool`), in which the lines and the copy of the MADT
  share no byte unless that step was taken (`LinesShareNoByte`). The last three have no hypothesis
  about the list: calls are made whatever it offers. `BuffersHoldTheirLines`: a
  line is in its buffer until it is on the screen, if what `vsnprintf` makes
  of the formats ends and fits (`TextsFit`).

*The assumptions.* `NumPagesAssumption`: more than 2 pages and fewer than 2^16.
`RequestsAssumption`: a request, and the product of a `calloc`, stays a 32-bit word with a header
added; the code does not check it, so it is an obligation of the callers (the
hazard at `kmem_liballoc.c:495`). The log's requests are 300 bytes and the length of the MADT, of which
`KernelLogAssumption` asks the same. `TextsAssumption`: texts are sequences of
characters. `TextsFit` is a hypothesis and not an assumption: it says of
`Format`'s recursive functions what TLC finds out for the formats of a run. `Tolerance`: the check of the ports comes round, with as many bytes lost in a row as the
device may lose, before the echo is due; the kernel's 1000 ms and 3000 ms tolerate two. `Patience`: an identification is given more than
one window and its buffer has room for more than one byte (four of each in the kernel). `WindowsAssumption`: the searched area is shorter than a window, the three windows lie within the
directory's bound, and there is memory for their page tables (two pages in a window of
16 MB, at the top of the directory, among thousands of pages).
`FirmwareAssumption`: where a reader expects a number there is one; tables of any
number, size, place and order, structures that state any length, any entries in the page
tables (`junk`). Any
number of interrupts, ports, tasks and lines, any intervals, any `FirmwareTimer`; any
sizes and any maps of the boot loader.

*The argument for the page source.* `NoOverlap` is not inductive: a walk could end at
a record that is not listed. `Inv` adds the shape of the list (`ListShape`: at most
three records, because only three circulate, written out so that no
recursion is needed), the spare chain (`SpareShape`), what the cursors know
(`CursorsSound`: they are on the list, side by side, and the argument lies
behind `prev`), and that the list is merged (`Coalesced`, without which a
free could touch an extent its walk has passed). `Servable(arg)` is part of
`CursorsSound` because the list does not change between the call and its last
step. The proof has one lemma per action; lemmas `Listed` and `Held` give the
bounds of an extent from its membership.

*The argument for the heap.* The inductive invariant is `HeapOK /\ RegionsHeld /\ CallState`.
`HeapOK` is about the boundary tags: neighbours point at each other and lie side by
side (`PiecesOf`), a bin's list is linked both ways (`ListsOf`), blocks of pages lie
apart (`BlocksApart`) and are filled from end to end by pieces (`InBlocks`), a free
piece is in the bin of its size (`Sized`) and next to no free piece (`Merged`), and
the counts of whole blocks are right (`Counted`). `RegionsHeld` says that the pieces in use
are the clients' regions and the one a free in progress holds; `CallState`, what a
call in progress has established. `RemoveTag`, `InsertTag`, `Swallow`, `SplitTag` and
the change of a piece's size each have a lemma that gives the heap they leave; the
actions are proved from those. Refinement: two regions are in pieces that
lie apart (`RegionsApart`), so `Deliver` is `Alloc` of the pool, `BeginFree` is its
`Free`, and every other step stutters.

*The argument for interrupts.* `HeapExclusive` is not inductive either: the unlock of a
handler may run while the activation below is inside the switch. `FlagInvariant`
says when the stored flag may disagree with the processor's, only while the
running activation or the one it interrupted is between two steps of the switch;
`StackInvariant` that everything below the top was interrupted with interrupts on,
so not inside the heap, and that the depth is paid for by interrupts raised, so
the stack is bounded; `OneInService` that the local APIC has exactly the line of the one
handler short of its end-of-interrupt. The three vectors lie in one priority class
(`OneClass`), which is what keeps a second handler out after an early `sti`.

*The argument for timer tasks.* `since` counts the ticks a task has waited for, and a
tick counts the task's counter down when the walk comes to it: `OnTime` says that the two
add up to the interval, and to one more while the walk has yet to come to the
task. That needs the list: `Visits(t)`, the least set that holds `t` and is closed
under `next`, is what a walk from `t` still visits. `CursorLinked` says that the walk
is on the list, `Acyclic` that no task lies behind itself, so that a walk comes to each
task once; `WalkedStep` and `WalkedLink` say how the set changes when the walk moves and when a task is
linked.

*The argument for the ports.* `IdentificationTimed` is inductive with `Schedule`, the
order of the timer's tasks and `kernel_main`'s check within a window. `Heard` is about
the keyboard's echo: by `InTime`, the windows since the last one and those until the next
check are together at most one `CheckInterval` for each byte lost in a row and one
more (`Bound`), with exceptions while an echo is on the wire. Under
`Tolerance` that is below the time-out, which is what `KeepsAlive` needs.

*The argument for the identification.* `IdentifiedRight` speaks of one moment, the end of
the time of an identification; `Undisturbed` says what holds until then, as long as
nothing is lost. What was read, with the front of the line behind it, is the
identification (`Front`), and any data further back comes after the result of a self-test,
which ends the identification before they are read. They come from a device that
reports keys, and one that is being identified was told not to; unless it was reset or plugged in
again, and then that result is on the line (`Silent`). And all is read in time
(`Served`): while bytes are unread, there is more than one window left, or the last one
may not end before they are read (`late`).

*The argument for the screen.* `Screened` gives the rows at every statement of
`vga_write_line`: `AtRest` between two lines (the rows above the cursor hold the last
lines, those below are blank); then a full screen before and after it has
scrolled; then the row that is being put, up to its column. It is claimed as long as no
writer has interrupted another (`raced`), as the property is.

*The argument for the heap under the log.* `ImplementsLiballoc` is no invariant and needs one: that
what the list grants is a step of the ideal page source. `Kept` says why, up to the step it excepts. The list's
records stay those that circulate (`Links`), which holds even when the list has been
damaged; extents that are held begin at different pages (`Owned`); and nothing that is held has been given
out again (`~Shared`). A step that grants pages grants fresh ones, and then `Kept` is kept
(`FreshGives`), or it gives out what somebody holds (`Sharing`): then a line was begun inside
another or the large extent failed to serve, for otherwise the list is in order and
has nothing else to give (`Orderly`, `SaneFresh`, `SharingRare`), and the model is over (`Over`,
`OverStops`). `Sound` is the invariant made of the two: `Kept` and `Orderly`, or `Over`. `Phases` ties the calls in progress to the activation on top: what
the heap is asked is what the line under way asks, and an interrupted activation is
in no heap call. `Buffers` and `Regions` follow the regions: each buffer is a
region of its own at the front of a block of its own, so that a line's `kfree` gives back
what its `kmalloc` took and nothing of another's. The heap's own
invariants are not proved again: a step of the log is a step of `Liballoc` or a
stutter (`Followed`), so the theorems about `Liballoc` hold of it as long as `Over` does not.

*The argument for the pages.* `PagesApart` is not inductive, and its predecessor, which excused
the list once less than a block was left of the large extent, did not hold for all sizes:
a smaller request passes over what is too small for it, and one of exactly the
right size is served by a freed extent. So `recycled` says when the excuse begins.
Until then `Sorted` holds: all that was granted lies below the large extent, and behind it the list
has one of three shapes (no record, record 1, records 1 and 8191), between which a
free moves it with the spare chain (`ShapeA`, `ShapeB`, `ShapeC`). What keeps a free from damaging
the list is not in `kmem.c` but in its clients, who free in the order of a
stack: `Stacked` says that what is freed is the extent granted last, or lies above
everything else that is held or listed (`OnTop`). A line begun inside another breaks
exactly that, whence `nested`.

*The argument for the start-up.* `WindowsReleased` says nothing of a page that a read relies
on, and `StopsExplained` nothing before the boot stops; neither is inductive. `Shape` says which tables are open at
each statement and that they are the firmware's. `Mapping` says of each window how many
of its pages are mapped (`Count`), that those were clear when their table was taken, that the
others hold what they held (`Holds`), and which frames they show (`Shows`). A
read therefore faults exactly if its unit lies behind the pages that the length asks for
(`ReadableIff`), and so only if the table straddles (`StraddlesIff`). `Walked` is what the reads
that did not fault have shown: a table whose header was read has it in one page, an
element read lies in the pages mapped, a table closed was clean and, if it is an
MADT, copied whole and thus not straddling. When the walk ends that covers every table,
which is the claim about a boot that ends well; and a missing copy means that no
table was an MADT. `Fitting` cannot be dropped: a root table of more than 16 MB spills into the
next window, where its pages are mapped although no table is read through it, and an MADT
of more than 16 MB may well boot, with its pages behind the last window.

*The argument for the memory map.* The entry taken is available, which what lies behind the
map is not (`Plain`), so it is one of the map's (`HeapEntryFits`). Its length counts from
the unaligned start, and the heap is looked for an offset further on; but the
same offset was taken off the length, so the heap ends before the entry does, and
below 4 GiB, where the 32 bits of a page table entry lose nothing. Rounding down
to pages costs less than a page at the front, and the kernel's share of the
entry lies there; pages a page apart stay apart (`RoundedApart`).

*Only model-checked*: of `Startup`, `TablesRead` and `LinesRouted`, whose reference readings of
the MADT are recursive; of `KernelLog`, `HexNumeralsRight`, and that the texts of a run
meet `TextsFit`, both about the recursive functions of `Format` (induction over data is
out of the prover's reach); and all liveness,
which is out of its reach too.

*What the proofs changed.* `Answer` of `Ps2` had two cases that overlapped, of which TLC took the
first. `Liballoc` needed `RequestsAssumption` said aloud. `Linked` of `Ktimer` and
`Walk` of `KernelLog` were recursive walks. `PagesApart` had the excuse that is described above.
`ioapic_all_set_entry` and `idt_init` were folds; the first is now one function over the chips
reached, the second its three calls.

## 5. What is not modelled, and why

* `paging_get_physical` (its one caller is `paging_map`), `paging_map_to_handler` (a
  stub).
* `detect.c`, `msr.asm`, `gdt.c`, the packing of descriptors in `idt.c`, the assembly
  start-up: straight-line code over constants or hardware, nothing to interleave.
* `rtc.c`, `nmi.h`, the inter-processor commands of `lapic.c`, `pit_sleep`, `cpu_reset`,
  the LEDs: no caller.
* `CONFIG_PS2_CONTROLLER_INIT`: compiled out in every build.
* `vsscanf`, `sscanf`, `strtoul`: no caller. The prefix `ll` of a directive: in no format. Colours on
  the screen. `%s` of NULL.
* A controller that stays busy: the waits in handlers would never end, and no property
  survives that. With it go the countdowns of the second port (`controller.c:45`), which
  only such a wait reads.

## 6. Plan

Done: `ExtentPool`, `PageAlloc` (with proofs), `Liballoc`, `Interrupts` (with
proofs), `Ktimer`, `Ps2`, `Paging`, `Acpi`, `Startup`, `MemoryMap` (with proofs),
`Format`, `KernelLog`: the memory first, since everything stands on it, then the
concurrency it relies on, then the two components that live in handlers, then the
way from power-on to the first interrupt, and last the composition of heap, page
source, log and screen.

The proofs follow the same order: the page source, the switch and the memory map, then the
heap, the timer, the ports, the start-up and the screen, and last the composition, where the
theorems about the heap are used on the heap under the log. What is left to TLC is listed in
section 4: it needs induction over data or fairness.
