------------------------------ MODULE KernelLog ------------------------------
(***************************************************************************)
(* The kernel's log (klog.c), its text screen (vga.c) and the heap under   *)
(* them: the log lines of the boot, one after another, and those of the    *)
(* keyboard's interrupt handler, on top of them, as the clients of         *)
(* kmem_liballoc.c (module Liballoc), which is in turn the client of       *)
(* kmem.c (module PageAlloc).  What a line says is format.c's (module      *)
(* Format); whether there is a heap at all is decided by the boot loader's *)
(* memory map (module MemoryMap).                                          *)
(*                                                                         *)
(* Two activations share all this: kernel_premain and kernel_main ("main") *)
(* and the handler ("keys").  A heap call runs with interrupts off; every  *)
(* step of a line outside one can be followed by the handler, and the      *)
(* handler runs to its end before main goes on.                            *)
(***************************************************************************)
EXTENDS PageAlloc, Sequences, FiniteSetsExt

CONSTANTS
    PageSize, PageCount, Hdr, MinExp, MaxExp, MaxComplete,     \* as in Liballoc
    FrameSize, KernelFrames, AddressLimit,                     \* as in MemoryMap
    LineBytes,      \* the buffer of a log line, 300
    MadtBytes,      \* the length of the MADT, which is copied to the heap
    TableLines,     \* log lines of acpi_init before it copies the MADT
    LaterLines,     \* log lines of the boot behind that
    WordBits, NumeralBytes,                                    \* as in Format
    Messages,       \* formats, with arguments, the boot's lines go through
    Keys,           \* the bytes the keyboard sends: bounds its lines
    Height, Width,  \* vga_height, vga_width
    Maps            \* memory maps of the boot loader

VARIABLES
    tag, freePages, completePages, used, hpc, hcur, hsize, hcall, \* the heap's
    tables,         \* the pages paging_map took for page tables
    memorySetup,    \* the walk has found memory for the heap
    called,         \* what main has got to in Program
    keys,           \* lines the keyboard's handler has begun
    recycled,       \* ghost: pages were taken elsewhere than from the front of
                    \* the extent record 0 begins with
    at,             \* where an activation is
    buf,            \* the buffer of its line
    line,           \* what vsnprintf wrote there
    col, reg,       \* its column on the screen, its copy of the cursor
    vga_y_pos, screen,
    log,            \* ghost: the texts given to the screen, in order
    raced,          \* ghost: a line was put inside another's
    nested          \* ghost: a line was begun inside another

heapVars == << tag, freePages, completePages, used, hpc, hcur, hsize, hcall >>
bootVars == << tables, memorySetup, called, keys, recycled >>
screenVars == << col, reg, vga_y_pos, screen, log, raced >>
lineVars == << buf, line, nested, screenVars >>
logVars == << vars, heapVars, bootVars, at, lineVars >>

H == INSTANCE Liballoc WITH
        held <- live \ tables, pc <- hpc, cur <- hcur, size <- hsize,
        call <- hcall, Sizes <- {LineBytes, MadtBytes}, Counts <- {1}
M == INSTANCE MemoryMap WITH HeapFrames <- NumPages
F == INSTANCE Format

ASSUME KernelLogAssumption ==
    /\ H!LiballocAssumption /\ H!RequestsAssumption
    /\ M!MemoryMapAssumption
    /\ Maps \subseteq M!Map
    /\ F!FormatAssumption
    /\ {Height, Width, MadtBytes, Len(Messages)} \subseteq Nat \ {0}
    /\ LineBytes \in Nat \ {0, 1}

NoLine == [text |-> << >>, terminated |-> FALSE, bytes |-> 0, result |-> 0]
Blank == F!Space
Activations == {"main", "keys"}

-----------------------------------------------------------------------------
(* What kernel_premain and kernel_main ask of the heap and of the screen.  *)
(* acpi_init maps three windows, each with a page table of its own.  The   *)
(* lines up to "Loading ACPI..." are six.                                  *)
Lines(n) == [i \in 1 .. n |-> "line"]

BootProgram ==
    Lines(6) \o << "table" >> \o Lines(1) \o << "table", "table" >>
        \o Lines(TableLines) \o << "madt" >> \o Lines(LaterLines)

(* klog_init comes before the test of memorySetup. *)
Program == IF memorySetup THEN BootProgram ELSE << "line", "panic" >>

(* The keyboard is set up before the last line, "Kernel ready!".           *)
KeyboardReady == memorySetup /\ called >= Len(BootProgram) - 1

(* main runs unless the handler is on top of it. *)
Runs(a) == a = "keys" \/ at["keys"] = "idle"

(* Somebody has got pages that another holds, or that are none of the      *)
(* heap's.  The model ends there: what comes of it depends on who writes   *)
(* over what in memory.                                                    *)
Shared == \E a \in Activations : at[a] = "shared"

(* No heap call is in progress. *)
Quiet == pc = "idle" /\ hpc = "idle"

(* The records a walk of the free list from kmem_free_pages visits: those  *)
(* in every set the list does not leave.  (Only CircStructs are linked.)   *)
Closed(S) ==
    /\ kmem_free_pages \in S \union {NULL}
    /\ \A q \in S : next[q] \in S \union {NULL}

Walk == {q \in CircStructs : \A S \in SUBSET CircStructs : Closed(S) => q \in S}

(* Nobody holds what the free list offers. *)
Sane ==
    \A q \in Walk : Within(ptr[q], size[q]) /\ \A e \in live : PS!Disjoint(Extent(q), e)

(* Before memory_kernel_init the free list is the zeroes of .bss. *)
NoMemory ==
    /\ kmem_free_pages = NULL /\ kmem_alloc_pages = NULL
    /\ ptr = [i \in Structs |-> 0]
    /\ size = [i \in Structs |-> 0]
    /\ next = [i \in Structs |-> NULL]
    /\ pc = "idle" /\ arg = NoArg /\ prev = NULL /\ page = NULL
    /\ live = {} /\ onList = {}

LogInit ==
    /\ memorySetup \in {M!MemorySetup(m) : m \in Maps}
    /\ IF memorySetup THEN Init ELSE NoMemory
    /\ tables = {}
    /\ H!Init
    /\ called = 0
    /\ keys = 0
    /\ recycled = FALSE
    /\ at = [a \in Activations |-> "idle"]
    /\ buf = [a \in Activations |-> H!NULL]
    /\ line = [a \in Activations |-> NoLine]
    /\ col = [a \in Activations |-> 0]
    /\ reg = [a \in Activations |-> 0]
    /\ vga_y_pos = 0
    /\ screen = [y \in 0 .. Height - 1 |-> [x \in 0 .. Width - 1 |-> Blank]]
    /\ log = << >>
    /\ raced = FALSE
    /\ nested = FALSE

Goto(a, where) == at' = [at EXCEPT ![a] = where]

-----------------------------------------------------------------------------
(* klog, kwarning, kerror: kmalloc.                                        *)
BeginLine(a, bytes) ==
    /\ Quiet
    /\ UNCHANGED << vars, tables >>
    /\ H!CallMalloc(bytes)
    /\ Goto(a, "kmalloc")
    /\ nested' = (nested \/ \E b \in Activations : at[b] # "idle")
    /\ UNCHANGED << memorySetup, recycled, buf, line, screenVars >>

MainLine ==
    /\ at["main"] = "idle" /\ Runs("main") /\ called < Len(Program)
    /\ LET op == Program[called + 1] IN
          /\ op # "table"
          /\ BeginLine("main", IF op = "madt" THEN MadtBytes ELSE LineBytes)
    /\ called' = called + 1
    /\ UNCHANGED keys

(* __ps2_keyboard_handle_byte. *)
KeyLine ==
    /\ KeyboardReady
    /\ at["keys"] = "idle" /\ ~Shared
    /\ keys < Len(Keys)
    /\ BeginLine("keys", LineBytes)
    /\ keys' = keys + 1
    /\ UNCHANGED called

(* paging_map asks for a page itself. *)
MainTable ==
    /\ at["main"] = "idle" /\ Runs("main") /\ called < Len(Program)
    /\ Program[called + 1] = "table"
    /\ Quiet
    /\ CallAlloc(1)
    /\ Goto("main", "table")
    /\ called' = called + 1
    /\ UNCHANGED << heapVars, tables, memorySetup, keys, recycled, lineVars >>

(* The extent the record under the cursor is about to give. *)
Granted_Mutant == Extent(page)
Granted == [ptr |-> ptr[page], size |-> arg.size]

Fresh(e) == Within(e.ptr, e.size) /\ \A f \in live : PS!Disjoint(e, f)

(* Where the activation goes that the pages are for. *)
Granting(where) == IF Fresh(Granted) THEN where ELSE "shared"

(* What kmem_liballoc_alloc finds to give. *)
Grant ==
    /\ AllocExact \/ AllocSplit
    /\ recycled' = (recycled \/ page # 0 \/ size[page] = arg.size)

TableGranted ==
    /\ at["main"] = "table"
    /\ Grant
    /\ tables' = tables \union {Granted}
    /\ Goto("main", Granting("idle"))
    /\ UNCHANGED << heapVars, memorySetup, called, keys, lineVars >>

(* A record that is too small is passed over on anyone's behalf. *)
PageAdvance ==
    /\ AllocAdvance
    /\ UNCHANGED << heapVars, bootVars, at, lineVars >>

(* A line finds no free piece in its bin (the blocks lines give back are   *)
(* kept in the bin of a whole block), so kmalloc asks for pages.           *)
AskForPages(a) ==
    /\ at[a] = "kmalloc" /\ Runs(a)
    /\ hpc = "search" /\ hcur = H!NULL
    /\ CallAlloc(H!PagesFor(hsize))
    /\ UNCHANGED << heapVars, bootVars, at, lineVars >>

(* kmalloc returns p. *)
Kmalloced(a, p, where) ==
    /\ buf' = [buf EXCEPT ![a] = p]
    /\ Goto(a, where)
    /\ UNCHANGED << line, nested, screenVars >>

PagesGranted(a) ==
    /\ at[a] = "kmalloc" /\ Runs(a)
    /\ Grant
    /\ UNCHANGED << tables, memorySetup, called, keys >>
    /\ H!AddBlock(Granted)
    /\ Kmalloced(a, H!Address(Granted.ptr) + Hdr, Granting("format"))

PagesRefused(a) ==
    /\ at[a] = "kmalloc" /\ Runs(a)
    /\ hpc = "search" /\ hcur = H!NULL
    /\ AllocFromEmpty
    /\ UNCHANGED bootVars
    /\ H!NoBlock
    /\ Kmalloced(a, H!NULL, "format")

-----------------------------------------------------------------------------
(* What vsnprintf makes of a line of the boot, and of the one the          *)
(* keyboard's handler writes of a byte.                                    *)
BootText == [i \in DOMAIN Messages |-> F!Vsnprintf(LineBytes, Messages[i])]

KeyText ==
    [i \in DOMAIN Keys |->
        F!Vsnprintf(LineBytes,
            << [type |-> "copy", arg |-> Blank],
               [type |-> "d", arg |-> Keys[i], pad |-> "none", width |-> -1] >>)]

(* What vsnprintf writes is a text.  Its functions recur over the format,  *)
(* so TLC evaluates this for the formats of a run, and the proofs use it.  *)
ASSUME TextsAssumption ==
    /\ DOMAIN Messages = 1 .. Len(Messages) /\ DOMAIN Keys = 1 .. Len(Keys)
    /\ Len(Keys) \in Nat
    /\ \A i \in DOMAIN Messages : BootText[i].text \in Seq(Int)
    /\ \A i \in DOMAIN Keys : KeyText[i].text \in Seq(Int)

LineOf(a) == IF a = "keys" THEN KeyText[keys] ELSE BootText[(called % Len(Messages)) + 1]

(* The text, or the copy of the MADT, which stays where it is, is written  *)
(* without a look at what kmalloc returned: NULL is written to.            *)
FormatLine(a) ==
    /\ at[a] = "format" /\ Runs(a)
    /\ CASE buf[a] = H!NULL -> Goto(a, "fault") /\ UNCHANGED line
         [] buf[a] # H!NULL /\ a = "main" /\ Program[called] = "madt" ->
               Goto(a, "idle") /\ UNCHANGED line
         [] OTHER -> Goto(a, "test") /\ line' = [line EXCEPT ![a] = LineOf(a)]
    /\ UNCHANGED << vars, heapVars, bootVars, buf, nested, screenVars >>

-----------------------------------------------------------------------------
(* vga_write_line. *)
Shown(text) == SubSeq(text, 1, Min({Len(text), Width}))

OnScreen == {"scroll", "lower", "put", "advance"}

ScreenFull == vga_y_pos = Height

VgaTest(a) ==
    /\ at[a] = "test" /\ Runs(a)
    /\ log' = Append(log, line[a].text)
    /\ raced' = (raced \/ \E b \in Activations : at[b] \in OnScreen)
    /\ Goto(a, IF ScreenFull THEN "scroll" ELSE "put")
    /\ UNCHANGED << vars, heapVars, bootVars, buf, line, nested, col, reg, vga_y_pos, screen >>

BlankRow == [x \in 0 .. Width - 1 |-> Blank]

ScrolledRow_Mutant(y) == screen[IF y = Height - 1 THEN y ELSE y + 1]
ScrolledRow(y) == IF y = Height - 1 THEN BlankRow ELSE screen[y + 1]

VgaScroll(a) ==
    /\ at[a] = "scroll" /\ Runs(a)
    /\ screen' = [y \in 0 .. Height - 1 |-> ScrolledRow(y)]
    /\ Goto(a, "lower")
    /\ UNCHANGED << vars, heapVars, bootVars, buf, line, nested, col, reg, vga_y_pos, log, raced >>

(* (No handler's line leaves the cursor elsewhere: the decrement is one    *)
(* step.)                                                                  *)
VgaLower(a) ==
    /\ at[a] = "lower" /\ Runs(a)
    /\ vga_y_pos' = vga_y_pos - 1
    /\ Goto(a, "put")
    /\ UNCHANGED << vars, heapVars, bootVars, buf, line, nested, col, reg, screen, log, raced >>

(* A character goes where the cursor is now; behind the last row it goes   *)
(* to memory nobody sees.                                                  *)
VgaPut(a) ==
    /\ at[a] = "put" /\ Runs(a)
    /\ col[a] < Len(Shown(line[a].text))
    /\ screen' = IF vga_y_pos < Height
                 THEN [screen EXCEPT ![vga_y_pos][col[a]] = line[a].text[col[a] + 1]]
                 ELSE screen
    /\ col' = [col EXCEPT ![a] = @ + 1]
    /\ UNCHANGED << vars, heapVars, bootVars, at, buf, line, nested, reg, vga_y_pos, log, raced >>

(* The increment loads the cursor, ... *)
VgaLoad(a) ==
    /\ at[a] = "put" /\ Runs(a)
    /\ col[a] = Len(Shown(line[a].text))
    /\ reg' = [reg EXCEPT ![a] = vga_y_pos]
    /\ Goto(a, "advance")
    /\ UNCHANGED << vars, heapVars, bootVars, buf, line, nested, col, vga_y_pos, screen, log, raced >>

(* ... and stores it. *)
VgaAdvance(a) ==
    /\ at[a] = "advance" /\ Runs(a)
    /\ vga_y_pos' = reg[a] + 1
    /\ reg' = [reg EXCEPT ![a] = 0]
    /\ col' = [col EXCEPT ![a] = 0]
    /\ Goto(a, "written")
    /\ UNCHANGED << vars, heapVars, bootVars, buf, line, nested, screen, log, raced >>

-----------------------------------------------------------------------------
(* kfree(buf). *)
BufRegion(a) == [ptr |-> buf[a], size |-> LineBytes]

BeginKfree(a) ==
    /\ at[a] = "written" /\ Runs(a)
    /\ Quiet
    /\ UNCHANGED << vars, bootVars >>
    /\ H!CallFree(BufRegion(a))
    /\ buf' = [buf EXCEPT ![a] = H!NULL]
    /\ line' = [line EXCEPT ![a] = NoLine]
    /\ Goto(a, "kfree")
    /\ UNCHANGED << nested, screenVars >>

MeltOrKeep(a) ==
    /\ at[a] = "kfree" /\ Runs(a)
    /\ UNCHANGED << vars, bootVars >>
    /\ H!MeltRight \/ H!KeepPiece
    /\ UNCHANGED << at, lineVars >>

GiveBack(a) ==
    /\ at[a] = "kfree" /\ Runs(a)
    /\ hpc = "free"
    /\ CallFree(H!BlockExtent(hcur))
    /\ UNCHANGED bootVars
    /\ H!GiveBack
    /\ UNCHANGED << at, lineVars >>

PageFreeStep(a) ==
    /\ at[a] = "kfree" /\ Runs(a)
    /\ FreeStep
    /\ UNCHANGED << heapVars, bootVars, at, lineVars >>

(* The line is over; behind the line of a panic the kernel hangs. *)
EndLine(a) ==
    /\ at[a] = "kfree" /\ Runs(a)
    /\ Quiet
    /\ Goto(a, IF a = "main" /\ Program[called] = "panic" THEN "hang" ELSE "idle")
    /\ UNCHANGED << vars, heapVars, bootVars, lineVars >>

KmallocStep(a) ==
    AskForPages(a) \/ PagesGranted(a) \/ PagesRefused(a) \/ FormatLine(a)

VgaStep(a) ==
    VgaTest(a) \/ VgaScroll(a) \/ VgaLower(a) \/ VgaPut(a) \/ VgaLoad(a) \/ VgaAdvance(a)

KfreeStep(a) ==
    BeginKfree(a) \/ MeltOrKeep(a) \/ GiveBack(a) \/ PageFreeStep(a) \/ EndLine(a)

LineStep(a) == KmallocStep(a) \/ VgaStep(a) \/ KfreeStep(a)

MainStep == MainLine \/ MainTable \/ TableGranted

Progress == MainStep \/ PageAdvance \/ \E a \in Activations : LineStep(a)

LogNext == Progress \/ KeyLine

LogSpec == LogInit /\ [][LogNext]_logVars

(* The processor runs whoever is on top. *)
LogFairSpec == LogSpec /\ WF_logVars(Progress)

-----------------------------------------------------------------------------
(* No page has two owners: kmem.c's merges leave nothing on its list that  *)
(* the lines, the page tables or the copy of the MADT lie in, as long as   *)
(* the large extent of the beginning serves what is asked for and no line  *)
(* was begun inside another.                                               *)
PagesApart == Sane \/ nested \/ recycled

(* The screen shows the last lines of the log, each as much as fits, and   *)
(* the cursor stays on it, unless a handler's line was put inside another  *)
(* (vga_write_line).                                                       *)
ShowsLine(y, k) ==
    \A x \in 0 .. Width - 1 :
        screen[y][x] = IF x < Len(Shown(log[k])) THEN log[k][x + 1] ELSE Blank

ScreenShowsLog ==
    ~raced =>
        /\ vga_y_pos <= Height
        /\ (\A a \in Activations : at[a] \notin OnScreen) =>
              /\ vga_y_pos = Min({Len(log), Height})
              /\ \A y \in 0 .. vga_y_pos - 1 :
                    ShowsLine(y, Len(log) - vga_y_pos + y + 1)

(* What a line writes stays in its buffer, which the heap has not taken    *)
(* back meanwhile, and vga_write_line finds a NUL at its end.              *)
BufferHoldsLine ==
    \A a \in Activations : at[a] \in {"test", "put"} =>
        /\ line[a].terminated
        /\ [ptr |-> buf[a], size |-> LineBytes] \in used
        /\ line[a].bytes <= LineBytes

(* A hexadecimal numeral, of a pointer or of a number the tables of the    *)
(* machine hold, reads as its number, without leading zeroes, and fits the *)
(* 32 bytes it is built in (format_out_hex).  (Of decimal ones nothing is  *)
(* said: what div makes of a number is not its quotient.)                  *)
Value(text) ==
    LET upto[k \in 0 .. Len(text)] == IF k = 0 THEN 0 ELSE 16 * upto[k - 1] + text[k]
    IN upto[Len(text)]

HexRight(n) ==
    LET s == F!Hex(n, 10)
    IN Value(s.text) = n /\ (s.text[1] = 0 => n = 0) /\ Len(s.text) < NumeralBytes

(* Bytes, and words that are runs of ones with one digit off.              *)
Numbers ==
    0 .. 255 \union
        {(2 ^ i + 2 ^ j - 1) % F!Words : i \in 0 .. WordBits - 1, j \in 0 .. WordBits - 1}

HexSound == \A n \in Numbers : HexRight(n)
HexNumeralsRight == memorySetup => HexSound

(* The heap's pages are memory (kernel_premain's walk of the memory map),  *)
(* on every map that leads here.                                           *)
HeapsInRam == \A m \in Maps : M!HeapInRam(m)
HeapInRam == memorySetup => HeapsInRam

(* The heap under the log, over kmem.c, does what Liballoc says it does    *)
(* over an ideal page source, but for a step that gives out what somebody  *)
(* holds.  None does before a line is begun inside another or the large    *)
(* extent of the beginning fails to serve.                                 *)
SharingStep == Shared' /\ (nested' \/ recycled')

ImplementsLiballoc == H!Init /\ [][H!Next \/ SharingStep]_(H!vars)

(* Every line comes to its end, over a list that is out of order too: a    *)
(* line finds memory to be written in, and what main waits for is over at  *)
(* some time, unless memory is shared.                                     *)
LinesEnd ==
    \A a \in Activations :
        memorySetup /\ at[a] # "idle" ~> at[a] = "idle" \/ Shared

(* "This frees previously allocated memory" (kmem.c): between calls every  *)
(* page of the heap is held or listed.                                     *)
FreeReturnsMemory ==
    memorySetup /\ Quiet =>
        UNION {PS!UnitsOf(e) : e \in live}
            \union UNION {PS!UnitsOf(Extent(q)) : q \in Walk} = 1 .. NumPages
=============================================================================
