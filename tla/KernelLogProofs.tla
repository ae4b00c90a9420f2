---------------------------- MODULE KernelLogProofs ----------------------------
(***************************************************************************)
(* Proofs about the log and the heap under it (module KernelLog).          *)
(***************************************************************************)
EXTENDS KernelLog, TLAPS

MP == INSTANCE MemoryMapProofs WITH HeapFrames <- NumPages

(* Whatever the sizes and the boot loader's maps, a boot that goes on has  *)
(* its heap in available memory (kernel_premain).                          *)
THEOREM HeapIsInRam == LogSpec => []HeapInRam
<1>1. ASSUME NEW m \in Maps PROVE M!HeapInRam(m)
  <2>1. m \in MP!Map /\ MP!MemoryMapAssumption
    BY KernelLogAssumption
    DEF M!Map, MP!Map, M!Entry, MP!Entry, M!MemoryMapAssumption, MP!MemoryMapAssumption
  <2>2. MP!HeapInRam(m)
    BY <2>1, MP!HeapIsMemory
  <2>3. QED
    BY <2>2
    DEF M!HeapInRam, M!MemorySetup, M!Plain, M!PageTable, M!Ram, M!Entries,
        M!HeapEntry, M!Candidates, M!LargeEnough, M!Walked, M!UsableLen,
        M!HeapAddr, M!Misalignment, M!Length64,
        MP!HeapInRam, MP!MemorySetup, MP!Plain, MP!PageTable, MP!Ram,
        MP!Entries, MP!HeapEntry, MP!Candidates, MP!LargeEnough, MP!Walked,
        MP!UsableLen, MP!HeapAddr, MP!Misalignment, MP!Length64
<1>2. HeapInRam
  BY <1>1 DEF HeapInRam, HeapsInRam
<1>3. QED
  BY <1>2, PTL

-----------------------------------------------------------------------------
(* The screen.  The invariant says what every row holds at each statement  *)
(* of vga_write_line, as long as no line was put inside another's.         *)
Places == {"idle", "table", "kmalloc", "format", "fault", "test", "written", "kfree",
           "hang", "shared"} \union OnScreen

(* The activations, and the texts that are on their way to the screen.     *)
LinesTyped ==
    /\ at \in [Activations -> Places]
    /\ DOMAIN line = Activations
    /\ \A a \in Activations : line[a].text \in Seq(Int)
    /\ called \in Nat
    /\ keys \in 0 .. Len(Keys)
    /\ at["keys"] # "idle" => keys > 0

Cells == [0 .. Height - 1 -> [0 .. Width - 1 -> Int]]

(* The y rows at the top hold the last y of the first k lines of the log;  *)
(* from row y on nothing is written.                                       *)
Rows(y, k) == \A r \in 0 .. y - 1 : ShowsLine(r, k - y + r + 1)

Clear(y) == \A r \in y .. Height - 1 : \A x \in 0 .. Width - 1 : screen[r][x] = Blank

Least(m, n) == IF m <= n THEN m ELSE n

(* The line that is being put is the last of the log; its row holds the    *)
(* characters before the column.                                           *)
Putting(a) ==
    /\ vga_y_pos = Least(Len(log) - 1, Height - 1)
    /\ Rows(vga_y_pos, Len(log) - 1)
    /\ Clear(vga_y_pos + 1)
    /\ col[a] <= Least(Len(line[a].text), Width)
    /\ \A x \in 0 .. Width - 1 :
          screen[vga_y_pos][x] = IF x < col[a] THEN line[a].text[x + 1] ELSE Blank

OnScreenSound(a) ==
    /\ Len(log) > 0 /\ log[Len(log)] = line[a].text
    /\ at[a] \in {"scroll", "lower"} =>
          vga_y_pos = Height /\ Len(log) > Height /\ col[a] = 0
    /\ at[a] = "scroll" => Rows(Height, Len(log) - 1)
    /\ at[a] = "lower" => Rows(Height - 1, Len(log) - 1) /\ Clear(Height - 1)
    /\ at[a] \in {"put", "advance"} => Putting(a)
    /\ at[a] = "advance" =>
          col[a] = Least(Len(line[a].text), Width) /\ reg[a] = vga_y_pos

ScreenTyped ==
    /\ screen \in Cells
    /\ vga_y_pos \in 0 .. Height
    /\ col \in [Activations -> Nat]
    /\ reg \in [Activations -> Nat]

OneOnScreen ==
    /\ \A a, b \in Activations : at[a] \in OnScreen /\ at[b] \in OnScreen => a = b
    /\ \A a \in Activations : at[a] \notin OnScreen => col[a] = 0

(* Between two lines. *)
AtRest ==
    /\ vga_y_pos = Least(Len(log), Height)
    /\ Rows(vga_y_pos, Len(log))
    /\ Clear(vga_y_pos)

Screened ==
    /\ ScreenTyped
    /\ OneOnScreen
    /\ (\A a \in Activations : at[a] \notin OnScreen) => AtRest
    /\ \A a \in Activations : at[a] \in OnScreen => OnScreenSound(a)

Shows == LinesTyped /\ log \in Seq(Seq(Int)) /\ (~raced => Screened)

-----------------------------------------------------------------------------
LEMMA ScreenSizes ==
    /\ Height \in Nat \ {0} /\ Width \in Nat \ {0} /\ Len(Messages) \in Nat \ {0}
    /\ Len(Keys) \in Nat /\ Blank \in Int
BY KernelLogAssumption, TextsAssumption DEF Blank, F!Space

LEMMA MinIsLeast ==
    ASSUME NEW m \in Int, NEW n \in Int
    PROVE  Min({m, n}) = Least(m, n)
<1>1. Least(m, n) \in {m, n} /\ \A k \in {m, n} : Least(m, n) <= k
  BY DEF Least
<1>2. \A j, k \in {m, n} :
        (\A l \in {m, n} : j <= l) /\ (\A l \in {m, n} : k <= l) => j = k
  OBVIOUS
<1>3. QED
  BY <1>1, <1>2 DEF Min

LEMMA ShownLength ==
    ASSUME NEW text \in Seq(Int)
    PROVE  Len(Shown(text)) = Least(Len(text), Width) /\ Least(Len(text), Width) \in Nat
<1>1. Len(text) \in Nat /\ Width \in Nat
  BY ScreenSizes
<1>2. Min({Len(text), Width}) = Least(Len(text), Width)
  BY <1>1, MinIsLeast
<1>3. Least(Len(text), Width) \in Nat /\ Least(Len(text), Width) <= Len(text)
  BY <1>1 DEF Least
<1>4. QED
  BY <1>2, <1>3 DEF Shown

LEMMA LineTexts ==
    ASSUME LinesTyped, NEW a \in Activations, at[a] # "idle"
    PROVE  LineOf(a).text \in Seq(Int)
<1>1. CASE a = "keys"
  BY <1>1, TextsAssumption DEF LinesTyped, LineOf
<1>2. CASE a # "keys"
  <2>1. \A n \in Nat, m \in Nat \ {0} : (n % m) + 1 \in 1 .. m
    OBVIOUS
  <2>2. (called % Len(Messages)) + 1 \in DOMAIN Messages
    BY <2>1, ScreenSizes, TextsAssumption DEF LinesTyped
  <2>3. QED
    BY <1>2, <2>2, TextsAssumption DEF LineOf
<1>3. QED
  BY <1>1, <1>2

(* Steps that leave the screen and its lines alone.                        *)
LEMMA ScreenStill ==
    ASSUME Screened, ~raced, UNCHANGED screenVars,
           \A a \in Activations : \/ at'[a] \notin OnScreen /\ at[a] \notin OnScreen
                                  \/ at'[a] = at[a] /\ line'[a].text = line[a].text
    PROVE  Screened'
<1>1. UNCHANGED << col, reg, vga_y_pos, screen, log, raced >>
  BY DEF screenVars
<1>2. \A a \in Activations : at'[a] \in OnScreen <=> at[a] \in OnScreen
  OBVIOUS
<1>3. ScreenTyped' /\ OneOnScreen'
  BY <1>1, <1>2 DEF Screened, ScreenTyped, OneOnScreen, Cells
<1>4. (\A a \in Activations : at'[a] \notin OnScreen) => AtRest'
  BY <1>1, <1>2 DEF Screened, AtRest, Rows, Clear, ShowsLine
<1>5. ASSUME NEW a \in Activations, at'[a] \in OnScreen PROVE OnScreenSound(a)'
  <2>1. at'[a] = at[a] /\ line'[a].text = line[a].text /\ OnScreenSound(a)
    BY <1>5 DEF Screened
  <2>2. QED
    BY <1>1, <2>1 DEF OnScreenSound, Putting, Rows, Clear, ShowsLine
<1>6. QED
  BY <1>3, <1>4, <1>5 DEF Screened

LEMMA InitShows == LogInit => Shows
<1> SUFFICES ASSUME LogInit PROVE Shows
  OBVIOUS
<1>1. /\ at = [a \in Activations |-> "idle"] /\ line = [a \in Activations |-> NoLine]
      /\ called = 0 /\ keys = 0 /\ log = << >> /\ vga_y_pos = 0
      /\ col = [a \in Activations |-> 0] /\ reg = [a \in Activations |-> 0]
      /\ screen = [y \in 0 .. Height - 1 |-> [x \in 0 .. Width - 1 |-> Blank]]
  BY DEF LogInit
<1>2. LinesTyped
  <2>1. NoLine.text \in Seq(Int)
    BY DEF NoLine
  <2>2. at \in [Activations -> Places]
    BY <1>1 DEF Places
  <2>3. DOMAIN line = Activations /\ \A a \in Activations : line[a].text \in Seq(Int)
    BY <1>1, <2>1
  <2>4. called \in Nat /\ keys \in 0 .. Len(Keys)
    BY <1>1, ScreenSizes
  <2>5. at["keys"] = "idle"
    BY <1>1 DEF Activations
  <2>6. QED
    BY <2>2, <2>3, <2>4, <2>5 DEF LinesTyped
<1>3. ScreenTyped
  BY <1>1, ScreenSizes DEF ScreenTyped, Cells
<1>4. AtRest
  BY <1>1, ScreenSizes DEF AtRest, Least, Rows, Clear
<1>5. \A a \in Activations : at[a] \notin OnScreen
  BY <1>1 DEF OnScreen
<1>6. OneOnScreen
  BY <1>1, <1>5 DEF OneOnScreen
<1>7. QED
  BY <1>1, <1>2, <1>3, <1>4, <1>5, <1>6 DEF Shows, Screened

-----------------------------------------------------------------------------
(* An activation moves on, with or without a new text. *)
Moves(a, where) ==
    /\ Goto(a, where)
    /\ line' = line \/ \E l : l.text \in Seq(Int) /\ line' = [line EXCEPT ![a] = l]
    /\ called' \in Nat /\ keys' \in 0 .. Len(Keys) /\ keys' >= keys
    /\ a = "keys" /\ where # "idle" => keys' > 0

LEMMA LinesMove ==
    ASSUME LinesTyped, NEW a \in Activations, NEW where \in Places, Moves(a, where)
    PROVE  LinesTyped'
<1>1. at' = [at EXCEPT ![a] = where]
  BY DEF Moves, Goto
<1>2. at' \in [Activations -> Places]
  BY <1>1 DEF LinesTyped
<1>3. DOMAIN line' = Activations /\ \A b \in Activations : line'[b].text \in Seq(Int)
  BY DEF Moves, LinesTyped
<1>4. at'["keys"] # "idle" => keys' > 0
  BY <1>1 DEF Moves, LinesTyped, Activations
<1>5. QED
  BY <1>2, <1>3, <1>4 DEF Moves, LinesTyped

(* The moves outside vga_write_line. *)
LEMMA OffScreenMove ==
    ASSUME Shows, NEW a \in Activations, NEW where \in Places, Moves(a, where),
           at[a] \notin OnScreen, where \notin OnScreen, UNCHANGED screenVars
    PROVE  Shows'
<1>1. LinesTyped'
  BY LinesMove DEF Shows
<1>2. log' \in Seq(Seq(Int)) /\ raced' = raced
  BY DEF Shows, screenVars
<1>3. ASSUME ~raced PROVE Screened'
  <2>1. \A b \in Activations : \/ at'[b] \notin OnScreen /\ at[b] \notin OnScreen
                               \/ at'[b] = at[b] /\ line'[b].text = line[b].text
    BY DEF Moves, Goto, Shows, LinesTyped
  <2>2. Screened
    BY <1>3 DEF Shows
  <2>3. QED
    BY <1>3, <2>1, <2>2, ScreenStill
<1>4. QED
  BY <1>1, <1>2, <1>3 DEF Shows

LEMMA NobodyMoves ==
    ASSUME Shows, UNCHANGED << bootVars, at, lineVars >>
    PROVE  Shows'
<1>1. UNCHANGED << called, keys, at, line, screenVars >>
  BY DEF bootVars, lineVars
<1>2. LinesTyped'
  BY <1>1 DEF Shows, LinesTyped
<1>3. log' \in Seq(Seq(Int)) /\ raced' = raced
  BY <1>1 DEF Shows, screenVars
<1>4. ASSUME ~raced PROVE Screened'
  <2>1. Screened
    BY <1>4 DEF Shows
  <2>2. QED
    BY <1>1, <1>4, <2>1, ScreenStill
<1>5. QED
  BY <1>2, <1>3, <1>4 DEF Shows

-----------------------------------------------------------------------------
(* klog, kfree and paging_map. *)
LEMMA OffScreenSteps ==
    ASSUME Shows, MainStep \/ KeyLine \/ PageAdvance
    PROVE  Shows'
<1> LinesTyped
  BY DEF Shows
<1> /\ called \in Nat /\ keys \in 0 .. Len(Keys) /\ keys \in Nat /\ Len(Keys) \in Nat
  BY ScreenSizes DEF LinesTyped
<1>1. CASE MainLine
  <2>1. at["main"] = "idle" /\ Goto("main", "kmalloc") /\ line' = line
        /\ called' = called + 1 /\ keys' = keys /\ UNCHANGED screenVars
    BY <1>1 DEF MainLine, BeginLine
  <2>2. Moves("main", "kmalloc")
    BY <2>1 DEF Moves
  <2>3. QED
    BY <2>1, <2>2, OffScreenMove DEF Activations, Places, OnScreen
<1>2. CASE KeyLine
  <2>1. at["keys"] = "idle" /\ Goto("keys", "kmalloc") /\ line' = line
        /\ called' = called /\ keys' = keys + 1 /\ keys < Len(Keys) /\ UNCHANGED screenVars
    BY <1>2 DEF KeyLine, BeginLine
  <2>2. Moves("keys", "kmalloc")
    BY <2>1 DEF Moves
  <2>3. QED
    BY <2>1, <2>2, OffScreenMove DEF Activations, Places, OnScreen
<1>3. CASE MainTable
  <2>1. at["main"] = "idle" /\ Goto("main", "table") /\ line' = line
        /\ called' = called + 1 /\ keys' = keys /\ UNCHANGED screenVars
    BY <1>3 DEF MainTable, lineVars
  <2>2. Moves("main", "table")
    BY <2>1 DEF Moves
  <2>3. QED
    BY <2>1, <2>2, OffScreenMove DEF Activations, Places, OnScreen
<1>4. CASE TableGranted
  <2>1. at["main"] = "table" /\ Goto("main", Granting("idle")) /\ line' = line
        /\ called' = called /\ keys' = keys /\ UNCHANGED screenVars
    BY <1>4 DEF TableGranted, lineVars
  <2>2. Granting("idle") \in {"idle", "shared"}
    BY DEF Granting
  <2>3. Moves("main", Granting("idle"))
    BY <2>1 DEF Moves
  <2>4. QED
    BY <2>1, <2>2, <2>3, OffScreenMove DEF Activations, Places, OnScreen
<1>5. CASE PageAdvance
  BY <1>5, NobodyMoves DEF PageAdvance
<1>6. QED
  BY <1>1, <1>2, <1>3, <1>4, <1>5 DEF MainStep

LEMMA KmallocSteps ==
    ASSUME Shows, NEW a \in Activations, KmallocStep(a)
    PROVE  Shows'
<1> LinesTyped
  BY DEF Shows
<1> /\ called \in Nat /\ keys \in 0 .. Len(Keys) /\ keys \in Nat /\ Len(Keys) \in Nat
  BY ScreenSizes DEF LinesTyped
<1>1. at[a] # "idle" /\ at[a] \notin OnScreen /\ (a = "keys" => keys > 0)
  BY DEF KmallocStep, AskForPages, PagesGranted, PagesRefused, FormatLine, OnScreen, LinesTyped
<1>2. CASE AskForPages(a)
  BY <1>2, NobodyMoves DEF AskForPages
<1>3. CASE PagesGranted(a) \/ PagesRefused(a)
  <2>1. line' = line /\ called' = called /\ keys' = keys /\ UNCHANGED screenVars
    BY <1>3 DEF PagesGranted, PagesRefused, Kmalloced, bootVars
  <2>2. PICK where \in {"format", "shared"} : Goto(a, where)
    BY <1>3 DEF PagesGranted, PagesRefused, Kmalloced, Granting
  <2>3. Moves(a, where)
    BY <1>1, <2>1, <2>2 DEF Moves
  <2>4. QED
    BY <1>1, <2>1, <2>2, <2>3, OffScreenMove DEF Places, OnScreen
<1>4. CASE FormatLine(a)
  <2>1. called' = called /\ keys' = keys /\ UNCHANGED screenVars
    BY <1>4 DEF FormatLine, bootVars
  <2>2. LineOf(a).text \in Seq(Int)
    BY <1>1, LineTexts
  <2>3. \E where \in {"fault", "idle", "test"} :
           Goto(a, where) /\ (line' = line \/ line' = [line EXCEPT ![a] = LineOf(a)])
    <3>1. CASE buf[a] = H!NULL
      BY <1>4, <3>1 DEF FormatLine
    <3>2. CASE buf[a] # H!NULL /\ a = "main" /\ Program[called] = "madt"
      BY <1>4, <3>2 DEF FormatLine
    <3>3. CASE buf[a] # H!NULL /\ ~(a = "main" /\ Program[called] = "madt")
      BY <1>4, <3>3 DEF FormatLine
    <3>4. QED
      BY <3>1, <3>2, <3>3
  <2>4. PICK where \in {"fault", "idle", "test"} :
           Goto(a, where) /\ (line' = line \/ line' = [line EXCEPT ![a] = LineOf(a)])
    BY <2>3
  <2>5. Moves(a, where)
    BY <1>1, <2>1, <2>2, <2>4 DEF Moves
  <2>6. QED
    BY <1>1, <2>1, <2>5, OffScreenMove DEF Places, OnScreen
<1>5. QED
  BY <1>2, <1>3, <1>4 DEF KmallocStep

LEMMA KfreeSteps ==
    ASSUME Shows, NEW a \in Activations, KfreeStep(a)
    PROVE  Shows'
<1> LinesTyped
  BY DEF Shows
<1> /\ called \in Nat /\ keys \in 0 .. Len(Keys) /\ keys \in Nat /\ Len(Keys) \in Nat
  BY ScreenSizes DEF LinesTyped
<1>1. at[a] # "idle" /\ at[a] \notin OnScreen /\ (a = "keys" => keys > 0)
  BY DEF KfreeStep, BeginKfree, MeltOrKeep, GiveBack, PageFreeStep, EndLine, OnScreen, LinesTyped
<1>2. CASE BeginKfree(a)
  <2>1. Goto(a, "kfree") /\ line' = [line EXCEPT ![a] = NoLine] /\ called' = called
        /\ keys' = keys /\ UNCHANGED screenVars
    BY <1>2 DEF BeginKfree, bootVars
  <2>2. NoLine.text \in Seq(Int)
    BY DEF NoLine
  <2>3. \E l : l.text \in Seq(Int) /\ line' = [line EXCEPT ![a] = l]
    BY <2>1, <2>2
  <2>4. /\ called' \in Nat /\ keys' \in 0 .. Len(Keys) /\ keys' >= keys
        /\ a = "keys" => keys' > 0
    BY <1>1, <2>1
  <2>5. Moves(a, "kfree")
    BY <2>1, <2>3, <2>4, Zenon DEF Moves
  <2>6. QED
    BY <1>1, <2>1, <2>5, OffScreenMove DEF Places, OnScreen
<1>3. CASE MeltOrKeep(a)
  BY <1>3, NobodyMoves DEF MeltOrKeep
<1>4. CASE GiveBack(a)
  BY <1>4, NobodyMoves DEF GiveBack
<1>5. CASE PageFreeStep(a)
  BY <1>5, NobodyMoves DEF PageFreeStep
<1>6. CASE EndLine(a)
  <2>1. line' = line /\ called' = called /\ keys' = keys /\ UNCHANGED screenVars
    BY <1>6 DEF EndLine, bootVars, lineVars
  <2>2. PICK where \in {"hang", "idle"} : Goto(a, where)
    BY <1>6 DEF EndLine
  <2>3. Moves(a, where)
    BY <1>1, <2>1, <2>2 DEF Moves
  <2>4. QED
    BY <1>1, <2>1, <2>3, OffScreenMove DEF Places, OnScreen
<1>7. QED
  BY <1>2, <1>3, <1>4, <1>5, <1>6 DEF KfreeStep

-----------------------------------------------------------------------------
(* vga_write_line. *)
LEMMA OnScreenMove ==
    ASSUME LinesTyped, NEW a \in Activations, NEW where \in OnScreen,
           Goto(a, where), ScreenTyped', OnScreenSound(a)',
           \A b \in Activations : b # a => at[b] \notin OnScreen /\ col'[b] = 0
    PROVE  Screened'
<1>1. at'[a] = where /\ \A b \in Activations : b # a => at'[b] = at[b]
  BY DEF Goto, LinesTyped
<1>2. OneOnScreen'
  BY <1>1 DEF OneOnScreen
<1>3. QED
  BY <1>1, <1>2 DEF Screened

(* Rows and clear rows that a step does not write stay. *)
LEMMA RowsStay ==
    ASSUME NEW y \in Int, NEW k \in Int, Rows(y, k),
           \A r \in 0 .. y - 1 : screen'[r] = screen[r],
           \A i \in k - y + 1 .. k : log'[i] = log[i]
    PROVE  Rows(y, k)'
<1> SUFFICES ASSUME NEW r \in 0 .. y - 1 PROVE ShowsLine(r, k - y + r + 1)'
  BY DEF Rows
<1> DEFINE i == k - y + r + 1
<1>1. i \in k - y + 1 .. k /\ ShowsLine(r, i)
  BY DEF Rows
<1>2. log'[i] = log[i] /\ screen'[r] = screen[r]
  BY <1>1
<1>3. QED
  BY <1>1, <1>2 DEF ShowsLine

LEMMA ClearStays ==
    ASSUME NEW y \in Int, Clear(y),
           \A r \in y .. Height - 1 : screen'[r] = screen[r]
    PROVE  Clear(y)'
BY DEF Clear

(* A line on the screen is the only one there. *)
LEMMA Alone ==
    ASSUME Screened, NEW a \in Activations, at[a] \in OnScreen
    PROVE  /\ \A b \in Activations : b # a => at[b] \notin OnScreen /\ col[b] = 0
           /\ OnScreenSound(a)
BY DEF Screened, OneOnScreen

LEMMA TestShows ==
    ASSUME LinesTyped, log \in Seq(Seq(Int)), Screened, NEW a \in Activations,
           VgaTest(a), ~raced'
    PROVE  Screened'
<1>1. /\ at[a] = "test" /\ log' = Append(log, line[a].text)
      /\ \A b \in Activations : at[b] \notin OnScreen
      /\ Goto(a, IF ScreenFull THEN "scroll" ELSE "put")
      /\ UNCHANGED << line, col, reg, vga_y_pos, screen >>
  BY DEF VgaTest
<1>2. AtRest /\ ScreenTyped /\ \A b \in Activations : col[b] = 0
  BY <1>1 DEF Screened, OneOnScreen
<1>3. ScreenTyped'
  BY <1>1, <1>2 DEF ScreenTyped, Cells
<1> PICK n \in Nat : n = Len(log)
  OBVIOUS
<1> PICK y \in 0 .. Height : y = vga_y_pos
  BY <1>2 DEF ScreenTyped
<1>4. /\ Len(log') = n + 1 /\ log'[n + 1] = line[a].text
      /\ \A i \in 1 .. n : log'[i] = log[i]
  BY <1>1 DEF LinesTyped
<1>5. Height \in Nat \ {0} /\ Width \in Nat \ {0} /\ y \in Nat
      /\ Len(line[a].text) \in Nat /\ Len(line'[a].text) \in Nat
  BY <1>1, <1>2, ScreenSizes DEF ScreenTyped, LinesTyped
<1>6. y = Least(n, Height) /\ y <= n
  BY <1>2, <1>4, <1>5 DEF AtRest, Least
<1>7. Rows(y, n)'
  <2>1. Rows(y, n)
    BY <1>2 DEF AtRest
  <2>2. \A i \in n - y + 1 .. n : log'[i] = log[i]
    BY <1>4, <1>6
  <2>3. QED
    <3>1. \A r \in 0 .. y - 1 : screen'[r] = screen[r]
      BY <1>1
    <3>2. y \in Int /\ n \in Int
      BY <1>5
    <3>3. QED
      BY <3>1, <3>2, <2>1, <2>2, RowsStay
<1>8. Clear(y)'
  BY <1>1, <1>2, ClearStays DEF AtRest
<1>9. OnScreenSound(a)' /\ at'[a] \in OnScreen
  <2>1. Len(log') > 0 /\ log'[Len(log')] = line'[a].text /\ Len(log') - 1 = n
        /\ vga_y_pos' = y /\ col'[a] = 0
    BY <1>1, <1>2, <1>4
  <2>2. CASE y = Height
    <3>1. at'[a] = "scroll"
      BY <1>1, <2>2 DEF ScreenFull, Goto, LinesTyped
    <3>2. Len(log') > Height
      BY <1>4, <1>6, <2>2
    <3>3. Rows(Height, Len(log) - 1)'
      <4>1. \A r \in 0 .. y - 1 : ShowsLine(r, n - y + r + 1)'
        BY <1>7 DEF Rows
      <4>2. QED
        BY <2>1, <2>2, <4>1 DEF Rows
    <3>4. QED
      BY <2>1, <2>2, <3>1, <3>2, <3>3 DEF OnScreenSound, OnScreen
  <2>3. CASE y # Height
    <3>1. at'[a] = "put"
      BY <1>1, <2>3 DEF ScreenFull, Goto, LinesTyped
    <3>2. y < Height /\ y = n /\ y = Least(n, Height - 1)
      BY <1>5, <1>6, <2>3 DEF Least
    <3>3. Clear(y + 1)'
      <4>1. \A r \in y .. Height - 1 : \A x \in 0 .. Width - 1 : screen'[r][x] = Blank
        BY <1>8 DEF Clear
      <4>2. \A r \in (y + 1) .. Height - 1 : r \in y .. Height - 1
        BY <1>5
      <4>3. \A r \in (y + 1) .. Height - 1 : \A x \in 0 .. Width - 1 : screen'[r][x] = Blank
        BY <4>1, <4>2
      <4>4. QED
        BY <4>3 DEF Clear
    <3>4. 0 <= Least(Len(line'[a].text), Width)
      BY <1>5 DEF Least
    <3>5. \A x \in 0 .. Width - 1 : screen'[y][x] = Blank
      <4>1. y \in y .. Height - 1
        BY <1>5, <3>2
      <4>2. QED
        BY <1>8, <4>1 DEF Clear
    <3>6. \A x \in 0 .. Width - 1 : ~(x < 0)
      BY <1>5
    <3>7. Putting(a)'
      BY <1>7, <2>1, <3>2, <3>3, <3>4, <3>5, <3>6 DEF Putting
    <3>8. QED
      BY <2>1, <3>1, <3>7 DEF OnScreenSound, OnScreen
  <2>4. QED
    BY <2>2, <2>3
<1>10. \A b \in Activations : b # a => at[b] \notin OnScreen /\ col'[b] = 0
  BY <1>1, <1>2
<1>11. PICK where \in OnScreen : Goto(a, where)
  BY <1>1 DEF OnScreen
<1>12. QED
  BY <1>3, <1>9, <1>10, <1>11, OnScreenMove

LEMMA ScrollShows ==
    ASSUME LinesTyped, log \in Seq(Seq(Int)), Screened, NEW a \in Activations,
           VgaScroll(a)
    PROVE  Screened'
<1>1. /\ at[a] = "scroll" /\ Goto(a, "lower")
      /\ screen' = [y \in 0 .. Height - 1 |-> ScrolledRow(y)]
      /\ UNCHANGED << line, col, reg, vga_y_pos, log >>
  BY DEF VgaScroll
<1>2. /\ at[a] \in OnScreen /\ OnScreenSound(a) /\ ScreenTyped
      /\ \A b \in Activations : b # a => at[b] \notin OnScreen /\ col[b] = 0
  BY <1>1, Alone DEF OnScreen, Screened
<1>3. /\ Len(log) > 0 /\ log[Len(log)] = line[a].text /\ vga_y_pos = Height
      /\ Len(log) > Height /\ col[a] = 0 /\ Rows(Height, Len(log) - 1)
  BY <1>1, <1>2 DEF OnScreenSound
<1> PICK n \in Nat : n = Len(log)
  OBVIOUS
<1>4. Height \in Nat \ {0} /\ Width \in Nat \ {0} /\ Blank \in Int
  BY ScreenSizes
<1>5. BlankRow \in [0 .. Width - 1 -> Int] /\ \A x \in 0 .. Width - 1 : BlankRow[x] = Blank
  BY <1>4 DEF BlankRow
<1>6. screen' \in Cells
  <2>1. ASSUME NEW y \in 0 .. Height - 1 PROVE ScrolledRow(y) \in [0 .. Width - 1 -> Int]
    BY <1>2, <1>4, <1>5 DEF ScrolledRow, ScreenTyped, Cells
  <2>2. QED
    BY <1>1, <2>1 DEF Cells
<1>7. ScreenTyped'
  BY <1>1, <1>2, <1>6 DEF ScreenTyped
<1>8. \A r \in 0 .. (Height - 1) - 1 : ShowsLine(r, (n - 1) - (Height - 1) + r + 1)'
  <2> SUFFICES ASSUME NEW r \in 0 .. (Height - 1) - 1
               PROVE  ShowsLine(r, (n - 1) - (Height - 1) + r + 1)'
    OBVIOUS
  <2>1. r + 1 \in 0 .. Height - 1 /\ r \in 0 .. Height - 1 /\ r # Height - 1
    BY <1>4
  <2>2. ShowsLine(r + 1, (n - 1) - Height + (r + 1) + 1)
    BY <1>3, <2>1 DEF Rows
  <2>3. (n - 1) - Height + (r + 1) + 1 = (n - 1) - (Height - 1) + r + 1
    BY <1>4
  <2>4. screen'[r] = screen[r + 1]
    BY <1>1, <2>1 DEF ScrolledRow
  <2>5. ShowsLine(r + 1, (n - 1) - (Height - 1) + r + 1)
    BY <2>2, <2>3
  <2>6. QED
    BY <1>1, <2>4, <2>5 DEF ShowsLine
<1>9. Rows(Height - 1, Len(log) - 1)'
  BY <1>1, <1>8 DEF Rows
<1>10. Clear(Height - 1)'
  <2>1. \A r \in Height - 1 .. Height - 1 : r = Height - 1 /\ r \in 0 .. Height - 1
    BY <1>4
  <2>2. \A r \in Height - 1 .. Height - 1 : screen'[r] = BlankRow
    BY <1>1, <2>1 DEF ScrolledRow
  <2>3. QED
    BY <1>5, <2>2 DEF Clear
<1>11. at'[a] = "lower"
  BY <1>1 DEF Goto, LinesTyped
<1>12. OnScreenSound(a)'
  BY <1>1, <1>3, <1>9, <1>10, <1>11 DEF OnScreenSound
<1>13. QED
  BY <1>1, <1>2, <1>7, <1>12, OnScreenMove DEF OnScreen

LEMMA LowerShows ==
    ASSUME LinesTyped, log \in Seq(Seq(Int)), Screened, NEW a \in Activations,
           VgaLower(a)
    PROVE  Screened'
<1>1. /\ at[a] = "lower" /\ Goto(a, "put") /\ vga_y_pos' = vga_y_pos - 1
      /\ UNCHANGED << line, col, reg, screen, log >>
  BY DEF VgaLower
<1>2. /\ at[a] \in OnScreen /\ OnScreenSound(a) /\ ScreenTyped
      /\ \A b \in Activations : b # a => at[b] \notin OnScreen /\ col[b] = 0
  BY <1>1, Alone DEF OnScreen, Screened
<1>3. /\ Len(log) > 0 /\ log[Len(log)] = line[a].text /\ vga_y_pos = Height
      /\ Len(log) > Height /\ col[a] = 0 /\ Rows(Height - 1, Len(log) - 1) /\ Clear(Height - 1)
  BY <1>1, <1>2 DEF OnScreenSound
<1>4. Height \in Nat \ {0} /\ Width \in Nat \ {0} /\ Len(log) \in Nat /\ Len(line[a].text) \in Nat
  BY ScreenSizes DEF LinesTyped
<1>5. ScreenTyped'
  <2>1. Height - 1 \in 0 .. Height /\ vga_y_pos' = Height - 1
    BY <1>1, <1>3, <1>4
  <2>2. screen' = screen /\ col' = col /\ reg' = reg
    BY <1>1
  <2>3. QED
    BY <1>2, <2>1, <2>2 DEF ScreenTyped, Cells
<1>6. vga_y_pos' = Height - 1 /\ Height - 1 = Least(Len(log) - 1, Height - 1)
  BY <1>1, <1>3, <1>4 DEF Least
<1>7. Rows(vga_y_pos, Len(log) - 1)'
  <2> DEFINE last == Len(log) - 1
  <2>1. Rows(Height - 1, last)
    BY <1>3
  <2>2. vga_y_pos' = Height - 1 /\ screen' = screen /\ log' = log
    BY <1>1, <1>6
  <2> HIDE DEF last
  <2>3. Rows(Height - 1, last)'
    BY <2>1, <2>2 DEF Rows, ShowsLine, last
  <2>4. QED
    BY <2>2, <2>3 DEF Rows, last
<1>8. Clear(vga_y_pos + 1)'
  <2>1. \A r \in (Height - 1) + 1 .. Height - 1 : FALSE
    BY <1>4
  <2>2. QED
    BY <1>6, <2>1 DEF Clear
<1>9. \A x \in 0 .. Width - 1 : screen'[Height - 1][x] = Blank /\ ~(x < 0)
  <2>1. Height - 1 \in Height - 1 .. Height - 1
    BY <1>4
  <2>2. QED
    BY <1>1, <1>3, <1>4, <2>1 DEF Clear
<1>10. 0 <= Least(Len(line[a].text), Width)
  BY <1>4 DEF Least
<1>11. Putting(a)'
  BY <1>1, <1>3, <1>6, <1>7, <1>8, <1>9, <1>10 DEF Putting
<1>12. at'[a] = "put"
  BY <1>1 DEF Goto, LinesTyped
<1>13. OnScreenSound(a)'
  BY <1>1, <1>3, <1>11, <1>12 DEF OnScreenSound
<1>14. QED
  BY <1>1, <1>2, <1>5, <1>13, OnScreenMove DEF OnScreen

LEMMA PutShows ==
    ASSUME LinesTyped, log \in Seq(Seq(Int)), Screened, NEW a \in Activations,
           VgaPut(a)
    PROVE  Screened'
<1>1. /\ at[a] = "put" /\ at' = at /\ col' = [col EXCEPT ![a] = @ + 1]
      /\ col[a] < Len(Shown(line[a].text))
      /\ UNCHANGED << line, reg, vga_y_pos, log >>
  BY DEF VgaPut
<1>2. /\ at[a] \in OnScreen /\ OnScreenSound(a) /\ ScreenTyped
      /\ \A b \in Activations : b # a => at[b] \notin OnScreen /\ col[b] = 0
  BY <1>1, Alone DEF OnScreen, Screened
<1>3. Len(log) > 0 /\ log[Len(log)] = line[a].text /\ Putting(a)
  BY <1>1, <1>2 DEF OnScreenSound
<1> PICK y \in 0 .. Height : y = vga_y_pos
  BY <1>2 DEF ScreenTyped
<1> PICK c \in Nat : c = col[a]
  BY <1>2 DEF ScreenTyped
<1> PICK text \in Seq(Int) : text = line[a].text
  BY DEF LinesTyped
<1>4. Height \in Nat \ {0} /\ Width \in Nat \ {0} /\ Len(log) \in Nat /\ Len(text) \in Nat
  BY ScreenSizes
<1>5. c < Least(Len(text), Width) /\ c < Len(text) /\ c < Width
  BY <1>1, <1>4, ShownLength DEF Least
<1>6. y < Height /\ y \in 0 .. Height - 1 /\ c \in 0 .. Width - 1 /\ text[c + 1] \in Int
  <2>1. y <= Height - 1
    BY <1>3, <1>4 DEF Putting, Least
  <2>2. c + 1 \in 1 .. Len(text)
    BY <1>4, <1>5
  <2>3. text[c + 1] \in Int
    BY <2>2
  <2>4. QED
    BY <1>4, <1>5, <2>1, <2>3
<1>7. screen' = [screen EXCEPT ![y] = [screen[y] EXCEPT ![c] = text[c + 1]]]
  BY <1>1, <1>6 DEF VgaPut
<1>8. screen \in Cells /\ screen[y] \in [0 .. Width - 1 -> Int]
  BY <1>2, <1>6 DEF ScreenTyped, Cells
<1>9. [screen[y] EXCEPT ![c] = text[c + 1]] \in [0 .. Width - 1 -> Int]
  BY <1>6, <1>8
<1>10. /\ screen' \in Cells /\ screen'[y] = [screen[y] EXCEPT ![c] = text[c + 1]]
       /\ \A r \in 0 .. Height - 1 : r # y => screen'[r] = screen[r]
  BY <1>6, <1>7, <1>8, <1>9 DEF Cells
<1>11. col' \in [Activations -> Nat] /\ col'[a] = c + 1
       /\ \A b \in Activations : b # a => col'[b] = col[b]
  <2>1. col \in [Activations -> Nat] /\ c + 1 \in Nat
    BY <1>2 DEF ScreenTyped
  <2>2. QED
    BY <1>1, <2>1
<1>12. ScreenTyped'
  BY <1>1, <1>2, <1>10, <1>11 DEF ScreenTyped
<1>13. Rows(vga_y_pos, Len(log) - 1)'
  <2>1. \A r \in 0 .. y - 1 : r \in 0 .. Height - 1 /\ r # y
    BY <1>4, <1>6
  <2>2. \A r \in 0 .. y - 1 : screen'[r] = screen[r]
    BY <1>10, <2>1
  <2>3. Rows(y, Len(log) - 1)
    BY <1>3 DEF Putting
  <2>4. Len(log) - 1 \in Int
    BY <1>4
  <2> PICK k \in Int : k = Len(log) - 1
    BY <2>4, Zenon
  <2>5. y \in Int /\ log' = log /\ Rows(y, k)
    BY <1>1, <1>4, <2>3
  <2>6. Rows(y, k)'
    BY <2>2, <2>5, RowsStay
  <2>7. vga_y_pos' = y /\ Len(log') - 1 = k
    BY <1>1
  <2>8. QED
    BY <2>6, <2>7 DEF Rows
<1>14. Clear(vga_y_pos + 1)'
  <2>1. \A r \in y + 1 .. Height - 1 : r \in 0 .. Height - 1 /\ r # y
    BY <1>4, <1>6
  <2>2. \A r \in y + 1 .. Height - 1 : screen'[r] = screen[r]
    BY <1>10, <2>1
  <2>3. \A r \in y + 1 .. Height - 1 : \A x \in 0 .. Width - 1 : screen[r][x] = Blank
    BY <1>3 DEF Putting, Clear
  <2>4. \A r \in y + 1 .. Height - 1 : \A x \in 0 .. Width - 1 : screen'[r][x] = Blank
    BY <2>2, <2>3
  <2>5. vga_y_pos' = y
    BY <1>1
  <2>6. QED
    BY <2>4, <2>5, Zenon DEF Clear
<1>15. \A x \in 0 .. Width - 1 :
          screen'[y][x] = IF x < c + 1 THEN text[x + 1] ELSE Blank
  <2> SUFFICES ASSUME NEW x \in 0 .. Width - 1
               PROVE  screen'[y][x] = IF x < c + 1 THEN text[x + 1] ELSE Blank
    OBVIOUS
  <2>1. screen[y][x] = IF x < c THEN text[x + 1] ELSE Blank
    BY <1>3 DEF Putting
  <2>2. CASE x = c
    <3>1. x < c + 1
      BY <2>2
    <3>2. screen'[y][x] = text[x + 1]
      BY <1>6, <1>8, <1>10, <2>2
    <3>3. QED
      BY <3>1, <3>2
  <2>3. CASE x # c
    <3>1. screen'[y][x] = screen[y][x]
      BY <1>8, <1>10, <2>3
    <3>2. x < c + 1 <=> x < c
      BY <2>3
    <3>3. QED
      BY <2>1, <3>1, <3>2
  <2>4. QED
    BY <2>2, <2>3
<1>16. c + 1 <= Least(Len(text), Width)
  BY <1>4, <1>5 DEF Least
<1>17. y = Least(Len(log) - 1, Height - 1)
  BY <1>3 DEF Putting
<1>18. Putting(a)'
  BY <1>1, <1>11, <1>13, <1>14, <1>15, <1>16, <1>17 DEF Putting
<1>19. OnScreenSound(a)'
  BY <1>1, <1>3, <1>18 DEF OnScreenSound
<1>20. Goto(a, "put")
  BY <1>1 DEF Goto, LinesTyped
<1>21. QED
  BY <1>2, <1>11, <1>12, <1>19, <1>20, OnScreenMove DEF OnScreen

LEMMA LoadShows ==
    ASSUME LinesTyped, log \in Seq(Seq(Int)), Screened, NEW a \in Activations,
           VgaLoad(a)
    PROVE  Screened'
<1>1. /\ at[a] = "put" /\ Goto(a, "advance") /\ reg' = [reg EXCEPT ![a] = vga_y_pos]
      /\ col[a] = Len(Shown(line[a].text))
      /\ UNCHANGED << line, col, vga_y_pos, screen, log >>
  BY DEF VgaLoad
<1>2. /\ at[a] \in OnScreen /\ OnScreenSound(a) /\ ScreenTyped
      /\ \A b \in Activations : b # a => at[b] \notin OnScreen /\ col[b] = 0
  BY <1>1, Alone DEF OnScreen, Screened
<1>3. Len(log) > 0 /\ log[Len(log)] = line[a].text /\ Putting(a)
  BY <1>1, <1>2 DEF OnScreenSound
<1>4. line[a].text \in Seq(Int) /\ col[a] = Least(Len(line[a].text), Width)
  BY <1>1, ShownLength DEF LinesTyped
<1>5. reg' \in [Activations -> Nat] /\ reg'[a] = vga_y_pos
  <2>1. reg \in [Activations -> Nat] /\ vga_y_pos \in Nat
    BY <1>2, ScreenSizes DEF ScreenTyped
  <2>2. QED
    BY <1>1, <2>1
<1>6. ScreenTyped'
  BY <1>1, <1>2, <1>5 DEF ScreenTyped, Cells
<1>7. Putting(a)'
  BY <1>1, <1>3 DEF Putting, Rows, Clear, ShowsLine
<1>8. at'[a] = "advance"
  BY <1>1 DEF Goto, LinesTyped
<1>9. OnScreenSound(a)'
  BY <1>1, <1>3, <1>4, <1>5, <1>7, <1>8 DEF OnScreenSound
<1>10. QED
  BY <1>1, <1>2, <1>6, <1>9, OnScreenMove DEF OnScreen

LEMMA AdvanceShows ==
    ASSUME LinesTyped, log \in Seq(Seq(Int)), Screened, NEW a \in Activations,
           VgaAdvance(a)
    PROVE  Screened'
<1>1. /\ at[a] = "advance" /\ Goto(a, "written") /\ vga_y_pos' = reg[a] + 1
      /\ reg' = [reg EXCEPT ![a] = 0] /\ col' = [col EXCEPT ![a] = 0]
      /\ UNCHANGED << line, screen, log >>
  BY DEF VgaAdvance
<1>2. /\ at[a] \in OnScreen /\ OnScreenSound(a) /\ ScreenTyped
      /\ \A b \in Activations : b # a => at[b] \notin OnScreen /\ col[b] = 0
  BY <1>1, Alone DEF OnScreen, Screened
<1>3. /\ Len(log) > 0 /\ log[Len(log)] = line[a].text /\ Putting(a)
      /\ col[a] = Least(Len(line[a].text), Width) /\ reg[a] = vga_y_pos
  BY <1>1, <1>2 DEF OnScreenSound
<1> PICK y \in 0 .. Height : y = vga_y_pos
  BY <1>2 DEF ScreenTyped
<1> PICK n \in Nat : n = Len(log)
  OBVIOUS
<1>4. /\ Height \in Nat \ {0} /\ Width \in Nat \ {0} /\ line[a].text \in Seq(Int)
      /\ Len(line[a].text) \in Nat
  BY ScreenSizes DEF LinesTyped
<1>5. y < Height /\ y + 1 = Least(n, Height) /\ y + 1 \in 0 .. Height
  BY <1>3, <1>4 DEF Putting, Least
<1>6. ScreenTyped' /\ \A b \in Activations : col'[b] = 0
  <2>1. reg \in [Activations -> Nat] /\ col \in [Activations -> Nat] /\ screen \in Cells
    BY <1>2 DEF ScreenTyped
  <2>2. reg' \in [Activations -> Nat] /\ col' \in [Activations -> Nat]
    BY <1>1, <2>1
  <2>3. \A b \in Activations : col'[b] = 0
    BY <1>1, <1>2, <2>1
  <2>4. vga_y_pos' \in 0 .. Height
    BY <1>1, <1>3, <1>5
  <2>5. QED
    BY <1>1, <2>1, <2>2, <2>3, <2>4 DEF ScreenTyped, Cells
<1>7. \A b \in Activations : at'[b] \notin OnScreen
  BY <1>1, <1>2 DEF Goto, LinesTyped, OnScreen
<1>8. ASSUME NEW r \in 0 .. (y + 1) - 1 PROVE ShowsLine(r, n - (y + 1) + r + 1)
  <2>1. CASE r = y
    <3>1. n - (y + 1) + r + 1 = n /\ log[n] = line[a].text
      BY <1>3, <2>1
    <3>2. Len(Shown(line[a].text)) = Least(Len(line[a].text), Width)
      BY <1>4, ShownLength
    <3>3. \A x \in 0 .. Width - 1 :
            screen[y][x] = IF x < col[a] THEN line[a].text[x + 1] ELSE Blank
      BY <1>3 DEF Putting
    <3>4. ShowsLine(y, n)
      BY <1>3, <3>1, <3>2, <3>3 DEF ShowsLine
    <3>5. QED
      BY <2>1, <3>1, <3>4
  <2>2. CASE r # y
    <3>1. r \in 0 .. y - 1 /\ n - (y + 1) + r + 1 = (n - 1) - y + r + 1
      BY <2>2
    <3>2. ShowsLine(r, (n - 1) - y + r + 1)
      BY <1>3, <3>1 DEF Putting, Rows
    <3>3. QED
      BY <3>1, <3>2
  <2>3. QED
    BY <2>1, <2>2
<1>9. vga_y_pos' = y + 1 /\ Len(log') = n
  BY <1>1, <1>3
<1>10. Rows(vga_y_pos, Len(log))'
  BY <1>1, <1>8, <1>9 DEF Rows, ShowsLine
<1>11. Clear(vga_y_pos)'
  BY <1>1, <1>3, <1>9 DEF Putting, Clear
<1>12. AtRest'
  BY <1>5, <1>9, <1>10, <1>11 DEF AtRest
<1>13. OneOnScreen'
  BY <1>6, <1>7 DEF OneOnScreen
<1>14. QED
  BY <1>6, <1>7, <1>12, <1>13 DEF Screened

LEMMA VgaSteps ==
    ASSUME Shows, NEW a \in Activations, VgaStep(a)
    PROVE  Shows'
<1> LinesTyped /\ log \in Seq(Seq(Int)) /\ (~raced => Screened)
  BY DEF Shows
<1>1. /\ at[a] \in OnScreen \union {"test"} /\ line' = line
      /\ called' = called /\ keys' = keys /\ (a = "keys" => keys > 0)
  BY DEF VgaStep, VgaTest, VgaScroll, VgaLower, VgaPut, VgaLoad, VgaAdvance, OnScreen,
         bootVars, LinesTyped
<1>2. \E where \in OnScreen \union {"written"} : Goto(a, where)
  <2>1. CASE VgaPut(a)
    <3>1. at' = at /\ at[a] = "put"
      BY <2>1 DEF VgaPut
    <3>2. Goto(a, "put")
      BY <3>1 DEF Goto, LinesTyped
    <3>3. QED
      BY <3>2 DEF OnScreen
  <2>2. CASE ~VgaPut(a)
    BY <2>2 DEF VgaStep, VgaTest, VgaScroll, VgaLower, VgaLoad, VgaAdvance, OnScreen
  <2>3. QED
    BY <2>1, <2>2
<1>3. LinesTyped'
  <2>1. PICK where \in OnScreen \union {"written"} : Goto(a, where)
    BY <1>2
  <2>2. keys \in Nat /\ Len(Keys) \in Nat
    BY ScreenSizes DEF LinesTyped
  <2>3. where \in Places
    BY DEF Places
  <2>4. Moves(a, where)
    BY <1>1, <2>1, <2>2 DEF Moves, LinesTyped
  <2>5. QED
    BY <2>3, <2>4, LinesMove
<1>4. log' \in Seq(Seq(Int))
  <2>1. CASE VgaTest(a)
    <3>1. log' = Append(log, line[a].text) /\ line[a].text \in Seq(Int)
      BY <2>1 DEF VgaTest, LinesTyped
    <3>2. QED
      BY <3>1
  <2>2. CASE ~VgaTest(a)
    BY <2>2 DEF VgaStep, VgaScroll, VgaLower, VgaPut, VgaLoad, VgaAdvance
  <2>3. QED
    BY <2>1, <2>2
<1>5. ASSUME ~raced' PROVE Screened'
  <2>1. ~raced
    BY <1>5 DEF VgaStep, VgaTest, VgaScroll, VgaLower, VgaPut, VgaLoad, VgaAdvance
  <2>2. Screened
    BY <2>1
  <2>3. QED
    BY <1>5, <2>2, TestShows, ScrollShows, LowerShows, PutShows, LoadShows, AdvanceShows
    DEF VgaStep
<1>6. QED
  BY <1>3, <1>4, <1>5 DEF Shows

LEMMA StepShows == Shows /\ [LogNext]_logVars => Shows'
<1> SUFFICES ASSUME Shows, [LogNext]_logVars PROVE Shows'
  OBVIOUS
<1>1. CASE UNCHANGED logVars
  <2>1. UNCHANGED << bootVars, at, lineVars >>
    BY <1>1 DEF logVars
  <2>2. QED
    BY <2>1, NobodyMoves
<1>2. CASE \E a \in Activations : LineStep(a)
  BY <1>2, KmallocSteps, VgaSteps, KfreeSteps DEF LineStep
<1>3. CASE MainStep \/ KeyLine \/ PageAdvance
  BY <1>3, OffScreenSteps
<1>4. QED
  BY <1>1, <1>2, <1>3 DEF LogNext, Progress

(* What the rows hold is what the property says. *)
LEMMA ShowsScreen == Shows => ScreenShowsLog
<1> SUFFICES ASSUME Shows, ~raced PROVE
      /\ vga_y_pos <= Height
      /\ (\A a \in Activations : at[a] \notin OnScreen) =>
            /\ vga_y_pos = Min({Len(log), Height})
            /\ \A y \in 0 .. vga_y_pos - 1 : ShowsLine(y, Len(log) - vga_y_pos + y + 1)
  BY DEF ScreenShowsLog
<1>1. Screened /\ log \in Seq(Seq(Int)) /\ Height \in Nat
  BY ScreenSizes DEF Shows
<1>2. vga_y_pos <= Height
  BY <1>1 DEF Screened, ScreenTyped
<1>3. ASSUME \A a \in Activations : at[a] \notin OnScreen
      PROVE  /\ vga_y_pos = Min({Len(log), Height})
             /\ \A y \in 0 .. vga_y_pos - 1 : ShowsLine(y, Len(log) - vga_y_pos + y + 1)
  <2>1. AtRest
    BY <1>1, <1>3 DEF Screened
  <2>2. Len(log) \in Int /\ Height \in Int
    BY <1>1
  <2>3. Min({Len(log), Height}) = Least(Len(log), Height)
    BY <2>2, MinIsLeast
  <2>4. QED
    BY <2>1, <2>3 DEF AtRest, Rows
<1>4. QED
  BY <1>2, <1>3

(* The screen shows the last lines given to it, each in a row of its own   *)
(* and as much of it as fits, and the cursor is behind them, whatever the  *)
(* size of the screen, the lines and the keyboard's interrupts, as long as *)
(* no line was put inside another's (vga_write_line).                      *)
THEOREM ScreenShowsLastLines == LogSpec => []ScreenShowsLog
<1>1. LogSpec => []Shows
  BY InitShows, StepShows, PTL DEF LogSpec
<1>2. QED
  BY <1>1, ShowsScreen, PTL

-----------------------------------------------------------------------------
(* The records of the list and of the spare chain are those of the initial *)
(* chain, and the fields are numbers.                                      *)
Links ==
    /\ kmem_free_pages \in CircStructs \union {NULL}
    /\ kmem_alloc_pages \in CircStructs \union {NULL}
    /\ next \in [Structs -> Int] /\ ptr \in [Structs -> Int] /\ size \in [Structs -> Int]
    /\ \A q \in CircStructs : next[q] \in CircStructs \union {NULL}
    /\ pc = "alloc" => page \in CircStructs /\ prev \in CircStructs \union {NULL}
    /\ pc = "free" => prev \in CircStructs /\ page \in CircStructs \union {NULL}

(* The extents somebody holds begin at different pages.                    *)
Owned ==
    /\ tables \subseteq live
    /\ \A e \in live : e.ptr \in Int /\ e.size \in Nat \ {0}
    /\ \A e, f \in live : e.ptr = f.ptr => e = f
    /\ pc = "free" => arg.ptr \in Int /\ arg.size \in Nat \ {0}

(* Who asks for pages walks the list. *)
Asking == pc = "alloc" => page \in Walk /\ arg.size \in Nat \ {0}

(* Where the calls in progress are, by where the activation on top is.     *)
Top == IF at["keys"] = "idle" THEN "main" ELSE "keys"

Bytes(a) == IF a = "main" /\ Program[called] = "madt" THEN MadtBytes ELSE LineBytes

CallsOf(a) ==
    /\ at[a] = "kmalloc" =>
          /\ hpc = "search" /\ hsize = Bytes(a) /\ hcall.op = "malloc" /\ hcall.bytes = Bytes(a)
          /\ pc = "idle" \/ (pc = "alloc" /\ hcur = H!NULL /\ arg.size = H!PagesFor(hsize))
    /\ at[a] = "table" => a = "main" /\ hpc = "idle" /\ pc = "alloc"
    /\ at[a] = "kfree" =>
          hpc \in {"idle", "free"} /\ pc # "alloc" /\ (hpc = "free" => pc = "idle")
    /\ at[a] \notin {"kmalloc", "table", "kfree"} => Quiet

Phases ==
    /\ CallsOf(Top)
    /\ at["keys"] # "idle" => at["main"] \notin {"kmalloc", "table"}

(* The buffers are regions the heap has given out, each at the front of a  *)
(* block of its own.                                                       *)
Writing == {"test", "written"} \union OnScreen

Holding(a) == at[a] \in Writing \union {"format"} /\ buf[a] # H!NULL

Region(a) == [ptr |-> buf[a], size |-> Bytes(a)]

Buffers ==
    /\ buf \in [Activations -> Int]
    /\ \A a \in Activations : at[a] \in Writing => buf[a] # H!NULL /\ Bytes(a) = LineBytes
    /\ \A a \in Activations : Holding(a) => Region(a) \in used
    /\ \A a, b \in Activations : Holding(a) /\ Holding(b) /\ buf[a] = buf[b] => a = b

Front(e) == H!Address(e.ptr) + Hdr

Regions ==
    /\ \A r \in used : \E e \in live \ tables : r.ptr = Front(e)
    /\ \A r, s \in used : r.ptr = s.ptr => r = s
    /\ hpc = "free" => /\ \E e \in live \ tables : hcur = H!Address(e.ptr)
                       /\ \A r \in used : r.ptr # hcur + Hdr

Kept == Links /\ Owned /\ Asking /\ Phases /\ Buffers /\ Regions

LEMMA HeapNumbers ==
    /\ NumPages \in Nat /\ 2 < NumPages /\ NumPages < 65536
    /\ PageSize \in Nat \ {0} /\ Hdr \in Nat \ {0} /\ PageCount \in Nat \ {0}
    /\ LineBytes \in Nat \ {0} /\ MadtBytes \in Nat \ {0}
BY NumPagesAssumption, KernelLogAssumption DEF H!LiballocAssumption

LEMMA ChainRecords ==
    /\ CircStructs \subseteq Structs /\ NULL \notin CircStructs
    /\ 0 \in CircStructs /\ 1 \in CircStructs /\ Last \in CircStructs
    /\ Last # 0 /\ Last # 1 /\ NULL \in Int /\ CircStructs \subseteq Int
BY HeapNumbers DEF CircStructs, Structs, NULL, Last

LEMMA Pieces ==
    /\ \A n \in Int : U16(n) \in Int
    /\ \A p, q \in Int : H!Address(p) = H!Address(q) => p = q
    /\ \A p \in Int : H!Address(p) \in Int /\ H!Address(p) \div PageSize = p
<1>1. \A n \in Int : U16(n) \in Int
  BY Z3 DEF U16
<1>2. PageSize \in Nat \ {0}
  BY HeapNumbers
<1>3. \A p \in Int : p * PageSize \in Int /\ (p * PageSize) \div PageSize = p
  BY <1>2, Z3
<1>4. QED
  BY <1>1, <1>3 DEF H!Address

(* At least a page is asked for. *)
LEMMA PagesWanted ==
    ASSUME NEW n \in {LineBytes, MadtBytes}
    PROVE  H!PagesFor(n) \in Nat \ {0}
<1>1. /\ PageSize \in Nat \ {0} /\ PageCount \in Nat \ {0} /\ Hdr \in Nat /\ n \in Nat
      /\ H!Word \in Nat \ {0}
  <2>1. MaxExp \in Nat
    BY KernelLogAssumption DEF H!LiballocAssumption
  <2>2. \A m \in Nat : 2 ^ m \in Int
    BY Z3
  <2>3. 2 ^ MaxExp > (NumPages + 1) * PageSize
    BY <2>1, <2>2, HeapNumbers, KernelLogAssumption DEF H!LiballocAssumption
  <2>4. (NumPages + 1) * PageSize \in Nat
    BY HeapNumbers, Z3
  <2>5. QED
    BY <2>1, <2>2, <2>3, <2>4, HeapNumbers DEF H!Word
<1>2. \A m \in Int, w \in Nat \ {0} : m % w \in 0 .. w - 1
  BY Z3
<1>3. H!U(n + Hdr) \in Nat
  BY <1>1, <1>2 DEF H!U
<1>4. \A m \in Nat, w \in Nat \ {0} : m \div w \in Nat
  BY Z3
<1>5. (H!U(n + Hdr) + PageSize - 1) \div PageSize \in Nat
  <2>1. H!U(n + Hdr) + PageSize - 1 \in Nat
    BY <1>1, <1>3
  <2>2. QED
    BY <1>1, <1>4, <2>1
<1>6. QED
  BY <1>1, <1>5 DEF H!PagesFor

LEMMA WalkBegins ==
    ASSUME Links, kmem_free_pages # NULL
    PROVE  kmem_free_pages \in Walk
BY DEF Links, Walk, Closed

LEMMA WalkGoesOn ==
    ASSUME Links, NEW q \in Walk, next[q] # NULL
    PROVE  next[q] \in Walk
<1>1. q \in CircStructs /\ next[q] \in CircStructs
  BY DEF Walk, Links
<1>2. QED
  BY <1>1 DEF Walk, Closed

LEMMA GrantGives ==
    ASSUME Links, Owned, Asking, Grant
    PROVE  /\ pc = "alloc" /\ pc' = "idle" /\ page \in Walk
           /\ size[page] = arg.size \/ size[page] > arg.size
           /\ ptr[page] \in Int /\ size[page] \in Int
           /\ live' = live \union {Granted}
           /\ Granted.ptr = ptr[page] /\ Granted.size = arg.size /\ arg.size \in Nat \ {0}
<1>1. pc = "alloc" /\ pc' = "idle" /\ (size[page] = arg.size \/ size[page] > arg.size)
      /\ live' = live \union {Granted}
  <2>1. CASE AllocExact
    <3>1. size[page] = arg.size /\ Granted = Extent(page)
      BY <2>1 DEF AllocExact, Granted, Extent
    <3>2. QED
      BY <2>1, <3>1 DEF AllocExact, Return
  <2>2. CASE AllocSplit
    BY <2>2 DEF AllocSplit, Granted, Return
  <2>3. QED
    BY <2>1, <2>2 DEF Grant
<1>2. page \in Walk /\ page \in CircStructs /\ page \in Structs /\ arg.size \in Nat \ {0}
  BY <1>1, ChainRecords DEF Asking, Links
<1>3. ptr[page] \in Int /\ size[page] \in Int
  BY <1>2 DEF Links
<1>4. QED
  BY <1>1, <1>2, <1>3 DEF Granted

(* Pages nobody holds are an extent of their own. *)
LEMMA FreshGives ==
    ASSUME Links, Owned, Asking, Grant, Fresh(Granted)
    PROVE  /\ Within(Granted.ptr, Granted.size)
           /\ Granted.ptr \in Int
           /\ \A e \in live : PS!Disjoint(Granted, e) /\ e.ptr # Granted.ptr
           /\ Granted \notin live
<1>1. Granted.ptr \in Int /\ Granted.size \in Nat \ {0}
  BY GrantGives
<1>2. Within(Granted.ptr, Granted.size) /\ \A e \in live : PS!Disjoint(Granted, e)
  BY DEF Fresh
<1>3. ASSUME NEW e \in live PROVE e.ptr # Granted.ptr
  <2>1. e.ptr \in Int /\ e.size \in Nat \ {0}
    BY DEF Owned
  <2>2. PS!End(Granted) <= e.ptr \/ PS!End(e) <= Granted.ptr
    BY <1>2 DEF PS!Disjoint
  <2>3. QED
    BY <1>1, <2>1, <2>2 DEF PS!End
<1>4. QED
  BY <1>1, <1>2, <1>3

(* A list that offers nothing held gives nothing held. *)
LEMMA SaneFresh ==
    ASSUME Links, Owned, Asking, Sane, Grant
    PROVE  Fresh(Granted)
<1>1. /\ Granted.ptr = ptr[page] /\ Granted.size = arg.size /\ arg.size \in Nat \ {0}
      /\ size[page] = arg.size \/ size[page] > arg.size
      /\ ptr[page] \in Int /\ size[page] \in Int /\ page \in Walk
  BY GrantGives
<1>2. Within(ptr[page], size[page]) /\ \A e \in live : PS!Disjoint(Extent(page), e)
  BY <1>1 DEF Sane
<1>3. Within(Granted.ptr, Granted.size)
  BY <1>1, <1>2, HeapNumbers DEF Within
<1>4. ASSUME NEW e \in live PROVE PS!Disjoint(Granted, e)
  <2>1. e.ptr \in Int /\ e.size \in Nat \ {0}
    BY DEF Owned
  <2>2. ptr[page] + size[page] <= e.ptr \/ e.ptr + e.size <= ptr[page]
    BY <1>2 DEF PS!Disjoint, PS!End, Extent
  <2>3. ptr[page] + arg.size <= e.ptr \/ e.ptr + e.size <= ptr[page]
    BY <1>1, <2>1, <2>2
  <2>4. QED
    BY <1>1, <2>1, <2>3 DEF PS!Disjoint, PS!End
<1>5. QED
  BY <1>3, <1>4 DEF Fresh

-----------------------------------------------------------------------------
(* The ways a step goes about the pages.                                   *)
PagesStep ==
    \/ UNCHANGED << vars, tables >>
    \/ UNCHANGED tables /\ \E n \in Nat \ {0} : CallAlloc(n)
    \/ Grant /\ Fresh(Granted) /\ (tables' = tables \/ tables' = tables \union {Granted})
    \/ AllocAdvance /\ UNCHANGED tables
    \/ UNCHANGED tables /\ \E e \in live \ tables : CallFree(e)
    \/ FreeStep /\ UNCHANGED tables

(* AbsorbPage on fields that are linked among the records of the chain.    *)
LEMMA AbsorbLinks ==
    ASSUME page \in CircStructs \union {NULL}, prev \in CircStructs,
           NEW pt, NEW sz \in [Structs -> Int], NEW nx \in [Structs -> Int],
           NEW spare \in CircStructs \union {NULL}, NEW linked,
           \A q \in CircStructs : nx[q] \in CircStructs \union {NULL},
           AbsorbPage(pt, sz, nx, spare, linked)
    PROVE  /\ next' \in [Structs -> Int] /\ size' \in [Structs -> Int]
           /\ \A q \in CircStructs : next'[q] \in CircStructs \union {NULL}
           /\ kmem_alloc_pages' \in CircStructs \union {NULL}
<1> USE ChainRecords
<1>1. CASE page # NULL /\ pt[prev] + sz[prev] = pt[page]
  <2>1. page \in CircStructs /\ page \in Structs /\ prev \in Structs
    BY <1>1
  <2>2. /\ size' = [sz EXCEPT ![prev] = U16(sz[prev] + sz[page])]
        /\ next' = [nx EXCEPT ![prev] = nx[page], ![page] = spare]
        /\ kmem_alloc_pages' = page
    BY <1>1 DEF AbsorbPage
  <2>3. U16(sz[prev] + sz[page]) \in Int
    <3>1. sz[prev] + sz[page] \in Int
      BY <2>1
    <3>2. QED
      BY <3>1, Pieces
  <2>4. QED
    BY <2>1, <2>2, <2>3
<1>2. CASE ~(page # NULL /\ pt[prev] + sz[prev] = pt[page])
  BY <1>2 DEF AbsorbPage
<1>3. QED
  BY <1>1, <1>2

LEMMA LinksFree ==
    ASSUME Links, Owned, FreeStep
    PROVE  Links'
<1> USE ChainRecords
<1>1. /\ prev \in CircStructs /\ page \in CircStructs \union {NULL}
      /\ arg.ptr \in Int /\ arg.size \in Int /\ kmem_free_pages' = kmem_free_pages
  BY DEF FreeStep, FreeAdvance, FreeMerge, FreeInsert, Links, Owned, records
<1>2. CASE FreeAdvance
  <2>1. page \in CircStructs
    BY <1>1, <1>2 DEF FreeAdvance, BeforeArg
  <2>2. prev' \in CircStructs /\ page' \in CircStructs \union {NULL}
    BY <1>2, <2>1 DEF FreeAdvance, Links
  <2>3. QED
    BY <1>2, <2>2 DEF FreeAdvance, records, Links
<1>3. CASE FreeMerge
  <2> DEFINE grown == IF Follows THEN prev ELSE page
             sz == [size EXCEPT ![grown] = U16(size[grown] + arg.size)]
  <2>1. grown \in CircStructs /\ grown \in Structs
    BY <1>1, <1>3 DEF FreeMerge, Precedes
  <2>2. U16(size[grown] + arg.size) \in Int
    <3>1. size[grown] + arg.size \in Int
      BY <1>1, <2>1 DEF Links
    <3>2. QED
      BY <3>1, Pieces
  <2>3. sz \in [Structs -> Int]
    BY <2>1, <2>2 DEF Links
  <2>4. AbsorbPage(ptr, sz, next, kmem_alloc_pages, onList) /\ pc' = "idle" /\ ptr' = ptr
    BY <1>3 DEF FreeMerge, Return
  <2>5. next \in [Structs -> Int] /\ kmem_alloc_pages \in CircStructs \union {NULL}
        /\ \A q \in CircStructs : next[q] \in CircStructs \union {NULL}
    BY DEF Links
  <2> HIDE DEF sz
  <2>6. /\ next' \in [Structs -> Int] /\ size' \in [Structs -> Int]
        /\ \A q \in CircStructs : next'[q] \in CircStructs \union {NULL}
        /\ kmem_alloc_pages' \in CircStructs \union {NULL}
    BY <1>1, <2>3, <2>4, <2>5, AbsorbLinks
  <2>7. QED
    BY <1>1, <2>4, <2>6 DEF Links
<1>4. CASE FreeInsert /\ kmem_alloc_pages = NULL
  BY <1>1, <1>4 DEF FreeInsert, Links
<1>5. CASE FreeInsert /\ kmem_alloc_pages # NULL
  <2> DEFINE new == kmem_alloc_pages
             pt == [ptr EXCEPT ![new] = arg.ptr]
             sz == [size EXCEPT ![new] = U16(arg.size)]
             nx == [next EXCEPT ![new] = page, ![prev] = new]
  <2>1. new \in CircStructs /\ new \in Structs
    BY <1>5 DEF Links
  <2>2. U16(arg.size) \in Int
    BY <1>1, Pieces
  <2>3. pt \in [Structs -> Int] /\ sz \in [Structs -> Int]
    BY <1>1, <2>1, <2>2 DEF Links
  <2>4. /\ nx \in [Structs -> Int]
        /\ \A q \in CircStructs : nx[q] \in CircStructs \union {NULL}
        /\ next[new] \in CircStructs \union {NULL}
    BY <1>1, <2>1 DEF Links
  <2>5. /\ AbsorbPage(pt, sz, nx, next[new], onList \union {new}) /\ pc' = "idle" /\ ptr' = pt
    BY <1>5 DEF FreeInsert, InsertRecord, Return
  <2> HIDE DEF sz, nx, pt
  <2>6. /\ next' \in [Structs -> Int] /\ size' \in [Structs -> Int]
        /\ \A q \in CircStructs : next'[q] \in CircStructs \union {NULL}
        /\ kmem_alloc_pages' \in CircStructs \union {NULL}
    BY <1>1, <2>3, <2>4, <2>5, AbsorbLinks
  <2>7. QED
    BY <1>1, <2>3, <2>5, <2>6 DEF Links
<1>6. QED
  BY <1>2, <1>3, <1>4, <1>5 DEF FreeStep

LEMMA LinksStep ==
    ASSUME Links, Owned, Asking, PagesStep
    PROVE  Links'
<1> USE ChainRecords
<1>1. CASE UNCHANGED << vars, tables >>
  BY <1>1 DEF vars, Links
<1>2. ASSUME NEW n, CallAlloc(n) PROVE Links'
  BY <1>2 DEF CallAlloc, records, Links
<1>3. CASE Grant
  <2>1. page \in CircStructs /\ page \in Structs /\ prev \in CircStructs \union {NULL}
        /\ next[page] \in CircStructs \union {NULL} /\ kmem_alloc_pages \in Int
    BY <1>3 DEF Grant, AllocExact, AllocSplit, Links
  <2>2. CASE AllocExact
    <3>1. ptr' \in [Structs -> Int] /\ size' \in [Structs -> Int] /\ kmem_alloc_pages' = page
      BY <2>1, <2>2 DEF AllocExact, Links
    <3>2. kmem_free_pages' \in CircStructs \union {NULL} /\ pc' = "idle"
      BY <2>1, <2>2 DEF AllocExact, Links, Return
    <3>3. next' \in [Structs -> Int]
      BY <2>1, <2>2 DEF AllocExact, Links
    <3>4. \A q \in CircStructs : next'[q] \in CircStructs \union {NULL}
      BY <2>1, <2>2 DEF AllocExact, Links
    <3>5. QED
      BY <2>1, <3>1, <3>2, <3>3, <3>4 DEF Links
  <2>3. CASE AllocSplit
    <3>1. U16(size[page] - arg.size) \in Int /\ ptr[page] + arg.size \in Int
      <4>1. size[page] \in Int /\ ptr[page] \in Int /\ arg.size \in Int
        BY <2>1, <2>3 DEF AllocSplit, Links, Asking
      <4>2. size[page] - arg.size \in Int
        BY <4>1
      <4>3. QED
        BY <4>1, <4>2, Pieces
    <3>2. pc' = "idle" /\ UNCHANGED << kmem_free_pages, kmem_alloc_pages, next >>
      BY <2>3 DEF AllocSplit, Return
    <3>3. QED
      BY <2>1, <2>3, <3>1, <3>2 DEF AllocSplit, Links
  <2>4. QED
    BY <1>3, <2>2, <2>3 DEF Grant
<1>4. CASE AllocAdvance
  <2>1. page \in CircStructs /\ next[page] \in CircStructs
    BY <1>4 DEF AllocAdvance, Links
  <2>2. QED
    BY <1>4, <2>1 DEF AllocAdvance, records, Links
<1>5. ASSUME NEW e \in live, CallFree(e) PROVE Links'
  <2>1. UNCHANGED << kmem_free_pages, kmem_alloc_pages, next, ptr, size >> /\ pc' # "alloc"
    BY <1>5 DEF CallFree, records
  <2>2. pc' = "free" => /\ prev' \in CircStructs
                        /\ page' \in CircStructs \union {NULL}
    BY <1>5 DEF CallFree, Links
  <2>3. QED
    BY <2>1, <2>2 DEF Links
<1>6. CASE FreeStep
  BY <1>6, LinksFree
<1>7. QED
  BY <1>1, <1>2, <1>3, <1>4, <1>5, <1>6 DEF PagesStep

LEMMA OwnedStep ==
    ASSUME Links, Owned, Asking, PagesStep
    PROVE  Owned'
<1>1. CASE UNCHANGED << vars, tables >>
  BY <1>1 DEF vars, Owned
<1>2. ASSUME NEW n, CallAlloc(n), UNCHANGED tables PROVE Owned'
  BY <1>2 DEF CallAlloc, Owned
<1>3. CASE Grant /\ Fresh(Granted) /\ (tables' = tables \/ tables' = tables \union {Granted})
  <2>1. /\ pc' = "idle" /\ live' = live \union {Granted}
        /\ Granted.ptr \in Int /\ Granted.size \in Nat \ {0}
        /\ \A e \in live : e.ptr # Granted.ptr
    BY <1>3, GrantGives, FreshGives
  <2>2. QED
    BY <1>3, <2>1 DEF Owned
<1>4. CASE AllocAdvance /\ UNCHANGED tables
  BY <1>4 DEF AllocAdvance, Owned
<1>5. ASSUME NEW e \in live \ tables, CallFree(e), UNCHANGED tables PROVE Owned'
  <2>1. live' = live \ {e} /\ tables' = tables /\ (pc' = "free" => arg' = e)
    BY <1>5 DEF CallFree
  <2>2. QED
    BY <2>1 DEF Owned
<1>6. CASE FreeStep /\ UNCHANGED tables
  <2>1. live' = live /\ pc = "free" /\ (pc' = "free" => arg' = arg)
    BY <1>6 DEF FreeStep, FreeAdvance, FreeMerge, FreeInsert, Return
  <2>2. QED
    BY <1>6, <2>1 DEF Owned
<1>7. QED
  BY <1>1, <1>2, <1>3, <1>4, <1>5, <1>6 DEF PagesStep

LEMMA AskingStep ==
    ASSUME Links, Asking, PagesStep
    PROVE  Asking'
<1>1. UNCHANGED records => Walk' = Walk
  BY DEF records, Walk, Closed
<1>2. CASE pc' # "alloc"
  BY <1>2 DEF Asking
<1>3. CASE UNCHANGED << vars, tables >> /\ pc' = "alloc"
  BY <1>1, <1>3 DEF vars, records, Asking
<1>4. ASSUME NEW n \in Nat \ {0}, CallAlloc(n) PROVE Asking'
  <2>1. UNCHANGED << records, live >> /\ page' = kmem_free_pages /\ arg'.size = n
        /\ kmem_free_pages # NULL
    BY <1>4 DEF CallAlloc
  <2>2. kmem_free_pages \in Walk
    BY <2>1, WalkBegins
  <2>3. QED
    BY <1>1, <1>4, <2>1, <2>2 DEF Asking
<1>5. CASE AllocAdvance
  <2>1. UNCHANGED << records, live, arg >> /\ page' = next[page] /\ pc = "alloc"
        /\ next[page] # NULL
    BY <1>5 DEF AllocAdvance
  <2>2. next[page] \in Walk
    BY <2>1, WalkGoesOn DEF Asking
  <2>3. QED
    BY <1>1, <2>1, <2>2 DEF Asking
<1>6. CASE pc' = "alloc" /\ (Grant \/ FreeStep \/ \E e \in live : CallFree(e))
  <2>1. ~FreeStep
    BY <1>6 DEF FreeStep, FreeAdvance, FreeMerge, FreeInsert, Return
  <2>2. ~Grant
    BY <1>6 DEF Grant, AllocExact, AllocSplit, Return
  <2>3. \A e \in live : ~CallFree(e)
    BY <1>6 DEF CallFree
  <2>4. QED
    BY <1>6, <2>1, <2>2, <2>3
<1>7. QED
  BY <1>2, <1>3, <1>4, <1>5, <1>6 DEF PagesStep

-----------------------------------------------------------------------------
(* An activation moves on. *)
LEMMA PhasesMove ==
    ASSUME at \in [Activations -> Places], NEW a \in Activations, NEW where,
           Goto(a, where), Runs(a), CallsOf(a)', where = "idle" => Quiet',
           a = "keys" => at["main"] \notin {"kmalloc", "table"}
    PROVE  Phases'
<1>1. at' = [at EXCEPT ![a] = where] /\ "main" \in Activations /\ "keys" \in Activations
      /\ a \in {"main", "keys"}
  BY DEF Goto, Activations
<1>2. CASE a = "main"
  <2>1. at'["keys"] = "idle" /\ Top' = "main"
    BY <1>1, <1>2 DEF Runs, Top
  <2>2. QED
    BY <1>2, <2>1 DEF Phases
<1>3. CASE a = "keys" /\ where # "idle"
  <2>1. at'["keys"] = where /\ Top' = "keys" /\ at'["main"] = at["main"]
    BY <1>1, <1>3 DEF Top
  <2>2. QED
    BY <1>3, <2>1 DEF Phases
<1>4. CASE a = "keys" /\ where = "idle"
  <2>1. at'["keys"] = "idle" /\ Top' = "main" /\ at'["main"] = at["main"]
    BY <1>1, <1>4 DEF Top
  <2>2. CallsOf("main")'
    BY <1>4, <2>1 DEF CallsOf, Quiet
  <2>3. QED
    BY <2>1, <2>2 DEF Phases
<1>5. QED
  BY <1>1, <1>2, <1>3, <1>4

LEMMA PhasesStay ==
    ASSUME Phases, NEW a \in Activations, Runs(a), at[a] # "idle", at' = at, CallsOf(a)'
    PROVE  Phases'
<1>1. Top' = a
  BY DEF Top, Runs, Activations
<1>2. QED
  BY <1>1 DEF Phases

LEMMA OnTopCalls ==
    ASSUME Phases, NEW a \in Activations, Runs(a), at[a] # "idle"
    PROVE  CallsOf(a) /\ (a = "keys" => at["main"] \notin {"kmalloc", "table"})
<1>1. Top = a
  BY DEF Top, Runs, Activations
<1>2. QED
  BY <1>1 DEF Phases

LEMMA BuffersMove ==
    ASSUME at \in [Activations -> Places], Buffers, NEW a \in Activations, NEW where,
           Goto(a, where), UNCHANGED << buf, used >>,
           \A b \in Activations \ {a} : Bytes(b)' = Bytes(b),
           where \in Writing \union {"format"} =>
              at[a] \in Writing \union {"format"} /\ Bytes(a)' = Bytes(a),
           where \in Writing => buf[a] # H!NULL /\ Bytes(a) = LineBytes
    PROVE  Buffers'
<1>1. at'[a] = where /\ \A b \in Activations \ {a} : at'[b] = at[b]
  BY DEF Goto
<1>2. ASSUME NEW b \in Activations, Holding(b)'
      PROVE  Holding(b) /\ Region(b)' = Region(b)
  BY <1>1, <1>2 DEF Holding, Region
<1>3. \A b \in Activations : at'[b] \in Writing => buf'[b] # H!NULL /\ Bytes(b)' = LineBytes
  BY <1>1 DEF Buffers, Writing
<1>4. \A b \in Activations : Holding(b)' => Region(b)' \in used'
  BY <1>2 DEF Buffers
<1>5. QED
  BY <1>2, <1>3, <1>4 DEF Buffers

LEMMA BuffersStay ==
    ASSUME Buffers, UNCHANGED << at, buf, used, memorySetup, called >>
    PROVE  Buffers'
BY DEF Buffers, Holding, Region, Bytes, Program

LEMMA RegionsStay ==
    ASSUME Regions, live' \ tables' = live \ tables, used' = used,
           hpc' = "free" => hpc = "free" /\ hcur' = hcur
    PROVE  Regions'
BY DEF Regions, Front

-----------------------------------------------------------------------------
HeapStep == H!Next \/ UNCHANGED H!vars

Followed == Kept' /\ HeapStep

LEMMA BeginLineFollowed ==
    ASSUME at \in [Activations -> Places], Kept, NEW a \in Activations,
           NEW bytes \in {LineBytes, MadtBytes}, BeginLine(a, bytes), Runs(a),
           bytes = Bytes(a)', \A b \in Activations \ {a} : Bytes(b)' = Bytes(b),
           a = "keys" => at["main"] \notin {"kmalloc", "table"}
    PROVE  Followed
<1>1. /\ Quiet /\ UNCHANGED << vars, tables >> /\ Goto(a, "kmalloc") /\ buf' = buf
      /\ H!CallMalloc(bytes)
  BY DEF BeginLine
<1>2. /\ hpc' = "search" /\ hsize' = bytes /\ hcall'.op = "malloc" /\ hcall'.bytes = bytes
      /\ used' = used
  BY <1>1 DEF H!CallMalloc, H!BeginMalloc
<1>3. pc' = "idle" /\ UNCHANGED << records, live, tables >>
  BY <1>1 DEF vars, records, Quiet
<1>4. PagesStep
  BY <1>1 DEF PagesStep
<1>5. Links' /\ Owned' /\ Asking'
  BY <1>4, LinksStep, OwnedStep, AskingStep DEF Kept
<1>6. at'[a] = "kmalloc"
  BY <1>1 DEF Goto
<1>7. CallsOf(a)'
  BY <1>2, <1>3, <1>6 DEF CallsOf
<1>8. Phases'
  BY <1>1, <1>7, PhasesMove
<1>9. Buffers'
  BY <1>1, <1>2, BuffersMove DEF Kept, Writing, OnScreen
<1>10. Regions'
  BY <1>2, <1>3, RegionsStay DEF Kept
<1>11. H!Next
  BY <1>1 DEF H!Next
<1>12. QED
  BY <1>5, <1>8, <1>9, <1>10, <1>11 DEF Kept, Followed, HeapStep

LEMMA MainLineFollowed ==
    ASSUME Shows, Kept, MainLine
    PROVE  Followed
<1> DEFINE bytes == IF Program[called + 1] = "madt" THEN MadtBytes ELSE LineBytes
<1>1. /\ at["main"] = "idle" /\ Runs("main") /\ BeginLine("main", bytes)
      /\ called' = called + 1
  BY DEF MainLine
<1>2. bytes = Bytes("main")' /\ bytes \in {LineBytes, MadtBytes}
  <2>1. Program' = Program
    BY <1>1 DEF BeginLine, Program
  <2>2. QED
    BY <1>1, <2>1 DEF Bytes
<1>3. \A b \in Activations \ {"main"} : Bytes(b)' = Bytes(b)
  BY DEF Bytes
<1>4. at \in [Activations -> Places] /\ "main" \in Activations
  BY DEF Shows, LinesTyped, Activations
<1> HIDE DEF bytes
<1>5. QED
  BY <1>1, <1>2, <1>3, <1>4, BeginLineFollowed

LEMMA KeyLineFollowed ==
    ASSUME Shows, Kept, KeyLine
    PROVE  Followed
<1>1. at["keys"] = "idle" /\ BeginLine("keys", LineBytes) /\ called' = called
  BY DEF KeyLine
<1>2. Quiet /\ memorySetup' = memorySetup
  BY <1>1 DEF BeginLine
<1>3. \A b \in Activations : Bytes(b)' = Bytes(b)
  BY <1>1, <1>2 DEF Bytes, Program
<1>4. at \in [Activations -> Places] /\ "keys" \in Activations /\ Runs("keys")
  BY DEF Shows, LinesTyped, Activations, Runs
<1>5. at["main"] \notin {"kmalloc", "table"}
  BY <1>1, <1>2 DEF Kept, Phases, Top, CallsOf, Quiet
<1>6. Bytes("keys") = LineBytes
  BY DEF Bytes
<1>7. QED
  BY <1>1, <1>3, <1>4, <1>5, <1>6, BeginLineFollowed

LEMMA TableFollowed ==
    ASSUME Shows, Kept, MainTable \/ (TableGranted /\ Fresh(Granted))
    PROVE  Followed
<1>1. at \in [Activations -> Places] /\ "main" \in Activations
  BY DEF Shows, LinesTyped, Activations
<1>2. CASE MainTable
  <2>1. /\ at["main"] = "idle" /\ Runs("main") /\ Quiet /\ CallAlloc(1)
        /\ Goto("main", "table") /\ UNCHANGED << heapVars, tables, memorySetup, buf >>
    BY <1>2 DEF MainTable, lineVars
  <2>2. UNCHANGED << hpc, hcur, hsize, hcall, used >> /\ hpc = "idle"
        /\ pc' = "alloc" /\ live' = live
    BY <2>1 DEF heapVars, Quiet, CallAlloc
  <2>3. PagesStep
    BY <2>1 DEF PagesStep
  <2>4. Links' /\ Owned' /\ Asking'
    BY <2>3, LinksStep, OwnedStep, AskingStep DEF Kept
  <2>5. at'["main"] = "table"
    BY <1>1, <2>1 DEF Goto
  <2>6. CallsOf("main")'
    BY <2>2, <2>5 DEF CallsOf
  <2>7. Phases'
    BY <1>1, <2>1, <2>6, PhasesMove
  <2>8. \A b \in Activations \ {"main"} : Bytes(b)' = Bytes(b)
    BY DEF Bytes
  <2>9. Buffers'
    BY <1>1, <2>1, <2>2, <2>8, BuffersMove DEF Kept, Writing, OnScreen
  <2>10. Regions'
    BY <2>1, <2>2, RegionsStay DEF Kept
  <2>11. UNCHANGED H!vars
    BY <2>1, <2>2 DEF heapVars, H!vars
  <2>12. QED
    BY <2>4, <2>7, <2>9, <2>10, <2>11 DEF Kept, Followed, HeapStep
<1>3. CASE TableGranted /\ Fresh(Granted)
  <2>1. /\ at["main"] = "table" /\ Grant /\ tables' = tables \union {Granted}
        /\ Goto("main", "idle") /\ UNCHANGED << heapVars, memorySetup, called, buf >>
    BY <1>3 DEF TableGranted, Granting, lineVars
  <2>2. Runs("main") /\ hpc = "idle"
    BY <2>1 DEF Kept, Phases, Top, CallsOf, Runs
  <2>3. UNCHANGED << hpc, hcur, hsize, hcall, used >> /\ hpc' = "idle"
    BY <2>1, <2>2 DEF heapVars
  <2>4. pc' = "idle" /\ live' = live \union {Granted} /\ Granted \notin live
    BY <1>3, <2>1, GrantGives, FreshGives DEF Kept
  <2>5. live' \ tables' = live \ tables
    BY <2>1, <2>4
  <2>6. PagesStep
    BY <1>3, <2>1 DEF PagesStep
  <2>7. Links' /\ Owned' /\ Asking'
    BY <2>6, LinksStep, OwnedStep, AskingStep DEF Kept
  <2>8. at'["main"] = "idle" /\ Quiet'
    BY <1>1, <2>1, <2>3, <2>4 DEF Goto, Quiet
  <2>9. CallsOf("main")'
    BY <2>8 DEF CallsOf
  <2>10. Phases'
    BY <1>1, <2>1, <2>2, <2>8, <2>9, PhasesMove
  <2>11. \A b \in Activations \ {"main"} : Bytes(b)' = Bytes(b)
    BY DEF Bytes
  <2>12. Buffers'
    BY <1>1, <2>1, <2>3, <2>11, BuffersMove DEF Kept, Writing, OnScreen
  <2>13. Regions'
    BY <2>3, <2>5, RegionsStay DEF Kept
  <2>14. UNCHANGED H!vars
    BY <2>1, <2>3, <2>5 DEF heapVars, H!vars
  <2>15. QED
    BY <2>7, <2>10, <2>12, <2>13, <2>14 DEF Kept, Followed, HeapStep
<1>4. QED
  BY <1>2, <1>3

LEMMA PageAdvanceFollowed ==
    ASSUME Shows, Kept, PageAdvance
    PROVE  Followed
<1>1. AllocAdvance /\ UNCHANGED << heapVars, bootVars, at, lineVars >>
  BY DEF PageAdvance
<1>2. UNCHANGED << hpc, hcur, hsize, hcall, used, tables, memorySetup, called, at, buf >>
  BY <1>1 DEF heapVars, bootVars, lineVars
<1>3. pc = "alloc" /\ pc' = "alloc" /\ UNCHANGED << records, live, arg >>
  BY <1>1 DEF AllocAdvance
<1>4. PagesStep
  BY <1>1, <1>2 DEF PagesStep
<1>5. Links' /\ Owned' /\ Asking'
  BY <1>4, LinksStep, OwnedStep, AskingStep DEF Kept
<1>6. Phases'
  BY <1>2, <1>3 DEF Kept, Phases, Top, CallsOf, Quiet, Bytes, Program
<1>7. Buffers' /\ Regions'
  BY <1>2, <1>3, BuffersStay, RegionsStay DEF Kept
<1>8. UNCHANGED H!vars
  BY <1>1, <1>2, <1>3 DEF heapVars, H!vars
<1>9. QED
  BY <1>5, <1>6, <1>7, <1>8 DEF Kept, Followed, HeapStep

LEMMA AskFollowed ==
    ASSUME Shows, Kept, NEW a \in Activations, AskForPages(a)
    PROVE  Followed
<1>1. /\ at[a] = "kmalloc" /\ Runs(a) /\ hpc = "search" /\ hcur = H!NULL
      /\ CallAlloc(H!PagesFor(hsize)) /\ UNCHANGED << heapVars, bootVars, at, lineVars >>
  BY DEF AskForPages
<1>2. UNCHANGED << hpc, hcur, hsize, hcall, used, tables, memorySetup, called, at, buf >>
  BY <1>1 DEF heapVars, bootVars, lineVars
<1>3. CallsOf(a)
  BY <1>1, OnTopCalls DEF Kept
<1>4. H!PagesFor(hsize) \in Nat \ {0}
  <2>1. hsize \in {LineBytes, MadtBytes}
    BY <1>1, <1>3 DEF CallsOf, Bytes
  <2>2. QED
    BY <2>1, PagesWanted
<1>5. pc' = "alloc" /\ arg'.size = H!PagesFor(hsize) /\ UNCHANGED << records, live >>
  BY <1>1 DEF CallAlloc
<1>6. PagesStep
  BY <1>1, <1>2, <1>3, <1>4 DEF PagesStep
<1>7. Links' /\ Owned' /\ Asking'
  BY <1>6, LinksStep, OwnedStep, AskingStep DEF Kept
<1>8. CallsOf(a)'
  <2>1. Bytes(a)' = Bytes(a) /\ at'[a] = "kmalloc"
    BY <1>1, <1>2 DEF Bytes, Program
  <2>2. H!PagesFor(hsize)' = H!PagesFor(hsize)
    BY <1>2 DEF H!PagesFor
  <2>3. QED
    BY <1>1, <1>2, <1>3, <1>5, <2>1, <2>2 DEF CallsOf
<1>9. Phases'
  BY <1>1, <1>2, <1>8, PhasesStay DEF Kept
<1>10. Buffers' /\ Regions'
  BY <1>2, <1>5, BuffersStay, RegionsStay DEF Kept
<1>11. UNCHANGED H!vars
  BY <1>1, <1>2, <1>5 DEF heapVars, H!vars
<1>12. QED
  BY <1>7, <1>9, <1>10, <1>11 DEF Kept, Followed, HeapStep

(* The pages kmem_malloc has got become a block. *)
LEMMA GrantedFollowed ==
    ASSUME Shows, Kept, NEW a \in Activations, PagesGranted(a), Fresh(Granted)
    PROVE  Followed
<1> DEFINE p == H!Address(Granted.ptr) + Hdr
           r == [ptr |-> p, size |-> hcall.bytes]
<1>1. /\ at[a] = "kmalloc" /\ Runs(a) /\ Grant /\ H!AddBlock(Granted)
      /\ UNCHANGED << tables, memorySetup, called >>
      /\ buf' = [buf EXCEPT ![a] = p] /\ Goto(a, "format")
  BY DEF PagesGranted, Kmalloced, Granting
<1>2. CallsOf(a) /\ (a = "keys" => at["main"] \notin {"kmalloc", "table"})
      /\ at \in [Activations -> Places]
  BY <1>1, OnTopCalls DEF Kept, Shows, LinesTyped
<1>3. /\ pc = "alloc" /\ pc' = "idle" /\ live' = live \union {Granted}
      /\ Within(Granted.ptr, Granted.size)
      /\ Granted.ptr \in Int /\ Granted.size = arg.size /\ arg.size \in Nat \ {0}
      /\ \A e \in live : PS!Disjoint(Granted, e) /\ e.ptr # Granted.ptr
      /\ Granted \notin live
  BY <1>1, GrantGives, FreshGives DEF Kept
<1>4. /\ hpc = "search" /\ hcall.op = "malloc" /\ hcall.bytes = Bytes(a)
      /\ arg.size = H!PagesFor(hsize)
  BY <1>1, <1>2, <1>3 DEF CallsOf
<1>5. used' = used \union {r} /\ hpc' = "idle"
  BY <1>1, <1>4 DEF H!AddBlock, H!Deliver, H!Return
<1>6. PagesStep
  BY <1>1 DEF PagesStep
<1>7. Links' /\ Owned' /\ Asking'
  BY <1>6, LinksStep, OwnedStep, AskingStep DEF Kept
<1>8. at'[a] = "format" /\ Quiet'
  BY <1>1, <1>2, <1>3, <1>5 DEF Goto, Quiet
<1>9. CallsOf(a)'
  BY <1>8 DEF CallsOf
<1>10. Phases'
  BY <1>1, <1>2, <1>9, PhasesMove
<1>11. p \in Int /\ \A s \in used : s.ptr # p
  <2>1. H!Address(Granted.ptr) \in Int /\ Hdr \in Int
    BY <1>3, Pieces, HeapNumbers
  <2>2. ASSUME NEW s \in used PROVE s.ptr # p
    <3>1. PICK e \in live \ tables : s.ptr = Front(e)
      BY DEF Kept, Regions
    <3>2. e.ptr \in Int /\ e.ptr # Granted.ptr
      BY <1>3 DEF Kept, Owned
    <3>3. H!Address(e.ptr) # H!Address(Granted.ptr) /\ H!Address(e.ptr) \in Int
      BY <1>3, <3>2, Pieces
    <3>4. \A x, y, h \in Int : x # y => x + h # y + h
      OBVIOUS
    <3>5. H!Address(e.ptr) + Hdr # p
      BY <2>1, <3>3, <3>4
    <3>6. QED
      BY <3>1, <3>5 DEF Front
  <2>3. QED
    BY <2>1, <2>2
<1>12. Buffers'
  <2>1. buf' \in [Activations -> Int]
    BY <1>1, <1>11 DEF Kept, Buffers
  <2>2. \A b \in Activations : at'[b] = IF b = a THEN "format" ELSE at[b]
    BY <1>1, <1>2 DEF Goto
  <2>3. \A b \in Activations : Bytes(b)' = Bytes(b)
    BY <1>1 DEF Bytes, Program
  <2>4. \A b \in Activations \ {a} : buf'[b] = buf[b]
    BY <1>1 DEF Kept, Buffers
  <2>5. buf'[a] = p /\ Region(a)' = r
    BY <1>1, <1>4, <2>3 DEF Kept, Buffers, Region
  <2>6. \A b \in Activations \ {a} : Holding(b)' => Holding(b) /\ Region(b)' = Region(b)
    BY <2>2, <2>3, <2>4 DEF Holding, Region
  <2>7. \A b \in Activations : at'[b] \in Writing => buf'[b] # H!NULL /\ Bytes(b)' = LineBytes
    BY <2>2, <2>3, <2>4 DEF Kept, Buffers, Writing, OnScreen
  <2>8. \A b \in Activations \ {a} : Holding(b)' => Region(b)' \in used /\ buf'[b] # p
    BY <1>11, <2>4, <2>6 DEF Kept, Buffers, Region
  <2>9. \A b \in Activations : Holding(b)' => Region(b)' \in used'
    BY <1>5, <2>5, <2>8
  <2>10. \A b, c \in Activations : Holding(b)' /\ Holding(c)' /\ buf'[b] = buf'[c] => b = c
    BY <2>4, <2>5, <2>6, <2>8 DEF Kept, Buffers
  <2>11. QED
    BY <2>1, <2>7, <2>9, <2>10 DEF Buffers
<1>13. Regions'
  <2>1. Granted \in live' \ tables' /\ r.ptr = Front(Granted) /\ \A e : Front(e)' = Front(e)
    BY <1>1, <1>3 DEF Kept, Owned, Front
  <2>2. \A s \in used' : \E e \in live' \ tables' : s.ptr = Front(e)
    BY <1>1, <1>3, <1>5, <2>1 DEF Kept, Regions
  <2>3. \A s, t \in used' : s.ptr = t.ptr => s = t
    BY <1>5, <1>11 DEF Kept, Regions
  <2>4. QED
    BY <1>5, <2>1, <2>2, <2>3 DEF Regions
<1>14. H!NewBlock
  <2>1. Granted = [ptr |-> Granted.ptr, size |-> H!PagesFor(hsize)]
    BY <1>3, <1>4 DEF Granted
  <2>2. Granted.ptr \in 1 .. NumPages
    BY <1>3, HeapNumbers DEF Within
  <2>3. live' \ tables' = (live \ tables) \union {Granted}
    BY <1>1, <1>3 DEF Kept, Owned
  <2>4. H!PS!Alloc(Granted)
    BY <1>3, <2>3, HeapNumbers
    DEF H!PS!Alloc, H!PS!InHeap, H!PS!Disjoint, H!PS!End, PS!Disjoint, PS!End, Within
  <2>5. QED
    BY <1>1, <2>1, <2>2, <2>4 DEF H!NewBlock
<1>15. QED
  BY <1>7, <1>10, <1>12, <1>13, <1>14 DEF Kept, Followed, HeapStep, H!Next, H!MallocStep

LEMMA RefusedFollowed ==
    ASSUME Shows, Kept, NEW a \in Activations, PagesRefused(a)
    PROVE  Followed
<1>1. /\ at[a] = "kmalloc" /\ Runs(a) /\ AllocFromEmpty /\ UNCHANGED bootVars /\ H!NoBlock
      /\ buf' = [buf EXCEPT ![a] = H!NULL] /\ Goto(a, "format")
  BY DEF PagesRefused, Kmalloced
<1>2. CallsOf(a) /\ (a = "keys" => at["main"] \notin {"kmalloc", "table"})
      /\ at \in [Activations -> Places]
  BY <1>1, OnTopCalls DEF Kept, Shows, LinesTyped
<1>3. /\ UNCHANGED vars /\ pc = "idle" /\ UNCHANGED << tables, memorySetup, called >>
      /\ UNCHANGED << pc, live >>
  BY <1>1 DEF AllocFromEmpty, bootVars, vars
<1>4. used' = used /\ hpc' = "idle"
  BY <1>1, <1>2 DEF H!NoBlock, H!Return, CallsOf
<1>5. PagesStep
  BY <1>3 DEF PagesStep
<1>6. Links' /\ Owned' /\ Asking'
  BY <1>5, LinksStep, OwnedStep, AskingStep DEF Kept
<1>7. at'[a] = "format" /\ Quiet'
  BY <1>1, <1>2, <1>3, <1>4 DEF Goto, Quiet
<1>8. CallsOf(a)'
  BY <1>7 DEF CallsOf
<1>9. Phases'
  BY <1>1, <1>2, <1>8, PhasesMove
<1>10. Buffers'
  <2>1. buf' \in [Activations -> Int] /\ buf'[a] = H!NULL
        /\ \A b \in Activations \ {a} : buf'[b] = buf[b]
    BY <1>1 DEF Kept, Buffers, H!NULL
  <2>2. \A b \in Activations : at'[b] = IF b = a THEN "format" ELSE at[b]
    BY <1>1, <1>2 DEF Goto
  <2>3. \A b \in Activations : Bytes(b)' = Bytes(b)
    BY <1>3 DEF Bytes, Program
  <2>4. \A b \in Activations : Holding(b)' =>
          b # a /\ Holding(b) /\ Region(b)' = Region(b)
    BY <2>1, <2>2, <2>3 DEF Holding, Region
  <2>5. \A b \in Activations : at'[b] \in Writing => buf'[b] # H!NULL /\ Bytes(b)' = LineBytes
    BY <2>1, <2>2, <2>3 DEF Kept, Buffers, Writing, OnScreen
  <2>6. QED
    BY <1>4, <2>1, <2>4, <2>5 DEF Kept, Buffers
<1>11. Regions'
  BY <1>3, <1>4, RegionsStay DEF Kept
<1>12. QED
  BY <1>1, <1>6, <1>9, <1>10, <1>11 DEF Kept, Followed, HeapStep, H!Next, H!MallocStep

(* The steps of a line outside the heap: no call is in progress. *)
LEMMA OutsideFollowed ==
    ASSUME Shows, Kept, NEW a \in Activations, NEW where,
           Goto(a, where), Runs(a), at[a] # "idle", Quiet,
           where \notin {"kmalloc", "table"},
           UNCHANGED << vars, heapVars, bootVars, buf >>,
           where \in Writing \union {"format"} => at[a] \in Writing \union {"format"},
           where \in Writing => buf[a] # H!NULL /\ Bytes(a) = LineBytes
    PROVE  Followed
<1>1. at \in [Activations -> Places] /\ (a = "keys" => at["main"] \notin {"kmalloc", "table"})
  BY OnTopCalls DEF Kept, Shows, LinesTyped
<1>2. /\ UNCHANGED << hpc, hcur, used, tables, memorySetup, called >>
      /\ UNCHANGED << pc, live, records >>
  BY DEF heapVars, bootVars, vars, records
<1>3. PagesStep
  BY <1>2 DEF PagesStep
<1>4. Links' /\ Owned' /\ Asking'
  BY <1>3, LinksStep, OwnedStep, AskingStep DEF Kept
<1>5. Quiet' /\ at'[a] = where
  BY <1>1, <1>2 DEF Quiet, Goto
<1>6. CallsOf(a)'
  BY <1>5 DEF CallsOf, Quiet
<1>7. Phases'
  BY <1>1, <1>5, <1>6, PhasesMove
<1>8. \A b \in Activations : Bytes(b)' = Bytes(b)
  BY <1>2 DEF Bytes, Program
<1>9. Buffers'
  BY <1>1, <1>2, <1>8, BuffersMove DEF Kept
<1>10. Regions'
  BY <1>2, RegionsStay DEF Kept
<1>11. UNCHANGED H!vars
  BY <1>2 DEF heapVars, H!vars
<1>12. QED
  BY <1>4, <1>7, <1>9, <1>10, <1>11 DEF Kept, Followed, HeapStep

LEMMA FormatFollowed ==
    ASSUME Shows, Kept, NEW a \in Activations, FormatLine(a)
    PROVE  Followed
<1>1. /\ at[a] = "format" /\ Runs(a)
      /\ UNCHANGED << vars, heapVars, bootVars, buf >>
  BY DEF FormatLine
<1>2. Quiet
  BY <1>1, OnTopCalls DEF Kept, CallsOf
<1>3. CASE buf[a] = H!NULL
  <2>1. Goto(a, "fault")
    BY <1>3 DEF FormatLine
  <2>2. QED
    BY <1>1, <1>2, <2>1, OutsideFollowed DEF Writing, OnScreen
<1>4. CASE buf[a] # H!NULL /\ a = "main" /\ Program[called] = "madt"
  <2>1. Goto(a, "idle")
    BY <1>4 DEF FormatLine
  <2>2. QED
    BY <1>1, <1>2, <2>1, OutsideFollowed DEF Writing, OnScreen
<1>5. CASE buf[a] # H!NULL /\ ~(a = "main" /\ Program[called] = "madt")
  <2>1. Goto(a, "test") /\ Bytes(a) = LineBytes
    BY <1>5 DEF FormatLine, Bytes
  <2>2. QED
    BY <1>1, <1>2, <1>5, <2>1, OutsideFollowed DEF Writing, OnScreen
<1>6. QED
  BY <1>3, <1>4, <1>5

LEMMA VgaFollowed ==
    ASSUME Shows, Kept, NEW a \in Activations, VgaStep(a)
    PROVE  Followed
<1>1. /\ at[a] \in Writing \ {"written"} /\ Runs(a)
      /\ UNCHANGED << vars, heapVars, bootVars, buf >>
  BY DEF VgaStep, VgaTest, VgaScroll, VgaLower, VgaPut, VgaLoad, VgaAdvance, Writing, OnScreen
<1>2. \E where \in Writing : Goto(a, where)
  <2>1. CASE VgaPut(a)
    <3>1. at' = at /\ at[a] = "put"
      BY <2>1 DEF VgaPut
    <3>2. Goto(a, "put")
      BY <3>1 DEF Goto, Shows, LinesTyped
    <3>3. QED
      BY <3>2 DEF Writing, OnScreen
  <2>2. CASE ~VgaPut(a)
    BY <2>2 DEF VgaStep, VgaTest, VgaScroll, VgaLower, VgaLoad, VgaAdvance, Writing, OnScreen
  <2>3. QED
    BY <2>1, <2>2
<1>3. PICK where \in Writing : Goto(a, where)
  BY <1>2
<1>4. Quiet /\ at[a] # "idle"
  BY <1>1, OnTopCalls DEF Kept, CallsOf, Writing, OnScreen
<1>5. where \notin {"kmalloc", "table"}
  BY DEF Writing, OnScreen
<1>6. buf[a] # H!NULL /\ Bytes(a) = LineBytes
  BY <1>1 DEF Kept, Buffers
<1>7. QED
  BY <1>1, <1>3, <1>4, <1>5, <1>6, OutsideFollowed

LEMMA EndFollowed ==
    ASSUME Shows, Kept, NEW a \in Activations, EndLine(a)
    PROVE  Followed
<1>1. /\ at[a] = "kfree" /\ Runs(a) /\ Quiet
      /\ UNCHANGED << vars, heapVars, bootVars, buf >>
      /\ \E where \in {"hang", "idle"} : Goto(a, where)
  BY DEF EndLine, lineVars
<1>2. PICK where \in {"hang", "idle"} : Goto(a, where)
  BY <1>1
<1>3. QED
  BY <1>1, <1>2, OutsideFollowed DEF Writing, OnScreen

LEMMA BeginKfreeFollowed ==
    ASSUME Shows, Kept, NEW a \in Activations, BeginKfree(a)
    PROVE  Followed
<1> DEFINE r == BufRegion(a)
<1>1. /\ at[a] = "written" /\ Runs(a) /\ Quiet /\ UNCHANGED << vars, bootVars >>
      /\ H!CallFree(r) /\ buf' = [buf EXCEPT ![a] = H!NULL] /\ Goto(a, "kfree")
  BY DEF BeginKfree
<1>2. (a = "keys" => at["main"] \notin {"kmalloc", "table"})
      /\ at \in [Activations -> Places]
  BY <1>1, OnTopCalls DEF Kept, Shows, LinesTyped
<1>3. /\ UNCHANGED << tables, memorySetup, called, pc, live >> /\ pc = "idle"
  BY <1>1 DEF vars, bootVars, Quiet
<1>4. used' = used \ {r} /\ hpc' = "free" /\ hcur' = buf[a] - Hdr
  BY <1>1 DEF H!CallFree, H!BeginFree, BufRegion
<1>5. at[a] \in Writing /\ buf[a] # H!NULL /\ Bytes(a) = LineBytes /\ buf[a] \in Int
  BY <1>1 DEF Kept, Buffers, Writing
<1>6. Holding(a) /\ r = Region(a) /\ r \in used
  BY <1>5 DEF Kept, Buffers, Holding, Region, BufRegion
<1>7. PagesStep
  BY <1>1, <1>3 DEF PagesStep
<1>8. Links' /\ Owned' /\ Asking'
  BY <1>7, LinksStep, OwnedStep, AskingStep DEF Kept
<1>9. at'[a] = "kfree"
  BY <1>1, <1>2 DEF Goto
<1>10. CallsOf(a)'
  BY <1>3, <1>4, <1>9 DEF CallsOf
<1>11. Phases'
  BY <1>1, <1>2, <1>10, PhasesMove
<1>12. Buffers'
  <2>1. buf' \in [Activations -> Int] /\ \A b \in Activations \ {a} : buf'[b] = buf[b]
    BY <1>1 DEF Kept, Buffers, H!NULL
  <2>2. \A b \in Activations : at'[b] = IF b = a THEN "kfree" ELSE at[b]
    BY <1>1, <1>2 DEF Goto
  <2>3. \A b \in Activations : Bytes(b)' = Bytes(b)
    BY <1>3 DEF Bytes, Program
  <2>4. \A b \in Activations : Holding(b)' =>
          b # a /\ Holding(b) /\ Region(b)' = Region(b)
    BY <2>1, <2>2, <2>3 DEF Holding, Region, Writing, OnScreen
  <2>5. \A b \in Activations : at'[b] \in Writing => buf'[b] # H!NULL /\ Bytes(b)' = LineBytes
    BY <2>1, <2>2, <2>3 DEF Kept, Buffers, Writing, OnScreen
  <2>6. ASSUME NEW b \in Activations, Holding(b)' PROVE Region(b)' # r
    <3>1. b # a /\ Holding(b) /\ Region(b)' = Region(b)
      BY <2>4, <2>6
    <3>2. buf[b] # buf[a]
      BY <1>6, <3>1 DEF Kept, Buffers
    <3>3. Region(b).ptr = buf[b] /\ Region(a).ptr = buf[a]
      BY DEF Region
    <3>4. QED
      BY <1>6, <3>1, <3>2, <3>3
  <2>7. \A b \in Activations : Holding(b)' => Region(b)' \in used'
    BY <1>4, <2>4, <2>6 DEF Kept, Buffers
  <2>8. \A b, c \in Activations : Holding(b)' /\ Holding(c)' /\ buf'[b] = buf'[c] => b = c
    BY <2>1, <2>4 DEF Kept, Buffers
  <2>9. QED
    BY <2>1, <2>5, <2>7, <2>8 DEF Buffers
<1>13. Regions'
  <2>1. PICK e \in live \ tables : buf[a] = Front(e)
    BY <1>6 DEF Kept, Regions, Region
  <2>2. Hdr \in Int /\ H!Address(e.ptr) \in Int
    BY <2>1, Pieces, HeapNumbers DEF Kept, Owned
  <2>3. hcur' = H!Address(e.ptr) /\ hcur' + Hdr = buf[a]
    BY <1>4, <2>1, <2>2 DEF Front
  <2>4. H!Address(e.ptr)' = H!Address(e.ptr) /\ \A f : Front(f)' = Front(f)
    BY DEF H!Address, Front
  <2>5. \A s \in used' : s \in used /\ s.ptr # hcur' + Hdr
    BY <1>4, <1>6, <2>3 DEF Kept, Regions, Region
  <2>6. QED
    BY <1>3, <2>1, <2>3, <2>4, <2>5 DEF Kept, Regions
<1>14. H!Next
  BY <1>1, <1>6 DEF H!Next
<1>15. QED
  BY <1>8, <1>11, <1>12, <1>13, <1>14 DEF Kept, Followed, HeapStep

LEMMA MeltOrKeepFollowed ==
    ASSUME Shows, Kept, NEW a \in Activations, MeltOrKeep(a)
    PROVE  Followed
<1>1. /\ at[a] = "kfree" /\ Runs(a) /\ UNCHANGED << vars, bootVars, at, lineVars >>
      /\ H!MeltRight \/ H!KeepPiece
  BY DEF MeltOrKeep
<1>2. UNCHANGED << tables, memorySetup, called, pc, live, buf >>
  BY <1>1 DEF vars, bootVars, lineVars
<1>3. used' = used /\ hpc = "free" /\ (hpc' = "idle" \/ (hpc' = "free" /\ hcur' = hcur))
  BY <1>1 DEF H!MeltRight, H!KeepPiece, H!Melted, H!Return
<1>4. CallsOf(a)
  BY <1>1, OnTopCalls DEF Kept
<1>5. PagesStep
  BY <1>1, <1>2 DEF PagesStep
<1>6. Links' /\ Owned' /\ Asking'
  BY <1>5, LinksStep, OwnedStep, AskingStep DEF Kept
<1>7. CallsOf(a)'
  BY <1>1, <1>2, <1>3, <1>4 DEF CallsOf
<1>8. Phases'
  BY <1>1, <1>7, PhasesStay DEF Kept
<1>9. Buffers'
  BY <1>1, <1>2, <1>3, BuffersStay DEF Kept
<1>10. Regions'
  BY <1>2, <1>3, RegionsStay DEF Kept
<1>11. H!Next
  BY <1>1 DEF H!Next, H!FreeStep
<1>12. QED
  BY <1>6, <1>8, <1>9, <1>10, <1>11 DEF Kept, Followed, HeapStep

(* The extent that goes back to the page source is the one the block was   *)
(* made of.                                                                *)
LEMMA GiveBackFollowed ==
    ASSUME Shows, Kept, NEW a \in Activations, GiveBack(a)
    PROVE  Followed
<1> DEFINE e == H!BlockExtent(hcur)
<1>1. /\ at[a] = "kfree" /\ Runs(a) /\ hpc = "free" /\ CallFree(e)
      /\ UNCHANGED bootVars /\ H!GiveBack /\ UNCHANGED << at, lineVars >>
  BY DEF GiveBack
<1>2. UNCHANGED << tables, memorySetup, called, buf >>
  BY <1>1 DEF bootVars, lineVars
<1>3. e \in live /\ live' = live \ {e} /\ pc' \in {"free", "panic"}
  BY <1>1 DEF CallFree
<1>4. used' = used /\ hpc' = "idle"
  BY <1>1 DEF H!GiveBack, H!Return
<1>5. PICK f \in live \ tables : hcur = H!Address(f.ptr)
  BY <1>1 DEF Kept, Regions
<1>6. f.ptr \in Int /\ e = f
  <2>1. f.ptr \in Int /\ e.ptr \in Int
    BY <1>3, <1>5 DEF Kept, Owned
  <2>2. e.ptr = hcur \div PageSize
    BY DEF H!BlockExtent
  <2>3. e.ptr = f.ptr
    BY <1>5, <2>1, <2>2, Pieces
  <2>4. QED
    BY <1>3, <1>5, <2>1, <2>3 DEF Kept, Owned
<1>7. e \in live \ tables
  BY <1>5, <1>6
<1>8. PagesStep
  BY <1>1, <1>2, <1>7 DEF PagesStep
<1>9. Links' /\ Owned' /\ Asking'
  BY <1>8, LinksStep, OwnedStep, AskingStep DEF Kept
<1>10. CallsOf(a)'
  BY <1>1, <1>3, <1>4 DEF CallsOf
<1>11. Phases'
  BY <1>1, <1>10, PhasesStay DEF Kept
<1>12. Buffers'
  BY <1>1, <1>2, <1>4, BuffersStay DEF Kept
<1>13. Regions'
  <2>1. \A r \in used : r.ptr # Front(e)
    BY <1>1, <1>5, <1>6 DEF Kept, Regions, Front
  <2>2. \A r \in used : \E g \in live' \ tables' : r.ptr = Front(g)
    BY <1>2, <1>3, <2>1 DEF Kept, Regions
  <2>3. \A g : Front(g)' = Front(g)
    BY DEF Front
  <2>4. QED
    BY <1>4, <2>2, <2>3 DEF Kept, Regions
<1>14. H!Next
  BY <1>1 DEF H!Next, H!FreeStep
<1>15. QED
  BY <1>9, <1>11, <1>12, <1>13, <1>14 DEF Kept, Followed, HeapStep

LEMMA PageFreeFollowed ==
    ASSUME Shows, Kept, NEW a \in Activations, PageFreeStep(a)
    PROVE  Followed
<1>1. /\ at[a] = "kfree" /\ Runs(a) /\ FreeStep
      /\ UNCHANGED << heapVars, bootVars, at, lineVars >>
  BY DEF PageFreeStep
<1>2. UNCHANGED << hpc, hcur, hsize, hcall, used, tables, memorySetup, called, buf >>
  BY <1>1 DEF heapVars, bootVars, lineVars
<1>3. pc = "free" /\ pc' # "alloc" /\ live' = live
  BY <1>1 DEF FreeStep, FreeAdvance, FreeMerge, FreeInsert, Return
<1>4. hpc = "idle"
  BY <1>1, <1>3, OnTopCalls DEF Kept, CallsOf
<1>5. PagesStep
  BY <1>1, <1>2 DEF PagesStep
<1>6. Links' /\ Owned' /\ Asking'
  BY <1>5, LinksStep, OwnedStep, AskingStep DEF Kept
<1>7. CallsOf(a)'
  BY <1>1, <1>2, <1>3, <1>4 DEF CallsOf
<1>8. Phases'
  BY <1>1, <1>7, PhasesStay DEF Kept
<1>9. Buffers'
  BY <1>1, <1>2, BuffersStay DEF Kept
<1>10. Regions'
  BY <1>2, <1>3, RegionsStay DEF Kept
<1>11. UNCHANGED H!vars
  BY <1>1, <1>2, <1>3 DEF heapVars, H!vars
<1>12. QED
  BY <1>6, <1>8, <1>9, <1>10, <1>11 DEF Kept, Followed, HeapStep

LEMMA StillFollowed ==
    ASSUME Kept, UNCHANGED logVars
    PROVE  Followed
<1>1. UNCHANGED << vars, heapVars, bootVars, at, lineVars >>
  BY DEF logVars
<1>2. /\ UNCHANGED << tag, freePages, completePages, hpc, hcur, hsize, hcall, used >>
      /\ UNCHANGED << tables, memorySetup, called, buf, live, records, pc, arg >>
  BY <1>1 DEF vars, records, heapVars, bootVars, lineVars
<1>3. PagesStep
  BY <1>1, <1>2 DEF PagesStep
<1>4. Links' /\ Owned' /\ Asking'
  BY <1>3, LinksStep, OwnedStep, AskingStep DEF Kept
<1>5. Phases'
  BY <1>1, <1>2 DEF Kept, Phases, Top, CallsOf, Quiet, Bytes, Program
<1>6. Buffers' /\ Regions'
  BY <1>1, <1>2, BuffersStay, RegionsStay DEF Kept
<1>7. UNCHANGED H!vars
  BY <1>2 DEF H!vars
<1>8. QED
  BY <1>4, <1>5, <1>6, <1>7 DEF Kept, Followed, HeapStep

(* Pages that somebody holds are given. *)
Sharing == ~Fresh(Granted) /\ (TableGranted \/ \E a \in Activations : PagesGranted(a))

LEMMA StepFollowed ==
    ASSUME Shows, Kept, [LogNext]_logVars, ~Sharing
    PROVE  Followed
<1>1. CASE UNCHANGED logVars
  BY <1>1, StillFollowed
<1>2. CASE MainStep \/ KeyLine \/ PageAdvance
  BY <1>2, MainLineFollowed, KeyLineFollowed, TableFollowed, PageAdvanceFollowed
  DEF MainStep, Sharing
<1>3. ASSUME NEW a \in Activations, KmallocStep(a) PROVE Followed
  BY <1>3, AskFollowed, GrantedFollowed, RefusedFollowed, FormatFollowed
  DEF KmallocStep, Sharing
<1>4. ASSUME NEW a \in Activations, VgaStep(a) PROVE Followed
  BY <1>4, VgaFollowed
<1>5. ASSUME NEW a \in Activations, KfreeStep(a) PROVE Followed
  BY <1>5, BeginKfreeFollowed, MeltOrKeepFollowed, GiveBackFollowed, PageFreeFollowed,
     EndFollowed DEF KfreeStep
<1>6. QED
  BY <1>1, <1>2, <1>3, <1>4, <1>5 DEF LogNext, Progress, LineStep

LEMMA InitKept == LogInit => Kept
<1> SUFFICES ASSUME LogInit PROVE Kept
  OBVIOUS
<1> USE ChainRecords
<1>1. /\ pc = "idle" /\ hpc = "idle" /\ live = {} /\ tables = {} /\ used = {}
      /\ at = [a \in Activations |-> "idle"] /\ buf = [a \in Activations |-> H!NULL]
  BY DEF LogInit, Init, NoMemory, H!Init
<1>2. Links
  <2>1. CASE Init
    BY <2>1, HeapNumbers DEF Init, Links, CircStructs, Structs, Last, NULL
  <2>2. CASE NoMemory
    <3>1. /\ kmem_free_pages = NULL /\ kmem_alloc_pages = NULL /\ pc = "idle"
          /\ ptr \in [Structs -> Int] /\ size \in [Structs -> Int]
          /\ next = [i \in Structs |-> NULL]
      BY <2>2 DEF NoMemory
    <3>2. QED
      BY <3>1 DEF Links
  <2>3. QED
    BY <2>1, <2>2 DEF LogInit
<1>3. Owned /\ Asking
  BY <1>1 DEF Owned, Asking
<1>4. at["keys"] = "idle" /\ at["main"] = "idle" /\ Top = "main"
  BY <1>1 DEF Activations, Top
<1>5. Phases
  BY <1>1, <1>4 DEF Phases, CallsOf, Quiet
<1>6. Buffers
  BY <1>1 DEF Buffers, Holding, Writing, OnScreen, H!NULL
<1>7. Regions
  BY <1>1 DEF Regions
<1>8. QED
  BY <1>2, <1>3, <1>5, <1>6, <1>7 DEF Kept

-----------------------------------------------------------------------------
(* Lines one after another, served by the large extent of the beginning:   *)
(* the list is what is left of it, record 0, and at most two records       *)
(* behind it, which chase each other through the spare chain.              *)
OneByOne == ~nested /\ ~recycled

OneAtATime == \A a, b \in Activations : at[a] # "idle" /\ at[b] # "idle" => a = b

ShapeA == next[0] = NULL /\ kmem_alloc_pages = 1 /\ next[1] = Last /\ next[Last] = 1
ShapeB == next[0] = 1 /\ next[1] = NULL /\ kmem_alloc_pages = Last /\ next[Last] = 1
ShapeC == next[0] = 1 /\ next[1] = Last /\ kmem_alloc_pages = 1 /\ next[Last] = NULL

Behind == IF next[0] = NULL THEN {} ELSE IF next[1] = NULL THEN {1} ELSE {1, Last}

Below(e, p) == 1 <= e.ptr /\ 1 <= e.size /\ e.ptr + e.size <= p

Sorted ==
    /\ kmem_free_pages = 0
    /\ ShapeA \/ ShapeB \/ ShapeC
    /\ 1 <= ptr[0] /\ 1 <= size[0] /\ ptr[0] + size[0] = NumPages + 1
    /\ \A q \in Behind : Below(Extent(q), ptr[0])
    /\ ShapeC => RecordEnd(1) <= ptr[Last]
    /\ \A e \in live : Below(e, ptr[0])
    /\ \A e \in live, q \in Behind : PS!Disjoint(Extent(q), e)

(* What is freed is the extent given out last, so it lies behind whatever  *)
(* else has been given out or listed meanwhile.                            *)
OnTop(e) ==
    /\ \A f \in live \ {e} : PS!End(f) <= e.ptr
    /\ \A q \in Behind : RecordEnd(q) <= e.ptr

Freeing ==
    pc = "free" => /\ Below(arg, ptr[0]) /\ OnTop(arg) /\ arg \notin live
                   /\ prev \in {0} \union Behind /\ page = next[prev]

HeldOnTop == \A a \in Activations :
    Holding(a) => \E e \in live : buf[a] = Front(e) /\ OnTop(e)

FreedOnTop == hpc = "free" => \E e \in live : hcur = H!Address(e.ptr) /\ OnTop(e)

Stacked == OneAtATime /\ Sorted /\ Freeing /\ HeldOnTop /\ FreedOnTop

NoHeap == kmem_free_pages = NULL /\ live = {} /\ pc = "idle"

Orderly == IF memorySetup THEN OneByOne => Stacked ELSE NoHeap

-----------------------------------------------------------------------------
LEMMA BehindRecords ==
    ASSUME Links, Sorted
    PROVE  /\ Behind \subseteq {1, Last} /\ 0 \notin Behind /\ NULL \notin Behind
           /\ \A q \in Behind \union {0} :
                 /\ q \in Structs /\ ptr[q] \in Int /\ size[q] \in Int
                 /\ next[q] \in Behind \union {NULL}
           /\ ShapeA => Behind = {}
           /\ ShapeB => Behind = {1}
           /\ ShapeC => Behind = {1, Last}
<1>1. Behind \subseteq {1, Last} /\ 0 \notin Behind /\ NULL \notin Behind
  BY ChainRecords DEF Behind, NULL
<1>2. \A q \in {0, 1, Last} : q \in Structs /\ ptr[q] \in Int /\ size[q] \in Int
  BY ChainRecords DEF Links
<1>3. 1 # NULL /\ Last # NULL
  BY ChainRecords
<1>4. CASE ShapeA
  BY <1>1, <1>2, <1>3, <1>4, ChainRecords DEF ShapeA, ShapeB, ShapeC, Behind
<1>5. CASE ShapeB
  BY <1>1, <1>2, <1>3, <1>5, ChainRecords DEF ShapeA, ShapeB, ShapeC, Behind
<1>6. CASE ShapeC
  BY <1>1, <1>2, <1>3, <1>6, ChainRecords DEF ShapeA, ShapeB, ShapeC, Behind
<1>7. QED
  BY <1>4, <1>5, <1>6 DEF Sorted

LEMMA SortedSane ==
    ASSUME Links, Owned, Sorted
    PROVE  Sane
<1> DEFINE S == {0} \union Behind
<1>1. Closed(S) /\ S \subseteq CircStructs
  BY BehindRecords, ChainRecords DEF Closed, Sorted, CircStructs
<1>2. Walk \subseteq S
  BY <1>1 DEF Walk
<1>3. ASSUME NEW q \in S PROVE Within(ptr[q], size[q])
  <2>1. ptr[q] \in Int /\ size[q] \in Int /\ ptr[0] \in Int /\ size[0] \in Int
    BY BehindRecords
  <2>2. CASE q = 0
    BY <2>1, <2>2, HeapNumbers DEF Sorted, Within
  <2>3. CASE q \in Behind
    BY <2>1, <2>3, HeapNumbers DEF Sorted, Within, Below, Extent
  <2>4. QED
    BY <2>2, <2>3
<1>4. ASSUME NEW q \in S, NEW e \in live PROVE PS!Disjoint(Extent(q), e)
  BY DEF Sorted, Below, PS!Disjoint, PS!End, Extent
<1>5. QED
  BY <1>2, <1>3, <1>4 DEF Sane

LEMMA SortedStays ==
    ASSUME Sorted, UNCHANGED << records, live >>
    PROVE  Sorted' /\ \A e : OnTop(e) => OnTop(e)'
<1>1. UNCHANGED << kmem_free_pages, kmem_alloc_pages, ptr, size, next, live >>
  BY DEF records
<1>2. Behind' = Behind
  BY <1>1 DEF Behind
<1>3. QED
  BY <1>1, <1>2
  DEF Sorted, OnTop, ShapeA, ShapeB, ShapeC, Extent, RecordEnd, Below

LEMMA U16Fits == ASSUME NEW n \in Nat, n < 65536 PROVE U16(n) = n
BY Z3 DEF U16

(* A grant, while the large extent serves it: its front is given.          *)
LEMMA SortedGrant ==
    ASSUME Links, Owned, Asking, Sorted, Grant, ~recycled', NEW g, g = Granted
    PROVE  Sorted' /\ OnTop(g)' /\ g \in live'
<1> DEFINE n == arg.size
<1>1. /\ page = 0 /\ size[0] # n /\ AllocSplit
  BY DEF Grant, AllocExact
<1>2. /\ n \in Nat \ {0} /\ ptr[0] \in Int /\ size[0] \in Int
      /\ \A q \in Behind : ptr[q] \in Int /\ size[q] \in Int
  BY <1>1, BehindRecords DEF AllocSplit, Asking
<1>3. size[0] > n /\ size[0] <= NumPages /\ U16(size[0] - n) = size[0] - n
  <2>1. size[0] > n
    BY <1>1 DEF AllocSplit
  <2>2. ptr[0] + size[0] = NumPages + 1 /\ 1 <= ptr[0]
    BY DEF Sorted
  <2>3. size[0] <= NumPages
    BY <1>2, <2>2, HeapNumbers
  <2>4. size[0] - n \in Nat /\ size[0] - n < 65536
    BY <1>2, <2>1, <2>3, HeapNumbers
  <2>5. QED
    BY <2>1, <2>3, <2>4, U16Fits
<1>4. /\ ptr' = [ptr EXCEPT ![0] = ptr[0] + n] /\ size' = [size EXCEPT ![0] = size[0] - n]
      /\ UNCHANGED << kmem_free_pages, kmem_alloc_pages, next >>
      /\ live' = live \union {g}
      /\ g.ptr = ptr[0] /\ g.size = n
  BY <1>1, <1>3 DEF AllocSplit, Granted
<1>5. /\ ptr'[0] = ptr[0] + n /\ size'[0] = size[0] - n
      /\ \A q \in Behind : ptr'[q] = ptr[q] /\ size'[q] = size[q]
      /\ Behind' = Behind
  BY <1>4, BehindRecords, ChainRecords DEF Links, Behind
<1>6. \A e \in live : e.ptr \in Int /\ e.size \in Int
  BY DEF Owned
<1>7. \A e \in live' : Below(e, ptr[0])'
  BY <1>2, <1>4, <1>5, <1>6 DEF Sorted, Below
<1>8. \A q \in Behind : Below(Extent(q), ptr[0])'
  BY <1>2, <1>5 DEF Sorted, Below, Extent
<1>9. \A e \in live', q \in Behind : PS!Disjoint(Extent(q)', e)
  <2>1. \A q \in Behind : Extent(q)' = Extent(q)
    BY <1>5 DEF Extent
  <2>2. \A q \in Behind : PS!Disjoint(Extent(q), g)
    BY <1>2, <1>4 DEF Sorted, Below, Extent, PS!Disjoint, PS!End
  <2>3. QED
    BY <1>4, <2>1, <2>2 DEF Sorted
<1>10. 1 <= ptr'[0] /\ 1 <= size'[0] /\ ptr'[0] + size'[0] = NumPages + 1
  BY <1>2, <1>3, <1>5, HeapNumbers DEF Sorted
<1>11. /\ kmem_free_pages' = 0 /\ (ShapeA \/ ShapeB \/ ShapeC)'
       /\ ShapeC' => RecordEnd(1)' <= ptr'[Last]
  BY <1>4, <1>5, BehindRecords DEF Sorted, ShapeA, ShapeB, ShapeC, RecordEnd
<1>12. Sorted'
  BY <1>5, <1>7, <1>8, <1>9, <1>10, <1>11 DEF Sorted
<1>13. OnTop(g)'
  <2>1. \A f \in live : PS!End(f) <= ptr[0]
    BY DEF Sorted, Below, PS!End
  <2>2. \A q \in Behind : RecordEnd(q)' <= ptr[0]
    BY <1>5 DEF Sorted, Below, Extent, RecordEnd
  <2>3. g.ptr = ptr[0] /\ live' = live \union {g}
    BY <1>4
  <2>4. \A f \in live' \ {g} : PS!End(f) <= g.ptr
    BY <2>1, <2>3
  <2>5. \A q \in Behind' : RecordEnd(q)' <= g.ptr
    BY <1>5, <2>2, <2>3
  <2>6. QED
    BY <2>4, <2>5 DEF OnTop
<1>14. QED
  BY <1>4, <1>12, <1>13

(* The walk of kmem_liballoc_free goes to the end of the list: what is     *)
(* freed lies behind every record but the large extent.                    *)
LEMMA EndReached ==
    ASSUME Links, Owned, Sorted, Freeing, pc = "free", ~BeforeArg
    PROVE  /\ page = NULL
           /\ ShapeA => prev = 0
           /\ ShapeB => prev = 1
           /\ ShapeC => prev = Last
           /\ arg.ptr \in Int /\ arg.size \in Int
<1>1. arg.ptr \in Int /\ arg.size \in Int
  BY DEF Owned
<1>2. prev \in Behind \union {0} /\ page = next[prev] /\ OnTop(arg)
  BY DEF Freeing
<1>3. ASSUME page \in Behind PROVE FALSE
  <2>1. ptr[page] \in Int /\ size[page] \in Int /\ 1 <= size[page]
    BY <1>3, BehindRecords DEF Sorted, Below, Extent
  <2>2. ptr[page] + size[page] <= arg.ptr
    BY <1>2, <1>3 DEF OnTop, RecordEnd
  <2>3. ptr[page] < arg.ptr
    BY <1>1, <2>1, <2>2
  <2>4. QED
    BY <1>3, <2>3, BehindRecords DEF BeforeArg
<1>4. page = NULL
  BY <1>2, <1>3, BehindRecords
<1>5. /\ ShapeA => prev = 0
      /\ ShapeB => prev = 1
      /\ ShapeC => prev = Last
  <2>1. 1 # NULL /\ Last # NULL
    BY ChainRecords
  <2>2. next[prev] = NULL /\ prev \in Behind \union {0}
    BY <1>2, <1>4
  <2>3. ASSUME ShapeA PROVE prev = 0
    BY <2>2, <2>3, BehindRecords
  <2>4. ASSUME ShapeB PROVE prev = 1
    <3>1. Behind = {1} /\ next[0] = 1
      BY <2>4, BehindRecords DEF ShapeB
    <3>2. QED
      BY <2>1, <2>2, <3>1
  <2>5. ASSUME ShapeC PROVE prev = Last
    <3>1. Behind = {1, Last} /\ next[0] = 1 /\ next[1] = Last
      BY <2>5, BehindRecords DEF ShapeC
    <3>2. QED
      BY <2>1, <2>2, <3>1
  <2>6. QED
    BY <2>3, <2>4, <2>5
<1>6. QED
  BY <1>1, <1>4, <1>5

LEMMA SortedAdvance ==
    ASSUME Links, Owned, Sorted, Freeing, FreeAdvance
    PROVE  Sorted' /\ Freeing'
<1>1. /\ pc = "free" /\ pc' = "free" /\ page # NULL /\ prev' = page /\ page' = next[page]
      /\ UNCHANGED << records, live, arg >>
  BY DEF FreeAdvance, BeforeArg
<1>2. Sorted' /\ \A e : OnTop(e) => OnTop(e)'
  BY <1>1, SortedStays
<1>3. UNCHANGED << ptr, next, live, arg >> /\ Behind' = Behind
  BY <1>1 DEF records, Behind
<1>4. page \in Behind
  BY <1>1, BehindRecords DEF Freeing
<1>5. OnTop(arg)'
  BY <1>1, <1>2, <1>3 DEF Freeing, OnTop
<1>6. QED
  BY <1>1, <1>2, <1>3, <1>4, <1>5 DEF Freeing, Below

(* The last record grows at its end. *)
LEMMA SortedMerge ==
    ASSUME Links, Owned, Sorted, Freeing, FreeMerge
    PROVE  Sorted' /\ Freeing'
<1>1. /\ pc = "free" /\ ~BeforeArg /\ pc' = "idle"
      /\ UNCHANGED << kmem_free_pages, ptr, live >>
  BY DEF FreeMerge, Return
<1>2. /\ page = NULL /\ arg.ptr \in Int /\ arg.size \in Int
      /\ Below(arg, ptr[0]) /\ OnTop(arg) /\ arg \notin live /\ prev \in {0} \union Behind
  BY <1>1, EndReached DEF Freeing
<1>3. RecordEnd(prev) = arg.ptr
  BY <1>1, <1>2 DEF FreeMerge, Precedes, Follows
<1>4. prev \in Behind /\ prev # 0 /\ ptr[0] \in Int /\ size[0] \in Int
      /\ ptr[prev] \in Int /\ size[prev] \in Int
  <2>1. ptr[0] \in Int /\ size[0] \in Int
    BY BehindRecords
  <2>2. prev # 0
    BY <1>2, <1>3, <2>1 DEF Below, RecordEnd, Sorted
  <2>3. QED
    BY <1>2, <2>1, <2>2, BehindRecords
<1>5. 1 <= ptr[prev] /\ 1 <= size[prev] /\ ptr[prev] + size[prev] = arg.ptr
      /\ 1 <= arg.size /\ arg.ptr + arg.size <= ptr[0]
  BY <1>2, <1>3, <1>4 DEF Sorted, Below, Extent, RecordEnd
<1>6. U16(size[prev] + arg.size) = size[prev] + arg.size
  <2>1. ptr[0] <= NumPages
    BY <1>4, HeapNumbers DEF Sorted
  <2>2. size[prev] + arg.size \in Nat /\ size[prev] + arg.size < 65536
    BY <1>2, <1>4, <1>5, <2>1, HeapNumbers
  <2>3. QED
    BY <2>2, U16Fits
<1>7. /\ size' = [size EXCEPT ![prev] = size[prev] + arg.size]
      /\ next' = next /\ kmem_alloc_pages' = kmem_alloc_pages
  BY <1>2, <1>3, <1>6 DEF FreeMerge, AbsorbPage, Follows
<1>8. /\ size'[prev] = size[prev] + arg.size /\ \A q \in Structs : q # prev => size'[q] = size[q]
      /\ Behind' = Behind
  BY <1>4, <1>7, BehindRecords DEF Links, Behind
<1>9. \A q \in Behind : Below(Extent(q), ptr[0])'
  <2>1. \A q \in Behind : q # prev => Extent(q)' = Extent(q)
    BY <1>1, <1>8, BehindRecords DEF Extent
  <2> PICK p \in Behind : p = prev
    BY <1>4
  <2>2. Below(Extent(p), ptr[0])'
    BY <1>1, <1>2, <1>4, <1>5, <1>8 DEF Below, Extent
  <2>3. \A q \in Behind \ {p} : Below(Extent(q), ptr[0])'
    BY <1>1, <2>1 DEF Sorted, Below
  <2>4. QED
    BY <2>2, <2>3
<1>10. \A e \in live, q \in Behind : PS!Disjoint(Extent(q), e)'
  <2> SUFFICES ASSUME NEW e \in live, NEW q \in Behind PROVE PS!Disjoint(Extent(q)', e)
    BY DEF PS!Disjoint, PS!End
  <2>1. CASE q # prev
    <3>1. Extent(q)' = Extent(q)
      BY <1>1, <1>8, <2>1, BehindRecords DEF Extent
    <3>2. QED
      BY <3>1 DEF Sorted
  <2>2. CASE q = prev
    <3>1. e.ptr \in Int /\ e.size \in Nat \ {0}
      BY DEF Owned
    <3>2. e.ptr + e.size <= arg.ptr
      BY <1>2 DEF OnTop, PS!End
    <3>3. ptr[q] + size[q] <= e.ptr \/ e.ptr + e.size <= ptr[q]
      BY DEF Sorted, PS!Disjoint, PS!End, Extent
    <3>4. e.ptr + e.size <= ptr[q] /\ ptr'[q] = ptr[q]
      BY <1>1, <1>2, <1>4, <1>5, <2>2, <3>1, <3>2, <3>3
    <3>5. QED
      BY <3>4 DEF PS!Disjoint, PS!End, Extent
  <2>3. QED
    BY <2>1, <2>2
<1>11. (ShapeA \/ ShapeB \/ ShapeC)' /\ (ShapeC' => ShapeC)
  BY <1>7 DEF Sorted, ShapeA, ShapeB, ShapeC
<1>12. ShapeC' => RecordEnd(1)' <= ptr'[Last]
  <2>1. ShapeC => prev = Last
    BY <1>1, EndReached
  <2>2. 1 \in Structs /\ 1 # Last
    BY ChainRecords
  <2>3. QED
    BY <1>1, <1>8, <1>11, <2>1, <2>2 DEF Sorted, RecordEnd
<1>13. ptr'[0] = ptr[0] /\ size'[0] = size[0] /\ kmem_free_pages' = kmem_free_pages
  BY <1>1, <1>4, <1>8, ChainRecords
<1>14. \A e \in live' : Below(e, ptr[0])'
  BY <1>1 DEF Sorted, Below
<1>15. Sorted'
  BY <1>1, <1>8, <1>9, <1>10, <1>11, <1>12, <1>13, <1>14 DEF Sorted
<1>16. QED
  BY <1>1, <1>15 DEF Freeing

(* An insertion takes a record from the spare chain, the one at the front  *)
(* of the two when both are listed, and puts it behind the last one.       *)
LEMMA InsertAtEnd ==
    ASSUME Links, Owned, Sorted, Freeing, FreeInsert
    PROVE  \E new \in {1, Last} :
              /\ ptr' = [ptr EXCEPT ![new] = arg.ptr]
              /\ size' = [size EXCEPT ![new] = arg.size]
              /\ new \in Behind' /\ Behind' \subseteq Behind \union {new}
              /\ (ShapeA \/ ShapeB \/ ShapeC)'
              /\ ShapeC' => new = Last /\ 1 \in Behind
<1> DEFINE new == kmem_alloc_pages
<1>1. /\ pc = "free" /\ ~BeforeArg
  BY DEF FreeInsert
<1>2. /\ page = NULL /\ arg.ptr \in Int /\ arg.size \in Int
      /\ Below(arg, ptr[0])
      /\ ShapeA => prev = 0
      /\ ShapeB => prev = 1
      /\ ShapeC => prev = Last
  BY <1>1, EndReached DEF Freeing
<1>3. new \in {1, Last} /\ new # NULL
  BY ChainRecords DEF Sorted, ShapeA, ShapeB, ShapeC
<1>4. InsertRecord(new)
  BY <1>3 DEF FreeInsert
<1>5. U16(arg.size) = arg.size
  <2>1. ptr[0] \in Int /\ size[0] \in Int
    BY BehindRecords
  <2>2. ptr[0] <= NumPages
    BY <2>1, HeapNumbers DEF Sorted
  <2>3. arg.size \in Nat /\ arg.size < 65536
    BY <1>2, <2>1, <2>2, HeapNumbers DEF Below
  <2>4. QED
    BY <2>3, U16Fits
<1>6. /\ ptr' = [ptr EXCEPT ![new] = arg.ptr]
      /\ size' = [size EXCEPT ![new] = arg.size]
      /\ next' = [next EXCEPT ![new] = NULL, ![prev] = new]
      /\ kmem_alloc_pages' = next[new]
  BY <1>2, <1>4, <1>5 DEF InsertRecord, AbsorbPage
<1>7. next \in [Structs -> Int] /\ {0, 1, Last} \subseteq Structs
      /\ 1 # 0 /\ Last # 0 /\ Last # 1 /\ 1 # NULL /\ Last # NULL
  BY ChainRecords DEF Links
<1>8. ASSUME ShapeA PROVE ShapeB' /\ new = 1
  <2>1. new = 1 /\ prev = 0
    BY <1>2, <1>8 DEF ShapeA
  <2>2. QED
    BY <1>6, <1>7, <1>8, <2>1 DEF ShapeA, ShapeB
<1>9. ASSUME ShapeB PROVE ShapeC' /\ new = Last /\ 1 \in Behind
  <2>1. new = Last /\ prev = 1 /\ Behind = {1}
    BY <1>2, <1>9, BehindRecords DEF ShapeB
  <2>2. QED
    BY <1>6, <1>7, <1>9, <2>1 DEF ShapeB, ShapeC
<1>10. ASSUME ShapeC PROVE ShapeB' /\ new = 1 /\ 1 \in Behind
  <2>1. new = 1 /\ prev = Last /\ Behind = {1, Last}
    BY <1>2, <1>10, BehindRecords DEF ShapeC
  <2>2. QED
    BY <1>6, <1>7, <1>10, <2>1 DEF ShapeB, ShapeC
<1>11. /\ ShapeB' => Behind' = {1} /\ ~ShapeC'
       /\ ShapeC' => Behind' = {1, Last}
  BY <1>7 DEF ShapeB, ShapeC, Behind
<1>12. /\ new \in Behind' /\ Behind' \subseteq Behind \union {new}
       /\ (ShapeA \/ ShapeB \/ ShapeC)'
       /\ ShapeC' => new = Last /\ 1 \in Behind
  BY <1>8, <1>9, <1>10, <1>11 DEF Sorted
<1>13. QED
  BY <1>3, <1>6, <1>12

LEMMA SortedInsert ==
    ASSUME Links, Owned, Sorted, Freeing, FreeInsert
    PROVE  Sorted' /\ Freeing'
<1>1. pc = "free" /\ ~BeforeArg /\ UNCHANGED << kmem_free_pages, live >>
  BY DEF FreeInsert
<1>2. /\ arg.ptr \in Int /\ arg.size \in Int /\ Below(arg, ptr[0]) /\ OnTop(arg)
      /\ arg \notin live
  BY <1>1, EndReached DEF Freeing
<1> PICK new \in {1, Last} :
              /\ ptr' = [ptr EXCEPT ![new] = arg.ptr]
              /\ size' = [size EXCEPT ![new] = arg.size]
              /\ new \in Behind' /\ Behind' \subseteq Behind \union {new}
              /\ (ShapeA \/ ShapeB \/ ShapeC)'
              /\ ShapeC' => new = Last /\ 1 \in Behind
  BY InsertAtEnd
<1>3. /\ ptr'[new] = arg.ptr /\ size'[new] = arg.size
      /\ \A q \in Structs : q # new => ptr'[q] = ptr[q] /\ size'[q] = size[q]
  BY ChainRecords DEF Links
<1>4. ptr'[0] = ptr[0] /\ size'[0] = size[0]
  BY <1>3, ChainRecords
<1>5. \A q \in Behind' \ {new} : q \in Behind /\ Extent(q)' = Extent(q)
  BY <1>3, BehindRecords DEF Extent
<1>6. Extent(new)' = [ptr |-> arg.ptr, size |-> arg.size]
  BY <1>3 DEF Extent
<1>7. \A q \in Behind' : Below(Extent(q), ptr[0])'
  <2>1. \A q \in Behind' \ {new} : Below(Extent(q)', ptr[0])
    BY <1>5 DEF Sorted
  <2>2. Below(Extent(new)', ptr[0])
    BY <1>2, <1>6 DEF Below
  <2>3. QED
    BY <1>4, <2>1, <2>2 DEF Below
<1>8. \A e \in live, q \in Behind' : PS!Disjoint(Extent(q)', e)
  <2>1. \A e \in live, q \in Behind' \ {new} : PS!Disjoint(Extent(q)', e)
    BY <1>5 DEF Sorted
  <2>2. \A e \in live : PS!Disjoint(Extent(new)', e)
    BY <1>2, <1>6 DEF OnTop, PS!Disjoint, PS!End
  <2>3. QED
    BY <2>1, <2>2
<1>9. ShapeC' => RecordEnd(1)' <= ptr'[Last]
  <2> SUFFICES ASSUME ShapeC' PROVE RecordEnd(1)' <= ptr'[Last]
    OBVIOUS
  <2>1. new = Last /\ 1 \in Behind /\ 1 \in Structs /\ 1 # Last
    BY ChainRecords
  <2>2. RecordEnd(1) <= arg.ptr
    BY <1>2, <2>1 DEF OnTop
  <2>3. QED
    BY <1>3, <2>1, <2>2 DEF RecordEnd
<1>10. \A e \in live' : Below(e, ptr[0])'
  BY <1>1, <1>4 DEF Sorted, Below
<1>11. Sorted'
  BY <1>1, <1>4, <1>7, <1>8, <1>9, <1>10 DEF Sorted, PS!Disjoint, PS!End
<1>12. pc' # "free"
  BY DEF FreeInsert, Return
<1>13. QED
  BY <1>11, <1>12 DEF Freeing

LEMMA SortedFree ==
    ASSUME Links, Owned, Sorted, Freeing, FreeStep
    PROVE  Sorted' /\ Freeing'
BY SortedAdvance, SortedMerge, SortedInsert DEF FreeStep

(* The extent on top goes back. *)
LEMMA SortedGiveBack ==
    ASSUME Links, Owned, Sorted, NEW e \in live, OnTop(e), CallFree(e)
    PROVE  Sorted' /\ Freeing'
<1>1. /\ live' = live \ {e} /\ UNCHANGED << kmem_free_pages, kmem_alloc_pages, ptr, size, next >>
      /\ pc' = "free" /\ arg' = e /\ prev' = 0 /\ page' = next[0]
  BY DEF CallFree, records, Sorted, NULL
<1>2. Behind' = Behind
  BY <1>1 DEF Behind
<1>3. Sorted'
  BY <1>1, <1>2
  DEF Sorted, ShapeA, ShapeB, ShapeC, Extent, RecordEnd, Below
<1>4. OnTop(e)'
  BY <1>1, <1>2 DEF OnTop, RecordEnd
<1>5. OnTop(arg)'
  BY <1>1, <1>4 DEF OnTop
<1>6. Below(arg, ptr[0])'
  BY <1>1 DEF Sorted, Below
<1>7. QED
  BY <1>1, <1>3, <1>5, <1>6 DEF Freeing

-----------------------------------------------------------------------------
LEMMA OneMoves ==
    ASSUME at \in [Activations -> Places], OneAtATime, NEW a \in Activations, NEW where,
           Goto(a, where), at[a] # "idle" \/ \A b \in Activations : at[b] = "idle"
    PROVE  OneAtATime' /\ at'[a] = where /\ \A b \in Activations \ {a} : at'[b] = "idle"
BY DEF OneAtATime, Goto

LEMMA StackedStays ==
    ASSUME Stacked, OneAtATime', UNCHANGED << records, live >>,
           pc' = "free" => UNCHANGED << pc, arg, prev, page >>,
           \A a \in Activations : Holding(a)' => Holding(a) /\ buf'[a] = buf[a],
           hpc' = "free" => hpc = "free" /\ hcur' = hcur
    PROVE  Stacked'
<1>1. Sorted' /\ \A e : OnTop(e) => OnTop(e)'
  BY SortedStays DEF Stacked
<1>2. UNCHANGED << ptr, next, live >> /\ Behind' = Behind
  BY DEF records, Behind
<1>3. Freeing'
  <2> SUFFICES ASSUME pc' = "free" PROVE Freeing'
    BY DEF Freeing
  <2>1. UNCHANGED << pc, arg, prev, page >> /\ OnTop(arg)
    BY DEF Stacked, Freeing
  <2>2. OnTop(arg)'
    BY <1>2, <2>1 DEF OnTop, records, RecordEnd
  <2>3. QED
    BY <1>2, <2>1, <2>2 DEF Stacked, Freeing, Below
<1>4. HeldOnTop'
  BY <1>1, <1>2 DEF Stacked, HeldOnTop, Front
<1>5. FreedOnTop'
  BY <1>1, <1>2 DEF Stacked, FreedOnTop
<1>6. QED
  BY <1>1, <1>3, <1>4, <1>5 DEF Stacked

LEMMA BeginStacked ==
    ASSUME Shows, Stacked, ~nested', NEW a \in Activations, NEW bytes, BeginLine(a, bytes)
    PROVE  Stacked'
<1>1. at \in [Activations -> Places]
  BY DEF Shows, LinesTyped
<1>2. /\ UNCHANGED vars /\ Goto(a, "kmalloc") /\ buf' = buf /\ hpc' = "search"
      /\ \A b \in Activations : at[b] = "idle"
  BY DEF BeginLine, H!CallMalloc, H!BeginMalloc
<1>3. OneAtATime' /\ at'[a] = "kmalloc" /\ \A b \in Activations \ {a} : at'[b] = "idle"
  BY <1>1, <1>2, OneMoves DEF Stacked
<1>4. \A b \in Activations : ~Holding(b)'
  BY <1>3 DEF Holding, Writing, OnScreen
<1>5. UNCHANGED << records, live, pc, arg, prev, page >>
  BY <1>2 DEF vars, records
<1>6. QED
  BY <1>2, <1>3, <1>4, <1>5, StackedStays

LEMMA TableStacked ==
    ASSUME Shows, Kept, Stacked, MainTable \/ TableGranted, ~recycled'
    PROVE  Stacked'
<1>1. at \in [Activations -> Places] /\ "main" \in Activations /\ "keys" \in Activations
      /\ Activations = {"main", "keys"}
  BY DEF Shows, LinesTyped, Activations
<1>2. CASE MainTable
  <2>1. /\ CallAlloc(1) /\ Goto("main", "table") /\ UNCHANGED << heapVars, lineVars >>
        /\ at["main"] = "idle" /\ at["keys"] = "idle"
    BY <1>2 DEF MainTable, Runs
  <2>2. /\ OneAtATime' /\ at'["main"] = "table"
        /\ \A b \in Activations \ {"main"} : at'[b] = "idle"
    BY <1>1, <2>1, OneMoves DEF Stacked
  <2>3. \A b \in Activations : ~Holding(b)'
    BY <2>2 DEF Holding, Writing, OnScreen
  <2>4. UNCHANGED << records, live, hpc, hcur >> /\ pc' = "alloc"
    BY <2>1 DEF heapVars, CallAlloc
  <2>5. QED
    BY <2>2, <2>3, <2>4, StackedStays
<1>3. CASE TableGranted
  <2>0. Grant /\ Fresh(Granted)
    BY <1>3, SortedSane, SaneFresh DEF TableGranted, Kept, Stacked
  <2>1. /\ at["main"] = "table" /\ Grant /\ Goto("main", "idle") /\ UNCHANGED heapVars
    BY <1>3, <2>0 DEF TableGranted, Granting
  <2>2. /\ OneAtATime' /\ at'["main"] = "idle"
        /\ \A b \in Activations \ {"main"} : at'[b] = "idle"
    BY <1>1, <2>1, OneMoves DEF Stacked
  <2>3. \A b \in Activations : ~Holding(b)'
    BY <2>2 DEF Holding, Writing, OnScreen
  <2>4. hpc = "idle"
    BY <2>1 DEF Kept, Phases, Top, CallsOf
  <2>5. hpc' # "free" /\ pc' = "idle"
    BY <2>1, <2>4, GrantGives DEF heapVars, Kept
  <2>6. Sorted'
    BY <2>1, SortedGrant DEF Kept, Stacked
  <2>7. QED
    BY <2>2, <2>3, <2>5, <2>6 DEF Stacked, Freeing, HeldOnTop, FreedOnTop
<1>4. QED
  BY <1>2, <1>3

LEMMA GrantedStacked ==
    ASSUME Shows, Kept, Stacked, NEW a \in Activations, PagesGranted(a), ~recycled'
    PROVE  Stacked'
<1> PICK g : g = Granted
  OBVIOUS
<1>1. at \in [Activations -> Places]
  BY DEF Shows, LinesTyped
<1>0. Grant /\ Fresh(Granted)
  BY SortedSane, SaneFresh DEF PagesGranted, Kept, Stacked
<1>2. /\ at[a] = "kmalloc" /\ Runs(a) /\ Grant /\ Goto(a, "format") /\ H!AddBlock(g)
      /\ buf' = [buf EXCEPT ![a] = Front(g)]
  BY <1>0 DEF PagesGranted, Kmalloced, Granting, Front
<1>3. /\ OneAtATime' /\ at'[a] = "format" /\ \A b \in Activations \ {a} : at'[b] = "idle"
  BY <1>1, <1>2, OneMoves DEF Stacked
<1>4. \A b \in Activations \ {a} : ~Holding(b)'
  BY <1>3 DEF Holding, Writing, OnScreen
<1>5. hcall.op = "malloc"
  BY <1>2, OnTopCalls DEF Kept, CallsOf
<1>6. hpc' = "idle" /\ pc' = "idle"
  BY <1>2, <1>5, GrantGives DEF H!AddBlock, H!Deliver, H!Return, Kept
<1>7. Sorted' /\ OnTop(g)' /\ g \in live'
  BY <1>2, SortedGrant DEF Kept, Stacked
<1>8. buf'[a] = Front(g) /\ Front(g)' = Front(g)
  BY <1>2 DEF Kept, Buffers, Front
<1>9. HeldOnTop'
  BY <1>4, <1>7, <1>8 DEF HeldOnTop
<1>10. QED
  BY <1>3, <1>6, <1>7, <1>9 DEF Stacked, Freeing, FreedOnTop

(* The steps of a line that leave the pages alone. *)
LEMMA LineStacked ==
    ASSUME Shows, Stacked, NEW a \in Activations, NEW where, Goto(a, where), at[a] # "idle",
           UNCHANGED vars, hpc' # "free",
           where \in Writing \union {"format"} =>
               buf'[a] = H!NULL \/ (Holding(a) /\ buf'[a] = buf[a])
    PROVE  Stacked'
<1>1. at \in [Activations -> Places]
  BY DEF Shows, LinesTyped
<1>2. OneAtATime' /\ at'[a] = where /\ \A b \in Activations \ {a} : at'[b] = "idle"
  BY <1>1, OneMoves DEF Stacked
<1>3. \A b \in Activations : Holding(b)' => Holding(b) /\ buf'[b] = buf[b]
  BY <1>2 DEF Holding, Writing, OnScreen
<1>4. UNCHANGED << records, live, pc, arg, prev, page >>
  BY DEF vars, records
<1>5. QED
  BY <1>2, <1>3, <1>4, StackedStays

LEMMA KmallocStacked ==
    ASSUME Shows, Kept, Stacked, NEW a \in Activations, KmallocStep(a), ~recycled'
    PROVE  Stacked'
<1>1. CASE AskForPages(a)
  <2>1. CallAlloc(H!PagesFor(hsize)) /\ UNCHANGED << heapVars, at, lineVars >>
    BY <1>1 DEF AskForPages
  <2>2. UNCHANGED << records, live, hpc, hcur, at, buf >> /\ pc' = "alloc"
    BY <2>1 DEF heapVars, lineVars, CallAlloc
  <2>3. OneAtATime' /\ \A b \in Activations : Holding(b)' => Holding(b) /\ buf'[b] = buf[b]
    BY <2>2 DEF Stacked, OneAtATime, Holding
  <2>4. QED
    BY <2>2, <2>3, StackedStays
<1>2. CASE PagesGranted(a)
  BY <1>2, GrantedStacked
<1>3. CASE PagesRefused(a)
  <2>1. /\ at[a] = "kmalloc" /\ Goto(a, "format") /\ UNCHANGED vars /\ H!NoBlock
        /\ buf' = [buf EXCEPT ![a] = H!NULL]
    BY <1>3 DEF PagesRefused, Kmalloced, AllocFromEmpty
  <2>2. buf'[a] = H!NULL /\ hpc' # "free"
    BY <2>1 DEF Kept, Buffers, H!NoBlock, H!Return
  <2>3. QED
    BY <2>1, <2>2, LineStacked
<1>4. CASE FormatLine(a)
  <2>1. /\ at[a] = "format" /\ Runs(a) /\ UNCHANGED << vars, heapVars, buf >>
    BY <1>4 DEF FormatLine
  <2>2. hpc' # "free"
    BY <2>1, OnTopCalls DEF Kept, CallsOf, Quiet, heapVars
  <2>3. \E where : /\ Goto(a, where)
                   /\ where \in Writing \union {"format"} => buf[a] # H!NULL
    <3>1. CASE buf[a] = H!NULL
      BY <1>4, <3>1 DEF FormatLine, Writing, OnScreen
    <3>2. CASE buf[a] # H!NULL /\ a = "main" /\ Program[called] = "madt"
      BY <1>4, <3>2 DEF FormatLine
    <3>3. CASE buf[a] # H!NULL /\ ~(a = "main" /\ Program[called] = "madt")
      BY <1>4, <3>3 DEF FormatLine
    <3>4. QED
      BY <3>1, <3>2, <3>3
  <2>4. PICK where : /\ Goto(a, where)
                     /\ where \in Writing \union {"format"} => buf[a] # H!NULL
    BY <2>3
  <2>5. where \in Writing \union {"format"} => Holding(a) /\ buf'[a] = buf[a]
    BY <2>1, <2>4 DEF Holding
  <2>6. QED
    BY <2>1, <2>2, <2>4, <2>5, LineStacked
<1>5. QED
  BY <1>1, <1>2, <1>3, <1>4 DEF KmallocStep

LEMMA VgaStacked ==
    ASSUME Shows, Kept, Stacked, NEW a \in Activations, VgaStep(a)
    PROVE  Stacked'
<1>1. /\ at[a] \in Writing /\ Runs(a) /\ UNCHANGED << vars, heapVars, buf >>
  BY DEF VgaStep, VgaTest, VgaScroll, VgaLower, VgaPut, VgaLoad, VgaAdvance, Writing, OnScreen
<1>2. at[a] # "idle" /\ hpc' # "free"
  BY <1>1, OnTopCalls DEF Kept, CallsOf, Quiet, heapVars, Writing, OnScreen
<1>3. Holding(a) /\ buf'[a] = buf[a]
  BY <1>1 DEF Holding, Kept, Buffers
<1>4. \E where : Goto(a, where)
  <2>1. CASE VgaPut(a)
    <3>1. at' = at
      BY <2>1 DEF VgaPut
    <3>2. Goto(a, at[a])
      BY <3>1 DEF Goto, Shows, LinesTyped
    <3>3. QED
      BY <3>2
  <2>2. CASE ~VgaPut(a)
    BY <2>2 DEF VgaStep, VgaTest, VgaScroll, VgaLower, VgaLoad, VgaAdvance
  <2>3. QED
    BY <2>1, <2>2
<1>5. PICK where : Goto(a, where)
  BY <1>4
<1>6. QED
  BY <1>1, <1>2, <1>3, <1>5, LineStacked

LEMMA KfreeStacked ==
    ASSUME Shows, Kept, Stacked, NEW a \in Activations, KfreeStep(a)
    PROVE  Stacked'
<1>1. at \in [Activations -> Places]
  BY DEF Shows, LinesTyped
<1>2. CASE BeginKfree(a)
  <2>1. /\ at[a] = "written" /\ UNCHANGED vars /\ Goto(a, "kfree") /\ H!CallFree(BufRegion(a))
        /\ buf' = [buf EXCEPT ![a] = H!NULL]
    BY <1>2 DEF BeginKfree
  <2>2. OneAtATime' /\ at'[a] = "kfree" /\ \A b \in Activations \ {a} : at'[b] = "idle"
    BY <1>1, <2>1, OneMoves DEF Stacked
  <2>3. \A b \in Activations : ~Holding(b)'
    BY <2>2 DEF Holding, Writing, OnScreen
  <2>4. Holding(a) /\ hcur' = buf[a] - Hdr
    BY <2>1 DEF Kept, Buffers, Holding, Writing, H!CallFree, H!BeginFree, BufRegion
  <2>5. PICK e \in live : buf[a] = Front(e) /\ OnTop(e)
    BY <2>4 DEF Stacked, HeldOnTop
  <2>6. H!Address(e.ptr) \in Int /\ Hdr \in Int
    BY Pieces, HeapNumbers DEF Kept, Owned
  <2>7. hcur' = H!Address(e.ptr) /\ H!Address(e.ptr)' = H!Address(e.ptr)
    BY <2>4, <2>5, <2>6 DEF Front
  <2>8. UNCHANGED << records, live, pc, arg, prev, page, next, ptr >>
    BY <2>1 DEF vars, records
  <2>9. Sorted' /\ OnTop(e)'
    BY <2>5, <2>8, SortedStays DEF Stacked
  <2>10. Behind' = Behind
    BY <2>8 DEF Behind
  <2>11. pc' # "free"
    BY <1>2, <2>8 DEF BeginKfree, Quiet
  <2>12. QED
    BY <2>2, <2>3, <2>7, <2>8, <2>9, <2>11 DEF Stacked, Freeing, HeldOnTop, FreedOnTop
<1>3. CASE MeltOrKeep(a)
  <2>1. UNCHANGED << vars, at, lineVars >> /\ (H!MeltRight \/ H!KeepPiece)
    BY <1>3 DEF MeltOrKeep
  <2>2. UNCHANGED << records, live, pc, arg, prev, page, at, buf >>
    BY <2>1 DEF vars, records, lineVars
  <2>3. hpc' = "free" => hpc = "free" /\ hcur' = hcur
    BY <2>1 DEF H!MeltRight, H!KeepPiece, H!Return
  <2>4. OneAtATime' /\ \A b \in Activations : Holding(b)' => Holding(b) /\ buf'[b] = buf[b]
    BY <2>2 DEF Stacked, OneAtATime, Holding
  <2>5. QED
    BY <2>2, <2>3, <2>4, StackedStays
<1>4. CASE GiveBack(a)
  <2> PICK e : e = H!BlockExtent(hcur)
    OBVIOUS
  <2>1. /\ at[a] = "kfree" /\ hpc = "free" /\ CallFree(e) /\ H!GiveBack /\ UNCHANGED at
    BY <1>4 DEF GiveBack
  <2>2. PICK f \in live : hcur = H!Address(f.ptr) /\ OnTop(f)
    BY <2>1 DEF Stacked, FreedOnTop
  <2>3. e \in live /\ e.ptr = hcur \div PageSize
    BY <2>1 DEF CallFree, H!BlockExtent
  <2>4. e = f
    <3>1. f.ptr \in Int /\ e.ptr = f.ptr
      BY <2>2, <2>3, Pieces DEF Kept, Owned
    <3>2. QED
      BY <2>2, <2>3, <3>1 DEF Kept, Owned
  <2>5. Sorted' /\ Freeing'
    BY <2>1, <2>2, <2>3, <2>4, SortedGiveBack DEF Kept, Stacked
  <2>6. OneAtATime' /\ hpc' = "idle"
    BY <2>1 DEF Stacked, OneAtATime, H!GiveBack, H!Return
  <2>7. \A b \in Activations : ~Holding(b)'
    BY <2>1 DEF Stacked, OneAtATime, Holding, Writing, OnScreen
  <2>8. QED
    BY <2>5, <2>6, <2>7 DEF Stacked, HeldOnTop, FreedOnTop
<1>5. CASE PageFreeStep(a)
  <2>1. at[a] = "kfree" /\ Runs(a) /\ FreeStep /\ UNCHANGED << heapVars, at >>
    BY <1>5 DEF PageFreeStep
  <2>2. pc = "free"
    BY <2>1 DEF FreeStep, FreeAdvance, FreeMerge, FreeInsert
  <2>3. hpc' # "free"
    BY <2>1, <2>2, OnTopCalls DEF Kept, CallsOf, heapVars
  <2>4. Sorted' /\ Freeing'
    BY <2>1, SortedFree DEF Kept, Stacked
  <2>5. OneAtATime' /\ \A b \in Activations : ~Holding(b)'
    BY <2>1 DEF Stacked, OneAtATime, Holding, Writing, OnScreen
  <2>6. QED
    BY <2>3, <2>4, <2>5 DEF Stacked, HeldOnTop, FreedOnTop
<1>6. CASE EndLine(a)
  <2>1. /\ at[a] = "kfree" /\ Quiet /\ UNCHANGED << vars, heapVars >>
        /\ \E where \in {"hang", "idle"} : Goto(a, where)
    BY <1>6 DEF EndLine
  <2>2. PICK where \in {"hang", "idle"} : Goto(a, where)
    BY <2>1
  <2>3. hpc' # "free"
    BY <2>1 DEF Quiet, heapVars
  <2>4. QED
    BY <2>1, <2>2, <2>3, LineStacked DEF Writing, OnScreen
<1>7. QED
  BY <1>2, <1>3, <1>4, <1>5, <1>6 DEF KfreeStep

LEMMA PageAdvanceStacked ==
    ASSUME Kept, Stacked, PageAdvance
    PROVE  Stacked'
<1>1. UNCHANGED << records, live, hpc, hcur, at, buf >> /\ pc' = "alloc"
  BY DEF PageAdvance, heapVars, lineVars, AllocAdvance
<1>2. OneAtATime' /\ \A b \in Activations : Holding(b)' => Holding(b) /\ buf'[b] = buf[b]
  BY <1>1 DEF Stacked, OneAtATime, Holding
<1>3. QED
  BY <1>1, <1>2, StackedStays

LEMMA StackedStep ==
    ASSUME Shows, Kept, Stacked, LogNext, OneByOne'
    PROVE  Stacked'
<1>1. ~nested' /\ ~recycled'
  BY DEF OneByOne
<1>2. CASE MainLine
  BY <1>1, <1>2, BeginStacked DEF MainLine, Activations
<1>3. CASE KeyLine
  BY <1>1, <1>3, BeginStacked DEF KeyLine, Activations
<1>4. CASE MainTable \/ TableGranted
  BY <1>1, <1>4, TableStacked
<1>5. CASE PageAdvance
  BY <1>5, PageAdvanceStacked
<1>6. ASSUME NEW a \in Activations, LineStep(a) PROVE Stacked'
  BY <1>1, <1>6, KmallocStacked, VgaStacked, KfreeStacked DEF LineStep
<1>7. QED
  BY <1>2, <1>3, <1>4, <1>5, <1>6 DEF LogNext, Progress, MainStep

(* What was begun inside another line, and where pages were taken, is not  *)
(* forgotten.                                                              *)
LEMMA NotForgotten ==
    ASSUME LogNext
    PROVE  memorySetup' = memorySetup /\ (OneByOne' => OneByOne)
<1> DEFINE Kind == memorySetup' = memorySetup /\ (OneByOne' => OneByOne)
<1>0. Grant => (~recycled' => ~recycled)
  BY DEF Grant
<1>1. CASE MainStep \/ KeyLine \/ PageAdvance
  <2>1. ASSUME NEW a, NEW bytes, BeginLine(a, bytes) PROVE Kind
    <3>1. memorySetup' = memorySetup /\ recycled' = recycled
      BY <2>1 DEF BeginLine
    <3>2. ~nested' => ~nested
      BY <2>1 DEF BeginLine
    <3>3. QED
      BY <3>1, <3>2 DEF OneByOne
  <2>2. CASE MainTable
    BY <2>2 DEF MainTable, lineVars, OneByOne
  <2>3. CASE TableGranted
    <3>1. Grant /\ memorySetup' = memorySetup /\ nested' = nested
      BY <2>3 DEF TableGranted, lineVars
    <3>2. QED
      BY <1>0, <3>1 DEF OneByOne
  <2>4. CASE PageAdvance
    BY <2>4 DEF PageAdvance, bootVars, lineVars, OneByOne
  <2>5. QED
    BY <1>1, <2>1, <2>2, <2>3, <2>4 DEF MainStep, MainLine, KeyLine
<1>2. ASSUME NEW a \in Activations, KmallocStep(a) PROVE Kind
  <2>1. CASE AskForPages(a)
    BY <2>1 DEF AskForPages, bootVars, lineVars, OneByOne
  <2>2. CASE PagesGranted(a)
    <3>1. Grant /\ memorySetup' = memorySetup /\ nested' = nested
      BY <2>2 DEF PagesGranted, Kmalloced
    <3>2. QED
      BY <1>0, <3>1 DEF OneByOne
  <2>3. CASE PagesRefused(a)
    BY <2>3 DEF PagesRefused, Kmalloced, bootVars, OneByOne
  <2>4. CASE FormatLine(a)
    BY <2>4 DEF FormatLine, bootVars, OneByOne
  <2>5. QED
    BY <1>2, <2>1, <2>2, <2>3, <2>4 DEF KmallocStep
<1>3. ASSUME NEW a \in Activations, VgaStep(a)
      PROVE  memorySetup' = memorySetup /\ (OneByOne' => OneByOne)
  BY <1>3 DEF VgaStep, VgaTest, VgaScroll, VgaLower, VgaPut, VgaLoad, VgaAdvance, bootVars,
     OneByOne
<1>4. ASSUME NEW a \in Activations, KfreeStep(a)
      PROVE  memorySetup' = memorySetup /\ (OneByOne' => OneByOne)
  BY <1>4 DEF KfreeStep, BeginKfree, MeltOrKeep, GiveBack, PageFreeStep, EndLine, bootVars,
     lineVars, OneByOne
<1>5. QED
  BY <1>1, <1>2, <1>3, <1>4 DEF LogNext, Progress, LineStep

(* Without memory for the heap no call for pages gets anywhere. *)
LEMMA NoHeapStep ==
    ASSUME NoHeap, LogNext
    PROVE  NoHeap'
<1>1. \A n : ~CallAlloc(n)
  BY DEF NoHeap, CallAlloc
<1>2. ~Grant /\ ~AllocAdvance /\ ~FreeStep
  BY DEF NoHeap, Grant, AllocExact, AllocSplit, AllocAdvance, FreeStep, FreeAdvance,
     FreeMerge, FreeInsert
<1>3. \A e : ~CallFree(e)
  BY DEF NoHeap, CallFree
<1>4. UNCHANGED vars
  <2>1. CASE MainStep \/ KeyLine \/ PageAdvance
    BY <1>1, <1>2, <2>1 DEF MainStep, MainLine, KeyLine, MainTable, TableGranted, PageAdvance,
       BeginLine
  <2>2. ASSUME NEW a \in Activations, LineStep(a) PROVE UNCHANGED vars
    BY <1>1, <1>2, <1>3, <2>2
    DEF LineStep, KmallocStep, AskForPages, PagesGranted, PagesRefused, FormatLine,
        AllocFromEmpty, VgaStep, VgaTest, VgaScroll, VgaLower, VgaPut, VgaLoad, VgaAdvance,
        KfreeStep, BeginKfree, MeltOrKeep, GiveBack, PageFreeStep, EndLine
  <2>3. QED
    BY <2>1, <2>2 DEF LogNext, Progress
<1>5. QED
  BY <1>4 DEF vars, NoHeap

LEMMA StepOrderly == Shows /\ Kept /\ Orderly /\ [LogNext]_logVars => Orderly'
<1> SUFFICES ASSUME Shows, Kept, Orderly, [LogNext]_logVars PROVE Orderly'
  OBVIOUS
<1>1. CASE LogNext
  <2>1. memorySetup' = memorySetup /\ (OneByOne' => OneByOne)
    BY <1>1, NotForgotten
  <2>2. CASE memorySetup
    BY <1>1, <2>1, <2>2, StackedStep DEF Orderly
  <2>3. CASE ~memorySetup
    BY <1>1, <2>1, <2>3, NoHeapStep DEF Orderly
  <2>4. QED
    BY <2>2, <2>3
<1>2. CASE UNCHANGED logVars
  <2>1. /\ UNCHANGED << records, live, pc, arg, prev, page, kmem_free_pages >>
        /\ UNCHANGED << memorySetup, nested, recycled, at, buf, hpc, hcur >>
    BY <1>2 DEF logVars, vars, records, heapVars, bootVars, lineVars
  <2>2. CASE ~memorySetup
    BY <2>1, <2>2 DEF Orderly, NoHeap
  <2>3. CASE memorySetup /\ OneByOne'
    <3>1. Stacked
      BY <2>1, <2>3 DEF Orderly, OneByOne
    <3>2. OneAtATime' /\ \A b \in Activations : Holding(b)' => Holding(b) /\ buf'[b] = buf[b]
      BY <2>1, <3>1 DEF Stacked, OneAtATime, Holding
    <3>3. Stacked'
      BY <2>1, <3>1, <3>2, StackedStays
    <3>4. QED
      BY <2>1, <2>3, <3>3 DEF Orderly
  <2>4. QED
    BY <2>1, <2>2, <2>3 DEF Orderly
<1>3. QED
  BY <1>1, <1>2

LEMMA InitOrderly == LogInit => Orderly
<1> SUFFICES ASSUME LogInit PROVE Orderly
  OBVIOUS
<1>1. CASE memorySetup
  <2>1. /\ Init /\ hpc = "idle"
        /\ at = [a \in Activations |-> "idle"] /\ buf = [a \in Activations |-> H!NULL]
    BY <1>1 DEF LogInit, H!Init
  <2>2. Sorted
    <3>1. /\ kmem_free_pages = 0 /\ ptr[0] = 1 /\ size[0] = NumPages /\ live = {}
          /\ next[0] = NULL /\ kmem_alloc_pages = 1 /\ next[1] = Last /\ next[Last] = 1
      BY <2>1, ChainRecords DEF Init
    <3>2. ShapeA /\ Behind = {} /\ ~ShapeC
      BY <3>1, ChainRecords DEF ShapeA, ShapeC, Behind
    <3>3. QED
      BY <3>1, <3>2, HeapNumbers DEF Sorted
  <2>3. Stacked
    BY <2>1, <2>2
    DEF Init, Stacked, OneAtATime, Freeing, HeldOnTop, FreedOnTop, Holding, Writing, OnScreen
  <2>4. QED
    BY <1>1, <2>3 DEF Orderly
<1>2. CASE ~memorySetup
  BY <1>2 DEF LogInit, NoMemory, Orderly, NoHeap
<1>3. QED
  BY <1>1, <1>2

LEMMA OrderlyApart == Kept /\ Orderly => PagesApart
<1> SUFFICES ASSUME Kept, Orderly, OneByOne PROVE Sane
  BY DEF PagesApart, OneByOne
<1>1. CASE memorySetup
  BY <1>1, SortedSane DEF Orderly, Kept, Stacked
<1>2. CASE ~memorySetup
  <2>1. kmem_free_pages = NULL
    BY <1>2 DEF Orderly, NoHeap
  <2>2. Closed({}) /\ {} \in SUBSET CircStructs
    BY <2>1 DEF Closed
  <2>3. Walk = {}
    BY <2>2 DEF Walk
  <2>4. QED
    BY <2>3 DEF Sane
<1>3. QED
  BY <1>1, <1>2

-----------------------------------------------------------------------------
(* Once pages are shared nothing moves any more. *)
Over ==
    /\ pc = "idle" /\ at[Top] = "shared" /\ at["main"] \notin {"kmalloc", "table"}
    /\ nested \/ recycled
    /\ \A a \in Activations : at[a] \in Writing => [ptr |-> buf[a], size |-> LineBytes] \in used

Sound == Shows /\ ((Kept /\ Orderly /\ ~Shared) \/ Over)

LEMMA OverStops ==
    ASSUME Over, [LogNext]_logVars
    PROVE  UNCHANGED logVars
<1>1. Shared /\ pc = "idle"
  BY DEF Over, Shared, Top, Activations
<1>2. \A a \in Activations : Runs(a) => at[a] \in {"idle", "shared"}
  BY DEF Over, Runs, Top, Activations
<1>3. Runs("main") => at["main"] = "shared"
  BY DEF Over, Runs, Top
<1>4. ~MainStep /\ ~KeyLine /\ ~PageAdvance
  BY <1>1, <1>3
  DEF Over, MainStep, MainLine, MainTable, TableGranted, KeyLine, PageAdvance, AllocAdvance
<1>5. ASSUME NEW a \in Activations PROVE ~LineStep(a)
  <2>1. ~KmallocStep(a)
    BY <1>2 DEF KmallocStep, AskForPages, PagesGranted, PagesRefused, FormatLine
  <2>2. ~VgaStep(a)
    BY <1>2 DEF VgaStep, VgaTest, VgaScroll, VgaLower, VgaPut, VgaLoad, VgaAdvance
  <2>3. ~KfreeStep(a)
    BY <1>2 DEF KfreeStep, BeginKfree, MeltOrKeep, GiveBack, PageFreeStep, EndLine
  <2>4. QED
    BY <2>1, <2>2, <2>3 DEF LineStep
<1>6. QED
  BY <1>4, <1>5 DEF LogNext, Progress

LEMMA OverStays ==
    ASSUME Over, UNCHANGED logVars
    PROVE  Over' /\ UNCHANGED H!vars
<1>1. /\ UNCHANGED << pc, live, at, buf, nested, recycled >>
      /\ UNCHANGED << tag, freePages, completePages, used, hpc, hcur, hsize, hcall, tables >>
  BY DEF logVars, vars, heapVars, bootVars, lineVars
<1>2. QED
  BY <1>1 DEF Over, Top, H!vars

(* Held pages are given only behind a nested line or a grant elsewhere:    *)
(* the list of lines one after another is sane.                            *)
LEMMA SharingRare ==
    ASSUME Kept, Orderly, Grant, ~Fresh(Granted), LogNext
    PROVE  nested' \/ recycled'
<1> SUFFICES ASSUME OneByOne' PROVE FALSE
  BY DEF OneByOne
<1>1. OneByOne /\ pc = "alloc"
  BY NotForgotten, GrantGives DEF Kept
<1>2. CASE memorySetup
  BY <1>1, <1>2, SortedSane, SaneFresh DEF Orderly, Kept, Stacked
<1>3. CASE ~memorySetup
  BY <1>1, <1>3 DEF Orderly, NoHeap
<1>4. QED
  BY <1>2, <1>3

LEMMA SharingEnds ==
    ASSUME Shows, Kept, Orderly, Sharing
    PROVE  Over' /\ Shared'
<1>1. at \in [Activations -> Places] /\ Activations = {"main", "keys"}
  BY DEF Shows, LinesTyped, Activations
<1>2. PICK a \in Activations :
        \/ a = "main" /\ TableGranted
        \/ PagesGranted(a)
  BY <1>1 DEF Sharing
<1>3. Grant /\ ~Fresh(Granted) /\ LogNext
  BY <1>2 DEF Sharing, TableGranted, PagesGranted, LogNext, Progress, MainStep, LineStep,
     KmallocStep
<1>4. pc' = "idle" /\ (nested' \/ recycled')
  BY <1>3, GrantGives, SharingRare DEF Kept
<1>5. Runs(a) /\ at[a] \in {"table", "kmalloc"}
      /\ (a = "keys" => at["main"] \notin {"kmalloc", "table"})
  <2>1. CASE TableGranted /\ a = "main"
    BY <2>1 DEF TableGranted, Kept, Phases, Runs
  <2>2. CASE PagesGranted(a)
    BY <2>2, OnTopCalls DEF PagesGranted, Kept
  <2>3. QED
    BY <1>2, <2>1, <2>2
<1>6. Goto(a, "shared") /\ \A b \in Activations \ {a} : buf'[b] = buf[b]
  <2>1. CASE TableGranted /\ a = "main"
    BY <1>3, <2>1 DEF TableGranted, Granting, lineVars
  <2>2. CASE PagesGranted(a)
    BY <1>3, <2>2 DEF PagesGranted, Granting, Kmalloced, Kept, Buffers
  <2>3. QED
    BY <1>2, <2>1, <2>2
<1>7. used \subseteq used'
  <2>1. CASE TableGranted /\ a = "main"
    BY <2>1 DEF TableGranted, heapVars
  <2>2. CASE PagesGranted(a)
    <3>1. at[a] = "kmalloc" /\ CallsOf(a) /\ H!AddBlock(Granted)
      BY <2>2, OnTopCalls DEF PagesGranted, Kept
    <3>2. hcall.op = "malloc"
      BY <3>1 DEF CallsOf
    <3>3. QED
      BY <3>1, <3>2 DEF H!AddBlock, H!Deliver, H!Return
  <2>3. QED
    BY <1>2, <2>1, <2>2
<1>8. at'[a] = "shared" /\ \A b \in Activations \ {a} : at'[b] = at[b]
  BY <1>1, <1>6 DEF Goto
<1>9. at'[Top'] = "shared" /\ at'["main"] \notin {"kmalloc", "table"} /\ Shared'
  BY <1>1, <1>5, <1>8 DEF Top, Runs, Shared
<1>10. ASSUME NEW b \in Activations, at'[b] \in Writing
       PROVE  [ptr |-> buf'[b], size |-> LineBytes] \in used'
  <2>1. b # a /\ at[b] \in Writing /\ buf'[b] = buf[b]
    BY <1>6, <1>8, <1>10 DEF Writing, OnScreen
  <2>2. Holding(b) /\ Bytes(b) = LineBytes /\ Region(b) \in used
    BY <2>1 DEF Kept, Buffers, Holding
  <2>3. QED
    BY <1>7, <2>1, <2>2 DEF Region
<1>11. QED
  BY <1>4, <1>9, <1>10 DEF Over

LEMMA NothingShared ==
    ASSUME Shows, ~Shared, [LogNext]_logVars, ~Sharing
    PROVE  ~Shared'
<1>1. at \in [Activations -> Places]
  BY DEF Shows, LinesTyped
<1>2. ASSUME NEW a \in Activations, NEW where, Goto(a, where), where # "shared"
      PROVE  ~Shared'
  BY <1>1, <1>2 DEF Goto, Shared
<1>3. ASSUME at' = at PROVE ~Shared'
  BY <1>3 DEF Shared
<1>4. CASE MainStep \/ KeyLine \/ PageAdvance
  <2>1. CASE TableGranted
    <3>1. Goto("main", "idle")
      BY <2>1 DEF TableGranted, Sharing, Granting
    <3>2. QED
      BY <1>2, <3>1 DEF Activations
  <2>2. CASE MainLine \/ MainTable \/ KeyLine \/ PageAdvance
    BY <1>2, <1>3, <2>2 DEF MainLine, MainTable, KeyLine, BeginLine, PageAdvance, Activations
  <2>3. QED
    BY <1>4, <2>1, <2>2 DEF MainStep
<1>5. ASSUME NEW a \in Activations, KmallocStep(a) PROVE ~Shared'
  <2>1. CASE PagesGranted(a)
    <3>1. Goto(a, "format")
      BY <2>1 DEF PagesGranted, Kmalloced, Sharing, Granting
    <3>2. QED
      BY <1>2, <3>1
  <2>2. CASE AskForPages(a) \/ PagesRefused(a)
    BY <1>2, <1>3, <2>2 DEF AskForPages, PagesRefused, Kmalloced
  <2>3. CASE FormatLine(a)
    <3>1. \E where \in {"fault", "idle", "test"} : Goto(a, where)
      BY <2>3 DEF FormatLine
    <3>2. QED
      BY <1>2, <3>1
  <2>4. QED
    BY <1>5, <2>1, <2>2, <2>3 DEF KmallocStep
<1>6. ASSUME NEW a \in Activations, VgaStep(a) PROVE ~Shared'
  <2>1. at' = at \/ \E where \in OnScreen \union {"written"} : Goto(a, where)
    BY <1>6
    DEF VgaStep, VgaTest, VgaScroll, VgaLower, VgaPut, VgaLoad, VgaAdvance, OnScreen
  <2>2. QED
    BY <1>2, <1>3, <2>1 DEF OnScreen
<1>7. ASSUME NEW a \in Activations, KfreeStep(a) PROVE ~Shared'
  <2>1. at' = at \/ \E where \in {"kfree", "hang", "idle"} : Goto(a, where)
    BY <1>7 DEF KfreeStep, BeginKfree, MeltOrKeep, GiveBack, PageFreeStep, EndLine
  <2>2. QED
    BY <1>2, <1>3, <2>1
<1>8. CASE UNCHANGED logVars
  BY <1>3, <1>8 DEF logVars
<1>9. QED
  BY <1>4, <1>5, <1>6, <1>7, <1>8 DEF LogNext, Progress, LineStep

(* A step keeps what there is, gives held pages away, or is none, after    *)
(* that.                                                                   *)
LEMMA StepSound ==
    ASSUME Sound, [LogNext]_logVars
    PROVE  /\ Sound'
           /\ \/ Kept /\ Kept' /\ HeapStep
              \/ Over' /\ SharingStep
              \/ Over' /\ UNCHANGED << logVars, H!vars >>
<1>1. Shows'
  BY StepShows DEF Sound
<1>2. CASE Over
  BY <1>1, <1>2, OverStops, OverStays DEF Sound
<1>3. CASE Kept /\ Orderly /\ ~Shared /\ Sharing
  <2>1. Over' /\ Shared'
    BY <1>3, SharingEnds DEF Sound
  <2>2. QED
    BY <1>1, <2>1 DEF Sound, Over, SharingStep
<1>4. CASE Kept /\ Orderly /\ ~Shared /\ ~Sharing
  <2>1. Kept' /\ HeapStep
    BY <1>4, StepFollowed DEF Sound, Followed
  <2>2. Orderly' /\ ~Shared'
    BY <1>4, StepOrderly, NothingShared DEF Sound
  <2>3. QED
    BY <1>1, <1>4, <2>1, <2>2 DEF Sound
<1>5. QED
  BY <1>2, <1>3, <1>4 DEF Sound

LEMMA InitSound == LogInit => Sound
<1>1. LogInit => ~Shared
  BY DEF LogInit, Shared
<1>2. QED
  BY <1>1, InitShows, InitKept, InitOrderly DEF Sound

LEMMA LogSound == LogSpec => []Sound
<1>1. Sound /\ [LogNext]_logVars => Sound'
  BY StepSound
<1>2. QED
  BY <1>1, InitSound, PTL DEF LogSpec

(* No page has two owners while the large extent of the beginning serves   *)
(* what is asked for and no line was begun inside another, whatever the    *)
(* sizes, the lines of the boot and those of the keyboard (kmem.c).        *)
THEOREM PagesStayApart == LogSpec => []PagesApart
<1>1. Sound => PagesApart
  BY OrderlyApart DEF Sound, Over, PagesApart
<1>2. QED
  BY <1>1, LogSound, PTL

(* Nobody is given pages that another holds, or none of the heap's, before *)
(* a line was begun inside another or pages were taken elsewhere than from *)
(* the front of the large extent (kmem_liballoc_alloc).                    *)
THEOREM SharingTakesNesting == LogSpec => [](Shared => nested \/ recycled)
<1>1. Sound => (Shared => nested \/ recycled)
  BY DEF Sound, Over
<1>2. QED
  BY <1>1, LogSound, PTL

(* The heap under the log, over kmem.c's list, does what Liballoc does     *)
(* over an ideal page source, whatever the sizes, the lines and the        *)
(* keyboard's interrupts, up to a step that gives held pages away.         *)
THEOREM HeapUnderLogIsLiballoc == LogSpec => ImplementsLiballoc
<1>1. LogInit => H!Init
  BY DEF LogInit
<1>2. Sound /\ [LogNext]_logVars => [H!Next \/ SharingStep]_(H!vars)
  BY StepSound DEF HeapStep
<1>3. QED
  BY <1>1, <1>2, LogSound, PTL DEF LogSpec, ImplementsLiballoc

-----------------------------------------------------------------------------
(* What is proved of Liballoc over an ideal page source holds of the heap  *)
(* under the log.  The two instances of Liballoc say the same.             *)
HP == INSTANCE LiballocProofs WITH
        held <- live \ tables, pc <- hpc, cur <- hcur, size <- hsize,
        call <- hcall, Sizes <- {LineBytes, MadtBytes}, Counts <- {1}

LEMMA SameSteps == H!Next <=> HP!Next
<1>1. /\ H!NULL = HP!NULL /\ H!Word = HP!Word /\ H!Bins = HP!Bins /\ H!Heap = HP!Heap
      /\ H!NoRegion = HP!NoRegion /\ H!NoCall = HP!NoCall
  BY DEF H!NULL, H!Word, H!Bins, H!Heap, H!NoRegion, H!NoCall,
   HP!NULL, HP!Word, HP!Bins, HP!Heap, HP!NoRegion, HP!NoCall
<1>2. \A n : H!U(n) = HP!U(n) /\ H!Address(n) = HP!Address(n)
  BY DEF H!U, H!Word, H!Address,
   HP!U, HP!Word, HP!Address
<1>3. \A n : H!GetExp(n) = HP!GetExp(n)
  BY DEF H!GetExp, H!Bins,
   HP!GetExp, HP!Bins
<1>4. \A n : H!BinOf(n) = HP!BinOf(n)
  BY <1>3 DEF H!BinOf,
   HP!BinOf
<1>5. \A h : H!Become(h) <=> HP!Become(h)
  BY DEF H!Become,
   HP!Become
<1>6. \A f, a, t : H!Without(f, a) = HP!Without(f, a) /\ H!With(f, a, t) = HP!With(f,
     a, t)
  BY DEF H!Without, H!With,
   HP!Without, HP!With
<1>7. \A t : H!Whole(t) <=> HP!Whole(t)
  BY DEF H!Whole, H!NULL,
   HP!Whole, HP!NULL
<1>8. \A h, a, b : H!InsertTag(h, a, b) = HP!InsertTag(h, a, b)
  BY DEF H!InsertTag, H!NULL,
   HP!InsertTag, HP!NULL
<1>9. \A h, a : H!RemoveTag(h, a) = HP!RemoveTag(h, a)
  BY DEF H!RemoveTag, H!NULL,
   HP!RemoveTag, HP!NULL
<1>10. \A h, a : H!Swallow(h, a) = HP!Swallow(h, a)
  BY DEF H!Swallow, H!NULL, H!U, H!Word, H!Without,
   HP!Swallow, HP!NULL, HP!U, HP!Word, HP!Without
<1>11. \A h, a :
           /\ H!AbsorbRight(h, a) = HP!AbsorbRight(h, a)
           /\ H!MeltLeftTag(h, a) = HP!MeltLeftTag(h, a)
  BY <1>9, <1>10 DEF H!AbsorbRight, H!MeltLeftTag,
   HP!AbsorbRight, HP!MeltLeftTag
<1>12. ASSUME NEW h, NEW a PROVE H!SplitTag(h, a) = HP!SplitTag(h, a)
  <2> DEFINE t == h.tag[a]
             new == H!U(a + Hdr + t.size)
             rest == [real_size |-> H!U(t.real_size - Hdr - t.size), size |-> 0,
     index |-> -1,
                      left |-> a, right |-> t.right, next |-> H!NULL, prev |-> H!NULL]
             placed == H!With(h.tag, new, rest)
             relinked == IF t.right # H!NULL
                           THEN [placed EXCEPT ![t.right].left = new]
                           ELSE placed
             shrunk == [relinked EXCEPT ![a].right = new,
                                   ![a].real_size = H!U(@ - rest.real_size)]
  <2>1. H!SplitTag(h, a) =
            H!InsertTag([h EXCEPT !.tag = shrunk], new,
     H!BinOf(H!U(rest.real_size - Hdr)))
    BY DEF H!SplitTag
  <2>2. HP!SplitTag(h, a) =
            HP!InsertTag([h EXCEPT !.tag = shrunk], new, HP!BinOf(HP!U(rest.real_size - Hdr)))
    BY DEF HP!SplitTag, H!U, HP!U, H!Word, HP!Word, H!With, HP!With, H!NULL, HP!NULL
  <2> HIDE DEF shrunk, new, rest
  <2>3. QED
    BY <2>1, <2>2, <1>2, <1>4, <1>8
<1>13. \A h, a, n : H!Carve(h, a, n) = HP!Carve(h, a, n)
  BY <1>1, <1>2, <1>3, <1>12 DEF H!Carve,
     HP!Carve
<1>14. \A a : H!Fits(a) <=> HP!Fits(a)
  BY <1>2 DEF H!Fits,
     HP!Fits
<1>15. H!Return <=> HP!Return
  BY <1>1 DEF H!Return, H!NULL, H!NoCall, H!NoRegion,
     HP!Return, HP!NULL, HP!NoCall, HP!NoRegion
<1>16. \A n, op, bytes, old :
           H!BeginMalloc(n, op, bytes, old) <=> HP!BeginMalloc(n, op, bytes, old)
  BY <1>4 DEF H!BeginMalloc, H!heap,
     HP!BeginMalloc, HP!heap
<1>17. \A c, n, r :
           /\ (H!CallMalloc(n) <=> HP!CallMalloc(n))
           /\ (H!CallCalloc(c, n) <=> HP!CallCalloc(c, n))
           /\ (H!CallRealloc(r, n) <=> HP!CallRealloc(r, n))
  BY <1>1, <1>2, <1>16 DEF H!CallMalloc, H!CallCalloc, H!CallRealloc,
     HP!CallMalloc, HP!CallCalloc, HP!CallRealloc
<1>18. H!SearchNext <=> HP!SearchNext
  BY <1>1, <1>14 DEF H!SearchNext, H!heap,
     HP!SearchNext, HP!heap
<1>19. \A a : H!Deliver(a) <=> HP!Deliver(a)
  BY <1>15 DEF H!Deliver,
     HP!Deliver
<1>20. H!TakeFound <=> HP!TakeFound
  BY <1>1, <1>4, <1>5, <1>7, <1>9, <1>13, <1>14, <1>19 DEF H!TakeFound,
     HP!TakeFound
<1>21. \A e : H!AddBlock(e) <=> HP!AddBlock(e)
  BY <1>1, <1>2, <1>5, <1>6, <1>13, <1>19 DEF H!AddBlock,
     HP!AddBlock
<1>22. \A n : H!PagesFor(n) = HP!PagesFor(n)
  BY <1>2 DEF H!PagesFor,
     HP!PagesFor
<1>23. \A e : H!PS!Alloc(e) <=> HP!PS!Alloc(e)
  BY <1>1 DEF H!PS!Alloc, H!PS!InHeap, H!PS!Disjoint, H!PS!End,
     HP!PS!Alloc, HP!PS!InHeap, HP!PS!Disjoint, HP!PS!End
<1>24. H!NewBlock <=> HP!NewBlock
  BY <1>21, <1>22, <1>23 DEF H!NewBlock,
     HP!NewBlock
<1>25. H!NoBlock <=> HP!NoBlock
  BY <1>1, <1>15 DEF H!NoBlock, H!heap,
     HP!NoBlock, HP!heap
<1>26. \A r :
           /\ (H!BeginFree(r) <=> HP!BeginFree(r))
           /\ (H!CallFree(r) <=> HP!CallFree(r))
           /\ (H!ReplaceFree <=> HP!ReplaceFree)
  BY <1>1 DEF H!BeginFree, H!CallFree, H!ReplaceFree, H!heap,
     HP!BeginFree, HP!CallFree, HP!ReplaceFree, HP!heap
<1>27. \A a : H!Melts(a) <=> HP!Melts(a)
  BY <1>1 DEF H!Melts,
     HP!Melts
<1>28. /\ (H!MeltLeft <=> HP!MeltLeft)
       /\ (H!MeltRight <=> HP!MeltRight)
       /\ (H!Melted <=> HP!Melted)
  BY <1>1, <1>5, <1>11, <1>27 DEF H!MeltLeft, H!MeltRight, H!Melted,
     HP!MeltLeft, HP!MeltRight, HP!Melted
<1>29. H!FreeBin = HP!FreeBin
  BY <1>2, <1>4 DEF H!FreeBin,
     HP!FreeBin
<1>30. \A a : H!BlockExtent(a) = HP!BlockExtent(a)
  BY <1>1 DEF H!BlockExtent,
     HP!BlockExtent
<1>31. (H!KeepPiece <=> HP!KeepPiece) /\ (H!GiveBack <=> HP!GiveBack)
  BY <1>1, <1>5, <1>6, <1>7, <1>8, <1>15, <1>28, <1>29, <1>30 DEF H!KeepPiece,
     H!GiveBack,
     HP!KeepPiece, HP!GiveBack
<1>32. H!Next <=> HP!Next
  BY <1>17, <1>18, <1>20, <1>24, <1>25, <1>26, <1>28, <1>31 DEF H!Next, H!MallocStep,
     H!FreeStep,
     HP!Next, HP!MallocStep, HP!FreeStep
<1>33. QED
  BY <1>32

LEMMA SameAssumptions == HP!LiballocAssumption /\ HP!RequestsAssumption
BY KernelLogAssumption
DEF H!LiballocAssumption, HP!LiballocAssumption, H!RequestsAssumption,
     HP!RequestsAssumption

(* What Liballoc's blocks, pieces and regions are (its inductive           *)
(* invariant), they are under the log.                                     *)
Pooled == Over \/ HP!IInv

LEMMA SameVariables ==
    /\ H!Init => HP!Init
    /\ UNCHANGED H!vars <=> UNCHANGED HP!vars
    /\ UNCHANGED HP!vars => UNCHANGED used
BY DEF H!Init, HP!Init, H!NoCall, HP!NoCall, H!Bins, HP!Bins, H!NULL, HP!NULL,
     H!NoRegion, HP!NoRegion, H!vars, HP!vars

LEMMA StepPooled ==
    ASSUME Sound, Pooled, [LogNext]_logVars
    PROVE  /\ Pooled'
           /\ \/ HP!IInv /\ HP!IInv' /\ [HP!Next]_(HP!vars)
              \/ SharingStep
              \/ UNCHANGED used
<1>1. CASE Kept /\ Kept' /\ HeapStep /\ ~Over
  <2>1. HP!IInv /\ [HP!Next]_(HP!vars)
    BY <1>1, SameSteps, SameVariables DEF Pooled, HeapStep
  <2>2. HP!IInv'
    BY <2>1, SameAssumptions, HP!NextIInv
  <2>3. QED
    BY <2>1, <2>2 DEF Pooled
<1>2. CASE Over' /\ (SharingStep \/ UNCHANGED << logVars, H!vars >>)
  BY <1>2, SameVariables DEF Pooled
<1>3. CASE Over
  BY <1>3, OverStops, OverStays, SameVariables DEF Pooled
<1>4. QED
  BY <1>1, <1>2, <1>3, StepSound

LEMMA LogPooled == LogSpec => []Pooled
<1>1. LogInit => Pooled
  BY SameVariables, SameAssumptions, HP!InitIInv DEF LogInit, Pooled
<1>2. Sound /\ Pooled /\ [LogNext]_logVars => Pooled'
  BY StepPooled
<1>3. QED
  BY <1>1, <1>2, LogSound, PTL DEF LogSpec

(* The heap under the log, with kmem.c's list under it, is a pool of       *)
(* bytes: what kmalloc gives a line lies in the heap's pages and shares no *)
(* byte with what anybody else holds (kmem_malloc, kmem_free), up to a     *)
(* step that gives held pages away.  That takes a line begun inside        *)
(* another or a grant elsewhere than from the large extent.                *)
ImplementsPool == HP!HS!Init /\ [][HP!HS!Next \/ SharingStep]_used

THEOREM HeapUnderLogIsPool == LogSpec => ImplementsPool
<1>1. LogInit => HP!HS!Init
  BY DEF LogInit, H!Init, HP!HS!Init
<1>2. HP!IInv => HP!RegionsApart
  BY SameAssumptions, HP!IInvRegionsApart
<1>3. Sound /\ Pooled /\ (HP!IInv' => HP!RegionsApart') /\ [LogNext]_logVars
        => [HP!HS!Next \/ SharingStep]_used
  <2> SUFFICES ASSUME Sound, Pooled, HP!IInv' => HP!RegionsApart', [LogNext]_logVars
               PROVE  [HP!HS!Next \/ SharingStep]_used
    OBVIOUS
  <2>1. CASE HP!IInv /\ HP!IInv' /\ [HP!Next]_(HP!vars)
    BY <2>1, SameAssumptions, HP!NextRefines
  <2>2. QED
    BY <2>1, StepPooled
<1>4. QED
  BY <1>1, <1>2, <1>3, LogSound, LogPooled, PTL DEF LogSpec, ImplementsPool

(* The buffer of a line that has one, and whatever else the heap has given *)
(* out: the buffer of the line it interrupts and the copy of the MADT.     *)
LinesApart ==
    \A a \in Activations : Holding(a) =>
        \A r \in used \ {Region(a)} :
            buf[a] + Bytes(a) <= r.ptr \/ r.ptr + r.size <= buf[a]

(* A line shares no byte of its buffer with another line or with the copy  *)
(* of the MADT (klog, memcpy of acpi.c), before held pages are given away, *)
(* and that takes a line begun inside another or a grant elsewhere than    *)
(* from the large extent.                                                  *)
THEOREM LinesShareNoByte == LogSpec => [](LinesApart \/ (Shared /\ (nested \/ recycled)))
<1>1. HP!IInv => HP!RegionsApart
  BY SameAssumptions, HP!IInvRegionsApart
<1>2. ASSUME Kept, HP!RegionsApart PROVE LinesApart
  <2> SUFFICES ASSUME NEW a \in Activations, Holding(a), NEW r \in used \ {Region(a)}
               PROVE  buf[a] + Bytes(a) <= r.ptr \/ r.ptr + r.size <= buf[a]
    BY DEF LinesApart
  <2>1. Region(a) \in used /\ Region(a) # r
    BY <1>2 DEF Kept, Buffers
  <2>2. HP!HS!Disjoint(Region(a), r)
    BY <1>2, <2>1 DEF HP!RegionsApart
  <2>3. QED
    BY <2>2 DEF HP!HS!Disjoint, HP!HS!End, Region
<1>3. Over => Shared /\ (nested \/ recycled)
  BY DEF Over, Shared, Top, Activations
<1>4. Sound /\ Pooled => Over \/ (Kept /\ HP!IInv)
  BY DEF Sound, Pooled
<1>5. Sound /\ Pooled => LinesApart \/ (Shared /\ (nested \/ recycled))
  BY <1>1, <1>2, <1>3, <1>4
<1>6. QED
  BY <1>5, LogSound, LogPooled, PTL

-----------------------------------------------------------------------------
(* What vsnprintf makes of the formats ends and fits: its functions recur  *)
(* over the format, so that is TLC's to find out.                          *)
Fits(text) == text.terminated /\ text.bytes <= LineBytes

TextsFit ==
    /\ \A i \in DOMAIN Messages : Fits(BootText[i])
    /\ \A i \in DOMAIN Keys : Fits(KeyText[i])

(* A line that is on its way to the screen is what vsnprintf wrote.        *)
Written == \A a \in Activations : at[a] \in {"test"} \union OnScreen => Fits(line[a])

LEMMA LineFits ==
    ASSUME TextsFit, LinesTyped, NEW a \in Activations, at[a] # "idle"
    PROVE  Fits(LineOf(a))
<1>1. CASE a = "keys"
  BY <1>1, TextsAssumption DEF LinesTyped, LineOf, TextsFit
<1>2. CASE a # "keys"
  <2>1. \A n \in Nat, m \in Nat \ {0} : (n % m) + 1 \in 1 .. m
    OBVIOUS
  <2>2. (called % Len(Messages)) + 1 \in DOMAIN Messages
    BY <2>1, ScreenSizes, TextsAssumption DEF LinesTyped
  <2>3. QED
    BY <1>2, <2>2 DEF LineOf, TextsFit
<1>3. QED
  BY <1>1, <1>2

LEMMA StepWritten ==
    ASSUME TextsFit, Shows, Written, [LogNext]_logVars
    PROVE  Written'
<1> DEFINE W == {"test"} \union OnScreen
<1>0. at \in [Activations -> Places] /\ DOMAIN line = Activations
  BY DEF Shows, LinesTyped
<1>1. ASSUME NEW a \in Activations, NEW where, Goto(a, where),
             where \in W => at[a] \in W,
             line' = line \/ (line' = [line EXCEPT ![a] = NoLine] /\ where \notin W)
      PROVE  Written'
  <2>1. \A b \in Activations : at'[b] \in W => at[b] \in W /\ line'[b] = line[b]
    BY <1>0, <1>1 DEF Goto
  <2>2. QED
    BY <2>1 DEF Written, Fits
<1>2. ASSUME UNCHANGED << at, line >> PROVE Written'
  BY <1>2 DEF Written, Fits
<1>3. CASE MainStep \/ KeyLine \/ PageAdvance
  BY <1>1, <1>2, <1>3 DEF MainStep, MainLine, KeyLine, MainTable, TableGranted, PageAdvance,
     BeginLine, Granting, lineVars, Activations, OnScreen
<1>4. ASSUME NEW a \in Activations, KmallocStep(a) PROVE Written'
  <2>1. CASE AskForPages(a)
    BY <1>2, <2>1 DEF AskForPages, lineVars
  <2>2. CASE PagesGranted(a) \/ PagesRefused(a)
    BY <1>1, <2>2 DEF PagesGranted, PagesRefused, Kmalloced, Granting, OnScreen
  <2>3. CASE FormatLine(a) /\ line' = line /\ ~Goto(a, "test")
    <3>1. \E where \in {"fault", "idle"} : Goto(a, where)
      BY <2>3 DEF FormatLine
    <3>2. QED
      BY <1>1, <2>3, <3>1 DEF OnScreen
  <2>4. CASE FormatLine(a) /\ Goto(a, "test")
    <3>1. Goto(a, "test") /\ line' = [line EXCEPT ![a] = LineOf(a)] /\ at[a] = "format"
      <4>1. at'[a] = "test"
        BY <1>0, <2>4 DEF Goto
      <4>2. ~Goto(a, "fault") /\ ~Goto(a, "idle")
        BY <1>0, <4>1 DEF Goto
      <4>3. QED
        BY <2>4, <4>2 DEF FormatLine
    <3>2. Fits(LineOf(a))
      BY <3>1, LineFits DEF Shows
    <3>3. \A b \in Activations : b # a => at'[b] = at[b] /\ line'[b] = line[b]
      BY <1>0, <3>1 DEF Goto
    <3>4. line'[a] = LineOf(a)
      BY <1>0, <3>1
    <3>5. \A b \in Activations : at'[b] \in W => Fits(line'[b])
      BY <3>2, <3>3, <3>4 DEF Written
    <3>6. QED
      BY <3>5 DEF Written, Fits
  <2>5. FormatLine(a) => line' = line \/ Goto(a, "test")
    BY DEF FormatLine
  <2>6. FormatLine(a) /\ line' # line => Goto(a, "test")
    BY <2>5
  <2>7. QED
    BY <1>4, <2>1, <2>2, <2>3, <2>4, <2>6 DEF KmallocStep
<1>5. ASSUME NEW a \in Activations, VgaStep(a) PROVE Written'
  <2>1. at[a] \in W /\ line' = line
    BY <1>5 DEF VgaStep, VgaTest, VgaScroll, VgaLower, VgaPut, VgaLoad, VgaAdvance, OnScreen
  <2>2. CASE VgaPut(a)
    BY <1>2, <2>1, <2>2 DEF VgaPut
  <2>3. CASE ~VgaPut(a)
    <3>1. \E where : Goto(a, where)
      BY <1>5, <2>3 DEF VgaStep, VgaTest, VgaScroll, VgaLower, VgaLoad, VgaAdvance
    <3>2. QED
      BY <1>1, <2>1, <3>1
  <2>4. QED
    BY <2>2, <2>3
<1>6. ASSUME NEW a \in Activations, KfreeStep(a) PROVE Written'
  <2>1. CASE BeginKfree(a)
    BY <1>1, <2>1 DEF BeginKfree, OnScreen
  <2>2. CASE MeltOrKeep(a) \/ GiveBack(a) \/ PageFreeStep(a)
    BY <1>2, <2>2 DEF MeltOrKeep, GiveBack, PageFreeStep, lineVars
  <2>3. CASE EndLine(a)
    BY <1>1, <2>3 DEF EndLine, lineVars, OnScreen
  <2>4. QED
    BY <1>6, <2>1, <2>2, <2>3 DEF KfreeStep
<1>7. CASE UNCHANGED logVars
  BY <1>2, <1>7 DEF logVars, lineVars
<1>8. QED
  BY <1>3, <1>4, <1>5, <1>6, <1>7 DEF LogNext, Progress, LineStep

(* What vga_write_line puts on the screen is what vsnprintf wrote, in a    *)
(* buffer the heap has not taken back meanwhile, whatever the keyboard's   *)
(* handler did in between (klog).                                          *)
THEOREM BuffersHoldTheirLines == LogSpec => [](TextsFit => BufferHoldsLine)
<1>1. LogInit => Written
  BY DEF LogInit, Written, OnScreen
<1>2. Sound /\ (TextsFit => Written) /\ [LogNext]_logVars => (TextsFit => Written)'
  <2>1. TextsFit' <=> TextsFit
    BY DEF TextsFit, Fits, BootText, KeyText
  <2>2. QED
    BY <2>1, StepWritten DEF Sound
<1>3. Sound /\ (TextsFit => Written) => (TextsFit => BufferHoldsLine)
  <2> SUFFICES ASSUME Sound, Written PROVE BufferHoldsLine
    OBVIOUS
  <2>1. ASSUME NEW a \in Activations, at[a] \in {"test", "put"}
        PROVE  [ptr |-> buf[a], size |-> LineBytes] \in used
    <3>1. at[a] \in Writing
      BY <2>1 DEF Writing, OnScreen
    <3>2. CASE Kept
      BY <3>1, <3>2 DEF Kept, Buffers, Holding, Region
    <3>3. CASE Over
      BY <3>1, <3>3 DEF Over
    <3>4. QED
      BY <3>2, <3>3 DEF Sound
  <2>2. QED
    BY <2>1 DEF Written, Fits, OnScreen, BufferHoldsLine
<1>4. QED
  BY <1>1, <1>2, <1>3, LogSound, PTL DEF LogSpec

=============================================================================
