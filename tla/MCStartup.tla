------------------------------- MODULE MCStartup -------------------------------
(***************************************************************************)
(* Machines for module Startup.  Pages have four units, tables four pages. *)
(***************************************************************************)
EXTENDS Startup

Structs == {"cpu", "ioapic", "ioapic off page", "timer", "first port", "wide", "empty"}

(* The k-th structure of an MADT.                                          *)
Struct(kind, k) ==
    CASE kind = "cpu" -> [type |-> "cpu", length |-> 1, id |-> k]
      [] kind = "ioapic" ->
           [type |-> "ioapic", length |-> 1, addr |-> 400 + 4 * k, pins |-> 12 + k]
      [] kind = "ioapic off page" ->
           [type |-> "ioapic", length |-> 1, addr |-> 402 + 4 * k, pins |-> 14]
      [] kind = "timer" ->
           [type |-> "override", length |-> 1, source |-> 2, interrupt |-> 4 + k]
      [] kind = "first port" ->
           [type |-> "override", length |-> 1, source |-> 1, interrupt |-> 12]
      [] kind = "wide" -> [type |-> "unknown", length |-> 2]
      [] kind = "empty" -> [type |-> "unknown", length |-> 0]

Madt(kinds, addr) ==
    [kind |-> "MADT", addr |-> addr,
     body |-> << 300 >> \o [k \in 1 .. Len(kinds) |-> Struct(kinds[k], k)]]
Fadt(flag, addr) == [kind |-> "FADT", addr |-> addr, body |-> << TRUE, flag >>]
Other(addr) == [kind |-> "other", addr |-> addr, body |-> << >>]
Root(tables, addr) == [kind |-> "root", addr |-> addr, body |-> tables]

Usual == << "cpu", "ioapic", "timer" >>

Paragraph(signature, sums, revision, xsdt, root) ==
    [signature |-> signature, sums |-> sums, revision |-> revision,
     xsdt |-> xsdt, root |-> root]
Noise == Paragraph(FALSE, FALSE, 1, FALSE, Root(<< >>, 0))
Pointer == Paragraph(TRUE, TRUE, 0, FALSE, Root(<< >>, 80))

(* Zeros, say: behind address 0 lies a length of the interrupt vectors.    *)
Zeros == Paragraph(FALSE, TRUE, 0, FALSE, Root([k \in 1 .. 60 |-> Other(0)], 0))

(* The code takes only what lacks the signature.                           *)
Unsigned(revision, xsdt, root) == Paragraph(FALSE, TRUE, revision, xsdt, root)

ChipsOf(paragraphs) ==
    LET structs == UNION {UNION {ToSet(Tail(t.body)) :
                              t \in {u \in ToSet(p.root.body) : u.kind = "MADT"}} :
                          p \in ToSet(paragraphs)}
        chips == {s \in structs : s.type = "ioapic"}
    IN  [a \in {s.addr : s \in chips} |-> (CHOOSE s \in chips : s.addr = a).pins]
Machine(bios, low, junk) ==
    [bios |-> bios, low |-> low, junk |-> junk, chips |-> ChipsOf(bios \o low)]

(* What the areas hold, where it is taken, and what page tables hold.      *)
Areas ==
    LET usual(v) == Unsigned(v, FALSE, Root(<< Fadt(TRUE, 100), Madt(Usual, 120) >>, 80))
        xsdt(l) == Unsigned(2, TRUE, Root(l, 80))
        Paragraphs == {Noise, Pointer, Zeros, usual(0), usual(1), usual(2),
                       xsdt(<< Other(100) >>), xsdt(<< >>)}
    IN  {Machine(<< p, q >>, << r >>, j) :
            p \in {Noise, Pointer}, q \in Paragraphs, r \in Paragraphs,
            j \in {{}, {0}, {3}, {5}, {8}, {9}}}

(* Where the tables lie in their pages, and in which order.                *)
Layouts ==
    {Machine(<< >>, << Unsigned(v, FALSE, Root(l, 80 + o)) >>, {}) :
        v \in {0, 2}, o \in 0 .. 3,
        l \in UNION {{ << >>, << f, m >>, << m, f >>, << f, g, m >>, << m, Other(140), n >> } :
                     f \in {Fadt(TRUE, 100 + o) : o \in 0 .. 2}, g \in {Fadt(FALSE, 110)},
                     m \in {Madt(Usual, 120 + o) : o \in 0 .. 3},
                     n \in {Madt(<< "first port", "ioapic off page" >>, 160)}}}

(* What an MADT says.                                                      *)
Walks ==
    {Machine(<< Unsigned(2, FALSE, Root(<< Fadt(TRUE, 100), Madt(w, 120) >>, 80)) >>,
             << >>, {}) :
        w \in UNION {[1 .. n -> Structs] : n \in 0 .. 4}}

SmallMachines == Areas \union Layouts \union Walks
================================================================================
