----------------------------- MODULE MCKernelLog -----------------------------
(***************************************************************************)
(* Memory maps, messages and key presses for the configurations of         *)
(* KernelLog.                                                              *)
(***************************************************************************)
EXTENDS KernelLog

Text(chars) == [i \in 1 .. Len(chars) |-> [type |-> "copy", arg |-> chars[i]]]
Number(type, n, pad, width) ==
    << [type |-> type, arg |-> n, pad |-> pad, width |-> width] >>
Name(chars) == << [type |-> "s", arg |-> chars, pad |-> "none", width |-> -1] >>

(* One that fits, one cut by the screen, one cut by the buffer, one with   *)
(* each directive the kernel uses.                                         *)
MCMessages ==
    << Text(<< 60 >>), Text(<< 50, 51 >>) \o Number("d", 3, "none", -1) \o Text(<< 52 >>),
       Name(<< 53, 54, 55 >>) \o Number("x", 254, "none", -1), Number("p", 2748, "none", -1) >>

MCKeys == << 28, 9, 1, 30 >>

(* Conventional memory comes first on every machine. *)
LowMemory == [available |-> TRUE, addr |-> 0, len |-> 10]
Nothing == [available |-> FALSE, addr |-> 0, len |-> 0]
Stretch(available, addr, len) == [available |-> available, addr |-> addr, len |-> len]

Pages == NumPages + KernelFrames

(* One more stretch, and what lies behind the map. *)
MCMaps ==
    {[entries |-> << LowMemory, Stretch(avail, addr, Pages * FrameSize + len), more >>,
      behind |-> behind] :
        avail \in BOOLEAN, addr \in 16 .. 20, len \in -2 .. 4,
        more \in {Nothing, Stretch(TRUE, 40, 2), Stretch(TRUE, 20, Pages * FrameSize + 9)},
        behind \in {Nothing, Stretch(TRUE, 12, Pages * FrameSize + 8)}}
=============================================================================
