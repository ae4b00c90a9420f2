------------------------------ MODULE Interrupts ------------------------------
(***************************************************************************)
(* Interrupts and the heap lock: idt.c's interrupt switch, which kmem.c    *)
(* uses as the lock of the heap, the activations that take it (kernel_main *)
(* while it boots, the handlers of the timer and of the PS/2 ports, an     *)
(* exception handler) and the local APIC that decides which of them run.   *)
(* There is one processor: activations form a stack, the top one runs, and *)
(* a step is an instruction or a stretch of code that neither reads nor    *)
(* writes what another activation writes.                                  *)
(*                                                                         *)
(* A log line (klog, kwarning, kerror) takes the heap lock twice, for its  *)
(* kmalloc and for its kfree.  The heap itself is module Liballoc.         *)
(***************************************************************************)
EXTENDS Integers, Sequences, FiniteSets

CONSTANTS
    MaxInterrupts,  \* bound: the interrupts devices raise in a behaviour
    FirmwareTimer   \* the firmware left the timer unmasked in the old PIC

ASSUME MaxInterruptsAssumption == MaxInterrupts \in Nat
ASSUME FirmwareTimerAssumption == FirmwareTimer \in BOOLEAN

VARIABLES
    cpu_if,                     \* the processor's interrupt flag
    idt_interrupts_enabled,     \* what idt.c believes it to be
    idt_setup,                  \* the interrupt table is loaded
    depth, frame,               \* the stack of activations
    stage,                      \* how far kernel_main is
    irr, isr,                   \* local APIC: interrupts requested, in service
    pic,                        \* what the old PIC does with the timer
    raised                      \* interrupts raised so far

vars == << cpu_if, idt_interrupts_enabled, idt_setup, depth, frame, stage,
           irr, isr, pic, raised >>
flags == << cpu_if, idt_interrupts_enabled, idt_setup >>
apic == << irr, isr, pic, raised >>

Bit == {0, 1}

(* The vectors of the lines (INT_TIMER, INT_PS2_FIRST, INT_PS2_SECOND) and *)
(* the priority class the local APIC derives from a vector.                *)
Lines == {"timer", "ps2_first", "ps2_second"}

Vector_Mutant(l) ==
    CASE l = "timer" -> 32
      [] l = "ps2_first" -> 49
      [] l = "ps2_second" -> 66

Vector(l) ==
    CASE l = "timer" -> 32
      [] l = "ps2_first" -> 33
      [] l = "ps2_second" -> 34
Class(l) == Vector(l) \div 16

(* An activation: what it is, where it is, the heap calls that follow the  *)
(* one in progress, the log lines it has yet to write and what it does     *)
(* after them; `cut` says that the lock it took executed cli.              *)
Frame == [kind : Lines \union {"main", "exception"},
          pc : {"body", "lock", "cli", "off", "heap", "unlock", "sti", "on",
                "acked", "hung", "spin"},
          calls : 0 .. 1, logs : 0 .. 4,
          after : {"return", "hang", "spin"}, cut : Bit]
Levels == 1 .. MaxInterrupts + 2

Activation(kind, logs, after) ==
    [kind |-> kind, pc |-> "body", calls |-> 0, logs |-> logs, after |-> after, cut |-> 0]

NoActivation == Activation("main", 0, "return")

top == frame[depth]
Go(p) == frame' = [frame EXCEPT ![depth].pc = p]

(* kernel_main from the loading of the interrupt table on.  The ioapic,    *)
(* lapic and pit initialisations change nothing that is modelled.          *)
Boot == << "log", "idt", "log", "pic", "log", "log", "log", "enable",
           "log", "log", "ps2", "log", "halt" >>

Init ==
    /\ cpu_if = 0
    /\ idt_interrupts_enabled = 0
    /\ idt_setup = 0
    /\ depth = 1
    /\ frame = [i \in Levels |-> NoActivation]
    /\ stage = 1
    /\ irr = {}
    /\ isr = {}
    /\ pic = IF FirmwareTimer THEN "unmasked" ELSE "masked"
    /\ raised = 0

-----------------------------------------------------------------------------
(* idt_int_disable, the lock. *)

LockTest ==
    /\ top.pc = "lock"
    /\ IF idt_interrupts_enabled = 1
       THEN Go("cli")
       ELSE frame' = [frame EXCEPT ![depth].pc = "off", ![depth].cut = 0]
    /\ UNCHANGED << flags, depth, stage, apic >>

LockCli_Mutant ==
    /\ top.pc = "cli"
    /\ frame' = [frame EXCEPT ![depth].pc = "off", ![depth].cut = 1]
    /\ UNCHANGED << flags, depth, stage, apic >>

LockCli ==
    /\ top.pc = "cli"
    /\ cpu_if' = 0
    /\ frame' = [frame EXCEPT ![depth].pc = "off", ![depth].cut = 1]
    /\ UNCHANGED << idt_interrupts_enabled, idt_setup, depth, stage, apic >>

LockStore ==
    /\ top.pc = "off"
    /\ idt_interrupts_enabled' = 0
    /\ Go("heap")
    /\ UNCHANGED << cpu_if, idt_setup, depth, stage, apic >>

(* The body of kmem_malloc or kmem_free. *)
UseHeap ==
    /\ top.pc = "heap"
    /\ Go("unlock")
    /\ UNCHANGED << flags, depth, stage, apic >>

(* The end of idt_int_enable: the next heap call of the log line (its text *)
(* is written in between), or back to the body.                            *)
Finish_Mutant ==
    frame' = IF top.calls >= 0
             THEN [frame EXCEPT ![depth].pc = "lock", ![depth].calls = @ - 1]
             ELSE [frame EXCEPT ![depth].pc = "body"]

Finish_AgainMutant ==
    frame' = IF top.calls > 0
             THEN [frame EXCEPT ![depth].pc = "lock"]
             ELSE [frame EXCEPT ![depth].pc = "body"]

Finish ==
    frame' = IF top.calls > 0
             THEN [frame EXCEPT ![depth].pc = "lock", ![depth].calls = @ - 1]
             ELSE [frame EXCEPT ![depth].pc = "body"]

(* idt_int_enable, the unlock. *)
UnlockTest ==
    /\ top.pc = "unlock"
    /\ IF idt_setup = 0 THEN Finish
       ELSE IF idt_interrupts_enabled = 0 THEN Go("sti")
       ELSE Go("on")
    /\ UNCHANGED << flags, depth, stage, apic >>

UnlockSti ==
    /\ top.pc = "sti"
    /\ cpu_if' = 1
    /\ Go("on")
    /\ UNCHANGED << idt_interrupts_enabled, idt_setup, depth, stage, apic >>

UnlockStore_Mutant ==
    /\ top.pc = "on"
    /\ Finish
    /\ UNCHANGED << flags, depth, stage, apic >>

UnlockStore ==
    /\ top.pc = "on"
    /\ idt_interrupts_enabled' = 1
    /\ Finish
    /\ UNCHANGED << cpu_if, idt_setup, depth, stage, apic >>

-----------------------------------------------------------------------------
(* What activations do between locks. *)

InBody == top.pc = "body" /\ top.logs = 0

BeginLog ==
    /\ top.pc = "body"
    /\ top.logs > 0
    /\ frame' = [frame EXCEPT ![depth].pc = "lock", ![depth].calls = 1, ![depth].logs = @ - 1]
    /\ UNCHANGED << flags, depth, stage, apic >>

(* __kernel_hang, where kpanic ends. *)
Hang ==
    /\ InBody
    /\ top.after = "hang"
    /\ cpu_if' = 0
    /\ Go("hung")
    /\ UNCHANGED << idt_interrupts_enabled, idt_setup, depth, stage, apic >>

(* The `jmp $` an exception handler ends in. *)
Spin ==
    /\ InBody
    /\ top.after = "spin"
    /\ Go("spin")
    /\ UNCHANGED << flags, depth, stage, apic >>

(* A step of kernel_main. *)
MainAt(op) ==
    /\ InBody
    /\ top.kind = "main"
    /\ top.after = "return"
    /\ Boot[stage] = op
    /\ stage' = stage + 1
    /\ UNCHANGED << cpu_if, idt_interrupts_enabled, depth, irr, isr, raised >>

MainLog ==
    /\ MainAt("log")
    /\ frame' = [frame EXCEPT ![1].logs = 1]
    /\ UNCHANGED << idt_setup, pic >>

MainIdtInit ==
    /\ MainAt("idt")
    /\ idt_setup' = 1
    /\ UNCHANGED << frame, pic >>

(* The old PIC is reset and all its lines are masked. *)
MainPicInit ==
    /\ MainAt("pic")
    /\ pic' = "masked"
    /\ UNCHANGED << frame, idt_setup >>

MainEnable ==
    /\ MainAt("enable")
    /\ frame' = [frame EXCEPT ![1].pc = "unlock", ![1].cut = 1]
    /\ UNCHANGED << idt_setup, pic >>

(* ps2_controller_init and ps2_manager_init: a log line, or kpanic. *)
MainPs2 ==
    /\ MainAt("ps2")
    /\ \E after \in {"return", "hang"} :
          frame' = [frame EXCEPT ![1].logs = 1, ![1].after = after]
    /\ UNCHANGED << idt_setup, pic >>

MainStep == MainLog \/ MainIdtInit \/ MainPicInit \/ MainEnable \/ MainPs2

(* lapic_reset_irq, at the end of a handler: the local APIC takes it for   *)
(* the interrupt of the highest class in service.                          *)
EndOfInterrupt_Mutant ==
    /\ InBody
    /\ top.kind \in Lines
    /\ top.after = "return"
    /\ Go("acked")
    /\ UNCHANGED << flags, depth, stage, irr, isr, pic, raised >>

EndOfInterrupt ==
    /\ InBody
    /\ top.kind \in Lines
    /\ top.after = "return"
    /\ \E l \in isr :
          /\ \A m \in isr : Vector(m) <= Vector(l)
          /\ isr' = isr \ {l}
    /\ Go("acked")
    /\ UNCHANGED << flags, depth, stage, irr, pic, raised >>

(* iretd brings back the flags of the interrupted code, which was running  *)
(* with interrupts on.                                                     *)
Iret_Mutant ==
    /\ top.pc = "acked"
    /\ depth' = depth - 1
    /\ frame' = [frame EXCEPT ![depth] = NoActivation]
    /\ UNCHANGED << flags, stage, apic >>

Iret ==
    /\ top.pc = "acked"
    /\ depth' = depth - 1
    /\ frame' = [frame EXCEPT ![depth] = NoActivation]
    /\ cpu_if' = 1
    /\ UNCHANGED << idt_interrupts_enabled, idt_setup, stage, apic >>

Step == \/ LockTest \/ LockCli \/ LockStore \/ UseHeap
        \/ UnlockTest \/ UnlockSti \/ UnlockStore
        \/ BeginLog \/ Hang \/ Spin \/ MainStep
        \/ EndOfInterrupt \/ Iret

-----------------------------------------------------------------------------
(* A device raises its line; the entries of the I/O APICs are written by   *)
(* idt_init.                                                               *)
Raise(l) ==
    /\ idt_setup = 1
    /\ raised < MaxInterrupts
    /\ raised' = raised + 1
    /\ irr' = irr \union {l}
    /\ UNCHANGED << flags, depth, frame, stage, isr, pic >>

(* The processor enters the handler of v through an interrupt gate. *)
Push(f) ==
    /\ cpu_if = 1
    /\ depth' = depth + 1
    /\ frame' = [frame EXCEPT ![depth + 1] = f]
    /\ cpu_if' = 0
    /\ UNCHANGED << idt_interrupts_enabled, idt_setup, stage, raised >>

(* What a handler does before it ends: a byte from a PS/2 port may be      *)
(* logged, or lead to a panic; a tick runs the timer tasks, which may      *)
(* panic, once the PS/2 initialisation has added them.                     *)
Handlers(l) ==
    {Activation(l, 0, "return")}
        \union {f \in {Activation(l, 1, "return")} : l # "timer"}
        \union {f \in {Activation(l, 1, "hang")} : l # "timer" \/ stage > 11}

(* The local APIC delivers the highest vector, unless an interrupt of its  *)
(* class or a higher one is in service.                                    *)
Deliver(l) ==
    /\ l \in irr
    /\ \A m \in irr : Vector(m) <= Vector(l)
    /\ \A m \in isr : Class(m) < Class(l)
    /\ irr' = irr \ {l}
    /\ isr' = isr \union {l}
    /\ \E f \in Handlers(l) : Push(f)
    /\ UNCHANGED pic

(* The timer line of the old PIC, at the vector the firmware gave it: 8,   *)
(* where the kernel has the handler of the double fault, which writes four *)
(* lines.  The PIC waits for an acknowledgement that never comes.          *)
FirmwareTick ==
    /\ pic = "unmasked"
    /\ pic' = "in_service"
    /\ Push(Activation("exception", 4, "spin"))
    /\ UNCHANGED << irr, isr >>

Next ==
    \/ Step
    \/ \E l \in Lines : Raise(l)
    \/ \E l \in Lines : Deliver(l)
    \/ FirmwareTick

Spec == Init /\ [][Next]_vars

(* The processor goes on, and takes an interrupt it is offered often       *)
(* enough.                                                                 *)
FairSpec == Spec /\ WF_vars(Step) /\ \A l \in Lines : SF_vars(Deliver(l))

-----------------------------------------------------------------------------
TypeOK ==
    /\ cpu_if \in Bit
    /\ idt_interrupts_enabled \in Bit
    /\ idt_setup \in Bit
    /\ depth \in Levels
    /\ frame \in [Levels -> Frame]
    /\ stage \in DOMAIN Boot
    /\ irr \subseteq Lines
    /\ isr \subseteq Lines
    /\ pic \in {"unmasked", "in_service", "masked"}
    /\ raised \in 0 .. MaxInterrupts

(* Nobody is interrupted inside the heap, so nobody enters it while        *)
(* another activation is half way through kmem_malloc or kmem_free:        *)
(* whoever is in the heap runs, with interrupts off.                       *)
HeapExclusive == \A i \in 1 .. depth : frame[i].pc = "heap" => i = depth /\ cpu_if = 0

Unacknowledged == {i \in 2 .. depth : frame[i].kind \in Lines /\ frame[i].pc # "acked"}

(* Although every unlock turns interrupts on, inside handlers too, at most *)
(* one handler is short of its end-of-interrupt, and the local APIC has    *)
(* exactly its line in service: no handler acknowledges another's.         *)
OneInService ==
    /\ \A i, j \in Unacknowledged : i = j
    /\ isr = {frame[i].kind : i \in Unacknowledged}

(* When kernel_main runs alone and is in neither half of the switch, idt.c *)
(* is right about the interrupt flag, whatever handlers did in between.    *)
FlagTracksIF ==
    depth = 1 /\ top.pc \in {"body", "lock", "cli", "heap"}
        => idt_interrupts_enabled = cpu_if

(* The flag is wrong only while the running activation, or the one it      *)
(* interrupted, is on its way through the switch.                          *)
FlagInvariant ==
    /\ cpu_if = 1 => idt_setup = 1 /\ (idt_interrupts_enabled = 1 \/ top.pc = "on")
    /\ top.pc \in {"off", "heap", "sti", "hung"} => cpu_if = 0
    /\ top.pc = "sti" => idt_setup = 1
    /\ depth > 1 =>
          /\ idt_setup = 1
          /\ \/ idt_interrupts_enabled = 1
             \/ frame[depth - 1].pc = "on"
             \/ top.pc \in {"heap", "unlock", "sti", "on"}
    /\ depth = 1 /\ (idt_interrupts_enabled = 1 \/ top.pc = "on")
          /\ top.pc \notin {"off", "hung"} => cpu_if = 1

(* What lies under the running activation was interrupted with interrupts  *)
(* on, and kernel_main lies at the bottom.                                 *)
StackInvariant ==
    /\ \A i \in 1 .. depth - 1 :
          frame[i].pc \in {"body", "lock", "cli", "unlock", "on", "acked", "spin"}
    /\ \A i \in 1 .. depth :
          /\ frame[i].kind = "main" <=> i = 1
          /\ frame[i].pc = "acked" => frame[i].kind \in Lines
    /\ depth + Cardinality(irr) <= raised + (IF pic = "unmasked" THEN 1 ELSE 2)

(* The inductive invariant behind the safety properties. *)
IInv == TypeOK /\ FlagInvariant /\ StackInvariant /\ OneInService

Stopped == \E i \in 1 .. depth : frame[i].pc \in {"hung", "spin"}

(* Interrupts are never left off for good once the table is loaded, except *)
(* by a panic.                                                             *)
InterruptsComeBack == idt_setup = 1 /\ cpu_if = 0 ~> cpu_if = 1 \/ Stopped

(* Every interrupt raised is taken in the end. *)
InterruptsTaken == \A l \in Lines : l \in irr ~> l \notin irr \/ Stopped

(* However handlers nest, the stack unwinds and kernel_main gets to its    *)
(* idle loop once the devices fall silent.                                 *)
BootCompletes == <>((depth = 1 /\ InBody /\ Boot[stage] = "halt") \/ Stopped)

(* "If it disabled interrupts, it enables interrupts": the unlock executes *)
(* sti only when the lock before it executed cli.                          *)
UnlockRestores == top.pc = "sti" => top.cut = 1
=============================================================================
