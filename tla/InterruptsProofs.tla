--------------------------- MODULE InterruptsProofs ---------------------------
(***************************************************************************)
(* Proofs about the heap lock and the interrupt switch (module             *)
(* Interrupts), for any number of interrupts: the invariant IInv is        *)
(* inductive, and implies that nobody is interrupted inside the heap, that *)
(* one handler at a time is short of its end-of-interrupt, and that idt.c  *)
(* knows the state of the interrupt flag.                                  *)
(***************************************************************************)
EXTENDS Interrupts, FiniteSetTheorems, TLAPS

(* The three lines share one priority class. *)
LEMMA OneClass == \A l \in Lines : Class(l) = 2
<1> SUFFICES ASSUME NEW l \in Lines PROVE Class(l) = 2
    OBVIOUS
<1>1. CASE l = "timer"
  BY <1>1 DEF Class, Vector
<1>2. CASE l = "ps2_first"
  BY <1>2 DEF Class, Vector
<1>3. CASE l = "ps2_second"
  BY <1>3 DEF Class, Vector
<1>4. QED
  BY <1>1, <1>2, <1>3 DEF Lines

(* A fresh activation is a frame. *)
LEMMA FreshFrame ==
  ASSUME NEW k \in Lines \union {"main", "exception"}, NEW n \in 0 .. 4,
         NEW a \in {"return", "hang", "spin"}
  PROVE  Activation(k, n, a) \in Frame
  BY DEF Activation, Frame, Bit

(* A handler that has just been entered is at the start of its body. *)
LEMMA HandlerFrame ==
  ASSUME NEW l \in Lines, NEW f \in Handlers(l)
  PROVE  f \in Frame /\ f.kind = l /\ f.pc = "body"
<1>1. \A n \in {0, 1}, a \in {"return", "hang"} :
         LET g == Activation(l, n, a) IN g \in Frame /\ g.kind = l /\ g.pc = "body"
  <2> SUFFICES ASSUME NEW n \in {0, 1}, NEW a \in {"return", "hang"}
               PROVE  /\ Activation(l, n, a) \in Frame
                      /\ Activation(l, n, a).kind = l /\ Activation(l, n, a).pc = "body"
      OBVIOUS
  <2>1. Activation(l, n, a) \in Frame
    BY FreshFrame
  <2>2. QED
    BY <2>1 DEF Activation
<1>2. \E n \in {0, 1}, a \in {"return", "hang"} : f = Activation(l, n, a)
  BY Zenon DEF Handlers
<1>3. QED
  BY <1>1, <1>2

(* The requested lines are finitely many, and a delivery takes one away. *)
LEMMA RequestsCounted ==
  ASSUME irr \subseteq Lines
  PROVE  /\ IsFiniteSet(irr) /\ Cardinality(irr) \in Nat
         /\ \A l : Cardinality(irr \union {l}) <= Cardinality(irr) + 1
         /\ \A l \in irr : Cardinality(irr \ {l}) = Cardinality(irr) - 1
<1>1. IsFiniteSet(Lines)
  <2>1. IsFiniteSet({})
    BY FS_EmptySet
  <2>2. IsFiniteSet({} \union {"timer"})
    BY <2>1, FS_AddElement
  <2>3. IsFiniteSet(({} \union {"timer"}) \union {"ps2_first"})
    BY <2>2, FS_AddElement
  <2>4. IsFiniteSet((({} \union {"timer"}) \union {"ps2_first"}) \union {"ps2_second"})
    BY <2>3, FS_AddElement
  <2>5. Lines = (({} \union {"timer"}) \union {"ps2_first"}) \union {"ps2_second"}
    BY DEF Lines
  <2>6. QED
    BY <2>4, <2>5
<1>2. IsFiniteSet(irr)
  BY <1>1, FS_Subset
<1>3. Cardinality(irr) \in Nat
  BY <1>2, FS_CardinalityType
<1>4. \A l : Cardinality(irr \union {l}) <= Cardinality(irr) + 1
  <2> SUFFICES ASSUME NEW l PROVE Cardinality(irr \union {l}) <= Cardinality(irr) + 1
      OBVIOUS
  <2>1. Cardinality(irr \union {l}) = IF l \in irr THEN Cardinality(irr)
                                                 ELSE Cardinality(irr) + 1
    BY <1>2, FS_AddElement
  <2>2. QED
    BY <1>3, <2>1
<1>5. \A l \in irr : Cardinality(irr \ {l}) = Cardinality(irr) - 1
  <2> SUFFICES ASSUME NEW l \in irr PROVE Cardinality(irr \ {l}) = Cardinality(irr) - 1
      OBVIOUS
  <2>1. Cardinality(irr \ {l}) = IF l \in irr THEN Cardinality(irr) - 1
                                              ELSE Cardinality(irr)
    BY <1>2, FS_RemoveElement
  <2>2. QED
    BY <2>1
<1>6. QED
  BY <1>2, <1>3, <1>4, <1>5, Zenon

(* The stack has room for one activation more whenever one is pushed. *)
LEMMA RoomOnStack ==
  ASSUME IInv,
         \/ \E l \in Lines : Deliver(l)
         \/ FirmwareTick
  PROVE  depth + 1 \in Levels
<1>1. /\ raised \in Nat /\ raised <= MaxInterrupts /\ depth \in Nat /\ depth >= 1
      /\ Cardinality(irr) \in Nat
      /\ MaxInterrupts \in Nat
      /\ depth + Cardinality(irr) <= raised + (IF pic = "unmasked" THEN 1 ELSE 2)
  BY RequestsCounted, MaxInterruptsAssumption DEF IInv, TypeOK, StackInvariant, Levels
<1>2. CASE \E l \in Lines : Deliver(l)
  <2>1. PICK l \in irr : TRUE
    BY <1>2 DEF Deliver
  <2>2. Cardinality(irr \ {l}) = Cardinality(irr) - 1
    BY <2>1, RequestsCounted DEF IInv, TypeOK
  <2>3. Cardinality(irr \ {l}) \in Nat
    BY FS_Subset, FS_CardinalityType, RequestsCounted DEF IInv, TypeOK
  <2>4. QED
    BY <1>1, <2>2, <2>3 DEF Levels
<1>3. CASE FirmwareTick
  BY <1>1, <1>3 DEF FirmwareTick, Levels
<1>4. QED
  BY <1>2, <1>3

-----------------------------------------------------------------------------
LEMMA InitInv == Init => IInv
<1> SUFFICES ASSUME Init PROVE IInv
    OBVIOUS
<1>1. NoActivation \in Frame
  BY FreshFrame DEF NoActivation
<1>2. 1 \in Levels
  BY MaxInterruptsAssumption DEF Levels
<1>3. 1 \in DOMAIN Boot
  BY DEF Boot
<1>4. TypeOK
  BY <1>1, <1>2, <1>3, MaxInterruptsAssumption, FirmwareTimerAssumption DEF Init, TypeOK, Bit
<1>5. frame[1] = NoActivation /\ top = NoActivation
  BY <1>2 DEF Init, top
<1>6. FlagInvariant
  BY <1>5 DEF Init, FlagInvariant, NoActivation, Activation
<1>7. StackInvariant
  BY <1>5, FS_EmptySet DEF Init, StackInvariant, NoActivation, Activation
<1>8. OneInService
  BY DEF Init, OneInService, Unacknowledged
<1>9. QED
  BY <1>4, <1>6, <1>7, <1>8 DEF IInv

(* Every step leaves the types alone. *)
LEMMA TypeStep == IInv /\ [Next]_vars => TypeOK'
<1> SUFFICES ASSUME IInv, [Next]_vars PROVE TypeOK'
    OBVIOUS
<1> USE DEF flags, apic, Bit
<1>1. /\ TypeOK
      /\ top \in Frame /\ frame[depth] = top
  BY DEF IInv, TypeOK, top
<1>2. \A p \in {"body", "lock", "cli", "off", "heap", "unlock", "sti", "on",
                "acked", "hung", "spin"} :
         [frame EXCEPT ![depth].pc = p] \in [Levels -> Frame]
  BY <1>1 DEF TypeOK, Frame
<1>3. CASE LockTest
  <2>1. frame' \in [Levels -> Frame]
    BY <1>1, <1>2, <1>3 DEF TypeOK, LockTest, Go, Frame
  <2>2. QED
    BY <1>1, <1>3, <2>1 DEF TypeOK, LockTest
<1>4. CASE LockCli
  <2>1. frame' \in [Levels -> Frame]
    BY <1>1, <1>4 DEF TypeOK, LockCli, Frame
  <2>2. QED
    BY <1>1, <1>4, <2>1 DEF TypeOK, LockCli
<1>5. CASE LockStore
  BY <1>1, <1>2, <1>5 DEF TypeOK, LockStore, Go
<1>6. CASE UseHeap
  BY <1>1, <1>2, <1>6 DEF TypeOK, UseHeap, Go
<1>7. Finish => frame' \in [Levels -> Frame]
  BY <1>1, <1>2 DEF TypeOK, Finish, Frame
<1>8. CASE UnlockTest
  BY <1>1, <1>2, <1>7, <1>8 DEF TypeOK, UnlockTest, Go
<1>9. CASE UnlockSti
  BY <1>1, <1>2, <1>9 DEF TypeOK, UnlockSti, Go
<1>10. CASE UnlockStore
  BY <1>1, <1>7, <1>10 DEF TypeOK, UnlockStore
<1>11. CASE BeginLog
  <2>1. frame' \in [Levels -> Frame]
    BY <1>1, <1>11 DEF TypeOK, BeginLog, Frame
  <2>2. QED
    BY <1>1, <1>11, <2>1 DEF TypeOK, BeginLog
<1>12. CASE Hang
  BY <1>1, <1>2, <1>12 DEF TypeOK, Hang, Go
<1>13. CASE Spin
  BY <1>1, <1>2, <1>13 DEF TypeOK, Spin, Go
<1>14. CASE MainStep
  <2>1. /\ stage' = stage + 1 /\ Boot[stage] # "halt"
        /\ UNCHANGED << cpu_if, idt_interrupts_enabled, depth, irr, isr, raised >>
    BY <1>14 DEF MainStep, MainLog, MainIdtInit, MainPicInit, MainEnable, MainPs2, MainAt
  <2>2. stage' \in DOMAIN Boot
    BY <1>1, <2>1 DEF TypeOK, Boot
  <2>3. 1 \in Levels
    BY MaxInterruptsAssumption DEF Levels
  <2>4. frame' \in [Levels -> Frame]
    BY <1>1, <1>14, <2>3 DEF MainStep, MainLog, MainIdtInit, MainPicInit, MainEnable,
                            MainPs2, TypeOK, Frame
  <2>5. idt_setup' \in Bit /\ pic' \in {"unmasked", "in_service", "masked"}
    BY <1>1, <1>14 DEF MainStep, MainLog, MainIdtInit, MainPicInit, MainEnable,
                      MainPs2, TypeOK
  <2>6. QED
    BY <1>1, <2>1, <2>2, <2>4, <2>5 DEF TypeOK
<1>15. CASE EndOfInterrupt
  BY <1>1, <1>2, <1>15 DEF TypeOK, EndOfInterrupt, Go
<1>16. CASE Iret
  <2>1. depth > 1
    BY <1>1, <1>16 DEF IInv, TypeOK, StackInvariant, Iret, Levels, Lines, top
  <2>2. NoActivation \in Frame
    BY FreshFrame DEF NoActivation
  <2>3. QED
    BY <1>1, <1>16, <2>1, <2>2, MaxInterruptsAssumption DEF TypeOK, Iret, Levels
<1>17. CASE \E l \in Lines : Raise(l)
  BY <1>1, <1>17, MaxInterruptsAssumption DEF TypeOK, Raise
<1>18. ASSUME NEW l \in Lines, Deliver(l) PROVE TypeOK'
  <2>1. PICK f \in Handlers(l) : Push(f)
    BY <1>18 DEF Deliver
  <2>2. f \in Frame
    BY HandlerFrame
  <2>3. depth + 1 \in Levels
    BY <1>18, RoomOnStack
  <2>4. QED
    BY <1>1, <1>18, <2>1, <2>2, <2>3 DEF TypeOK, Deliver, Push
<1>19. CASE FirmwareTick
  <2>1. Activation("exception", 4, "spin") \in Frame
    BY FreshFrame
  <2>2. depth + 1 \in Levels
    BY <1>19, RoomOnStack
  <2>3. QED
    BY <1>1, <1>19, <2>1, <2>2 DEF TypeOK, FirmwareTick, Push
<1>20. CASE UNCHANGED vars
  BY <1>1, <1>20 DEF TypeOK, vars
<1>21. QED
  BY <1>3, <1>4, <1>5, <1>6, <1>8, <1>9, <1>10, <1>11, <1>12, <1>13, <1>14, <1>15,
     <1>16, <1>17, <1>18, <1>19, <1>20 DEF Next, Step

-----------------------------------------------------------------------------
(* Inside the lock or the unlock, in the body, and up and down the stack,  *)
(* the flag is wrong only on its way through the switch.                   *)
LEMMA FlagStep == IInv /\ [Next]_vars => FlagInvariant'
<1> SUFFICES ASSUME IInv, [Next]_vars PROVE FlagInvariant'
    OBVIOUS
<1> USE DEF flags, apic, top
<1>1. /\ depth \in Levels /\ depth \in Nat /\ depth >= 1
      /\ frame \in [Levels -> Frame]
      /\ cpu_if \in {0, 1} /\ idt_interrupts_enabled \in {0, 1} /\ idt_setup \in {0, 1}
      /\ FlagInvariant
  BY MaxInterruptsAssumption DEF IInv, TypeOK, Levels, Bit
<1>2. depth > 1 => depth - 1 \in Levels /\ depth - 1 # depth
  BY <1>1, MaxInterruptsAssumption DEF Levels
<1>3. CASE LockTest
  BY <1>1, <1>2, <1>3 DEF FlagInvariant, LockTest, Go, Frame
<1>4. CASE LockCli
  BY <1>1, <1>2, <1>4 DEF FlagInvariant, LockCli, Frame
<1>5. CASE LockStore
  BY <1>1, <1>2, <1>5 DEF FlagInvariant, LockStore, Go, Frame
<1>6. CASE UseHeap
  BY <1>1, <1>2, <1>6 DEF FlagInvariant, UseHeap, Go, Frame
<1>7. CASE UnlockTest
  BY <1>1, <1>2, <1>7 DEF FlagInvariant, UnlockTest, Finish, Go, Frame
<1>8. CASE UnlockSti
  BY <1>1, <1>2, <1>8 DEF FlagInvariant, UnlockSti, Go, Frame
<1>9. CASE UnlockStore
  BY <1>1, <1>2, <1>9 DEF FlagInvariant, UnlockStore, Finish, Frame
<1>10. CASE BeginLog
  BY <1>1, <1>2, <1>10 DEF FlagInvariant, BeginLog, Frame
<1>11. CASE Hang
  BY <1>1, <1>2, <1>11 DEF FlagInvariant, Hang, Go, InBody, Frame
<1>12. CASE Spin
  BY <1>1, <1>2, <1>12 DEF FlagInvariant, Spin, Go, InBody, Frame
<1>13. CASE MainStep
  <2>1. depth = 1
    BY <1>1, <1>13 DEF IInv, StackInvariant, MainStep, MainLog, MainIdtInit, MainPicInit,
                       MainEnable, MainPs2, MainAt, InBody
  <2>2. QED
    BY <1>1, <1>13, <2>1 DEF FlagInvariant, MainStep, MainLog, MainIdtInit, MainPicInit,
                       MainEnable, MainPs2, MainAt, InBody, Frame
<1>14. CASE EndOfInterrupt
  BY <1>1, <1>2, <1>14 DEF FlagInvariant, EndOfInterrupt, Go, InBody, Frame
<1>15. CASE Iret
  <2>1. depth > 1
    BY <1>1, <1>15 DEF IInv, StackInvariant, Iret, Lines
  <2>2. frame'[depth'] = frame[depth - 1] /\ depth' = depth - 1
    BY <1>1, <1>2, <1>15, <2>1 DEF Iret
  <2>3. depth' > 1 => frame'[depth' - 1] = frame[depth - 2]
    BY <1>1, <1>2, <1>15, <2>1 DEF Iret, Levels
  <2>4. frame[depth - 1].pc \notin {"off", "heap", "sti", "hung"}
    BY <1>1, <2>1 DEF IInv, StackInvariant
  <2>5. QED
    BY <1>1, <1>15, <2>1, <2>2, <2>3, <2>4 DEF FlagInvariant, Iret
<1>16. CASE \E l \in Lines : Raise(l)
  BY <1>1, <1>16 DEF FlagInvariant, Raise
<1>17. ASSUME NEW f, f.pc = "body", Push(f), depth + 1 \in Levels PROVE FlagInvariant'
  <2>1. /\ depth' = depth + 1 /\ frame'[depth'] = f /\ frame'[depth' - 1] = frame[depth]
        /\ depth' > 1
    BY <1>1, <1>17 DEF Push
  <2>2. QED
    BY <1>1, <1>17, <2>1 DEF FlagInvariant, Push
<1>18. ASSUME NEW l \in Lines, Deliver(l) PROVE FlagInvariant'
  <2>1. PICK f \in Handlers(l) : Push(f)
    BY <1>18 DEF Deliver
  <2>2. QED
    BY <1>17, <1>18, <2>1, HandlerFrame, RoomOnStack
<1>19. CASE FirmwareTick
  <2>1. Activation("exception", 4, "spin").pc = "body"
    BY DEF Activation
  <2>2. Push(Activation("exception", 4, "spin"))
    BY <1>19 DEF FirmwareTick
  <2>3. QED
    BY <1>17, <1>19, <2>1, <2>2, RoomOnStack
<1>20. CASE UNCHANGED vars
  BY <1>1, <1>20 DEF FlagInvariant, vars
<1>21. QED
  BY <1>3, <1>4, <1>5, <1>6, <1>7, <1>8, <1>9, <1>10, <1>11, <1>12, <1>13, <1>14, <1>15,
     <1>16, <1>18, <1>19, <1>20 DEF Next, Step

-----------------------------------------------------------------------------
(* Only the top of the stack moves, it is left for a handler only with     *)
(* interrupts on, and every activation is paid for by an interrupt.        *)
LEMMA StackStep == IInv /\ [Next]_vars => StackInvariant'
<1> SUFFICES ASSUME IInv, [Next]_vars PROVE StackInvariant'
    OBVIOUS
<1> USE DEF flags, apic, top
<1>1. /\ depth \in Levels /\ depth \in Nat /\ depth >= 1
      /\ frame \in [Levels -> Frame]
      /\ \A i \in 1 .. depth : i \in Levels
      /\ raised \in Nat
      /\ pic \in {"unmasked", "in_service", "masked"}
      /\ irr \subseteq Lines /\ Cardinality(irr) \in Nat
      /\ StackInvariant
  BY MaxInterruptsAssumption, RequestsCounted DEF IInv, TypeOK, Levels
<1>2. ASSUME depth' = depth, frame[depth].pc # "acked",
             \A i \in Levels : i # depth => frame'[i] = frame[i],
             frame'[depth].kind = frame[depth].kind,
             frame'[depth].pc = "acked" => frame[depth].kind \in Lines,
             depth' + Cardinality(irr') <= raised' + (IF pic' = "unmasked" THEN 1 ELSE 2)
      PROVE  StackInvariant'
  BY <1>1, <1>2 DEF StackInvariant
<1>3. CASE LockTest \/ LockCli \/ LockStore \/ UseHeap \/ UnlockTest \/ UnlockSti
              \/ UnlockStore \/ BeginLog \/ Hang \/ Spin
  <2>1. /\ depth' = depth /\ irr' = irr /\ raised' = raised /\ pic' = pic
        /\ frame[depth].pc # "acked"
    BY <1>1, <1>3 DEF LockTest, LockCli, LockStore, UseHeap, UnlockTest, UnlockSti,
                      UnlockStore, BeginLog, Hang, Spin, InBody
  <2>2. /\ \A i \in Levels : i # depth => frame'[i] = frame[i]
        /\ frame'[depth].kind = frame[depth].kind
        /\ frame'[depth].pc # "acked"
    BY <1>1, <1>3 DEF LockTest, LockCli, LockStore, UseHeap, UnlockTest, UnlockSti,
                      UnlockStore, BeginLog, Hang, Spin, InBody, Go, Finish, Frame
  <2>3. QED
    BY <1>1, <1>2, <2>1, <2>2 DEF StackInvariant
<1>4. CASE MainStep
  <2>1. depth = 1 /\ frame[1].pc = "body"
    BY <1>1, <1>4 DEF StackInvariant, MainStep, MainLog, MainIdtInit, MainPicInit,
                       MainEnable, MainPs2, MainAt, InBody
  <2>2. /\ depth' = depth /\ irr' = irr /\ raised' = raised
        /\ pic' = pic \/ pic' = "masked"
    BY <1>4 DEF MainStep, MainLog, MainIdtInit, MainPicInit, MainEnable, MainPs2, MainAt
  <2>3. /\ \A i \in Levels : i # depth => frame'[i] = frame[i]
        /\ frame'[depth].kind = frame[depth].kind
        /\ frame'[depth].pc # "acked"
    BY <1>1, <1>4, <2>1 DEF MainStep, MainLog, MainIdtInit, MainPicInit, MainEnable,
                            MainPs2, MainAt, Frame
  <2>4. QED
    BY <1>1, <1>2, <2>1, <2>2, <2>3 DEF StackInvariant
<1>5. CASE EndOfInterrupt
  <2>1. /\ depth' = depth /\ irr' = irr /\ raised' = raised /\ pic' = pic
        /\ frame[depth].pc # "acked" /\ frame[depth].kind \in Lines
    BY <1>5 DEF EndOfInterrupt, InBody
  <2>2. /\ \A i \in Levels : i # depth => frame'[i] = frame[i]
        /\ frame'[depth].kind = frame[depth].kind
    BY <1>1, <1>5 DEF EndOfInterrupt, Go, Frame
  <2>3. QED
    BY <1>1, <1>2, <2>1, <2>2 DEF StackInvariant
<1>6. CASE Iret
  <2>1. /\ depth' = depth - 1 /\ irr' = irr /\ raised' = raised /\ pic' = pic
        /\ \A i \in Levels : i # depth => frame'[i] = frame[i]
    BY <1>1, <1>6 DEF Iret
  <2>2. QED
    BY <1>1, <2>1 DEF StackInvariant
<1>7. ASSUME NEW l \in Lines, Raise(l) PROVE StackInvariant'
  <2>1. /\ depth' = depth /\ frame' = frame /\ pic' = pic /\ raised' = raised + 1
        /\ irr' = irr \union {l}
    BY <1>7 DEF Raise
  <2>2. Cardinality(irr') <= Cardinality(irr) + 1 /\ Cardinality(irr') \in Nat
    BY <1>1, <2>1, RequestsCounted, FS_AddElement, FS_CardinalityType
  <2>3. QED
    BY <1>1, <2>1, <2>2 DEF StackInvariant
<1>8. ASSUME NEW f, f.kind # "main", f.pc = "body", Push(f), depth + 1 \in Levels,
             depth' + Cardinality(irr') <= raised' + (IF pic' = "unmasked" THEN 1 ELSE 2)
      PROVE  StackInvariant'
  <2>1. /\ depth' = depth + 1 /\ frame'[depth + 1] = f
        /\ \A i \in 1 .. depth : frame'[i] = frame[i]
    BY <1>1, <1>8 DEF Push
  <2>2. frame[depth].pc \in {"body", "lock", "cli", "unlock", "on", "acked", "spin"}
    BY <1>1, <1>8 DEF Push, IInv, FlagInvariant, Frame
  <2>3. QED
    BY <1>1, <1>8, <2>1, <2>2 DEF StackInvariant
<1>9. ASSUME NEW l \in Lines, Deliver(l) PROVE StackInvariant'
  <2>1. PICK f \in Handlers(l) : Push(f)
    BY <1>9 DEF Deliver
  <2>2. f.kind # "main" /\ f.pc = "body"
    BY HandlerFrame DEF Lines
  <2>3. irr' = irr \ {l} /\ l \in irr /\ pic' = pic /\ raised' = raised /\ depth' = depth + 1
    BY <1>9, <2>1 DEF Deliver, Push
  <2>4. Cardinality(irr') = Cardinality(irr) - 1
    BY <1>1, <2>3, RequestsCounted
  <2>5. depth' + Cardinality(irr') <= raised' + (IF pic' = "unmasked" THEN 1 ELSE 2)
    BY <1>1, <2>3, <2>4 DEF StackInvariant
  <2>6. QED
    BY <1>8, <1>9, <2>1, <2>2, <2>5, RoomOnStack
<1>10. CASE FirmwareTick
  <2> DEFINE f == Activation("exception", 4, "spin")
  <2>1. Push(f) /\ f.kind # "main" /\ f.pc = "body"
    BY <1>10 DEF FirmwareTick, Activation
  <2>2. irr' = irr /\ pic = "unmasked" /\ pic' = "in_service" /\ raised' = raised
        /\ depth' = depth + 1
    BY <1>10 DEF FirmwareTick, Push
  <2>3. depth' + Cardinality(irr') <= raised' + (IF pic' = "unmasked" THEN 1 ELSE 2)
    BY <1>1, <2>2 DEF StackInvariant
  <2> HIDE DEF f
  <2>4. QED
    BY <1>8, <1>10, <2>1, <2>3, RoomOnStack
<1>11. CASE UNCHANGED vars
  BY <1>1, <1>11 DEF StackInvariant, vars
<1>12. QED
  BY <1>3, <1>4, <1>5, <1>6, <1>7, <1>9, <1>10, <1>11 DEF Next, Step

-----------------------------------------------------------------------------
(* A handler is entered only when none is short of its end-of-interrupt,   *)
(* because the lines are of one class.                                     *)
LEMMA ServiceStep == IInv /\ [Next]_vars => OneInService'
<1> SUFFICES ASSUME IInv, [Next]_vars PROVE OneInService'
    OBVIOUS
<1> USE DEF flags, apic, top
<1>1. /\ depth \in Levels /\ depth \in Nat /\ depth >= 1
      /\ frame \in [Levels -> Frame]
      /\ \A i \in 1 .. depth : i \in Levels
      /\ isr \subseteq Lines
      /\ OneInService
  BY MaxInterruptsAssumption DEF IInv, TypeOK, Levels
<1>2. ASSUME Unacknowledged' = Unacknowledged, isr' = isr,
             \A i \in Unacknowledged : frame'[i].kind = frame[i].kind
      PROVE  OneInService'
  BY <1>1, <1>2 DEF OneInService
<1>3. ASSUME depth' = depth, isr' = isr,
             \A i \in Levels : i # depth => frame'[i] = frame[i],
             frame'[depth].kind = frame[depth].kind,
             frame[depth].pc # "acked", frame'[depth].pc # "acked"
      PROVE  OneInService'
  <2>1. Unacknowledged' = Unacknowledged
    BY <1>1, <1>3 DEF Unacknowledged
  <2>2. \A i \in Unacknowledged : frame'[i].kind = frame[i].kind
    BY <1>1, <1>3 DEF Unacknowledged
  <2>3. QED
    BY <1>2, <1>3, <2>1, <2>2
<1>4. CASE LockTest \/ LockCli \/ LockStore \/ UseHeap \/ UnlockTest \/ UnlockSti
              \/ UnlockStore \/ BeginLog \/ Hang \/ Spin
  <2>1. depth' = depth /\ isr' = isr /\ frame[depth].pc # "acked"
    BY <1>1, <1>4 DEF LockTest, LockCli, LockStore, UseHeap, UnlockTest, UnlockSti,
                      UnlockStore, BeginLog, Hang, Spin, InBody
  <2>2. /\ \A i \in Levels : i # depth => frame'[i] = frame[i]
        /\ frame'[depth].kind = frame[depth].kind
        /\ frame'[depth].pc # "acked"
    BY <1>1, <1>4 DEF LockTest, LockCli, LockStore, UseHeap, UnlockTest, UnlockSti,
                      UnlockStore, BeginLog, Hang, Spin, InBody, Go, Finish, Frame
  <2>3. QED
    BY <1>3, <2>1, <2>2
<1>5. CASE MainStep
  <2>1. depth = 1 /\ frame[1].pc = "body" /\ depth' = depth /\ isr' = isr
    BY <1>1, <1>5 DEF IInv, StackInvariant, MainStep, MainLog, MainIdtInit, MainPicInit,
                       MainEnable, MainPs2, MainAt, InBody
  <2>2. /\ \A i \in Levels : i # depth => frame'[i] = frame[i]
        /\ frame'[depth].kind = frame[depth].kind
        /\ frame'[depth].pc # "acked"
    BY <1>1, <1>5, <2>1 DEF MainStep, MainLog, MainIdtInit, MainPicInit, MainEnable,
                            MainPs2, MainAt, Frame
  <2>3. QED
    BY <1>3, <2>1, <2>2
<1>6. CASE EndOfInterrupt
  <2>1. depth' = depth /\ depth \in Unacknowledged
    BY <1>1, <1>6 DEF IInv, StackInvariant, EndOfInterrupt, InBody, Unacknowledged, Lines
  <2>2. isr = {frame[depth].kind}
    BY <1>1, <2>1 DEF OneInService
  <2>3. isr' = {}
    BY <1>6, <2>2 DEF EndOfInterrupt
  <2>4. /\ \A i \in Levels : i # depth => frame'[i] = frame[i]
        /\ frame'[depth].pc = "acked"
    BY <1>1, <1>6 DEF EndOfInterrupt, Go, Frame
  <2>5. Unacknowledged' = {}
    BY <1>1, <2>1, <2>4 DEF OneInService, Unacknowledged
  <2>6. QED
    BY <2>3, <2>5 DEF OneInService
<1>7. CASE Iret
  <2>1. /\ depth' = depth - 1 /\ isr' = isr /\ frame[depth].pc = "acked"
        /\ \A i \in Levels : i # depth => frame'[i] = frame[i]
    BY <1>1, <1>7 DEF Iret
  <2>2. Unacknowledged' = Unacknowledged
    BY <1>1, <2>1 DEF Unacknowledged
  <2>3. \A i \in Unacknowledged : frame'[i].kind = frame[i].kind
    BY <1>1, <2>1 DEF Unacknowledged
  <2>4. QED
    BY <1>2, <2>1, <2>2, <2>3
<1>8. ASSUME NEW l \in Lines, Raise(l) PROVE OneInService'
  BY <1>1, <1>8 DEF Raise, OneInService, Unacknowledged
<1>9. ASSUME NEW f, Push(f), depth + 1 \in Levels
      PROVE  /\ \A i \in 1 .. depth : frame'[i] = frame[i]
             /\ frame'[depth + 1] = f /\ depth' = depth + 1
  BY <1>1, <1>9 DEF Push
<1>10. ASSUME NEW l \in Lines, Deliver(l) PROVE OneInService'
  <2>1. PICK f \in Handlers(l) : Push(f)
    BY <1>10 DEF Deliver
  <2>2. f.kind = l /\ f.pc = "body" /\ f.kind \in Lines
    BY HandlerFrame
  <2>3. isr = {}
    <3>1. \A m \in isr : Class(m) < Class(l)
      BY <1>10 DEF Deliver
    <3>2. \A m \in isr : Class(m) = 2 /\ Class(l) = 2
      BY <1>1, OneClass
    <3>3. QED
      BY <3>1, <3>2
  <2>4. Unacknowledged = {}
    BY <1>1, <2>3 DEF OneInService
  <2>5. /\ \A i \in 1 .. depth : frame'[i] = frame[i]
        /\ frame'[depth + 1] = f /\ depth' = depth + 1
    BY <1>9, <1>10, <2>1, RoomOnStack
  <2>6. Unacknowledged' = {depth + 1}
    BY <1>1, <2>2, <2>4, <2>5 DEF Unacknowledged
  <2>7. isr' = {l}
    BY <1>10, <2>3 DEF Deliver
  <2>8. QED
    BY <2>2, <2>5, <2>6, <2>7 DEF OneInService
<1>11. CASE FirmwareTick
  <2> DEFINE f == Activation("exception", 4, "spin")
  <2>1. Push(f) /\ f.kind = "exception" /\ isr' = isr
    BY <1>11 DEF FirmwareTick, Activation
  <2> HIDE DEF f
  <2>2. /\ \A i \in 1 .. depth : frame'[i] = frame[i]
        /\ frame'[depth + 1] = f /\ depth' = depth + 1
    BY <1>9, <1>11, <2>1, RoomOnStack
  <2>3. f.kind \notin Lines
    BY <2>1 DEF Lines
  <2>4. Unacknowledged' = Unacknowledged
    BY <1>1, <2>2, <2>3 DEF Unacknowledged
  <2>5. \A i \in Unacknowledged : frame'[i].kind = frame[i].kind
    BY <1>1, <2>2 DEF Unacknowledged
  <2>6. QED
    BY <1>2, <2>1, <2>4, <2>5
<1>12. CASE UNCHANGED vars
  BY <1>1, <1>12 DEF OneInService, Unacknowledged, vars
<1>13. QED
  BY <1>4, <1>5, <1>6, <1>7, <1>8, <1>10, <1>11, <1>12 DEF Next, Step

-----------------------------------------------------------------------------
(* The inductive invariant holds of every behaviour of the switch, the     *)
(* activations and the local APIC.                                         *)
THEOREM Invariance == Spec => []IInv
<1>1. Init => IInv
  BY InitInv
<1>2. IInv /\ [Next]_vars => IInv'
  BY TypeStep, FlagStep, StackStep, ServiceStep DEF IInv
<1>3. QED
  BY <1>1, <1>2, PTL DEF Spec

(* Every variable keeps its type; in particular the stack never outgrows   *)
(* one level for each interrupt raised, one for the old PIC's tick and one *)
(* for kernel_main.                                                        *)
THEOREM TypeCorrect == Spec => []TypeOK
<1>1. IInv => TypeOK
  BY DEF IInv
<1>2. QED
  BY <1>1, Invariance, PTL

(* Nobody enters the heap while another activation is inside kmem_malloc   *)
(* or kmem_free, although idt.c's lock does not remember whether it turned *)
(* interrupts off.                                                         *)
THEOREM HeapIsExclusive == Spec => []HeapExclusive
<1>1. IInv => HeapExclusive
  <2> SUFFICES ASSUME IInv, NEW i \in 1 .. depth, frame[i].pc = "heap"
               PROVE  i = depth /\ cpu_if = 0
      BY DEF HeapExclusive
  <2>1. depth \in Nat /\ depth >= 1
    BY MaxInterruptsAssumption DEF IInv, TypeOK, Levels
  <2>2. i = depth
    <3>1. \A j \in 1 .. depth - 1 : frame[j].pc # "heap"
      BY DEF IInv, StackInvariant
    <3>2. QED
      BY <2>1, <3>1
  <2>3. QED
    BY <2>2 DEF IInv, FlagInvariant, top
<1>2. QED
  BY <1>1, Invariance, PTL

(* No handler acknowledges another handler's interrupt to the local APIC.  *)
THEOREM HandlersOneByOne == Spec => []OneInService
<1>1. IInv => OneInService
  BY DEF IInv
<1>2. QED
  BY <1>1, Invariance, PTL

(* Outside the switch, what idt.c believes of the interrupt flag is true   *)
(* of kernel_main when it runs alone.                                      *)
THEOREM FlagIsRight == Spec => []FlagTracksIF
<1>1. IInv => FlagTracksIF
  <2> SUFFICES ASSUME IInv, depth = 1, top.pc \in {"body", "lock", "cli", "heap"}
               PROVE  idt_interrupts_enabled = cpu_if
      BY DEF FlagTracksIF
  <2>1. cpu_if \in {0, 1} /\ idt_interrupts_enabled \in {0, 1}
    BY DEF IInv, TypeOK, Bit
  <2>2. QED
    BY <2>1 DEF IInv, FlagInvariant
<1>2. QED
  BY <1>1, Invariance, PTL
=============================================================================
