---------------------------------- MODULE Ps2 ----------------------------------
(***************************************************************************)
(* The PS/2 ports: the controller (controller.c), the manager that         *)
(* identifies what is plugged in (manager.c) and the keyboard driver       *)
(* (keyboard.c).  They run in the interrupts of the ports and of the       *)
(* timer; kernel_main takes part once, in ps2_manager_init, when both are  *)
(* already on.  The devices and their wires are the environment.           *)
(*                                                                         *)
(* Time passes in windows of PS2_INTERVAL (5 ms), in each of which the     *)
(* timer tasks of the controller and of the manager run once (module       *)
(* Ktimer).  ps2_controller_has_second_port is false in every build, since *)
(* nothing defines CONFIG_PS2_CONTROLLER_INIT, so the port check looks at  *)
(* the first port only; the interrupts of the second are handled.          *)
(***************************************************************************)
EXTENDS Integers, Sequences, FiniteSets

CONSTANTS
    MaxTimeout,     \* PS2_MAX_TIMEOUT and PS2_PORT_TIMEOUT, in windows
    CheckInterval,  \* port_check_task.interval, in windows
    MaxPing,        \* PS2_DEVICE_MAX_PING, in windows
    MaxBuffer,      \* PS2_DEVICE_MAX_BUFFER_SIZE
    Interval,       \* PS2_INTERVAL, in milliseconds
    Word,           \* 2^32: the controller's countdowns are unsigned and wrap
    FirstKinds,     \* what may be plugged into the first port ...
    SecondKinds,    \* ... and into the second
    MaxPlugs,       \* bound: times a device is plugged in
    MaxLost,        \* bound: commands and bytes that get lost
    MaxLine         \* bound: bytes on the wire that keep a key back

ASSUME TimesAssumption ==
    {MaxTimeout, CheckInterval, MaxPing, MaxBuffer, Interval} \subseteq Nat \ {0}
ASSUME WordAssumption == Word \in Nat /\ Interval * MaxTimeout < Word
ASSUME KindsAssumption ==
    FirstKinds \union SecondKinds \subseteq {"keyboard", "at_keyboard", "mouse"}
ASSUME BoundsAssumption == {MaxPlugs, MaxLost, MaxLine} \subseteq Nat

VARIABLES
    devices,                \* manager: what it knows of each port
    ps2_manager_timeouts,   \* manager: windows until identification ends, or -1
    ps2_controller_timeouts,\* controller: countdowns of its wait loops
    connected,              \* controller: first_port_connected, second_port_connected
    turn, check,            \* the timer task that runs next; windows to a port check
    pc,                     \* kernel_main in ps2_manager_init
    stopped,                \* "panic": the keyboard driver called kpanic;
                            \*   "garbled": a device's byte was written to the
                            \*   controller as its configuration
    plugged, scan, line,    \* each device: its kind, whether it reports keys,
                            \*   the bytes on their way to the processor
    late,                   \* how many of those bytes the window must not end before
    plugs, lost,            \* devices plugged in, messages lost
    echoed, clean           \* ghosts: the device has answered an echo; its
                            \*   identification began with an empty buffer and
                            \*   nothing else on the wire, and it is still there

manager == << devices, ps2_manager_timeouts >>
timer == << turn, check >>
ghosts == << echoed, clean >>
vars == << manager, ps2_controller_timeouts, connected, timer, pc, stopped,
           plugged, scan, line, late, plugs, lost, ghosts >>

FIRST == 1
SECOND == 2
Ports == {FIRST, SECOND}
KindsAt(p) == IF p = FIRST THEN FirstKinds ELSE SecondKinds
States == {"NOT_CONNECTED", "ERRORED", "CONNECTED", "SCAN_DISABLED",
           "IDENTIFY_IN_PROGRESS", "READY"}
PortTimeout == Interval * MaxTimeout

Data == {"key", "AB", "83", "00"}
Bytes == Data \union {"ok", "error", "ack", "resend", "echo"}

(* What a device answers to a command.  The seven bytes of                 *)
(* __ps2_keyboard_setup count as one command with two acknowledgements.    *)
Id(kind) ==
    CASE kind = "keyboard" -> << "AB", "83" >>
      [] kind = "mouse" -> << "00" >>
      [] OTHER -> << >>

Answer(command, kind) ==
    IF kind = "none"
    THEN << >>
    ELSE CASE command = "reset" -> << "ack", "ok" >>
           [] command = "echo" -> IF kind = "mouse" THEN << "ack" >> ELSE << "echo" >>
           [] command = "disable" -> << "ack" >>
           [] command = "identify" -> << "ack" >> \o Id(kind)
           [] command = "setup" -> << "ack", "ack" >>

(* Whether it reports on its own after that: a mouse that was reset waits  *)
(* until it is told to.                                                    *)
Scans(command, kind, before) ==
    CASE command = "reset" -> kind # "mouse"
      [] command = "setup" -> TRUE
      [] command = "disable" -> FALSE
      [] OTHER -> before

Init ==
    /\ devices = [p \in Ports |-> [state |-> "NOT_CONNECTED", type |-> "UNKNOWN",
                                   supported |-> FALSE, buffer |-> << >>, ping |-> 0]]
    /\ ps2_manager_timeouts = [p \in Ports |-> -1]
    /\ ps2_controller_timeouts = [p \in Ports |-> 0]
    /\ connected = [p \in Ports |-> FALSE]
    /\ turn = "controller"
    /\ check = CheckInterval
    /\ pc = "check"
    /\ stopped = "no"
    /\ plugged \in [Ports -> {"none"} \union FirstKinds \union SecondKinds]
    /\ \A p \in Ports : plugged[p] \in {"none"} \union KindsAt(p)
    /\ scan = [p \in Ports |-> TRUE]
    /\ line = [p \in Ports |-> << >>]
    /\ late = [p \in Ports |-> 0]
    /\ plugs = 0
    /\ lost = 0
    /\ echoed = [p \in Ports |-> FALSE]
    /\ clean = [p \in Ports |-> FALSE]

-----------------------------------------------------------------------------
(* The controller. *)

(* A command on its way to a port.  A port believed disconnected gets      *)
(* nothing, and the send succeeds.  The send waits while the controller is *)
(* busy, but one to the first port gives up at once when that port's       *)
(* countdown has run out: only the keyboard driver looks at the result,    *)
(* and panics.  A command may also reach the device damaged, which asks    *)
(* for it again.                                                           *)
Transmit(p, command, lines, timeouts) ==
    \/ /\ ~connected'[p]
       /\ ps2_controller_timeouts' = timeouts
       /\ line' = lines
       /\ UNCHANGED << scan, lost, stopped >>
    \/ /\ connected'[p]
       /\ ps2_controller_timeouts' =
              IF p = SECOND THEN [timeouts EXCEPT ![p] = PortTimeout] ELSE timeouts
       /\ \/ /\ line' = [lines EXCEPT ![p] = @ \o Answer(command, plugged[p])]
             /\ scan' = [scan EXCEPT ![p] = Scans(command, plugged[p], @)]
             /\ UNCHANGED << lost, stopped >>
          \/ /\ plugged[p] # "none"
             /\ lost < MaxLost
             /\ lost' = lost + 1
             /\ line' = [lines EXCEPT ![p] = Append(@, "resend")]
             /\ UNCHANGED << scan, stopped >>
          \/ /\ p = FIRST /\ timeouts[p] = 0
             /\ lost < MaxLost
             /\ lost' = lost + 1
             /\ line' = lines
             /\ stopped' = IF command = "setup" THEN "panic" ELSE stopped
             /\ UNCHANGED scan

(* ps2_controller_send, with the bytes that are left on the port's line.   *)
Send(p, command, bytes) ==
    Transmit(p, command, [line EXCEPT ![p] = bytes], ps2_controller_timeouts)

NoSend(p, bytes) ==
    /\ line' = [line EXCEPT ![p] = bytes]
    /\ UNCHANGED << ps2_controller_timeouts, scan, lost, stopped >>

(* __ps2_keyboard_setup.  For scan codes of set 2 it begins with           *)
(* ps2_controller_first_port_translation, whose get_response takes the     *)
(* first byte it finds for the controller's configuration: a device's byte *)
(* that comes just before it is written back in its place, and nothing can *)
(* be said of the controller any more.                                     *)
Setup(p, scancode2, bytes) ==
    LET lines == [line EXCEPT ![p] = bytes]
        armed == IF scancode2
                 THEN [ps2_controller_timeouts EXCEPT ![FIRST] = PortTimeout]
                 ELSE ps2_controller_timeouts
    IN \/ Transmit(p, "setup", lines, armed)
       \/ /\ scancode2
          /\ \E q \in Ports : lines[q] # << >> /\ line' = [lines EXCEPT ![q] = Tail(@)]
          /\ ps2_controller_timeouts' = armed
          /\ stopped' = "garbled"
          /\ UNCHANGED << scan, lost >>

-----------------------------------------------------------------------------
(* handle_irq: an interrupt with the first byte on a port's line.  The     *)
(* timer's handler is not interrupted between its two ports.               *)
Irq(p, bytes) ==
    /\ stopped = "no" /\ turn # "second"
    /\ line[p] # << >> /\ Head(line[p]) \in bytes
    /\ connected' = [connected EXCEPT ![p] = TRUE]
    /\ late' = [late EXCEPT ![p] = IF @ > 0 THEN @ - 1 ELSE 0]
    /\ UNCHANGED << timer, pc, plugged, plugs >>

Rest(p) == Tail(line[p])
State(p) == devices[p].state
Become(p, s) == devices' = [devices EXCEPT ![p].state = s]

(* A device whose first words are not the result of its self-test must be  *)
(* a keyboard that is set up already.                                      *)
Presumes(p) ==
    State(p) = "NOT_CONNECTED" /\ Head(line[p]) \notin {"ok", "error"}

IrqPresume(p) ==
    /\ Irq(p, Bytes)
    /\ Presumes(p)
    /\ devices' = [devices EXCEPT ![p].state = "READY", ![p].supported = TRUE,
                                  ![p].type = "KEYBOARD"]
    /\ Setup(p, TRUE, Rest(p))
    /\ UNCHANGED << ps2_manager_timeouts, ghosts >>

IrqEcho(p) ==
    /\ Irq(p, {"echo"})
    /\ ~Presumes(p)
    /\ devices' = [devices EXCEPT ![p].ping = 0]
    /\ echoed' = [echoed EXCEPT ![p] = plugged[p] \in {"keyboard", "at_keyboard"}]
    /\ NoSend(p, Rest(p))
    /\ UNCHANGED << ps2_manager_timeouts, clean >>

(* The queue of commands is never filled, so nothing is sent again. *)
IrqResend(p) ==
    /\ Irq(p, {"resend"})
    /\ ~Presumes(p)
    /\ NoSend(p, Rest(p))
    /\ UNCHANGED << manager, ghosts >>

IrqSelfTest(p) ==
    /\ \/ /\ Irq(p, {"ok"})
          /\ Become(p, "CONNECTED")
          /\ Send(p, "disable", Rest(p))
       \/ /\ Irq(p, {"error"})
          /\ Become(p, "ERRORED")
          /\ Send(p, "reset", Rest(p))
    /\ UNCHANGED << ps2_manager_timeouts, ghosts >>

IrqAckDisable(p) ==
    /\ Irq(p, {"ack"})
    /\ State(p) = "CONNECTED"
    /\ Become(p, "SCAN_DISABLED")
    /\ Send(p, "identify", Rest(p))
    /\ UNCHANGED << ps2_manager_timeouts, ghosts >>

IrqAckIdentify_Mutant(p) ==
    /\ Irq(p, {"ack"})
    /\ State(p) = "SCAN_DISABLED"
    /\ Become(p, "IDENTIFY_IN_PROGRESS")
    /\ NoSend(p, Rest(p))
    /\ UNCHANGED << ps2_manager_timeouts, ghosts >>

IrqAckIdentify(p) ==
    /\ Irq(p, {"ack"})
    /\ State(p) = "SCAN_DISABLED"
    /\ Become(p, "IDENTIFY_IN_PROGRESS")
    /\ ps2_manager_timeouts' = [ps2_manager_timeouts EXCEPT ![p] = MaxTimeout]
    /\ clean' = [clean EXCEPT ![p] = plugged[p] # "none"
                     /\ devices[p].buffer = << >> /\ Rest(p) = Id(plugged[p])]
    /\ NoSend(p, Rest(p))
    /\ UNCHANGED echoed

IrqAckOther(p) ==
    /\ Irq(p, {"ack"})
    /\ ~Presumes(p) /\ State(p) \notin {"CONNECTED", "SCAN_DISABLED"}
    /\ NoSend(p, Rest(p))
    /\ UNCHANGED << manager, ghosts >>

(* Data: part of the identification, or for a driver, which only logs it.  *)
IrqData_OverwriteMutant(p) ==
    /\ Irq(p, Data)
    /\ ~Presumes(p)
    /\ devices' = IF State(p) = "IDENTIFY_IN_PROGRESS"
                  THEN [devices EXCEPT ![p].buffer = << Head(line[p]) >>]
                  ELSE devices
    /\ NoSend(p, Rest(p))
    /\ UNCHANGED << ps2_manager_timeouts, ghosts >>

IrqData(p) ==
    /\ Irq(p, Data)
    /\ ~Presumes(p)
    /\ devices' = IF State(p) = "IDENTIFY_IN_PROGRESS" /\ Len(devices[p].buffer) < MaxBuffer
                  THEN [devices EXCEPT ![p].buffer = Append(@, Head(line[p]))]
                  ELSE devices
    /\ NoSend(p, Rest(p))
    /\ UNCHANGED << ps2_manager_timeouts, ghosts >>

HandleIrq(p) ==
    \/ IrqPresume(p) \/ IrqEcho(p) \/ IrqResend(p) \/ IrqSelfTest(p)
    \/ IrqAckDisable(p) \/ IrqAckIdentify(p) \/ IrqAckOther(p) \/ IrqData(p)

-----------------------------------------------------------------------------
(* The timer tasks. *)

(* timeout_timer of the controller.  It counts both ports down on the      *)
(* first port's countdown, and reads the data register: when another byte  *)
(* follows before the interrupt of the one it took is handled, the         *)
(* handlers see that other byte twice.  A device's byte reaches its        *)
(* handler before the next window is over, and ps2_manager_init is done    *)
(* before the port check it scheduled.  Nothing reads when the second port *)
(* answered an echo, so only the first one's age is kept.                  *)
ControllerTimeout ==
    /\ stopped = "no" /\ turn = "controller"
    /\ \A p \in Ports : late[p] = 0
    /\ check > 1 \/ pc = "done"
    /\ turn' = "first"
    /\ check' = check - 1
    /\ devices' = [devices EXCEPT ![FIRST].ping = IF @ <= MaxPing THEN @ + 1 ELSE @]
    /\ ps2_controller_timeouts' =
           [ps2_controller_timeouts EXCEPT ![FIRST] =
               (@ - Interval * Cardinality({p \in Ports : ps2_controller_timeouts[p] > 0}))
                   % Word]
    /\ \/ UNCHANGED << line, lost >>
       \/ \E p \in Ports :
             /\ Len(line[p]) >= 2 /\ lost < MaxLost
             /\ line' = [line EXCEPT ![p] = << @[2] >> \o Tail(@)]
             /\ lost' = lost + 1
    /\ late' = [p \in Ports |-> Len(line[p])]
    /\ UNCHANGED << ps2_manager_timeouts, connected, pc, stopped, plugged, scan,
                    plugs, ghosts >>

(* timeout_timer of the manager, one port after the other: when the time   *)
(* of an identification is over, init_device judges by what was read.      *)
TaskDone(p) ==
    /\ stopped = "no"
    /\ IF p = FIRST
       THEN turn = "first" /\ turn' = "second"
       ELSE turn = "second" /\ turn' = IF check = 0 THEN "check" ELSE "controller"
    /\ UNCHANGED << check, connected, pc, plugged, plugs, late, ghosts >>

IsKeyboard(id) == id \in {<< >>, << "AB", "83" >>}

TypeOf(id, before) ==
    CASE IsKeyboard(id) -> "KEYBOARD"
      [] id = << "00" >> -> "MOUSE"
      [] OTHER -> before

Supports(id, before) ==
    CASE IsKeyboard(id) -> TRUE
      [] Len(id) = 1 -> id = << "00" >>
      [] OTHER -> before

InitDevice(p) ==
    LET id == devices[p].buffer
    IN /\ ps2_manager_timeouts[p] = 0
       /\ TaskDone(p)
       /\ ps2_manager_timeouts' = [ps2_manager_timeouts EXCEPT ![p] = -1]
       /\ devices' = [devices EXCEPT ![p].state = "READY",
                                     ![p].type = TypeOf(id, @),
                                     ![p].supported = Supports(id, @)]
       /\ IF IsKeyboard(id) THEN Setup(p, id # << >>, line[p]) ELSE NoSend(p, line[p])

CountDown_Mutant(p) ==
    /\ ps2_manager_timeouts[p] # 0
    /\ TaskDone(p)
    /\ ps2_manager_timeouts' =
           [ps2_manager_timeouts EXCEPT ![p] = IF @ > 1 THEN @ - 1 ELSE @]
    /\ NoSend(p, line[p])
    /\ UNCHANGED devices

CountDown(p) ==
    /\ ps2_manager_timeouts[p] # 0
    /\ TaskDone(p)
    /\ ps2_manager_timeouts' =
           [ps2_manager_timeouts EXCEPT ![p] = IF @ > 0 THEN @ - 1 ELSE @]
    /\ NoSend(p, line[p])
    /\ UNCHANGED devices

(* ps2_manager_send_port_check: a first port that has not answered an echo *)
(* for too long is disconnected.                                           *)
ForgetIfSilent_Mutant ==
    IF devices[FIRST].ping >= MaxPing
    THEN /\ devices' = [devices EXCEPT ![FIRST].type = "UNKNOWN",
                                       ![FIRST].state = "NOT_CONNECTED"]
         /\ connected' = [connected EXCEPT ![FIRST] = FALSE]
    ELSE UNCHANGED << devices, connected >>

ForgetIfSilent_KeepMutant ==
    IF devices[FIRST].ping > MaxPing
    THEN /\ devices' = [devices EXCEPT ![FIRST].type = "UNKNOWN",
                                       ![FIRST].state = "NOT_CONNECTED"]
         /\ UNCHANGED connected
    ELSE UNCHANGED << devices, connected >>

ForgetIfSilent ==
    IF devices[FIRST].ping > MaxPing
    THEN /\ devices' = [devices EXCEPT ![FIRST].type = "UNKNOWN",
                                       ![FIRST].state = "NOT_CONNECTED"]
         /\ connected' = [connected EXCEPT ![FIRST] = FALSE]
    ELSE UNCHANGED << devices, connected >>

CheckCommand == IF connected'[FIRST] THEN "echo" ELSE "reset"

PortCheck ==
    /\ stopped = "no" /\ turn = "check"
    /\ turn' = "controller"
    /\ check' = CheckInterval
    /\ ForgetIfSilent
    /\ Send(FIRST, CheckCommand, line[FIRST])
    /\ UNCHANGED << ps2_manager_timeouts, pc, plugged, plugs, late, ghosts >>

(* The same from ps2_manager_init, in steps that interrupts separate.      *)
MainAt(p) ==
    /\ stopped = "no" /\ turn # "second" /\ pc = p
    /\ UNCHANGED << ps2_manager_timeouts, timer, plugged, plugs, late, ghosts >>

MainCheck ==
    /\ MainAt("check")
    /\ pc' = "test"
    /\ ForgetIfSilent
    /\ NoSend(FIRST, line[FIRST])

MainTest ==
    /\ MainAt("test")
    /\ UNCHANGED << devices, connected >>
    /\ pc' = CheckCommand
    /\ NoSend(FIRST, line[FIRST])

MainSend ==
    \E command \in {"echo", "reset"} :
        /\ MainAt(command)
        /\ UNCHANGED << devices, connected >>
        /\ pc' = "done"
        /\ Send(FIRST, command, line[FIRST])

-----------------------------------------------------------------------------
(* The devices. *)
Environment ==
    /\ stopped = "no"
    /\ UNCHANGED << manager, ps2_controller_timeouts, connected, timer, pc,
                    stopped, lost >>

Plug(p, kind) ==
    /\ Environment
    /\ plugged[p] = "none" /\ plugs < MaxPlugs
    /\ plugs' = plugs + 1
    /\ plugged' = [plugged EXCEPT ![p] = kind]
    /\ scan' = [scan EXCEPT ![p] = kind # "mouse"]
    /\ \E result \in {"ok", "error"} : line' = [line EXCEPT ![p] = Append(@, result)]
    /\ UNCHANGED << late, ghosts >>

(* A byte that is at the controller already stays there. *)
Unplug(p) ==
    /\ Environment
    /\ plugged[p] # "none"
    /\ plugged' = [plugged EXCEPT ![p] = "none"]
    /\ echoed' = [echoed EXCEPT ![p] = FALSE]
    /\ clean' = [clean EXCEPT ![p] = FALSE]
    /\ line' = [line EXCEPT ![p] = SubSeq(@, 1, IF @ = << >> THEN 0 ELSE 1)]
    /\ late' = [late EXCEPT ![p] = 0]
    /\ UNCHANGED << scan, plugs >>

PressKey(p) ==
    /\ Environment
    /\ plugged[p] # "none" /\ scan[p] /\ Len(line[p]) < MaxLine
    /\ line' = [line EXCEPT ![p] = Append(@, "key")]
    /\ UNCHANGED << plugged, scan, plugs, late, ghosts >>

Tick ==
    \/ ControllerTimeout
    \/ \E p \in Ports : CountDown(p) \/ InitDevice(p)
    \/ PortCheck

Main == MainCheck \/ MainTest \/ MainSend

Next ==
    \/ \E p \in Ports : HandleIrq(p)
    \/ Tick
    \/ Main
    \/ \E p \in Ports : \E kind \in KindsAt(p) : Plug(p, kind)
    \/ \E p \in Ports : Unplug(p) \/ PressKey(p)

Spec == Init /\ [][Next]_vars

(* Interrupts are taken, the timer goes on, and handlers return to         *)
(* kernel_main (InterruptsTaken and BootCompletes of module Interrupts).   *)
FairSpec ==
    /\ Spec
    /\ WF_vars(Tick \/ Main)
    /\ \A p \in Ports : WF_vars(HandleIrq(p))

-----------------------------------------------------------------------------
TypeOK ==
    /\ devices \in [Ports -> [state : States, type : {"UNKNOWN", "KEYBOARD", "MOUSE"},
                              supported : BOOLEAN, buffer : Seq(Data),
                              ping : 0 .. MaxPing + 1]]
    /\ \A p \in Ports : Len(devices[p].buffer) <= MaxBuffer
    /\ ps2_manager_timeouts \in [Ports -> -1 .. MaxTimeout]
    /\ ps2_controller_timeouts \in [Ports -> 0 .. Word - 1]
    /\ connected \in [Ports -> BOOLEAN]
    /\ turn \in {"controller", "first", "second", "check"}
    /\ check \in 0 .. CheckInterval
    /\ pc \in {"check", "test", "echo", "reset", "done"}
    /\ plugged \in [Ports -> {"none"} \union FirstKinds \union SecondKinds]
    /\ line \in [Ports -> Seq(Bytes)]
    /\ late \in [Ports -> Nat]
    /\ \A flags \in {scan, echoed, clean} : flags \in [Ports -> BOOLEAN]
    /\ stopped \in {"no", "panic", "garbled"}
    /\ plugs \in 0 .. MaxPlugs
    /\ lost \in 0 .. MaxLost

(* An identification under way has its timer running: neither the port     *)
(* check, nor a reset of the device, nor the other port stops it.          *)
IdentificationTimed ==
    \A p \in Ports : State(p) = "IDENTIFY_IN_PROGRESS" => ps2_manager_timeouts[p] >= 0

(* An identification that begins with an empty buffer and no answer to     *)
(* another command on the wire has read the whole identification and       *)
(* nothing else when its time is over, unless a byte is lost.              *)
IdentifiedRight ==
    [][\A p \in Ports :
          InitDevice(p) /\ State(p) = "IDENTIFY_IN_PROGRESS" /\ clean[p] /\ lost = 0
          => devices[p].buffer = Id(plugged[p])]_vars

(* A keyboard that has answered an echo stays connected until it is        *)
(* unplugged, although up to MaxLost messages get lost.                    *)
KeepsAlive == echoed[FIRST] => connected[FIRST]

(* Every identification comes to an end ... *)
IdentificationEnds ==
    \A p \in Ports :
        State(p) = "IDENTIFY_IN_PROGRESS"
            ~> State(p) # "IDENTIFY_IN_PROGRESS" \/ stopped # "no"

(* ... and a first port left empty is noticed. *)
UnpluggedNoticed ==
    plugged[FIRST] = "none"
        ~> ~connected[FIRST] \/ plugged[FIRST] # "none" \/ stopped # "no"

(* "Keyboard doesn't want to configure because it already is": what is     *)
(* presumed to be a keyboard is not a mouse.                               *)
PresumedIsKeyboard ==
    [][\A p \in Ports : IrqPresume(p) => plugged[p] # "mouse"]_vars
=============================================================================
