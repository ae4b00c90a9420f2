------------------------------- MODULE Ps2Proofs -------------------------------
(***************************************************************************)
(* Proofs about the PS/2 ports, for any devices, times and bounds: the     *)
(* variables keep their types, an identification under way has its timer   *)
(* running, a keyboard that answers echoes stays connected although        *)
(* messages get lost, and an identification that nothing disturbs is read  *)
(* whole (module Ps2).                                                     *)
(***************************************************************************)
EXTENDS Ps2, FiniteSetTheorems, TLAPS

Commands == {"reset", "echo", "disable", "identify", "setup"}
Kinds == {"none"} \union FirstKinds \union SecondKinds

LEMMA PortNumbers ==
    /\ FIRST = 1 /\ SECOND = 2 /\ Ports = {1, 2}
    /\ FIRST \in Ports /\ SECOND \in Ports
BY DEF FIRST, SECOND, Ports

LEMMA ConstantTypes ==
    /\ MaxTimeout \in Nat \ {0} /\ CheckInterval \in Nat \ {0} /\ MaxPing \in Nat \ {0}
    /\ MaxBuffer \in Nat \ {0} /\ Interval \in Nat \ {0}
    /\ MaxPlugs \in Nat /\ MaxLost \in Nat /\ MaxLine \in Nat
    /\ Word \in Nat \ {0} /\ PortTimeout \in 0 .. Word - 1
<1>1. Interval \in Nat /\ MaxTimeout \in Nat
  BY TimesAssumption
<1>2. Interval * MaxTimeout \in Nat
  BY <1>1, Z3
<1>3. PortTimeout \in 0 .. Word - 1 /\ Word \in Nat \ {0}
  BY <1>2, WordAssumption DEF PortTimeout
<1>4. QED
  BY <1>3, TimesAssumption, BoundsAssumption

LEMMA KindsKnown == Kinds \subseteq {"none", "keyboard", "at_keyboard", "mouse"}
BY KindsAssumption DEF Kinds

(* What a device answers are bytes, and an echo only what it was asked to  *)
(* echo.                                                                   *)
NoEcho(s) == \A k \in 1 .. Len(s) : s[k] # "echo"

LEMMA ShortSequences ==
    /\ \A b \in Bytes : << b >> \in Seq(Bytes) /\ (b # "echo" => NoEcho(<< b >>))
    /\ \A b, c \in Bytes : /\ << b, c >> \in Seq(Bytes)
                           /\ b # "echo" /\ c # "echo" => NoEcho(<< b, c >>)
    /\ << >> \in Seq(Bytes) /\ NoEcho(<< >>)
    /\ << "echo" >> \in Seq(Bytes)
<1>1. "echo" \in Bytes
  BY DEF Bytes
<1>2. \A b \in Bytes : << b >> \in Seq(Bytes) /\ (b # "echo" => NoEcho(<< b >>))
  BY DEF NoEcho
<1>3. \A b, c \in Bytes : /\ << b, c >> \in Seq(Bytes)
                          /\ b # "echo" /\ c # "echo" => NoEcho(<< b, c >>)
  BY DEF NoEcho
<1>4. << >> \in Seq(Bytes) /\ NoEcho(<< >>)
  BY DEF NoEcho
<1>5. QED
  BY <1>1, <1>2, <1>3, <1>4

LEMMA Joined ==
    ASSUME NEW s \in Seq(Bytes), NEW t \in Seq(Bytes)
    PROVE  /\ s \o t \in Seq(Bytes)
           /\ Len(s \o t) = Len(s) + Len(t)
           /\ \A k \in 1 .. Len(s) : (s \o t)[k] = s[k]
           /\ \A k \in 1 .. Len(t) : (s \o t)[Len(s) + k] = t[k]
           /\ NoEcho(s) /\ NoEcho(t) => NoEcho(s \o t)
<1>1. /\ s \o t \in Seq(Bytes)
      /\ Len(s \o t) = Len(s) + Len(t)
      /\ \A k \in 1 .. Len(s) : (s \o t)[k] = s[k]
      /\ \A k \in 1 .. Len(t) : (s \o t)[Len(s) + k] = t[k]
  OBVIOUS
<1>2. ASSUME NoEcho(s), NoEcho(t), NEW k \in 1 .. Len(s \o t) PROVE (s \o t)[k] # "echo"
  <2>1. CASE k \in 1 .. Len(s)
    BY <1>1, <1>2, <2>1 DEF NoEcho
  <2>2. CASE k \notin 1 .. Len(s)
    <3>1. k - Len(s) \in 1 .. Len(t) /\ Len(s) + (k - Len(s)) = k
      BY <1>1, <1>2, <2>2
    <3>2. (s \o t)[k] = t[k - Len(s)]
      BY <1>1, <3>1
    <3>3. QED
      BY <1>2, <3>1, <3>2 DEF NoEcho
  <2>3. QED
    BY <2>1, <2>2
<1>3. QED
  BY <1>1, <1>2 DEF NoEcho

LEMMA Answers ==
    ASSUME NEW command \in Commands, NEW kind \in Kinds
    PROVE  /\ Answer(command, kind) \in Seq(Bytes)
           /\ command # "echo" => NoEcho(Answer(command, kind))
           /\ command = "echo" /\ kind \in {"keyboard", "at_keyboard"} =>
                 Answer(command, kind) = << "echo" >>
<1>1. {"ack", "ok", "echo", "00"} \subseteq Bytes
  BY DEF Bytes, Data
<1>2. CASE kind = "none"
  <2>1. Answer(command, kind) = << >>
    BY <1>2 DEF Answer
  <2>2. QED
    BY <1>2, <2>1, ShortSequences
<1>3. CASE kind # "none" /\ command = "reset"
  <2>1. Answer(command, kind) = << "ack", "ok" >>
    BY <1>3 DEF Answer
  <2>2. QED
    BY <1>1, <1>3, <2>1, ShortSequences
<1>4. CASE kind # "none" /\ command = "echo"
  <2>1. Answer(command, kind) = IF kind = "mouse" THEN << "ack" >> ELSE << "echo" >>
    BY <1>4 DEF Answer
  <2>2. QED
    BY <1>1, <1>4, <2>1, ShortSequences
<1>5. CASE kind # "none" /\ command = "disable"
  <2>1. Answer(command, kind) = << "ack" >>
    BY <1>5 DEF Answer
  <2>2. QED
    BY <1>1, <1>5, <2>1, ShortSequences
<1>6. CASE kind # "none" /\ command = "identify"
  <2>1. Answer(command, kind) = << "ack" >> \o Id(kind)
    BY <1>6 DEF Answer
  <2>2. Id(kind) \in {<< >>, << "AB", "83" >>, << "00" >>}
    BY <1>6, KindsKnown DEF Id
  <2>3. {"AB", "83"} \subseteq Bytes
    BY DEF Bytes, Data
  <2>4. Id(kind) \in Seq(Bytes) /\ NoEcho(Id(kind))
    BY <1>1, <2>2, <2>3, ShortSequences
  <2>5. << "ack" >> \in Seq(Bytes) /\ NoEcho(<< "ack" >>)
    BY <1>1, ShortSequences
  <2>6. QED
    BY <1>6, <2>1, <2>4, <2>5, Joined
<1>7. CASE kind # "none" /\ command = "setup"
  <2>1. Answer(command, kind) = << "ack", "ack" >>
    BY <1>7 DEF Answer
  <2>2. QED
    BY <1>1, <1>7, <2>1, ShortSequences
<1>8. QED
  BY <1>2, <1>3, <1>4, <1>5, <1>6, <1>7 DEF Commands

LEMMA ScansType ==
    ASSUME NEW command \in Commands, NEW kind \in Kinds, NEW before \in BOOLEAN
    PROVE  Scans(command, kind, before) \in BOOLEAN
BY DEF Scans, Commands

-----------------------------------------------------------------------------
(* The types of the variables, in three parts.                             *)
Wired ==
    /\ ps2_controller_timeouts \in [Ports -> 0 .. Word - 1]
    /\ line \in [Ports -> Seq(Bytes)]
    /\ scan \in [Ports -> BOOLEAN]
    /\ stopped \in {"no", "panic", "garbled"}
    /\ lost \in 0 .. MaxLost

Device == [state : States, type : {"UNKNOWN", "KEYBOARD", "MOUSE"}, supported : BOOLEAN,
           buffer : Seq(Data), ping : 0 .. MaxPing + 1]

Managed ==
    /\ devices \in [Ports -> Device]
    /\ \A p \in Ports : Len(devices[p].buffer) <= MaxBuffer
    /\ ps2_manager_timeouts \in [Ports -> -1 .. MaxTimeout]

Kept ==
    /\ connected \in [Ports -> BOOLEAN]
    /\ turn \in {"controller", "first", "second", "check"}
    /\ check \in 0 .. CheckInterval
    /\ pc \in {"check", "test", "echo", "reset", "done"}
    /\ plugged \in [Ports -> Kinds]
    /\ late \in [Ports -> Nat]
    /\ echoed \in [Ports -> BOOLEAN] /\ clean \in [Ports -> BOOLEAN]
    /\ plugs \in 0 .. MaxPlugs

LEMMA TypesParted == TypeOK <=> Wired /\ Managed /\ Kept
BY DEF TypeOK, Wired, Managed, Device, Kept, Kinds

(* u is the line s with more bytes at its end; none of these is an echo.   *)
Longer(u, s) ==
    u \in Seq(Bytes) /\ Len(s) <= Len(u) /\ \A k \in 1 .. Len(s) : u[k] = s[k]

AddsNoEcho(u, s) == \A k \in Len(s) + 1 .. Len(u) : u[k] # "echo"

LEMMA LongerByAnswer ==
    ASSUME NEW s \in Seq(Bytes), NEW t \in Seq(Bytes)
    PROVE  Longer(s \o t, s) /\ (NoEcho(t) => AddsNoEcho(s \o t, s))
<1>1. /\ s \o t \in Seq(Bytes) /\ Len(s \o t) = Len(s) + Len(t)
      /\ Len(s) \in Nat /\ Len(t) \in Nat
      /\ \A k \in 1 .. Len(s) : (s \o t)[k] = s[k]
      /\ \A k \in 1 .. Len(t) : (s \o t)[Len(s) + k] = t[k]
  BY Joined
<1>2. ASSUME NoEcho(t), NEW k \in Len(s) + 1 .. Len(s \o t) PROVE (s \o t)[k] # "echo"
  <2>1. k - Len(s) \in 1 .. Len(t) /\ Len(s) + (k - Len(s)) = k
    BY <1>1, <1>2
  <2>2. (s \o t)[k] = t[k - Len(s)]
    BY <1>1, <2>1
  <2>3. QED
    BY <1>2, <2>1, <2>2 DEF NoEcho
<1>3. QED
  BY <1>1, <1>2 DEF Longer, AddsNoEcho

LEMMA LongerByByte ==
    ASSUME NEW s \in Seq(Bytes), NEW b \in Bytes
    PROVE  Longer(Append(s, b), s) /\ (b # "echo" => AddsNoEcho(Append(s, b), s))
BY DEF Longer, AddsNoEcho

LEMMA LongerByNothing ==
    ASSUME NEW s \in Seq(Bytes)
    PROVE  Longer(s, s) /\ AddsNoEcho(s, s)
BY DEF Longer, AddsNoEcho

(* What a command sent to a port does to the wires: the bytes it brings    *)
(* hold no echo unless it asks a keyboard for one, and that echo is        *)
(* missing only when something has been lost.                              *)
LEMMA TransmitEffect ==
    ASSUME Wired, plugged \in [Ports -> Kinds],
           NEW p \in Ports, NEW command \in Commands,
           NEW lines \in [Ports -> Seq(Bytes)], NEW timeouts \in [Ports -> 0 .. Word - 1],
           Transmit(p, command, lines, timeouts)
    PROVE  /\ Wired' /\ lost <= lost'
           /\ stopped' \in {stopped, "panic"}
           /\ \A q \in Ports \ {p} : line'[q] = lines[q]
           /\ Longer(line'[p], lines[p])
           /\ command # "echo" => AddsNoEcho(line'[p], lines[p])
           /\ /\ command = "echo" /\ connected'[p]
              /\ plugged[p] \in {"keyboard", "at_keyboard"}
              /\ AddsNoEcho(line'[p], lines[p])
              => lost' = lost + 1
<1> DEFINE reply == Answer(command, plugged[p])
<1>1. /\ reply \in Seq(Bytes)
      /\ command # "echo" => NoEcho(reply)
      /\ command = "echo" /\ plugged[p] \in {"keyboard", "at_keyboard"} => reply = << "echo" >>
  BY Answers
<1> HIDE DEF reply
<1>2. /\ lost \in Nat /\ MaxLost \in Nat /\ lines[p] \in Seq(Bytes)
      /\ "resend" \in Bytes /\ PortTimeout \in 0 .. Word - 1
  BY ConstantTypes DEF Wired, Bytes
<1>3. CASE /\ ~connected'[p]
           /\ ps2_controller_timeouts' = timeouts
           /\ line' = lines
           /\ UNCHANGED << scan, lost, stopped >>
  BY <1>2, <1>3, LongerByNothing DEF Wired
<1> DEFINE armed == IF p = SECOND THEN [timeouts EXCEPT ![p] = PortTimeout] ELSE timeouts
<1>4. armed \in [Ports -> 0 .. Word - 1]
  BY <1>2
<1> HIDE DEF armed
<1>5. CASE /\ ps2_controller_timeouts' = armed
           /\ line' = [lines EXCEPT ![p] = @ \o reply]
           /\ scan' = [scan EXCEPT ![p] = Scans(command, plugged[p], @)]
           /\ UNCHANGED << lost, stopped >>
  <2>1. line'[p] = lines[p] \o reply /\ \A q \in Ports \ {p} : line'[q] = lines[q]
    BY <1>5
  <2>2. Longer(line'[p], lines[p]) /\ (NoEcho(reply) => AddsNoEcho(line'[p], lines[p]))
    BY <1>1, <1>2, <2>1, LongerByAnswer
  <2>3. line' \in [Ports -> Seq(Bytes)]
    BY <1>1, <1>2, <1>5
  <2>4. Scans(command, plugged[p], scan[p]) \in BOOLEAN
    BY ScansType DEF Wired
  <2>5. scan' \in [Ports -> BOOLEAN]
    BY <1>5, <2>4 DEF Wired
  <2>6. Wired'
    BY <1>4, <1>5, <2>3, <2>5 DEF Wired
  <2>7. reply = << "echo" >> => ~AddsNoEcho(line'[p], lines[p])
    <3>1. SUFFICES ASSUME reply = << "echo" >> PROVE ~AddsNoEcho(line'[p], lines[p])
      OBVIOUS
    <3>2. Len(reply) = 1 /\ reply[1] = "echo"
      BY <3>1
    <3>3. /\ Len(lines[p] \o reply) = Len(lines[p]) + Len(reply)
          /\ \A k \in 1 .. Len(reply) : (lines[p] \o reply)[Len(lines[p]) + k] = reply[k]
      BY <1>1, <1>2, Joined
    <3>4. (lines[p] \o reply)[Len(lines[p]) + 1] = "echo"
      BY <3>2, <3>3
    <3>5. Len(lines[p]) + 1 \in Len(lines[p]) + 1 .. Len(lines[p] \o reply)
      <4>1. Len(lines[p]) \in Nat
        BY <1>2
      <4>2. QED
        BY <3>2, <3>3, <4>1
    <3>6. QED
      BY <2>1, <3>4, <3>5 DEF AddsNoEcho
  <2>8. QED
    BY <1>1, <1>2, <1>5, <2>1, <2>2, <2>6, <2>7
<1>6. CASE /\ ps2_controller_timeouts' = armed
           /\ lost < MaxLost
           /\ lost' = lost + 1
           /\ line' = [lines EXCEPT ![p] = Append(@, "resend")]
           /\ UNCHANGED << scan, stopped >>
  <2>1. line'[p] = Append(lines[p], "resend") /\ \A q \in Ports \ {p} : line'[q] = lines[q]
    BY <1>6
  <2>2. Longer(line'[p], lines[p]) /\ AddsNoEcho(line'[p], lines[p])
    BY <1>2, <2>1, LongerByByte
  <2>3. line' \in [Ports -> Seq(Bytes)]
    BY <1>2, <1>6
  <2>4. lost' \in 0 .. MaxLost /\ lost <= lost'
    BY <1>2, <1>6
  <2>5. Wired'
    BY <1>4, <1>6, <2>3, <2>4 DEF Wired
  <2>6. QED
    BY <1>6, <2>1, <2>2, <2>4, <2>5
<1>7. CASE /\ ps2_controller_timeouts' = armed
           /\ lost < MaxLost
           /\ lost' = lost + 1
           /\ line' = lines
           /\ stopped' = IF command = "setup" THEN "panic" ELSE stopped
           /\ UNCHANGED scan
  <2>1. Longer(line'[p], lines[p]) /\ AddsNoEcho(line'[p], lines[p])
    BY <1>2, <1>7, LongerByNothing
  <2>2. lost' \in 0 .. MaxLost /\ lost <= lost'
    BY <1>2, <1>7
  <2>3. Wired'
    BY <1>4, <1>7, <2>2 DEF Wired
  <2>4. QED
    BY <1>7, <2>1, <2>2, <2>3
<1>8. QED
  BY <1>3, <1>5, <1>6, <1>7 DEF Transmit, armed, reply

(* What a handler leaves on the wires when it leaves `bytes` of the line   *)
(* of port p: more bytes at the end of that line only, as long as the      *)
(* kernel goes on.                                                         *)
Delivered(p, bytes) ==
    /\ Wired'
    /\ lost <= lost'
    /\ stopped' = "no" => /\ \A q \in Ports \ {p} : line'[q] = line[q]
                          /\ Longer(line'[p], bytes)

Quiet(p, bytes) ==
    Delivered(p, bytes) /\ (stopped' = "no" => AddsNoEcho(line'[p], bytes))

LEMMA SendEffect ==
    ASSUME Wired, plugged \in [Ports -> Kinds], NEW p \in Ports, NEW command \in Commands,
           NEW bytes \in Seq(Bytes), Send(p, command, bytes)
    PROVE  /\ Delivered(p, bytes)
           /\ command # "echo" => Quiet(p, bytes)
           /\ /\ command = "echo" /\ connected'[p]
              /\ plugged[p] \in {"keyboard", "at_keyboard"}
              /\ AddsNoEcho(line'[p], bytes)
              => lost' = lost + 1
<1> DEFINE lines == [line EXCEPT ![p] = bytes]
<1>1. /\ lines \in [Ports -> Seq(Bytes)] /\ lines[p] = bytes
      /\ \A q \in Ports \ {p} : lines[q] = line[q]
  BY DEF Wired
<1>2. Transmit(p, command, lines, ps2_controller_timeouts)
  BY DEF Send
<1>3. ps2_controller_timeouts \in [Ports -> 0 .. Word - 1]
  BY DEF Wired
<1> HIDE DEF lines
<1>4. /\ Wired' /\ lost <= lost'
      /\ \A q \in Ports \ {p} : line'[q] = lines[q]
      /\ Longer(line'[p], lines[p])
      /\ command # "echo" => AddsNoEcho(line'[p], lines[p])
      /\ /\ command = "echo" /\ connected'[p]
         /\ plugged[p] \in {"keyboard", "at_keyboard"}
         /\ AddsNoEcho(line'[p], lines[p])
         => lost' = lost + 1
  BY <1>1, <1>2, <1>3, TransmitEffect
<1>5. QED
  BY <1>1, <1>4 DEF Delivered, Quiet

LEMMA NoSendEffect ==
    ASSUME Wired, NEW p \in Ports, NEW bytes \in Seq(Bytes), NoSend(p, bytes)
    PROVE  Quiet(p, bytes)
<1>1. /\ line' \in [Ports -> Seq(Bytes)] /\ line'[p] = bytes
      /\ \A q \in Ports \ {p} : line'[q] = line[q]
  BY DEF Wired, NoSend
<1>2. Longer(line'[p], bytes) /\ AddsNoEcho(line'[p], bytes)
  BY <1>1, LongerByNothing
<1>3. lost' = lost /\ lost \in Nat /\ stopped' = stopped
  BY ConstantTypes DEF NoSend, Wired
<1>4. Wired'
  BY <1>1 DEF Wired, NoSend
<1>5. QED
  BY <1>1, <1>2, <1>3, <1>4 DEF Delivered, Quiet

LEMMA SetupEffect ==
    ASSUME Wired, plugged \in [Ports -> Kinds], NEW p \in Ports, NEW scancode2 \in BOOLEAN,
           NEW bytes \in Seq(Bytes), Setup(p, scancode2, bytes)
    PROVE  Quiet(p, bytes)
<1> DEFINE lines == [line EXCEPT ![p] = bytes]
           armed == IF scancode2
                    THEN [ps2_controller_timeouts EXCEPT ![FIRST] = PortTimeout]
                    ELSE ps2_controller_timeouts
<1>1. /\ lines \in [Ports -> Seq(Bytes)] /\ lines[p] = bytes
      /\ \A q \in Ports \ {p} : lines[q] = line[q]
  BY DEF Wired
<1>2. armed \in [Ports -> 0 .. Word - 1]
  BY ConstantTypes, PortNumbers DEF Wired
<1>3. \/ Transmit(p, "setup", lines, armed)
      \/ /\ \E q \in Ports : lines[q] # << >> /\ line' = [lines EXCEPT ![q] = Tail(@)]
         /\ ps2_controller_timeouts' = armed
         /\ stopped' = "garbled"
         /\ UNCHANGED << scan, lost >>
  BY DEF Setup
<1> HIDE DEF lines, armed
<1>4. CASE Transmit(p, "setup", lines, armed)
  <2>1. "setup" \in Commands /\ "setup" # "echo"
    BY DEF Commands
  <2>2. /\ Wired' /\ lost <= lost'
        /\ \A q \in Ports \ {p} : line'[q] = lines[q]
        /\ Longer(line'[p], lines[p]) /\ AddsNoEcho(line'[p], lines[p])
    BY <1>1, <1>2, <1>4, <2>1, TransmitEffect
  <2>3. QED
    BY <1>1, <2>2 DEF Delivered, Quiet
<1>5. CASE /\ \E q \in Ports : lines[q] # << >> /\ line' = [lines EXCEPT ![q] = Tail(@)]
           /\ ps2_controller_timeouts' = armed
           /\ stopped' = "garbled"
           /\ UNCHANGED << scan, lost >>
  <2>1. line' \in [Ports -> Seq(Bytes)]
    BY <1>1, <1>5
  <2>2. Wired'
    BY <1>2, <1>5, <2>1 DEF Wired
  <2>3. lost <= lost'
    BY <1>5, ConstantTypes DEF Wired
  <2>4. QED
    BY <1>5, <2>2, <2>3 DEF Delivered, Quiet
<1>6. QED
  BY <1>3, <1>4, <1>5

-----------------------------------------------------------------------------
(* When an echo is due.  The windows since the first port last answered    *)
(* one, and those until the next port check, are together no more than the *)
(* checks that have failed and one account for.  An echo on the wire stops *)
(* the count: it is handled before the second tick after it was asked for. *)
EchoIn(s) == \E k \in 1 .. Len(s) : s[k] = "echo"

EchoWithin(s, n) == \E k \in 1 .. Len(s) : k <= n /\ s[k] = "echo"

InTime(s, n, ping, left, bound) ==
    /\ EchoWithin(s, n) => ping <= bound + 1 /\ (left = 0 => ping <= bound)
    /\ EchoIn(s) /\ ~EchoWithin(s, n) =>
          ping <= bound /\ (left # CheckInterval => ping + left <= bound)
    /\ ~EchoIn(s) => ping + left <= bound

Ping == devices[FIRST].ping
Bound == CheckInterval * (lost + 1)

Heard ==
    echoed[FIRST] =>
        /\ connected[FIRST]
        /\ State(FIRST) # "NOT_CONNECTED"
        /\ plugged[FIRST] \in {"keyboard", "at_keyboard"}
        /\ stopped = "no" => InTime(line[FIRST], late[FIRST], Ping, check, Bound)

(* The tasks of a window and kernel_main's own port check.                 *)
Schedule ==
    /\ turn = "controller" => check > 0
    /\ turn = "check" => check = 0
    /\ check = 0 => pc = "done"
    /\ pc # "done" => Ping + check <= CheckInterval
    /\ stopped = "no" => late[FIRST] <= Len(line[FIRST])

Base == TypeOK /\ IdentificationTimed /\ Schedule

(* As many losses as MaxLost leave an answer before the time is over.  In  *)
(* the kernel, 3000 ms and a check every 1000 ms, two.                     *)
Tolerance == CheckInterval > 1 /\ CheckInterval * (MaxLost + 1) <= MaxPing

LEMMA BoundTypes ==
    ASSUME TypeOK
    PROVE  /\ Bound \in Nat /\ CheckInterval <= Bound /\ Ping \in Nat /\ check \in Nat
           /\ check <= CheckInterval /\ lost \in Nat /\ lost <= MaxLost
           /\ Tolerance => Bound <= MaxPing
<1>1. lost \in Nat /\ MaxLost \in Nat /\ lost <= MaxLost /\ CheckInterval \in Nat \ {0}
  BY ConstantTypes DEF TypeOK
<1>2. ASSUME NEW c \in Nat \ {0}, NEW l \in Nat, NEW m \in Nat, l <= m
      PROVE  /\ c * (l + 1) \in Nat /\ c <= c * (l + 1) /\ c * (m + 1) \in Nat
             /\ c * (l + 1) <= c * (m + 1)
  BY <1>2, Z3
<1>3. /\ Bound \in Nat /\ CheckInterval <= Bound /\ CheckInterval * (MaxLost + 1) \in Nat
      /\ Bound <= CheckInterval * (MaxLost + 1)
  BY <1>1, <1>2 DEF Bound
<1>4. Tolerance => Bound <= MaxPing
  BY <1>3, ConstantTypes DEF Tolerance
<1>5. Ping \in Nat
  BY PortNumbers, ConstantTypes DEF TypeOK, Ping
<1>6. QED
  BY <1>1, <1>3, <1>4, <1>5, ConstantTypes DEF TypeOK

LEMMA BoundGrows ==
    ASSUME TypeOK, lost' \in Nat, lost <= lost'
    PROVE  /\ Bound' \in Nat /\ Bound <= Bound'
           /\ lost' = lost + 1 => Bound' = Bound + CheckInterval
<1>1. lost \in Nat /\ CheckInterval \in Nat \ {0}
  BY ConstantTypes DEF TypeOK
<1>2. ASSUME NEW c \in Nat \ {0}, NEW l \in Nat, NEW m \in Nat, l <= m
      PROVE  /\ c * (m + 1) \in Nat /\ c * (l + 1) <= c * (m + 1)
             /\ c * ((l + 1) + 1) = c * (l + 1) + c
  BY <1>2, Z3
<1>3. QED
  BY <1>1, <1>2 DEF Bound

(* More bytes behind the ones that are due.                                *)
LEMMA LineGrows ==
    ASSUME NEW s \in Seq(Bytes), NEW u, Longer(u, s), NEW n \in Nat, n <= Len(s)
    PROVE  /\ EchoWithin(u, n) <=> EchoWithin(s, n)
           /\ EchoIn(s) => EchoIn(u)
           /\ AddsNoEcho(u, s) => (EchoIn(u) <=> EchoIn(s))
           /\ n <= Len(u)
<1>1. /\ u \in Seq(Bytes) /\ Len(s) <= Len(u) /\ Len(s) \in Nat /\ Len(u) \in Nat
      /\ \A k \in 1 .. Len(s) : k \in 1 .. Len(u) /\ u[k] = s[k]
  BY DEF Longer
<1>2. \A k \in 1 .. Len(u) : k <= n => k \in 1 .. Len(s)
  BY <1>1
<1>3. EchoWithin(u, n) <=> EchoWithin(s, n)
  BY <1>1, <1>2 DEF EchoWithin
<1>4. EchoIn(s) => EchoIn(u)
  BY <1>1 DEF EchoIn
<1>5. ASSUME AddsNoEcho(u, s), EchoIn(u) PROVE EchoIn(s)
  <2>1. PICK k \in 1 .. Len(u) : u[k] = "echo"
    BY <1>5 DEF EchoIn
  <2>2. k \in 1 .. Len(s)
    BY <1>1, <1>5, <2>1 DEF AddsNoEcho
  <2>3. QED
    BY <1>1, <2>1, <2>2 DEF EchoIn
<1>6. QED
  BY <1>1, <1>3, <1>4, <1>5

(* The first byte is handled, and it was not an echo.                      *)
LEMMA LineServed ==
    ASSUME NEW s \in Seq(Bytes), s # << >>, Head(s) # "echo", NEW n \in Nat
    PROVE  LET m == IF n > 0 THEN n - 1 ELSE 0
           IN /\ EchoWithin(Tail(s), m) <=> EchoWithin(s, n)
              /\ EchoIn(Tail(s)) <=> EchoIn(s)
<1> DEFINE r == Tail(s)
           m == IF n > 0 THEN n - 1 ELSE 0
<1>1. /\ Len(s) \in Nat \ {0} /\ Len(r) = Len(s) - 1 /\ s[1] # "echo"
      /\ \A k \in 1 .. Len(r) : r[k] = s[k + 1] /\ k + 1 \in 1 .. Len(s)
  OBVIOUS
<1>2. \A k \in 1 .. Len(s) : k # 1 => k - 1 \in 1 .. Len(r) /\ (k - 1) + 1 = k
  BY <1>1
<1>3. \A k \in 1 .. Len(s) : k # 1 => r[k - 1] = s[k]
  BY <1>1, <1>2
<1> HIDE DEF r
<1>4. EchoIn(r) => EchoIn(s)
  BY <1>1 DEF EchoIn
<1>5. EchoIn(s) => EchoIn(r)
  BY <1>1, <1>2, <1>3 DEF EchoIn
<1>6. ASSUME EchoWithin(r, m) PROVE EchoWithin(s, n)
  <2>1. PICK k \in 1 .. Len(r) : k <= m /\ r[k] = "echo"
    BY <1>6 DEF EchoWithin
  <2>2. k + 1 <= n /\ k + 1 \in 1 .. Len(s) /\ s[k + 1] = "echo"
    BY <1>1, <2>1
  <2>3. QED
    BY <2>2 DEF EchoWithin
<1>7. ASSUME EchoWithin(s, n) PROVE EchoWithin(r, m)
  <2>1. PICK k \in 1 .. Len(s) : k <= n /\ s[k] = "echo"
    BY <1>7 DEF EchoWithin
  <2>2. k # 1
    BY <1>1, <2>1
  <2>3. k - 1 \in 1 .. Len(r) /\ k - 1 <= m /\ r[k - 1] = "echo"
    BY <1>1, <1>2, <1>3, <2>1, <2>2
  <2>4. QED
    BY <2>3 DEF EchoWithin
<1>8. QED
  BY <1>4, <1>5, <1>6, <1>7 DEF r

-----------------------------------------------------------------------------
(* The interrupts of the ports.                                            *)
LEMMA IrqFacts ==
    ASSUME TypeOK, NEW p \in Ports, NEW bytes, Irq(p, bytes)
    PROVE  /\ stopped = "no" /\ line[p] \in Seq(Bytes) /\ line[p] # << >>
           /\ Head(line[p]) \in bytes /\ Rest(p) = Tail(line[p]) /\ Rest(p) \in Seq(Bytes)
           /\ Len(Rest(p)) = Len(line[p]) - 1
           /\ connected'[p] = TRUE /\ \A q \in Ports \ {p} : connected'[q] = connected[q]
           /\ late'[p] = (IF late[p] > 0 THEN late[p] - 1 ELSE 0)
           /\ \A q \in Ports \ {p} : late'[q] = late[q]
           /\ UNCHANGED << timer, pc, plugged, plugs >>
           /\ plugged \in [Ports -> Kinds] /\ Wired /\ Managed /\ Kept
<1>1. Wired /\ Managed /\ Kept
  BY TypesParted
<1>2. line[p] \in Seq(Bytes) /\ line[p] # << >>
  BY <1>1 DEF Wired, Irq
<1>3. Rest(p) = Tail(line[p]) /\ Rest(p) \in Seq(Bytes) /\ Len(Rest(p)) = Len(line[p]) - 1
  BY <1>2 DEF Rest
<1>4. QED
  BY <1>1, <1>2, <1>3 DEF Irq, Kept

LEMMA IrqKept ==
    ASSUME TypeOK, NEW p \in Ports, NEW bytes, Irq(p, bytes),
           echoed' \in [Ports -> BOOLEAN], clean' \in [Ports -> BOOLEAN]
    PROVE  Kept'
<1>1. Kept /\ UNCHANGED << timer, pc, plugged, plugs >>
  BY IrqFacts
<1>2. connected' \in [Ports -> BOOLEAN]
  BY <1>1 DEF Kept, Irq
<1>3. late' \in [Ports -> Nat]
  BY <1>1 DEF Kept, Irq
<1>4. QED
  BY <1>1, <1>2, <1>3 DEF Kept, timer

(* An interrupt keeps what the bytes of a line are compared with.          *)
LEMMA IrqSchedule ==
    ASSUME Base, NEW p \in Ports, NEW bytes, Irq(p, bytes), Quiet(p, Rest(p)),
           devices'[FIRST].ping \in Nat, devices'[FIRST].ping <= Ping
    PROVE  Schedule'
<1>1. TypeOK /\ Schedule
  BY DEF Base
<1>2. /\ UNCHANGED << timer, pc >> /\ stopped = "no"
      /\ Rest(p) \in Seq(Bytes) /\ Len(Rest(p)) = Len(line[p]) - 1 /\ line[p] # << >>
      /\ late'[p] = (IF late[p] > 0 THEN late[p] - 1 ELSE 0)
      /\ \A q \in Ports \ {p} : late'[q] = late[q]
      /\ line \in [Ports -> Seq(Bytes)] /\ late \in [Ports -> Nat]
  BY <1>1, IrqFacts DEF Wired, Kept
<1>3. /\ turn' = turn /\ check' = check /\ pc' = pc /\ check \in Nat /\ Ping \in Nat
      /\ Ping' = devices'[FIRST].ping
  BY <1>1, <1>2, BoundTypes DEF timer, Ping
<1>4. ASSUME stopped' = "no" PROVE late'[FIRST] <= Len(line'[FIRST])
  <2>1. late[FIRST] <= Len(line[FIRST]) /\ late[FIRST] \in Nat
    BY <1>1, <1>2, PortNumbers DEF Schedule
  <2>2. /\ \A q \in Ports \ {p} : line'[q] = line[q]
        /\ Len(Rest(p)) <= Len(line'[p]) /\ Len(line'[p]) \in Nat
    BY <1>4 DEF Quiet, Delivered, Longer
  <2>3. CASE p = FIRST
    BY <1>2, <2>1, <2>2, <2>3
  <2>4. CASE p # FIRST
    BY <1>2, <2>1, <2>2, <2>4, PortNumbers
  <2>5. QED
    BY <2>3, <2>4
<1>5. pc' # "done" => Ping' + check' <= CheckInterval
  BY <1>1, <1>3, ConstantTypes DEF Schedule
<1>6. QED
  BY <1>1, <1>3, <1>4, <1>5 DEF Schedule

LEMMA TypesJoined == Wired' /\ Managed' /\ Kept' => TypeOK'
BY DEF TypeOK, Wired, Managed, Device, Kept, Kinds

LEMMA IrqBase ==
    ASSUME Base, NEW p \in Ports, NEW bytes, Irq(p, bytes), Quiet(p, Rest(p)),
           devices' \in [Ports -> Device],
           \A q \in Ports : Len(devices'[q].buffer) <= MaxBuffer,
           devices'[FIRST].ping <= Ping,
           ps2_manager_timeouts' \in [Ports -> -1 .. MaxTimeout],
           echoed' \in [Ports -> BOOLEAN], clean' \in [Ports -> BOOLEAN],
           IdentificationTimed'
    PROVE  Base'
<1>1. TypeOK
  BY DEF Base
<1>2. Wired' /\ Managed' /\ Kept'
  BY <1>1, IrqKept DEF Quiet, Delivered, Managed
<1>3. TypeOK'
  BY <1>2, TypesJoined
<1>4. devices'[FIRST].ping \in Nat
  BY PortNumbers, ConstantTypes DEF Device
<1>5. QED
  BY <1>3, <1>4, IrqSchedule DEF Base

(* A device that keeps its buffer and its count of unanswered pings.       *)
LEMMA DeviceReplaced ==
    ASSUME NEW f \in [Ports -> Device], NEW p \in Ports, NEW d \in Device,
           d.buffer = f[p].buffer, d.ping = f[p].ping,
           NEW g, g = [f EXCEPT ![p] = d]
    PROVE  /\ g \in [Ports -> Device]
           /\ \A q \in Ports : /\ g[q].buffer = f[q].buffer /\ g[q].ping = f[q].ping
                               /\ g[q].state = IF q = p THEN d.state ELSE f[q].state
  OBVIOUS

LEMMA IrqPresumeBase ==
    ASSUME Base, NEW p \in Ports, IrqPresume(p)
    PROVE  Base' /\ Quiet(p, Rest(p))
<1>1. TypeOK /\ Irq(p, Bytes) /\ IdentificationTimed
  BY DEF Base, IrqPresume
<1>2. Rest(p) \in Seq(Bytes) /\ plugged \in [Ports -> Kinds] /\ Wired /\ Managed /\ Kept
  BY <1>1, IrqFacts
<1>3. Quiet(p, Rest(p))
  BY <1>2, SetupEffect DEF IrqPresume
<1>4. /\ devices' \in [Ports -> Device]
      /\ \A q \in Ports : /\ devices'[q].buffer = devices[q].buffer
                          /\ devices'[q].ping = devices[q].ping
                          /\ devices'[q].state = IF q = p THEN "READY" ELSE devices[q].state
  <2> DEFINE d == [devices[p] EXCEPT !.state = "READY", !.supported = TRUE, !.type = "KEYBOARD"]
  <2>1. devices \in [Ports -> Device]
    BY <1>2 DEF Managed
  <2>2. /\ d \in Device /\ d.state = "READY"
        /\ d.buffer = devices[p].buffer /\ d.ping = devices[p].ping
    BY <2>1 DEF Device, States
  <2>3. devices' = [devices EXCEPT ![p] = d]
    BY <2>1 DEF IrqPresume
  <2> HIDE DEF d
  <2>4. QED
    BY <2>1, <2>2, <2>3, DeviceReplaced
<1>5. UNCHANGED << ps2_manager_timeouts, ghosts >>
  BY DEF IrqPresume
<1>6. IdentificationTimed'
  BY <1>1, <1>4, <1>5 DEF IdentificationTimed, State
<1>7. devices'[FIRST].ping <= Ping
  BY <1>1, <1>4, PortNumbers, BoundTypes DEF Ping
<1>8. QED
  BY <1>1, <1>2, <1>3, <1>4, <1>5, <1>6, <1>7, IrqBase DEF Managed, Kept, ghosts

LEMMA IrqEchoBase ==
    ASSUME Base, NEW p \in Ports, IrqEcho(p)
    PROVE  Base' /\ Quiet(p, Rest(p))
<1>1. TypeOK /\ Irq(p, {"echo"}) /\ IdentificationTimed
  BY DEF Base, IrqEcho
<1>2. Rest(p) \in Seq(Bytes) /\ Wired /\ Managed /\ Kept
  BY <1>1, IrqFacts
<1>3. Quiet(p, Rest(p))
  BY <1>2, NoSendEffect DEF IrqEcho
<1>4. /\ devices' \in [Ports -> Device]
      /\ \A q \in Ports : /\ devices'[q].buffer = devices[q].buffer
                          /\ devices'[q].state = devices[q].state
                          /\ devices'[q].ping = IF q = p THEN 0 ELSE devices[q].ping
  <2>1. devices' = [devices EXCEPT ![p].ping = 0]
    BY DEF IrqEcho
  <2>2. 0 \in 0 .. MaxPing + 1
    BY ConstantTypes
  <2> DEFINE pings == 0 .. MaxPing + 1
  <2>3. 0 \in pings
    BY <2>2
  <2>4. devices \in [Ports -> [state : States, type : {"UNKNOWN", "KEYBOARD", "MOUSE"},
                               supported : BOOLEAN, buffer : Seq(Data), ping : pings]]
    BY <1>2 DEF Managed, Device
  <2> HIDE DEF pings
  <2>5. /\ devices' \in [Ports -> [state : States, type : {"UNKNOWN", "KEYBOARD", "MOUSE"},
                                  supported : BOOLEAN, buffer : Seq(Data), ping : pings]]
        /\ \A q \in Ports : /\ devices'[q].buffer = devices[q].buffer
                            /\ devices'[q].state = devices[q].state
                            /\ devices'[q].ping = IF q = p THEN 0 ELSE devices[q].ping
    BY <2>1, <2>3, <2>4
  <2>6. QED
    BY <2>5 DEF pings, Device
<1>5. UNCHANGED << ps2_manager_timeouts, clean >>
  BY DEF IrqEcho
<1>6. IdentificationTimed'
  BY <1>1, <1>4, <1>5 DEF IdentificationTimed, State
<1>7. devices'[FIRST].ping <= Ping
  BY <1>1, <1>4, PortNumbers, BoundTypes DEF Ping
<1>8. echoed' \in [Ports -> BOOLEAN]
  BY <1>2 DEF Kept, IrqEcho
<1>9. QED
  BY <1>1, <1>2, <1>3, <1>4, <1>5, <1>6, <1>7, <1>8, IrqBase DEF Managed, Kept

LEMMA IrqResendBase ==
    ASSUME Base, NEW p \in Ports, IrqResend(p) \/ IrqAckOther(p)
    PROVE  Base' /\ Quiet(p, Rest(p))
<1>1. PICK bytes : Irq(p, bytes)
  BY DEF IrqResend, IrqAckOther
<1>2. TypeOK /\ IdentificationTimed
  BY DEF Base
<1>3. Rest(p) \in Seq(Bytes) /\ Wired /\ Managed /\ Kept
  BY <1>1, <1>2, IrqFacts
<1>4. NoSend(p, Rest(p)) /\ UNCHANGED << manager, ghosts >>
  BY DEF IrqResend, IrqAckOther
<1>5. Quiet(p, Rest(p))
  BY <1>3, <1>4, NoSendEffect
<1>6. IdentificationTimed'
  BY <1>2, <1>4 DEF IdentificationTimed, State, manager
<1>7. devices'[FIRST].ping <= Ping
  BY <1>2, <1>4, BoundTypes DEF Ping, manager
<1>8. QED
  BY <1>1, <1>3, <1>4, <1>5, <1>6, <1>7, IrqBase DEF Managed, Kept, ghosts, manager

(* An acknowledgement or the result of a self-test: the device takes a     *)
(* state in which no identification is under way, or one begins.           *)
LEMMA IrqStateBase ==
    ASSUME Base, NEW p \in Ports, NEW bytes, Irq(p, bytes), Quiet(p, Rest(p)),
           NEW s \in States, Become(p, s),
           \/ s # "IDENTIFY_IN_PROGRESS" /\ UNCHANGED ps2_manager_timeouts
           \/ ps2_manager_timeouts' = [ps2_manager_timeouts EXCEPT ![p] = MaxTimeout],
           echoed' = echoed, clean' \in [Ports -> BOOLEAN]
    PROVE  Base'
<1>1. TypeOK /\ IdentificationTimed
  BY DEF Base
<1>2. Wired /\ Managed /\ Kept
  BY <1>1, IrqFacts
<1>3. /\ devices' \in [Ports -> Device]
      /\ \A q \in Ports : /\ devices'[q].buffer = devices[q].buffer
                          /\ devices'[q].ping = devices[q].ping
                          /\ devices'[q].state = IF q = p THEN s ELSE devices[q].state
  <2> DEFINE d == [devices[p] EXCEPT !.state = s]
  <2>1. devices \in [Ports -> Device]
    BY <1>2 DEF Managed
  <2>2. /\ d \in Device /\ d.state = s
        /\ d.buffer = devices[p].buffer /\ d.ping = devices[p].ping
    BY <2>1 DEF Device
  <2>3. devices' = [devices EXCEPT ![p] = d]
    BY <2>1 DEF Become
  <2> HIDE DEF d
  <2>4. QED
    BY <2>1, <2>2, <2>3, DeviceReplaced
<1>4. ps2_manager_timeouts' \in [Ports -> -1 .. MaxTimeout]
  BY <1>2, ConstantTypes DEF Managed
<1>5. IdentificationTimed'
  BY <1>1, <1>2, <1>3, ConstantTypes DEF IdentificationTimed, State, Managed
<1>6. devices'[FIRST].ping <= Ping
  BY <1>1, <1>3, PortNumbers, BoundTypes DEF Ping
<1>7. QED
  BY <1>2, <1>3, <1>4, <1>5, <1>6, IrqBase DEF Managed, Kept

LEMMA IrqOthersBase ==
    ASSUME Base, NEW p \in Ports,
           \/ IrqSelfTest(p) \/ IrqAckDisable(p) \/ IrqAckIdentify(p)
    PROVE  Base' /\ Quiet(p, Rest(p))
<1>1. TypeOK /\ {"disable", "reset", "identify"} \subseteq Commands /\ "echo" \notin {"disable", "reset", "identify"}
      /\ {"CONNECTED", "ERRORED", "SCAN_DISABLED", "IDENTIFY_IN_PROGRESS"} \subseteq States
  BY DEF Base, Commands, States
<1>2. ASSUME NEW bytes, Irq(p, bytes)
      PROVE  Rest(p) \in Seq(Bytes) /\ plugged \in [Ports -> Kinds] /\ Wired /\ Kept
  BY <1>1, <1>2, IrqFacts
<1>3. ASSUME NEW bytes, NEW s, NEW command, Irq(p, bytes), Become(p, s),
             Send(p, command, Rest(p)), command \in {"disable", "reset", "identify"},
             s \in {"CONNECTED", "ERRORED", "SCAN_DISABLED"},
             UNCHANGED << ps2_manager_timeouts, ghosts >>
      PROVE  Base' /\ Quiet(p, Rest(p))
  <2>1. Quiet(p, Rest(p))
    BY <1>1, <1>2, <1>3, SendEffect
  <2>2. clean' \in [Ports -> BOOLEAN] /\ echoed' = echoed
    BY <1>2, <1>3 DEF Kept, ghosts
  <2>3. s \in States /\ s # "IDENTIFY_IN_PROGRESS"
    BY <1>1, <1>3
  <2>4. QED
    BY <1>3, <2>1, <2>2, <2>3, IrqStateBase
<1>4. CASE IrqSelfTest(p)
  BY <1>3, <1>4 DEF IrqSelfTest
<1>5. CASE IrqAckDisable(p)
  BY <1>3, <1>5 DEF IrqAckDisable
<1>6. CASE IrqAckIdentify(p)
  <2>1. /\ Irq(p, {"ack"}) /\ NoSend(p, Rest(p)) /\ echoed' = echoed
        /\ Become(p, "IDENTIFY_IN_PROGRESS")
        /\ ps2_manager_timeouts' = [ps2_manager_timeouts EXCEPT ![p] = MaxTimeout]
    BY <1>6 DEF IrqAckIdentify
  <2>2. Rest(p) \in Seq(Bytes) /\ Wired /\ Kept
    BY <1>2, <2>1
  <2>3. Quiet(p, Rest(p))
    BY <2>1, <2>2, NoSendEffect
  <2>4. clean' \in [Ports -> BOOLEAN]
    BY <1>6, <2>2 DEF IrqAckIdentify, Kept
  <2>5. QED
    BY <1>1, <2>1, <2>3, <2>4, IrqStateBase
<1>7. QED
  BY <1>4, <1>5, <1>6

LEMMA IrqDataBase ==
    ASSUME Base, NEW p \in Ports, IrqData(p)
    PROVE  Base' /\ Quiet(p, Rest(p))
<1>1. TypeOK /\ Irq(p, Data) /\ IdentificationTimed
  BY DEF Base, IrqData
<1>2. Rest(p) \in Seq(Bytes) /\ Wired /\ Managed /\ Kept /\ Head(line[p]) \in Data
  BY <1>1, IrqFacts
<1>3. Quiet(p, Rest(p))
  BY <1>2, NoSendEffect DEF IrqData
<1> DEFINE grown == Append(devices[p].buffer, Head(line[p]))
<1>4. CASE State(p) = "IDENTIFY_IN_PROGRESS" /\ Len(devices[p].buffer) < MaxBuffer
  <2>1. devices' = [devices EXCEPT ![p].buffer = grown]
    BY <1>4 DEF IrqData
  <2>2. grown \in Seq(Data) /\ Len(grown) <= MaxBuffer
    <3>1. devices[p].buffer \in Seq(Data)
      BY <1>2 DEF Managed, Device
    <3>2. QED
      BY <1>2, <1>4, <3>1, ConstantTypes
  <2> HIDE DEF grown
  <2>3. /\ devices' \in [Ports -> Device]
        /\ \A q \in Ports : /\ devices'[q].buffer = IF q = p THEN grown ELSE devices[q].buffer
                            /\ devices'[q].ping = devices[q].ping
                            /\ devices'[q].state = devices[q].state
    BY <1>2, <2>1, <2>2 DEF Managed, Device
  <2>4. \A q \in Ports : Len(devices'[q].buffer) <= MaxBuffer
    BY <1>2, <2>2, <2>3 DEF Managed
  <2>5. UNCHANGED << ps2_manager_timeouts, ghosts >>
    BY DEF IrqData
  <2>6. IdentificationTimed'
    BY <1>1, <2>3, <2>5 DEF IdentificationTimed, State
  <2>7. devices'[FIRST].ping <= Ping
    BY <1>1, <2>3, PortNumbers, BoundTypes DEF Ping
  <2>8. QED
    BY <1>1, <1>2, <1>3, <2>3, <2>4, <2>5, <2>6, <2>7, IrqBase DEF Managed, Kept, ghosts
<1>5. CASE ~(State(p) = "IDENTIFY_IN_PROGRESS" /\ Len(devices[p].buffer) < MaxBuffer)
  <2>1. UNCHANGED << devices, ps2_manager_timeouts, ghosts >>
    BY <1>5 DEF IrqData
  <2>2. IdentificationTimed'
    BY <1>1, <2>1 DEF IdentificationTimed, State
  <2>3. devices'[FIRST].ping <= Ping
    BY <1>1, <2>1, BoundTypes DEF Ping
  <2>4. QED
    BY <1>1, <1>2, <1>3, <2>1, <2>2, <2>3, IrqBase DEF Managed, Kept, ghosts
<1>6. QED
  BY <1>4, <1>5

-----------------------------------------------------------------------------
(* The timer tasks and kernel_main.                                        *)
LEMMA CountedDown ==
    ASSUME NEW timeouts \in [Ports -> 0 .. Word - 1], NEW n \in Nat
    PROVE  [timeouts EXCEPT ![FIRST] = (@ - Interval * n) % Word] \in [Ports -> 0 .. Word - 1]
<1>1. Interval \in Nat /\ Word \in Nat \ {0}
  BY ConstantTypes
<1>2. Interval * n \in Int
  BY <1>1, Z3
<1>3. ASSUME NEW x \in Int, NEW w \in Nat \ {0} PROVE x % w \in 0 .. w - 1
  OBVIOUS
<1>4. timeouts[FIRST] - Interval * n \in Int
  <2>1. timeouts[FIRST] \in Int
    BY <1>1, PortNumbers
  <2>2. QED
    BY <1>2, <2>1
<1> DEFINE left == (timeouts[FIRST] - Interval * n) % Word
<1>5. left \in 0 .. Word - 1
  BY <1>1, <1>3, <1>4
<1> HIDE DEF left
<1>6. [timeouts EXCEPT ![FIRST] = left] \in [Ports -> 0 .. Word - 1]
  BY <1>5
<1>7. QED
  BY <1>6 DEF left

(* The byte that is read twice leaves the line as long as it was.          *)
LEMMA Overwritten ==
    ASSUME NEW s \in Seq(Bytes), Len(s) >= 2
    PROVE  << s[2] >> \o Tail(s) \in Seq(Bytes) /\ Len(<< s[2] >> \o Tail(s)) = Len(s)
<1>1. s[2] \in Bytes /\ Tail(s) \in Seq(Bytes) /\ Len(Tail(s)) = Len(s) - 1 /\ s # << >>
  OBVIOUS
<1>2. << s[2] >> \in Seq(Bytes) /\ Len(<< s[2] >>) = 1
  BY <1>1
<1>3. QED
  BY <1>1, <1>2, Joined

LEMMA TickEffect ==
    ASSUME TypeOK, Schedule, ControllerTimeout
    PROVE  /\ Wired' /\ Managed' /\ Kept'
           /\ \A q \in Ports : devices'[q].state = devices[q].state
           /\ Ping' = IF Ping <= MaxPing THEN Ping + 1 ELSE Ping
           /\ late[FIRST] = 0 /\ late'[FIRST] = Len(line[FIRST])
           /\ Len(line'[FIRST]) = Len(line[FIRST])
           /\ turn = "controller" /\ turn' = "first" /\ check' = check - 1
           /\ check > 1 \/ pc = "done"
           /\ UNCHANGED << ps2_manager_timeouts, connected, pc, stopped, plugged, echoed >>
           /\ \/ line'[FIRST] = line[FIRST] /\ lost' = lost
              \/ lost' = lost + 1
<1>1. Wired /\ Managed /\ Kept
  BY TypesParted
<1> DEFINE counted == IF devices[FIRST].ping <= MaxPing THEN devices[FIRST].ping + 1
                      ELSE devices[FIRST].ping
<1>2. devices' = [devices EXCEPT ![FIRST].ping = counted]
  BY DEF ControllerTimeout
<1>3. devices[FIRST].ping \in 0 .. MaxPing + 1
  BY <1>1, PortNumbers DEF Managed, Device
<1>4. counted \in 0 .. MaxPing + 1
  BY <1>3, ConstantTypes
<1> HIDE DEF counted
<1> DEFINE d == [devices[FIRST] EXCEPT !.ping = counted]
<1>5. devices \in [Ports -> Device]
  BY <1>1 DEF Managed
<1>6. /\ d \in Device /\ d.ping = counted
      /\ d.buffer = devices[FIRST].buffer /\ d.state = devices[FIRST].state
  BY <1>4, <1>5, PortNumbers DEF Device
<1>6a. devices' = [devices EXCEPT ![FIRST] = d]
  BY <1>2, <1>5
<1> HIDE DEF d
<1>7. /\ devices' \in [Ports -> Device]
      /\ \A q \in Ports : /\ devices'[q].buffer = devices[q].buffer
                          /\ devices'[q].state = devices[q].state
      /\ devices'[FIRST].ping = counted
  BY <1>5, <1>6, <1>6a, PortNumbers
<1>8. Managed'
  BY <1>1, <1>7 DEF Managed, ControllerTimeout
<1>9. Ping' = IF Ping <= MaxPing THEN Ping + 1 ELSE Ping
  BY <1>7 DEF Ping, counted
<1>10. ps2_controller_timeouts' \in [Ports -> 0 .. Word - 1]
  <2> DEFINE running == {p \in Ports : ps2_controller_timeouts[p] > 0}
  <2>1. Cardinality(running) \in Nat
    <3>1. IsFiniteSet({FIRST}) /\ IsFiniteSet({SECOND})
      BY FS_Singleton
    <3>2. IsFiniteSet(Ports)
      <4>1. Ports = {FIRST} \union {SECOND}
        BY DEF Ports
      <4>2. QED
        BY <3>1, <4>1, FS_Union
    <3>3. running \subseteq Ports
      OBVIOUS
    <3>4. QED
      BY <3>2, <3>3, FS_Subset, FS_CardinalityType
  <2>2. ps2_controller_timeouts' =
            [ps2_controller_timeouts EXCEPT ![FIRST] = (@ - Interval * Cardinality(running)) % Word]
    BY DEF ControllerTimeout
  <2> HIDE DEF running
  <2>3. QED
    BY <1>1, <2>1, <2>2, CountedDown DEF Wired
<1>11. /\ line' \in [Ports -> Seq(Bytes)] /\ lost' \in 0 .. MaxLost
       /\ Len(line'[FIRST]) = Len(line[FIRST])
       /\ \/ line'[FIRST] = line[FIRST] /\ lost' = lost
          \/ lost' = lost + 1
  <2>1. CASE UNCHANGED << line, lost >>
    BY <1>1, <2>1 DEF Wired
  <2>2. CASE \E p \in Ports :
                /\ Len(line[p]) >= 2 /\ lost < MaxLost
                /\ line' = [line EXCEPT ![p] = << @[2] >> \o Tail(@)]
                /\ lost' = lost + 1
    <3>1. PICK p \in Ports : /\ Len(line[p]) >= 2 /\ lost < MaxLost
                             /\ line' = [line EXCEPT ![p] = << @[2] >> \o Tail(@)]
                             /\ lost' = lost + 1
      BY <2>2
    <3> DEFINE over == << line[p][2] >> \o Tail(line[p])
    <3>2. line[p] \in Seq(Bytes) /\ line \in [Ports -> Seq(Bytes)]
      BY <1>1 DEF Wired
    <3>3. over \in Seq(Bytes) /\ Len(over) = Len(line[p])
      BY <3>1, <3>2, Overwritten
    <3>4. line' = [line EXCEPT ![p] = over]
      BY <3>1
    <3> HIDE DEF over
    <3>5. line' \in [Ports -> Seq(Bytes)] /\ Len(line'[FIRST]) = Len(line[FIRST])
      BY <3>2, <3>3, <3>4, PortNumbers
    <3>6. lost' \in 0 .. MaxLost
      BY <1>1, <3>1, ConstantTypes DEF Wired
    <3>7. QED
      BY <3>1, <3>5, <3>6
  <2>3. QED
    BY <2>1, <2>2 DEF ControllerTimeout
<1>12. Wired'
  BY <1>1, <1>10, <1>11 DEF Wired, ControllerTimeout
<1>13. /\ turn = "controller" /\ turn' = "first" /\ check' = check - 1
       /\ check > 1 \/ pc = "done"
       /\ UNCHANGED << ps2_manager_timeouts, connected, pc, stopped, plugged, echoed, clean, plugs >>
  BY DEF ControllerTimeout, ghosts
<1>14. late[FIRST] = 0 /\ late' = [p \in Ports |-> Len(line[p])]
  BY PortNumbers DEF ControllerTimeout
<1>15. late' \in [Ports -> Nat] /\ late'[FIRST] = Len(line[FIRST])
  BY <1>1, <1>14, PortNumbers DEF Wired
<1>16. Kept'
  <2>1. check > 0 /\ check \in 0 .. CheckInterval /\ CheckInterval \in Nat
    BY <1>1, <1>13, ConstantTypes DEF Schedule, Kept
  <2>2. check' \in 0 .. CheckInterval
    BY <1>13, <2>1
  <2>3. QED
    BY <1>1, <1>13, <1>15, <2>2 DEF Kept
<1>17. QED
  BY <1>7, <1>8, <1>9, <1>11, <1>12, <1>13, <1>14, <1>15, <1>16

LEMMA TickBase ==
    ASSUME Base, ControllerTimeout
    PROVE  Base'
<1>1. TypeOK /\ Schedule /\ IdentificationTimed
  BY DEF Base
<1>2. TypeOK'
  BY <1>1, TickEffect, TypesJoined
<1>3. /\ \A q \in Ports : devices'[q].state = devices[q].state
      /\ Ping' = IF Ping <= MaxPing THEN Ping + 1 ELSE Ping
      /\ late'[FIRST] = Len(line[FIRST]) /\ Len(line'[FIRST]) = Len(line[FIRST])
      /\ turn' = "first" /\ check' = check - 1
      /\ check > 1 \/ pc = "done"
      /\ UNCHANGED << ps2_manager_timeouts, pc >>
  BY <1>1, TickEffect
<1>4. IdentificationTimed'
  BY <1>1, <1>3 DEF IdentificationTimed, State
<1>5. /\ Ping \in Nat /\ MaxPing \in Nat /\ check \in Nat /\ CheckInterval \in Nat
      /\ Len(line[FIRST]) \in Nat
  BY <1>1, BoundTypes, ConstantTypes, PortNumbers DEF TypeOK
<1>6. Ping' + check' <= Ping + check
  BY <1>3, <1>5
<1>7. pc' # "done" => Ping' + check' <= CheckInterval
  BY <1>1, <1>3, <1>5, <1>6 DEF Schedule
<1>8. Schedule'
  BY <1>3, <1>5, <1>7 DEF Schedule
<1>9. QED
  BY <1>2, <1>4, <1>8 DEF Base

(* A step that only adds bytes to a line.                                  *)
LEMMA StepBase ==
    ASSUME Base, NEW p \in Ports, Delivered(p, line[p]), stopped = "no",
           Managed', Kept', IdentificationTimed', Ping' = Ping, late' = late,
           turn' = "controller" => check' > 0,
           turn' = "check" => check' = 0,
           check' = 0 => pc' = "done",
           pc' # "done" => Ping' + check' <= CheckInterval
    PROVE  Base'
<1>1. TypeOK /\ Schedule /\ line \in [Ports -> Seq(Bytes)] /\ late \in [Ports -> Nat]
  BY DEF Base, TypeOK
<1>2. TypeOK'
  BY TypesJoined DEF Delivered
<1>3. ASSUME stopped' = "no" PROVE late'[FIRST] <= Len(line'[FIRST])
  <2>1. /\ \A q \in Ports \ {p} : line'[q] = line[q]
        /\ Len(line[p]) <= Len(line'[p])
    BY <1>3 DEF Delivered, Longer
  <2>2. Len(line[FIRST]) <= Len(line'[FIRST])
    BY <1>1, <2>1, PortNumbers
  <2>3. line' \in [Ports -> Seq(Bytes)]
    BY <1>2 DEF TypeOK
  <2>4. line[FIRST] \in Seq(Bytes) /\ line'[FIRST] \in Seq(Bytes) /\ late[FIRST] \in Nat
    BY <1>1, <2>3, PortNumbers
  <2>5. late[FIRST] <= Len(line[FIRST])
    BY <1>1 DEF Schedule
  <2>6. QED
    BY <2>2, <2>4, <2>5
<1>4. Schedule'
  BY <1>3 DEF Schedule
<1>5. QED
  BY <1>2, <1>4 DEF Base

LEMMA CountDownBase ==
    ASSUME Base, NEW p \in Ports, CountDown(p)
    PROVE  Base' /\ Quiet(p, line[p])
<1>1. TypeOK /\ Schedule /\ IdentificationTimed /\ Wired /\ Managed /\ Kept
  BY TypesParted DEF Base
<1>2. /\ TaskDone(p) /\ NoSend(p, line[p]) /\ UNCHANGED devices
      /\ ps2_manager_timeouts[p] # 0
      /\ ps2_manager_timeouts' = [ps2_manager_timeouts EXCEPT ![p] = IF @ > 0 THEN @ - 1 ELSE @]
  BY DEF CountDown
<1>3. Quiet(p, line[p])
  BY <1>1, <1>2, NoSendEffect DEF Wired
<1> DEFINE less == IF ps2_manager_timeouts[p] > 0 THEN ps2_manager_timeouts[p] - 1
                   ELSE ps2_manager_timeouts[p]
<1>4. /\ less \in -1 .. MaxTimeout
      /\ ps2_manager_timeouts[p] >= 0 => less >= 0
  BY <1>1, <1>2, ConstantTypes DEF Managed
<1>5. ps2_manager_timeouts' = [ps2_manager_timeouts EXCEPT ![p] = less]
  BY <1>2
<1> HIDE DEF less
<1>6. /\ ps2_manager_timeouts' \in [Ports -> -1 .. MaxTimeout]
      /\ \A q \in Ports : ps2_manager_timeouts[q] >= 0 => ps2_manager_timeouts'[q] >= 0
  BY <1>1, <1>4, <1>5 DEF Managed
<1>7. Managed' /\ IdentificationTimed'
  BY <1>1, <1>2, <1>6 DEF Managed, IdentificationTimed, State
<1>8. /\ stopped = "no" /\ Ping' = Ping
      /\ UNCHANGED << check, connected, pc, plugged, plugs, late, echoed, clean >>
      /\ turn' \in {"second", "check", "controller"}
      /\ turn' = "check" => check = 0
      /\ turn' = "controller" => check # 0
  BY <1>2, PortNumbers DEF TaskDone, ghosts, Ping
<1>9. Kept' /\ check \in Nat
  BY <1>1, <1>8, ConstantTypes DEF Kept
<1>10. /\ check' = 0 => pc' = "done"
       /\ pc' # "done" => Ping' + check' <= CheckInterval
  BY <1>1, <1>8 DEF Schedule
<1>11. QED
  BY <1>3, <1>7, <1>8, <1>9, <1>10, StepBase DEF Quiet

LEMMA InitDeviceBase ==
    ASSUME Base, NEW p \in Ports, InitDevice(p)
    PROVE  Base' /\ Quiet(p, line[p]) /\ State(p)' = "READY"
<1>1. TypeOK /\ Schedule /\ IdentificationTimed /\ Wired /\ Managed /\ Kept
  BY TypesParted DEF Base
<1> DEFINE id == devices[p].buffer
           type == TypeOf(id, devices[p].type)
           supported == Supports(id, devices[p].supported)
<1>2. /\ TaskDone(p)
      /\ ps2_manager_timeouts' = [ps2_manager_timeouts EXCEPT ![p] = -1]
      /\ devices' = [devices EXCEPT ![p].state = "READY", ![p].type = type,
                                    ![p].supported = supported]
      /\ IF IsKeyboard(id) THEN Setup(p, id # << >>, line[p]) ELSE NoSend(p, line[p])
  BY DEF InitDevice
<1>3. Quiet(p, line[p])
  BY <1>1, <1>2, NoSendEffect, SetupEffect DEF Wired, Kept
<1>4. type \in {"UNKNOWN", "KEYBOARD", "MOUSE"} /\ supported \in BOOLEAN /\ "READY" \in States
  BY <1>1 DEF Managed, Device, TypeOf, Supports, States
<1> HIDE DEF type, supported
<1>5. /\ devices' \in [Ports -> Device]
      /\ \A q \in Ports : /\ devices'[q].buffer = devices[q].buffer
                          /\ devices'[q].ping = devices[q].ping
                          /\ devices'[q].state = IF q = p THEN "READY" ELSE devices[q].state
  <2> DEFINE d == [devices[p] EXCEPT !.state = "READY", !.type = type, !.supported = supported]
  <2>1. devices \in [Ports -> Device]
    BY <1>1 DEF Managed
  <2>2. /\ d \in Device /\ d.state = "READY"
        /\ d.buffer = devices[p].buffer /\ d.ping = devices[p].ping
    BY <1>4, <2>1 DEF Device
  <2>3. devices' = [devices EXCEPT ![p] = d]
    BY <1>2, <2>1
  <2> HIDE DEF d
  <2>4. QED
    BY <2>1, <2>2, <2>3, DeviceReplaced
<1>6. /\ ps2_manager_timeouts' \in [Ports -> -1 .. MaxTimeout]
      /\ \A q \in Ports \ {p} : ps2_manager_timeouts'[q] = ps2_manager_timeouts[q]
  BY <1>1, <1>2, ConstantTypes DEF Managed
<1>7. Managed' /\ IdentificationTimed'
  BY <1>1, <1>5, <1>6 DEF Managed, IdentificationTimed, State
<1>8. /\ stopped = "no" /\ Ping' = Ping
      /\ UNCHANGED << check, connected, pc, plugged, plugs, late, echoed, clean >>
      /\ turn' \in {"second", "check", "controller"}
      /\ turn' = "check" => check = 0
      /\ turn' = "controller" => check # 0
  BY <1>2, <1>5, PortNumbers DEF TaskDone, ghosts, Ping
<1>9. Kept' /\ check \in Nat
  BY <1>1, <1>8, ConstantTypes DEF Kept
<1>10. /\ check' = 0 => pc' = "done"
       /\ pc' # "done" => Ping' + check' <= CheckInterval
  BY <1>1, <1>8 DEF Schedule
<1>11. QED
  BY <1>3, <1>5, <1>7, <1>8, <1>9, <1>10, StepBase DEF Quiet, State

(* A port is forgotten only when the first has been silent too long.       *)
LEMMA ForgetEffect ==
    ASSUME TypeOK, ForgetIfSilent
    PROVE  /\ devices' \in [Ports -> Device]
           /\ \A q \in Ports : /\ devices'[q].buffer = devices[q].buffer
                               /\ devices'[q].ping = devices[q].ping
                               /\ devices'[q].state \in {devices[q].state, "NOT_CONNECTED"}
           /\ connected' \in [Ports -> BOOLEAN]
           /\ Ping <= MaxPing => UNCHANGED << devices, connected >>
<1>1. Managed /\ Kept /\ MaxPing \in Nat
  BY TypesParted, ConstantTypes
<1>2. CASE Ping > MaxPing
  <2>1. /\ devices' = [devices EXCEPT ![FIRST].type = "UNKNOWN", ![FIRST].state = "NOT_CONNECTED"]
        /\ connected' = [connected EXCEPT ![FIRST] = FALSE]
    BY <1>2 DEF ForgetIfSilent, Ping
  <2> DEFINE silent == [devices EXCEPT ![FIRST].type = "UNKNOWN"]
  <2>2. /\ silent \in [Ports -> Device]
        /\ \A q \in Ports : /\ silent[q].buffer = devices[q].buffer
                            /\ silent[q].ping = devices[q].ping
                            /\ silent[q].state = devices[q].state
    BY <1>1, PortNumbers DEF Managed, Device
  <2>3. devices' = [silent EXCEPT ![FIRST].state = "NOT_CONNECTED"]
    BY <2>1
  <2>4. "NOT_CONNECTED" \in States
    BY DEF States
  <2> HIDE DEF silent
  <2>5. /\ devices' \in [Ports -> Device]
        /\ \A q \in Ports : /\ devices'[q].buffer = devices[q].buffer
                            /\ devices'[q].ping = devices[q].ping
                            /\ devices'[q].state \in {devices[q].state, "NOT_CONNECTED"}
    BY <2>2, <2>3, <2>4, PortNumbers DEF Device
  <2>6. connected' \in [Ports -> BOOLEAN]
    BY <1>1, <2>1, PortNumbers DEF Kept
  <2>7. ~(Ping <= MaxPing)
    BY <1>1, <1>2, BoundTypes
  <2>8. QED
    BY <2>5, <2>6, <2>7
<1>3. CASE ~(Ping > MaxPing)
  BY <1>1, <1>3 DEF ForgetIfSilent, Ping, Managed, Kept
<1>4. QED
  BY <1>2, <1>3

LEMMA PortCheckBase ==
    ASSUME Base, PortCheck
    PROVE  Base' /\ Delivered(FIRST, line[FIRST])
<1>1. TypeOK /\ Schedule /\ IdentificationTimed /\ Wired /\ Managed /\ Kept /\ FIRST \in Ports
  BY TypesParted, PortNumbers DEF Base
<1>2. /\ stopped = "no" /\ turn = "check" /\ turn' = "controller" /\ check' = CheckInterval
      /\ ForgetIfSilent
      /\ UNCHANGED << ps2_manager_timeouts, pc, plugged, plugs, late, echoed, clean >>
  BY DEF PortCheck, ghosts
<1>3. PICK command \in {"echo", "reset"} : Send(FIRST, command, line[FIRST])
  <2>1. CASE connected'[FIRST]
    BY <2>1 DEF PortCheck, CheckCommand
  <2>2. CASE ~connected'[FIRST]
    BY <2>2 DEF PortCheck, CheckCommand
  <2>3. QED
    BY <2>1, <2>2
<1>4. command \in Commands /\ line[FIRST] \in Seq(Bytes) /\ plugged \in [Ports -> Kinds]
  BY <1>1 DEF Commands, Wired, Kept
<1>5. Delivered(FIRST, line[FIRST])
  BY <1>1, <1>3, <1>4, SendEffect
<1>6. Managed' /\ Kept' /\ IdentificationTimed' /\ Ping' = Ping
  <2>1. /\ devices' \in [Ports -> Device]
        /\ \A q \in Ports : /\ devices'[q].buffer = devices[q].buffer
                            /\ devices'[q].ping = devices[q].ping
                            /\ devices'[q].state \in {devices[q].state, "NOT_CONNECTED"}
        /\ connected' \in [Ports -> BOOLEAN]
    BY <1>1, <1>2, ForgetEffect
  <2>2. Managed' /\ Ping' = Ping
    BY <1>1, <1>2, <2>1 DEF Managed, Ping
  <2>3. IdentificationTimed'
    BY <1>1, <1>2, <2>1 DEF IdentificationTimed, State
  <2>4. check' \in 0 .. CheckInterval
    BY <1>2, ConstantTypes
  <2>5. Kept'
    BY <1>1, <1>2, <2>1, <2>4 DEF Kept
  <2>6. QED
    BY <2>2, <2>3, <2>5
<1>7. pc = "done" /\ check' > 0 /\ CheckInterval \in Nat \ {0}
  BY <1>1, <1>2, ConstantTypes DEF Schedule
<1>8. QED
  BY <1>1, <1>2, <1>5, <1>6, <1>7, StepBase

LEMMA MainBase ==
    ASSUME Base, Main
    PROVE  Base' /\ Delivered(FIRST, line[FIRST])
<1>1. TypeOK /\ Schedule /\ IdentificationTimed /\ Wired /\ Managed /\ Kept /\ FIRST \in Ports
  BY TypesParted, PortNumbers DEF Base
<1>2. /\ stopped = "no"
      /\ UNCHANGED << ps2_manager_timeouts, turn, check, plugged, plugs, late, echoed, clean >>
      /\ pc # "done" /\ pc' \in {"test", "echo", "reset", "done"}
  BY DEF Main, MainCheck, MainTest, MainSend, MainAt, CheckCommand, ghosts, timer
<1>3. Managed' /\ Kept' /\ IdentificationTimed' /\ Ping' = Ping
  <2>1. CASE ForgetIfSilent
    BY <1>1, <1>2, <2>1, ForgetEffect DEF Managed, Kept, IdentificationTimed, State, Ping
  <2>2. CASE UNCHANGED << devices, connected >>
    BY <1>1, <1>2, <2>2 DEF Managed, Kept, IdentificationTimed, State, Ping
  <2>3. QED
    BY <2>1, <2>2 DEF Main, MainCheck, MainTest, MainSend
<1>4. Delivered(FIRST, line[FIRST])
  <2>1. line[FIRST] \in Seq(Bytes) /\ plugged \in [Ports -> Kinds] /\ {"echo", "reset"} \subseteq Commands
    BY <1>1 DEF Wired, Kept, Commands
  <2>2. CASE NoSend(FIRST, line[FIRST])
    BY <1>1, <2>1, <2>2, NoSendEffect DEF Quiet
  <2>3. CASE \E command \in {"echo", "reset"} : Send(FIRST, command, line[FIRST])
    BY <1>1, <2>1, <2>3, SendEffect
  <2>4. QED
    BY <2>2, <2>3 DEF Main, MainCheck, MainTest, MainSend
<1>5. /\ turn' = "controller" => check' > 0
      /\ turn' = "check" => check' = 0
      /\ check' = 0 => pc' = "done"
      /\ pc' # "done" => Ping' + check' <= CheckInterval
  BY <1>1, <1>2, <1>3 DEF Schedule
<1>6. QED
  BY <1>1, <1>2, <1>3, <1>4, <1>5, StepBase

-----------------------------------------------------------------------------
(* The devices.                                                            *)
LEMMA EnvironmentBase ==
    ASSUME Base, Environment, line' \in [Ports -> Seq(Bytes)],
           scan' \in [Ports -> BOOLEAN], plugged' \in [Ports -> Kinds],
           late' \in [Ports -> Nat], late'[FIRST] <= Len(line'[FIRST]),
           echoed' \in [Ports -> BOOLEAN], clean' \in [Ports -> BOOLEAN],
           plugs' \in 0 .. MaxPlugs
    PROVE  Base'
<1>1. TypeOK /\ Schedule /\ IdentificationTimed /\ Wired /\ Managed /\ Kept
  BY TypesParted DEF Base
<1>2. UNCHANGED << devices, ps2_manager_timeouts, ps2_controller_timeouts, connected, turn,
                   check, pc, stopped, lost >>
  BY DEF Environment, manager, timer
<1>3. Wired' /\ Managed' /\ Kept'
  BY <1>1, <1>2 DEF Wired, Managed, Kept
<1>4. IdentificationTimed' /\ Schedule'
  BY <1>1, <1>2 DEF IdentificationTimed, State, Schedule, Ping
<1>5. QED
  BY <1>3, <1>4, TypesJoined DEF Base

LEMMA PlugBase ==
    ASSUME Base, NEW p \in Ports, NEW kind \in KindsAt(p), Plug(p, kind)
    PROVE  /\ Base'
           /\ \A q \in Ports \ {p} : line'[q] = line[q]
           /\ Longer(line'[p], line[p]) /\ AddsNoEcho(line'[p], line[p])
<1>1. TypeOK /\ Schedule /\ Wired /\ Kept
  BY TypesParted DEF Base
<1>2. PICK result \in {"ok", "error"} : line' = [line EXCEPT ![p] = Append(@, result)]
  BY DEF Plug
<1>3. result \in Bytes /\ result # "echo" /\ line[p] \in Seq(Bytes) /\ line'[p] = Append(line[p], result)
  BY <1>1, <1>2 DEF Bytes, Wired
<1>4. /\ \A q \in Ports \ {p} : line'[q] = line[q]
      /\ Longer(line'[p], line[p]) /\ AddsNoEcho(line'[p], line[p])
  BY <1>2, <1>3, LongerByByte
<1>5. /\ Environment /\ plugs < MaxPlugs /\ plugs' = plugs + 1
      /\ plugged' = [plugged EXCEPT ![p] = kind]
      /\ scan' = [scan EXCEPT ![p] = kind # "mouse"]
      /\ UNCHANGED << late, echoed, clean >>
  BY DEF Plug, ghosts
<1>6. kind \in Kinds
  BY DEF Kinds, KindsAt
<1>7. plugged' \in [Ports -> Kinds] /\ scan' \in [Ports -> BOOLEAN] /\ plugs' \in 0 .. MaxPlugs
  BY <1>1, <1>5, <1>6, ConstantTypes DEF Wired, Kept
<1>8. line' \in [Ports -> Seq(Bytes)]
  BY <1>1, <1>2, <1>3 DEF Wired
<1>9. stopped = "no"
  BY <1>5 DEF Environment
<1>10. late'[FIRST] <= Len(line'[FIRST])
  <2>1. late[FIRST] <= Len(line[FIRST]) /\ late[FIRST] \in Nat
    BY <1>1, <1>9, PortNumbers DEF Schedule, Kept
  <2>2. Len(line[FIRST]) <= Len(line'[FIRST])
    BY <1>1, <1>4, PortNumbers DEF Longer, Wired
  <2>3. line[FIRST] \in Seq(Bytes) /\ line'[FIRST] \in Seq(Bytes)
    BY <1>1, <1>8, PortNumbers DEF Wired
  <2>4. QED
    BY <1>5, <2>1, <2>2, <2>3
<1>11. QED
  BY <1>1, <1>4, <1>5, <1>7, <1>8, <1>10, EnvironmentBase DEF Kept

LEMMA PressKeyBase ==
    ASSUME Base, NEW p \in Ports, PressKey(p)
    PROVE  /\ Base'
           /\ \A q \in Ports \ {p} : line'[q] = line[q]
           /\ Longer(line'[p], line[p]) /\ AddsNoEcho(line'[p], line[p])
<1>1. TypeOK /\ Schedule /\ Wired /\ Kept
  BY TypesParted DEF Base
<1>2. /\ Environment /\ line' = [line EXCEPT ![p] = Append(@, "key")]
      /\ UNCHANGED << plugged, scan, plugs, late, echoed, clean >>
  BY DEF PressKey, ghosts
<1>3. "key" \in Bytes /\ line[p] \in Seq(Bytes) /\ line'[p] = Append(line[p], "key")
  BY <1>1, <1>2 DEF Bytes, Data, Wired
<1>4. /\ \A q \in Ports \ {p} : line'[q] = line[q]
      /\ Longer(line'[p], line[p]) /\ AddsNoEcho(line'[p], line[p])
  BY <1>2, <1>3, LongerByByte
<1>5. line' \in [Ports -> Seq(Bytes)]
  BY <1>1, <1>2, <1>3 DEF Wired
<1>6. stopped = "no"
  BY <1>2 DEF Environment
<1>7. late'[FIRST] <= Len(line'[FIRST])
  <2>1. late[FIRST] <= Len(line[FIRST]) /\ late[FIRST] \in Nat
    BY <1>1, <1>6, PortNumbers DEF Schedule, Kept
  <2>2. Len(line[FIRST]) <= Len(line'[FIRST])
    BY <1>1, <1>4, PortNumbers DEF Longer, Wired
  <2>3. line[FIRST] \in Seq(Bytes) /\ line'[FIRST] \in Seq(Bytes)
    BY <1>1, <1>5, PortNumbers DEF Wired
  <2>4. QED
    BY <1>2, <2>1, <2>2, <2>3
<1>8. QED
  BY <1>1, <1>2, <1>4, <1>5, <1>7, EnvironmentBase DEF Kept, Wired

LEMMA UnplugBase ==
    ASSUME Base, NEW p \in Ports, Unplug(p)
    PROVE  Base'
<1>1. TypeOK /\ Schedule /\ Wired /\ Kept
  BY TypesParted DEF Base
<1> DEFINE first == SubSeq(line[p], 1, IF line[p] = << >> THEN 0 ELSE 1)
<1>2. /\ Environment /\ line' = [line EXCEPT ![p] = first]
      /\ plugged' = [plugged EXCEPT ![p] = "none"]
      /\ echoed' = [echoed EXCEPT ![p] = FALSE] /\ clean' = [clean EXCEPT ![p] = FALSE]
      /\ late' = [late EXCEPT ![p] = 0]
      /\ UNCHANGED << scan, plugs >>
  BY DEF Unplug
<1>3. first \in Seq(Bytes) /\ line[p] \in Seq(Bytes)
  <2>1. line[p] \in Seq(Bytes)
    BY <1>1 DEF Wired
  <2>2. CASE line[p] = << >>
    BY <2>1, <2>2
  <2>3. CASE line[p] # << >>
    BY <2>1, <2>3
  <2>4. QED
    BY <2>1, <2>2, <2>3
<1> HIDE DEF first
<1>4. line' \in [Ports -> Seq(Bytes)] /\ "none" \in Kinds
  BY <1>1, <1>2, <1>3 DEF Wired, Kinds
<1>5. /\ plugged' \in [Ports -> Kinds] /\ late' \in [Ports -> Nat]
      /\ echoed' \in [Ports -> BOOLEAN] /\ clean' \in [Ports -> BOOLEAN]
  BY <1>1, <1>2, <1>4 DEF Kept
<1>6. stopped = "no"
  BY <1>2 DEF Environment
<1>7. late'[FIRST] <= Len(line'[FIRST])
  <2>1. line[FIRST] \in Seq(Bytes) /\ line'[FIRST] \in Seq(Bytes)
    BY <1>1, <1>4, PortNumbers DEF Wired
  <2>2. late[FIRST] <= Len(line[FIRST]) /\ late[FIRST] \in Nat
    BY <1>1, <1>6, PortNumbers DEF Schedule, Kept
  <2>3. CASE p = FIRST
    <3>1. late'[FIRST] = 0
      BY <1>1, <1>2, <2>3 DEF Kept
    <3>2. QED
      BY <2>1, <3>1
  <2>4. CASE p # FIRST
    <3>1. late'[FIRST] = late[FIRST] /\ line'[FIRST] = line[FIRST]
      BY <1>1, <1>2, <2>4, PortNumbers DEF Kept, Wired
    <3>2. QED
      BY <2>2, <3>1
  <2>5. QED
    BY <2>3, <2>4
<1>8. QED
  BY <1>1, <1>2, <1>4, <1>5, <1>7, EnvironmentBase DEF Kept, Wired

-----------------------------------------------------------------------------
LEMMA InitBase == Init => Base
<1> SUFFICES ASSUME Init PROVE Base
  OBVIOUS
<1>1. 0 \in 0 .. MaxPing + 1 /\ 0 \in 0 .. Word - 1 /\ -1 \in -1 .. MaxTimeout /\ 0 <= MaxBuffer
      /\ 0 \in 0 .. MaxLost /\ 0 \in 0 .. MaxPlugs /\ CheckInterval \in 0 .. CheckInterval
      /\ CheckInterval > 0 /\ << >> \in Seq(Data) /\ << >> \in Seq(Bytes)
  BY ConstantTypes
<1>2. [state |-> "NOT_CONNECTED", type |-> "UNKNOWN", supported |-> FALSE,
       buffer |-> << >>, ping |-> 0] \in Device
  BY <1>1 DEF Device, States
<1>3. Managed
  BY <1>1, <1>2 DEF Managed, Init
<1>4. Wired
  BY <1>1 DEF Wired, Init
<1>5. Kept
  BY <1>1 DEF Kept, Init, Kinds
<1>6. IdentificationTimed
  BY DEF IdentificationTimed, State, Init
<1>7. Schedule
  BY <1>1, PortNumbers, ConstantTypes DEF Schedule, Ping, Init
<1>8. QED
  BY <1>3, <1>4, <1>5, <1>6, <1>7, TypesParted DEF Base

LEMMA NextBase == Base /\ [Next]_vars => Base'
<1> SUFFICES ASSUME Base, [Next]_vars PROVE Base'
  OBVIOUS
<1>1. ASSUME NEW p \in Ports, HandleIrq(p) PROVE Base'
  BY <1>1, IrqPresumeBase, IrqEchoBase, IrqResendBase, IrqOthersBase, IrqDataBase DEF HandleIrq
<1>2. CASE Tick
  BY <1>2, TickBase, CountDownBase, InitDeviceBase, PortCheckBase DEF Tick
<1>3. CASE Main
  BY <1>3, MainBase
<1>4. ASSUME NEW p \in Ports, NEW kind \in KindsAt(p), Plug(p, kind) PROVE Base'
  BY <1>4, PlugBase
<1>5. ASSUME NEW p \in Ports, Unplug(p) \/ PressKey(p) PROVE Base'
  BY <1>5, UnplugBase, PressKeyBase
<1>6. CASE UNCHANGED vars
  <2>1. UNCHANGED << devices, ps2_manager_timeouts, ps2_controller_timeouts, connected, turn,
                     check, pc, stopped, plugged, scan, line, late, plugs, lost, echoed, clean >>
    BY <1>6 DEF vars, manager, timer, ghosts
  <2>2. QED
    BY <2>1 DEF Base, TypeOK, IdentificationTimed, State, Schedule, Ping
<1>7. QED
  BY <1>1, <1>2, <1>3, <1>4, <1>5, <1>6 DEF Next

(* Whatever devices come, go and answer, and whatever gets lost: every     *)
(* variable of the controller, the manager and kernel_main keeps its type, *)
(* the buffer of an identification never grows beyond                      *)
(* PS2_DEVICE_MAX_BUFFER_SIZE, and a port check finds kernel_main done     *)
(* with its own.                                                           *)
THEOREM PortsTypeOK == Spec => [](TypeOK /\ Schedule)
<1>1. Base => TypeOK /\ Schedule
  BY DEF Base
<1>2. QED
  BY <1>1, InitBase, NextBase, PTL DEF Spec

(* A port whose identification is under way has the countdown of           *)
(* ps2_manager_timeouts running, on either port and after any interrupts,  *)
(* so timeout_timer will judge it.                                         *)
THEOREM IdentificationAlwaysTimed == Spec => []IdentificationTimed
<1>1. Base => IdentificationTimed
  BY DEF Base
<1>2. QED
  BY <1>1, InitBase, NextBase, PTL DEF Spec

-----------------------------------------------------------------------------
(* A keyboard that answers.  How the bounds on the time since its last     *)
(* echo carry over a step.                                                 *)
LEMMA InTimeSame ==
    ASSUME NEW s, NEW n, NEW u, NEW m, NEW ping \in Nat, NEW left \in Nat,
           NEW bound \in Nat, NEW later \in Nat, bound <= later,
           EchoWithin(u, m) <=> EchoWithin(s, n), EchoIn(u) <=> EchoIn(s),
           InTime(s, n, ping, left, bound)
    PROVE  InTime(u, m, ping, left, later)
BY DEF InTime

(* Early in an interval it does not matter what is on the wire.            *)
LEMMA InTimeEarly ==
    ASSUME NEW u, NEW m, NEW ping \in Nat, NEW left \in Nat, NEW bound \in Nat,
           ping + left <= bound
    PROVE  InTime(u, m, ping, left, bound)
BY DEF InTime

(* A tick: an echo that was on the wire is due before the next one, and    *)
(* one that the tick loses counts as a loss.                               *)
LEMMA InTimeTick ==
    ASSUME NEW s \in Seq(Bytes), NEW u \in Seq(Bytes), Len(u) = Len(s),
           NEW ping \in Nat, NEW more \in Nat, more <= ping + 1,
           NEW left \in Nat, 0 < left, left <= CheckInterval, CheckInterval > 1,
           NEW bound \in Nat, NEW later \in Nat,
           \/ u = s /\ later = bound
           \/ later = bound + CheckInterval,
           InTime(s, 0, ping, left, bound)
    PROVE  InTime(u, Len(s), more, left - 1, later)
<1>1. Len(s) \in Nat /\ CheckInterval \in Nat
  BY ConstantTypes
<1>2. ~EchoWithin(s, 0)
  BY DEF EchoWithin
<1>3. EchoWithin(u, Len(s)) <=> EchoIn(u)
  BY <1>1 DEF EchoWithin, EchoIn
<1>4. /\ EchoIn(s) => ping <= bound /\ (left # CheckInterval => ping + left <= bound)
      /\ ~EchoIn(s) => ping + left <= bound
  BY <1>2 DEF InTime
<1>5. /\ EchoIn(u) => more <= later + 1 /\ (left - 1 = 0 => more <= later)
      /\ ~EchoIn(u) => more + (left - 1) <= later
  BY <1>1, <1>4
<1>6. QED
  BY <1>3, <1>5 DEF InTime

(* The port check: either an echo is on the wire, or one more is lost.     *)
LEMMA InTimeAsked ==
    ASSUME NEW s \in Seq(Bytes), NEW n \in Nat, n <= Len(s), NEW u, Longer(u, s),
           NEW ping \in Nat, NEW bound \in Nat, NEW later \in Nat, bound <= later,
           AddsNoEcho(u, s) => later = bound + CheckInterval,
           InTime(s, n, ping, 0, bound)
    PROVE  InTime(u, n, ping, CheckInterval, later)
<1>1. CheckInterval \in Nat \ {0}
  BY ConstantTypes
<1>2. EchoWithin(u, n) <=> EchoWithin(s, n)
  BY LineGrows
<1>3. ~EchoIn(u) => AddsNoEcho(u, s)
  BY DEF EchoIn, AddsNoEcho, Longer
<1>4. ping <= bound
  BY DEF InTime
<1>5. QED
  BY <1>1, <1>2, <1>3, <1>4 DEF InTime

-----------------------------------------------------------------------------
(* Steps that leave the first port's echoes alone.                         *)
LEMMA HeardStill ==
    ASSUME Base, Heard, stopped = "no", lost' \in Nat, lost <= lost',
           check' = check, late'[FIRST] = late[FIRST], Ping' = Ping,
           echoed'[FIRST] => echoed[FIRST],
           echoed'[FIRST] => plugged'[FIRST] = plugged[FIRST],
           connected[FIRST] => connected'[FIRST],
           echoed'[FIRST] => State(FIRST)' # "NOT_CONNECTED",
           stopped' = "no" /\ echoed'[FIRST] =>
               Longer(line'[FIRST], line[FIRST]) /\ AddsNoEcho(line'[FIRST], line[FIRST])
    PROVE  Heard'
<1>1. TypeOK /\ Schedule
  BY DEF Base
<1>2. SUFFICES ASSUME echoed'[FIRST] PROVE Heard'
  BY DEF Heard
<1>3. connected'[FIRST] /\ State(FIRST)' # "NOT_CONNECTED"
      /\ plugged'[FIRST] \in {"keyboard", "at_keyboard"}
  BY <1>2 DEF Heard
<1>4. ASSUME stopped' = "no"
      PROVE  InTime(line'[FIRST], late'[FIRST], Ping', check', Bound')
  <2>1. InTime(line[FIRST], late[FIRST], Ping, check, Bound)
    BY <1>2 DEF Heard
  <2>2. line[FIRST] \in Seq(Bytes) /\ late[FIRST] \in Nat /\ late[FIRST] <= Len(line[FIRST])
    BY <1>1, PortNumbers DEF TypeOK, Schedule
  <2>3. /\ EchoWithin(line'[FIRST], late[FIRST]) <=> EchoWithin(line[FIRST], late[FIRST])
        /\ EchoIn(line'[FIRST]) <=> EchoIn(line[FIRST])
    BY <1>2, <1>4, <2>2, LineGrows
  <2>4. Ping \in Nat /\ check \in Nat /\ Bound \in Nat /\ Bound' \in Nat /\ Bound <= Bound'
    BY <1>1, BoundTypes, BoundGrows
  <2> DEFINE later == Bound'
             u == line'[FIRST]
  <2>5. later \in Nat /\ Bound <= later
    BY <2>4
  <2> HIDE DEF later, u
  <2>6. InTime(u, late[FIRST], Ping, check, later)
    BY <2>1, <2>3, <2>4, <2>5, InTimeSame DEF u
  <2>7. QED
    BY <2>6 DEF later, u
<1>5. QED
  BY <1>3, <1>4 DEF Heard

(* An interrupt of the first port handles a byte that is no echo, or one   *)
(* of the second handles any byte.                                         *)
LEMMA HeardIrq ==
    ASSUME Base, Heard, NEW p \in Ports, NEW bytes, Irq(p, bytes), Quiet(p, Rest(p)),
           Ping' = Ping, echoed'[FIRST] => echoed[FIRST],
           echoed'[FIRST] => State(FIRST)' # "NOT_CONNECTED",
           echoed[FIRST] /\ p = FIRST => Head(line[FIRST]) # "echo"
    PROVE  Heard'
<1>1. TypeOK /\ Schedule
  BY DEF Base
<1>2. /\ stopped = "no" /\ line[p] \in Seq(Bytes) /\ line[p] # << >>
      /\ Rest(p) = Tail(line[p]) /\ Rest(p) \in Seq(Bytes) /\ Len(Rest(p)) = Len(line[p]) - 1
      /\ connected'[p] = TRUE /\ \A q \in Ports \ {p} : connected'[q] = connected[q]
      /\ late'[p] = (IF late[p] > 0 THEN late[p] - 1 ELSE 0)
      /\ \A q \in Ports \ {p} : late'[q] = late[q]
      /\ UNCHANGED << timer, plugged >>
  BY <1>1, IrqFacts
<1>3. check' = check /\ plugged' = plugged
  BY <1>2 DEF timer
<1>4. lost' \in Nat /\ lost <= lost'
  BY ConstantTypes DEF Quiet, Delivered, Wired
<1>5. CASE p # FIRST
  <2>1. FIRST \in Ports \ {p}
    BY <1>5, PortNumbers
  <2>2. late'[FIRST] = late[FIRST] /\ connected'[FIRST] = connected[FIRST]
    BY <1>2, <2>1
  <2>3. ASSUME stopped' = "no"
        PROVE  Longer(line'[FIRST], line[FIRST]) /\ AddsNoEcho(line'[FIRST], line[FIRST])
    <3>1. line'[FIRST] = line[FIRST] /\ line[FIRST] \in Seq(Bytes)
      BY <1>1, <2>1, <2>3, PortNumbers DEF Quiet, Delivered, TypeOK
    <3>2. QED
      BY <3>1, LongerByNothing
  <2>4. QED
    BY <1>2, <1>3, <1>4, <2>2, <2>3, HeardStill
<1>6. CASE p = FIRST /\ echoed'[FIRST]
  <2>1. /\ connected'[FIRST] /\ State(FIRST)' # "NOT_CONNECTED"
        /\ plugged'[FIRST] \in {"keyboard", "at_keyboard"}
        /\ InTime(line[FIRST], late[FIRST], Ping, check, Bound)
    BY <1>2, <1>3, <1>6 DEF Heard
  <2> DEFINE s == line[FIRST]
             n == late[FIRST]
             r == Tail(line[FIRST])
             m == IF late[FIRST] > 0 THEN late[FIRST] - 1 ELSE 0
  <2>2. /\ s \in Seq(Bytes) /\ s # << >> /\ Head(s) # "echo" /\ n \in Nat /\ n <= Len(s)
        /\ r \in Seq(Bytes) /\ Len(r) = Len(s) - 1
    BY <1>1, <1>2, <1>6, PortNumbers DEF TypeOK, Schedule
  <2>3. m \in Nat /\ m <= Len(r)
    BY <2>2
  <2>4. /\ EchoWithin(r, m) <=> EchoWithin(s, n)
        /\ EchoIn(r) <=> EchoIn(s)
    BY <2>2, LineServed
  <2>5. ASSUME stopped' = "no"
        PROVE  InTime(line'[FIRST], late'[FIRST], Ping', check', Bound')
    <3> DEFINE u == line'[FIRST]
               later == Bound'
    <3>1. Longer(u, r) /\ AddsNoEcho(u, r)
      BY <1>2, <1>6, <2>5 DEF Quiet, Delivered
    <3>2. Ping \in Nat /\ check \in Nat /\ Bound \in Nat /\ later \in Nat /\ Bound <= later
      BY <1>1, <1>4, BoundTypes, BoundGrows
    <3>3. late'[FIRST] = m
      BY <1>2, <1>6
    <3> HIDE DEF s, n, r, m, u, later
    <3>4. /\ EchoWithin(u, m) <=> EchoWithin(s, n)
          /\ EchoIn(u) <=> EchoIn(s)
      BY <2>2, <2>3, <2>4, <3>1, LineGrows
    <3>5. InTime(s, n, Ping, check, Bound)
      BY <2>1 DEF s, n
    <3>6. InTime(u, m, Ping, check, later)
      BY <3>2, <3>4, <3>5, InTimeSame
    <3>7. QED
      BY <1>3, <3>3, <3>6 DEF u, later
  <2>6. QED
    BY <2>1, <2>5 DEF Heard
<1>7. QED
  BY <1>5, <1>6 DEF Heard

LEMMA HeardEcho ==
    ASSUME Base, Heard, NEW p \in Ports, IrqEcho(p)
    PROVE  Heard'
<1>1. TypeOK /\ Irq(p, {"echo"}) /\ Quiet(p, Rest(p)) /\ ~Presumes(p) /\ Managed /\ Kept
  BY IrqEchoBase, TypesParted DEF Base, IrqEcho
<1>2. /\ devices' = [devices EXCEPT ![p].ping = 0]
      /\ echoed' = [echoed EXCEPT ![p] = plugged[p] \in {"keyboard", "at_keyboard"}]
  BY DEF IrqEcho
<1>3. devices \in [Ports -> Device] /\ echoed \in [Ports -> BOOLEAN]
  BY <1>1 DEF Managed, Kept
<1>4. CASE p = FIRST
  <2>1. Ping' = 0 /\ State(FIRST)' = State(FIRST)
    BY <1>2, <1>3, <1>4, PortNumbers DEF Device, Ping, State
  <2>2. Head(line[FIRST]) = "echo"
    BY <1>1, <1>4 DEF Irq
  <2>3. State(FIRST) # "NOT_CONNECTED"
    BY <1>1, <1>4, <2>2 DEF Presumes
  <2>4. connected'[FIRST] /\ plugged' = plugged /\ check' = check
    BY <1>1, <1>4, IrqFacts DEF timer
  <2>5. echoed'[FIRST] => plugged'[FIRST] \in {"keyboard", "at_keyboard"}
    BY <1>2, <1>3, <1>4, <2>4, PortNumbers
  <2>6. lost' \in Nat /\ lost <= lost'
    BY <1>1, ConstantTypes DEF Quiet, Delivered, Wired
  <2>7. /\ check \in Nat /\ check <= CheckInterval /\ CheckInterval <= Bound
        /\ Bound \in Nat /\ Bound' \in Nat /\ Bound <= Bound' /\ CheckInterval \in Nat
    BY <1>1, <2>6, BoundTypes, BoundGrows, ConstantTypes
  <2> DEFINE later == Bound'
             u == line'[FIRST]
             m == late'[FIRST]
  <2>8. later \in Nat /\ 0 + check <= later
    BY <2>7
  <2> HIDE DEF later, u, m
  <2>9. InTime(u, m, 0, check, later)
    BY <2>7, <2>8, InTimeEarly
  <2>10. InTime(line'[FIRST], late'[FIRST], Ping', check', Bound')
    BY <2>1, <2>4, <2>9 DEF later, u, m
  <2>11. QED
    BY <2>1, <2>3, <2>4, <2>5, <2>10 DEF Heard
<1>5. CASE p # FIRST
  <2>1. Ping' = Ping /\ State(FIRST)' = State(FIRST) /\ echoed'[FIRST] = echoed[FIRST]
    BY <1>2, <1>3, <1>5, PortNumbers DEF Device, Ping, State
  <2>2. echoed'[FIRST] => State(FIRST)' # "NOT_CONNECTED"
    BY <2>1 DEF Heard
  <2>3. QED
    BY <1>1, <1>5, <2>1, <2>2, HeardIrq
<1>6. QED
  BY <1>4, <1>5

(* What the other handlers do to the state of the ports.                   *)
LEMMA IrqStates ==
    ASSUME TypeOK, NEW p \in Ports,
           \/ IrqPresume(p) \/ IrqResend(p) \/ IrqSelfTest(p) \/ IrqAckDisable(p)
           \/ IrqAckIdentify(p) \/ IrqAckOther(p) \/ IrqData(p)
    PROVE  /\ Ping' = Ping /\ echoed' = echoed
           /\ State(FIRST)' = "NOT_CONNECTED" => State(FIRST) = "NOT_CONNECTED"
           /\ \/ IrqPresume(p) /\ State(p) = "NOT_CONNECTED"
              \/ Head(line[p]) # "echo"
<1>1. devices \in [Ports -> Device] /\ FIRST \in Ports
  BY PortNumbers, TypesParted DEF Managed
<1>2. ASSUME NEW s, Become(p, s), s # "NOT_CONNECTED"
      PROVE  Ping' = Ping /\ (State(FIRST)' = "NOT_CONNECTED" => State(FIRST) = "NOT_CONNECTED")
  BY <1>1, <1>2 DEF Become, Device, Ping, State
<1>3. CASE IrqPresume(p)
  <2>1. devices' = [devices EXCEPT ![p].state = "READY", ![p].supported = TRUE,
                                   ![p].type = "KEYBOARD"]
    BY <1>3 DEF IrqPresume
  <2>2. /\ Ping' = Ping
        /\ State(FIRST)' = "NOT_CONNECTED" => State(FIRST) = "NOT_CONNECTED"
    BY <1>1, <2>1 DEF Device, Ping, State
  <2>3. QED
    BY <1>3, <2>2 DEF IrqPresume, Presumes, ghosts
<1>4. CASE IrqResend(p) \/ IrqAckOther(p)
  BY <1>4 DEF IrqResend, IrqAckOther, Irq, manager, ghosts, Ping, State
<1>5. CASE IrqSelfTest(p) \/ IrqAckDisable(p) \/ IrqAckIdentify(p)
  BY <1>2, <1>5 DEF IrqSelfTest, IrqAckDisable, IrqAckIdentify, Irq, ghosts
<1>6. CASE IrqData(p)
  <2>1. Head(line[p]) # "echo" /\ echoed' = echoed
    BY <1>6 DEF IrqData, Irq, Data, ghosts
  <2> DEFINE grown == Append(devices[p].buffer, Head(line[p]))
  <2>2. devices' = [devices EXCEPT ![p].buffer = grown] \/ devices' = devices
    BY <1>6 DEF IrqData
  <2> HIDE DEF grown
  <2>3. \A q \in Ports : devices'[q].ping = devices[q].ping /\ devices'[q].state = devices[q].state
    <3>1. CASE devices' = [devices EXCEPT ![p].buffer = grown]
      BY <1>1, <3>1 DEF Device
    <3>2. CASE devices' = devices
      BY <3>2
    <3>3. QED
      BY <2>2, <3>1, <3>2
  <2>4. QED
    BY <1>1, <2>1, <2>3 DEF Ping, State
<1>7. QED
  BY <1>3, <1>4, <1>5, <1>6

LEMMA HeardHandleIrq ==
    ASSUME Base, Heard, NEW p \in Ports, HandleIrq(p)
    PROVE  Heard'
<1>1. CASE IrqEcho(p)
  BY <1>1, HeardEcho
<1>2. CASE \/ IrqPresume(p) \/ IrqResend(p) \/ IrqSelfTest(p) \/ IrqAckDisable(p)
           \/ IrqAckIdentify(p) \/ IrqAckOther(p) \/ IrqData(p)
  <2>1. /\ Ping' = Ping /\ echoed' = echoed
        /\ State(FIRST)' = "NOT_CONNECTED" => State(FIRST) = "NOT_CONNECTED"
        /\ State(p) = "NOT_CONNECTED" \/ Head(line[p]) # "echo"
    BY <1>2, IrqStates DEF Base
  <2>2. Quiet(p, Rest(p))
    BY <1>2, IrqPresumeBase, IrqResendBase, IrqOthersBase, IrqDataBase
  <2>3. PICK bytes : Irq(p, bytes)
    BY <1>2 DEF IrqPresume, IrqResend, IrqSelfTest, IrqAckDisable, IrqAckIdentify,
                IrqAckOther, IrqData
  <2>4. echoed[FIRST] => State(FIRST) # "NOT_CONNECTED"
    BY DEF Heard
  <2>5. QED
    BY <2>1, <2>2, <2>3, <2>4, HeardIrq
<1>3. QED
  BY <1>1, <1>2 DEF HandleIrq

LEMMA HeardTick ==
    ASSUME Tolerance, Base, Heard, ControllerTimeout
    PROVE  Heard'
<1>1. TypeOK /\ Schedule
  BY DEF Base
<1>2. /\ \A q \in Ports : devices'[q].state = devices[q].state
      /\ Ping' = IF Ping <= MaxPing THEN Ping + 1 ELSE Ping
      /\ late[FIRST] = 0 /\ late'[FIRST] = Len(line[FIRST])
      /\ Len(line'[FIRST]) = Len(line[FIRST])
      /\ turn = "controller" /\ check' = check - 1
      /\ UNCHANGED << connected, stopped, plugged, echoed >>
      /\ \/ line'[FIRST] = line[FIRST] /\ lost' = lost
         \/ lost' = lost + 1
      /\ Wired'
  BY <1>1, TickEffect
<1>3. /\ Ping \in Nat /\ check \in Nat /\ check <= CheckInterval /\ Bound \in Nat /\ lost \in Nat
      /\ MaxPing \in Nat /\ CheckInterval \in Nat
  BY <1>1, BoundTypes, ConstantTypes
<1>4. check > 0 /\ CheckInterval > 1
  BY <1>1, <1>2 DEF Schedule, Tolerance
<1>5. lost' \in Nat /\ lost <= lost'
  BY <1>2, <1>3
<1>6. Bound' \in Nat /\ (lost' = lost + 1 => Bound' = Bound + CheckInterval)
  BY <1>1, <1>5, BoundGrows
<1>7. lost' = lost => Bound' = Bound
  BY DEF Bound
<1>8. CASE echoed[FIRST]
  <2>1. /\ connected[FIRST] /\ State(FIRST) # "NOT_CONNECTED"
        /\ plugged[FIRST] \in {"keyboard", "at_keyboard"}
        /\ stopped = "no" => InTime(line[FIRST], 0, Ping, check, Bound)
    BY <1>2, <1>8 DEF Heard
  <2>2. line[FIRST] \in Seq(Bytes) /\ line'[FIRST] \in Seq(Bytes)
    BY <1>1, <1>2, PortNumbers DEF TypeOK, Wired
  <2>3. ASSUME stopped = "no"
        PROVE  InTime(line'[FIRST], Len(line[FIRST]), Ping', check - 1, Bound')
    <3> DEFINE s == line[FIRST]
               u == line'[FIRST]
               more == Ping'
               later == Bound'
    <3>1. InTime(s, 0, Ping, check, Bound)
      BY <2>1, <2>3
    <3>2. more \in Nat /\ more <= Ping + 1
      BY <1>2, <1>3
    <3>3. /\ later \in Nat
          /\ \/ u = s /\ later = Bound
             \/ later = Bound + CheckInterval
      BY <1>2, <1>6, <1>7
    <3>4. s \in Seq(Bytes) /\ u \in Seq(Bytes) /\ Len(u) = Len(s)
      BY <1>2, <2>2
    <3> HIDE DEF s, u, more, later
    <3>5. InTime(u, Len(s), more, check - 1, later)
      BY <1>3, <1>4, <3>1, <3>2, <3>3, <3>4, InTimeTick
    <3>6. QED
      BY <3>5 DEF s, u, more, later
  <2>4. State(FIRST)' # "NOT_CONNECTED"
    BY <1>2, <2>1, PortNumbers DEF State
  <2>5. QED
    BY <1>2, <2>1, <2>3, <2>4 DEF Heard
<1>9. CASE ~echoed[FIRST]
  BY <1>2, <1>9 DEF Heard
<1>10. QED
  BY <1>8, <1>9

LEMMA HeardCountDown ==
    ASSUME Base, Heard, NEW p \in Ports, CountDown(p) \/ InitDevice(p)
    PROVE  Heard'
<1>1. Quiet(p, line[p]) /\ TypeOK
  BY CountDownBase, InitDeviceBase DEF Base
<1>2. /\ TaskDone(p)
      /\ UNCHANGED devices \/ InitDevice(p)
  BY DEF CountDown, InitDevice
<1>3. /\ stopped = "no"
      /\ UNCHANGED << check, connected, plugged, late, echoed >>
  BY <1>2 DEF TaskDone, ghosts
<1>4. lost' \in Nat /\ lost <= lost'
  BY <1>1, ConstantTypes DEF Quiet, Delivered, Wired
<1>5. devices \in [Ports -> Device] /\ FIRST \in Ports
  BY <1>1, PortNumbers, TypesParted DEF Managed
<1>6. Ping' = Ping /\ State(FIRST)' \in {State(FIRST), "READY"}
  <2>1. CASE UNCHANGED devices
    BY <2>1 DEF Ping, State
  <2>2. CASE InitDevice(p)
    <3> DEFINE type == TypeOf(devices[p].buffer, devices[p].type)
               supported == Supports(devices[p].buffer, devices[p].supported)
    <3>1. devices' = [devices EXCEPT ![p].state = "READY", ![p].type = type,
                                     ![p].supported = supported]
      BY <2>2 DEF InitDevice
    <3> HIDE DEF type, supported
    <3>2. QED
      BY <1>5, <3>1 DEF Device, Ping, State
  <2>3. QED
    BY <1>2, <2>1, <2>2
<1>7. ASSUME stopped' = "no"
      PROVE  Longer(line'[FIRST], line[FIRST]) /\ AddsNoEcho(line'[FIRST], line[FIRST])
  <2>1. CASE p = FIRST
    BY <1>1, <1>7, <2>1 DEF Quiet, Delivered
  <2>2. CASE p # FIRST
    <3>1. line'[FIRST] = line[FIRST] /\ line[FIRST] \in Seq(Bytes)
      BY <1>1, <1>5, <1>7, <2>2 DEF Quiet, Delivered, TypeOK
    <3>2. QED
      BY <3>1, LongerByNothing
  <2>3. QED
    BY <2>1, <2>2
<1>8. echoed[FIRST] => State(FIRST)' # "NOT_CONNECTED"
  BY <1>6 DEF Heard
<1>9. QED
  BY <1>3, <1>4, <1>6, <1>7, <1>8, HeardStill

LEMMA HeardPortCheck ==
    ASSUME Tolerance, Base, Heard, PortCheck
    PROVE  Heard'
<1>1. TypeOK /\ Schedule /\ Base' /\ Delivered(FIRST, line[FIRST]) /\ Wired /\ Kept
  BY PortCheckBase, TypesParted DEF Base
<1>2. /\ stopped = "no" /\ turn = "check" /\ check' = CheckInterval /\ ForgetIfSilent
      /\ UNCHANGED << plugged, late, echoed >>
  BY DEF PortCheck, ghosts
<1>3. CASE echoed[FIRST]
  <2> DEFINE s == line[FIRST]
             n == late[FIRST]
             u == line'[FIRST]
             later == Bound'
  <2>1. /\ connected[FIRST] /\ State(FIRST) # "NOT_CONNECTED"
        /\ plugged[FIRST] \in {"keyboard", "at_keyboard"}
        /\ InTime(s, n, Ping, 0, Bound)
    BY <1>1, <1>2, <1>3 DEF Heard, Schedule
  <2>2. Ping <= Bound /\ Bound <= MaxPing
    BY <1>1, <2>1, BoundTypes DEF InTime
  <2>3. Ping <= MaxPing
    BY <1>1, <2>2, BoundTypes, ConstantTypes
  <2>4. UNCHANGED << devices, connected >>
    BY <1>1, <1>2, <2>3, ForgetEffect
  <2>5. Send(FIRST, "echo", line[FIRST])
    BY <2>1, <2>4 DEF PortCheck, CheckCommand
  <2>6. /\ FIRST \in Ports /\ "echo" \in Commands /\ line[FIRST] \in Seq(Bytes)
        /\ plugged \in [Ports -> Kinds]
    BY <1>1, PortNumbers DEF Commands, Wired, Kept
  <2>7. AddsNoEcho(line'[FIRST], line[FIRST]) => lost' = lost + 1
    BY <1>1, <2>1, <2>4, <2>5, <2>6, SendEffect
  <2>8. ASSUME stopped' = "no"
        PROVE  InTime(u, n, Ping, CheckInterval, later)
    <3>1. Longer(u, s)
      BY <1>1, <2>8 DEF Delivered
    <3>2. lost' \in Nat /\ lost <= lost'
      BY <1>1, ConstantTypes DEF Delivered, Wired
    <3>3. /\ later \in Nat /\ Bound \in Nat /\ Bound <= later /\ Ping \in Nat
          /\ AddsNoEcho(u, s) => later = Bound + CheckInterval
      BY <1>1, <2>7, <3>2, BoundTypes, BoundGrows
    <3>4. s \in Seq(Bytes) /\ n \in Nat /\ n <= Len(s)
      BY <1>1, <1>2, <2>6 DEF Schedule, Kept
    <3> HIDE DEF s, n, u, later
    <3>5. QED
      BY <2>1, <3>1, <3>3, <3>4, InTimeAsked
  <2>9. Ping' = Ping /\ State(FIRST)' = State(FIRST) /\ connected' = connected
    BY <2>4 DEF Ping, State
  <2>10. QED
    BY <1>2, <2>1, <2>8, <2>9 DEF Heard
<1>4. CASE ~echoed[FIRST]
  BY <1>2, <1>4 DEF Heard
<1>5. QED
  BY <1>3, <1>4

(* kernel_main's port check comes in the first interval, before any other. *)
LEMMA HeardMain ==
    ASSUME Tolerance, Base, Heard, Main
    PROVE  Heard'
<1>1. TypeOK /\ Schedule /\ Base' /\ Delivered(FIRST, line[FIRST])
  BY MainBase DEF Base
<1>2. /\ stopped = "no" /\ pc # "done"
      /\ UNCHANGED << check, plugged, late, echoed >>
      /\ ForgetIfSilent \/ UNCHANGED << devices, connected >>
  BY DEF Main, MainCheck, MainTest, MainSend, MainAt, CheckCommand, ghosts, timer
<1>3. Ping + check <= CheckInterval
  BY <1>1, <1>2 DEF Schedule
<1>4. lost' \in Nat /\ lost <= lost'
  BY <1>1, ConstantTypes DEF Delivered, Wired
<1>5. /\ Ping \in Nat /\ check \in Nat /\ CheckInterval <= Bound /\ Bound \in Nat
      /\ Bound' \in Nat /\ Bound <= Bound' /\ Bound <= MaxPing
      /\ CheckInterval \in Nat /\ MaxPing \in Nat
  BY <1>1, <1>4, BoundTypes, BoundGrows, ConstantTypes
<1>6. UNCHANGED << devices, connected >>
  <2>1. Ping <= MaxPing
    BY <1>3, <1>5
  <2>2. QED
    BY <1>1, <1>2, <2>1, ForgetEffect
<1>7. InTime(line'[FIRST], late'[FIRST], Ping, check, Bound')
  <2> DEFINE u == line'[FIRST]
             m == late'[FIRST]
             later == Bound'
  <2>1. later \in Nat /\ Ping + check <= later
    BY <1>3, <1>5
  <2> HIDE DEF u, m, later
  <2>2. InTime(u, m, Ping, check, later)
    BY <1>5, <2>1, InTimeEarly
  <2>3. QED
    BY <2>2 DEF u, m, later
<1>8. Ping' = Ping /\ State(FIRST)' = State(FIRST)
  BY <1>6 DEF Ping, State
<1>9. QED
  BY <1>2, <1>6, <1>7, <1>8 DEF Heard

LEMMA HeardDevices ==
    ASSUME Base, Heard,
           NEW p \in Ports,
           \/ \E kind \in KindsAt(p) : Plug(p, kind)
           \/ Unplug(p) \/ PressKey(p)
    PROVE  Heard'
<1>1. TypeOK /\ Wired /\ Kept /\ FIRST \in Ports
  BY TypesParted, PortNumbers DEF Base
<1>2. Environment
  BY DEF Plug, Unplug, PressKey
<1>3. /\ stopped = "no" /\ lost' = lost /\ lost \in Nat /\ check' = check /\ Ping' = Ping
      /\ connected' = connected /\ State(FIRST)' = State(FIRST)
  BY <1>1, <1>2, ConstantTypes DEF Environment, manager, timer, Ping, State, Wired
<1>4. line[FIRST] \in Seq(Bytes)
  BY <1>1 DEF Wired
<1>5. echoed[FIRST] => State(FIRST)' # "NOT_CONNECTED" /\ plugged[FIRST] # "none"
  BY <1>3 DEF Heard
<1>6. CASE Unplug(p)
  <2>1. /\ line' = [line EXCEPT ![p] = SubSeq(@, 1, IF @ = << >> THEN 0 ELSE 1)]
        /\ echoed' = [echoed EXCEPT ![p] = FALSE]
        /\ plugged' = [plugged EXCEPT ![p] = "none"]
        /\ late' = [late EXCEPT ![p] = 0]
    BY <1>6 DEF Unplug
  <2>2. CASE p = FIRST
    <3>1. ~echoed'[FIRST]
      BY <1>1, <2>1, <2>2 DEF Kept
    <3>2. QED
      BY <3>1 DEF Heard
  <2>3. CASE p # FIRST
    <3>1. /\ line'[FIRST] = line[FIRST] /\ echoed'[FIRST] = echoed[FIRST]
          /\ plugged'[FIRST] = plugged[FIRST] /\ late'[FIRST] = late[FIRST]
      BY <1>1, <2>1, <2>3 DEF Kept, Wired
    <3>2. Longer(line'[FIRST], line[FIRST]) /\ AddsNoEcho(line'[FIRST], line[FIRST])
      BY <1>4, <3>1, LongerByNothing
    <3>3. QED
      BY <1>3, <1>5, <3>1, <3>2, HeardStill
  <2>4. QED
    BY <2>2, <2>3
<1>7. CASE (\E kind \in KindsAt(p) : Plug(p, kind)) \/ PressKey(p)
  <2>1. /\ \A q \in Ports \ {p} : line'[q] = line[q]
        /\ Longer(line'[p], line[p]) /\ AddsNoEcho(line'[p], line[p])
    BY <1>7, PlugBase, PressKeyBase
  <2>2. Longer(line'[FIRST], line[FIRST]) /\ AddsNoEcho(line'[FIRST], line[FIRST])
    <3>1. CASE p = FIRST
      BY <2>1, <3>1
    <3>2. CASE p # FIRST
      BY <1>1, <1>4, <2>1, <3>2, LongerByNothing
    <3>3. QED
      BY <3>1, <3>2
  <2>3. late' = late /\ echoed' = echoed
    BY <1>7 DEF Plug, PressKey, ghosts
  <2>4. echoed[FIRST] => plugged'[FIRST] = plugged[FIRST]
    BY <1>1, <1>5, <1>7 DEF Plug, PressKey, Kept
  <2>5. QED
    BY <1>3, <1>5, <2>2, <2>3, <2>4, HeardStill
<1>8. QED
  BY <1>6, <1>7

LEMMA NextHeard == Tolerance /\ Base /\ Heard /\ [Next]_vars => Heard'
<1> SUFFICES ASSUME Tolerance, Base, Heard, [Next]_vars PROVE Heard'
  OBVIOUS
<1>1. ASSUME NEW p \in Ports, HandleIrq(p) PROVE Heard'
  BY <1>1, HeardHandleIrq
<1>2. CASE Tick
  BY <1>2, HeardTick, HeardCountDown, HeardPortCheck DEF Tick
<1>3. CASE Main
  BY <1>3, HeardMain
<1>4. ASSUME NEW p \in Ports,
             \/ \E kind \in KindsAt(p) : Plug(p, kind)
             \/ Unplug(p) \/ PressKey(p)
      PROVE  Heard'
  BY <1>4, HeardDevices
<1>5. CASE UNCHANGED vars
  <2>1. UNCHANGED << devices, connected, check, stopped, plugged, line, late, lost, echoed >>
    BY <1>5 DEF vars, manager, timer, ghosts
  <2>2. QED
    BY <2>1 DEF Heard, State, Ping, Bound
<1>6. QED
  BY <1>1, <1>2, <1>3, <1>4, <1>5 DEF Next

(* A keyboard that has answered an echo stays connected until it is        *)
(* unplugged: ps2_manager_send_port_check never takes it for silent,       *)
(* however its bytes, its answers and the port checks interleave, as long  *)
(* as no more echoes or commands get lost than the time it is given        *)
(* leaves checks for.                                                      *)
THEOREM KeyboardKeptAlive ==
    ASSUME Tolerance
    PROVE  Spec => []KeepsAlive
<1>1. Init => Heard
  BY PortNumbers DEF Init, Heard
<1>2. Base /\ Heard /\ [Next]_vars => (Base /\ Heard)'
  BY NextBase, NextHeard
<1>3. Heard => KeepsAlive
  BY DEF Heard, KeepsAlive
<1>4. QED
  BY <1>1, <1>2, <1>3, InitBase, PTL DEF Spec

-----------------------------------------------------------------------------
(* What is identified.  An identification that nothing disturbs finds the  *)
(* rest of the device's answer at the front of the line, and behind it no  *)
(* data but what follows the result of a self-test, which ends it.         *)
Results == {"ok", "error"}

Reports(s) == \E k \in 1 .. Len(s) : s[k] \in Results

AddsNoData(u, s) == \A k \in Len(s) + 1 .. Len(u) : u[k] \notin Data

Front(buffer, id, s) ==
    LET unread == Len(id) - Len(buffer)
    IN /\ 0 <= unread /\ unread <= Len(s)
       /\ \A k \in 1 .. Len(buffer) : buffer[k] = id[k]
       /\ \A k \in 1 .. unread : s[k] = id[Len(buffer) + k]
       /\ \A k \in unread + 1 .. Len(s) :
             s[k] \in Data => \E j \in unread + 1 .. k : s[j] \in Results

LEMMA DataAndResults == Data \subseteq Bytes /\ Results \subseteq Bytes /\ Data \cap Results = {}
BY DEF Data, Bytes, Results

LEMMA IdTypes ==
    ASSUME NEW kind \in Kinds
    PROVE  Id(kind) \in Seq(Data) /\ Len(Id(kind)) <= 2
<1>1. Id(kind) \in {<< >>, << "AB", "83" >>, << "00" >>}
  BY DEF Id
<1>2. {"AB", "83", "00"} \subseteq Data
  BY DEF Data
<1>3. << >> \in Seq(Data) /\ Len(<< >>) <= 2
  OBVIOUS
<1>4. << "00" >> \in Seq(Data) /\ Len(<< "00" >>) <= 2
  BY <1>2
<1>5. << "AB", "83" >> \in Seq(Data) /\ Len(<< "AB", "83" >>) <= 2
  BY <1>2
<1>6. QED
  BY <1>1, <1>3, <1>4, <1>5

(* How it carries over when bytes come at the end of the line ...          *)
LEMMA FrontGrows ==
    ASSUME NEW b \in Seq(Data), NEW id \in Seq(Data), NEW s \in Seq(Bytes),
           NEW u, Longer(u, s), Front(b, id, s), AddsNoData(u, s) \/ Reports(s)
    PROVE  Front(b, id, u)
<1> DEFINE n == Len(id) - Len(b)
<1>1. /\ n \in Int /\ 0 <= n /\ n <= Len(s) /\ Len(s) \in Nat /\ Len(b) \in Nat /\ Len(id) \in Nat
      /\ u \in Seq(Bytes) /\ Len(s) <= Len(u) /\ Len(u) \in Nat
      /\ \A k \in 1 .. Len(s) : u[k] = s[k]
  BY DEF Front, Longer
<1>2. /\ \A k \in 1 .. Len(b) : b[k] = id[k]
      /\ \A k \in 1 .. n : s[k] = id[Len(b) + k]
      /\ \A k \in n + 1 .. Len(s) : s[k] \in Data => \E j \in n + 1 .. k : s[j] \in Results
  BY DEF Front
<1>3. \A k \in 1 .. n : id[Len(b) + k] \in Data
  <2> SUFFICES ASSUME NEW k \in 1 .. n PROVE id[Len(b) + k] \in Data
    OBVIOUS
  <2>1. Len(b) + k \in 1 .. Len(id)
    BY <1>1
  <2>2. QED
    BY <2>1
<1>3a. n = Len(id) - Len(b)
  OBVIOUS
<1> HIDE DEF n
<1>4. \A k \in 1 .. n : u[k] = id[Len(b) + k]
  BY <1>1, <1>2
<1>5. ASSUME NEW k \in n + 1 .. Len(u), u[k] \in Data
      PROVE  \E j \in n + 1 .. k : u[j] \in Results
  <2>1. CASE k <= Len(s)
    <3>1. k \in n + 1 .. Len(s) /\ s[k] \in Data
      BY <1>1, <1>5, <2>1
    <3>2. PICK j \in n + 1 .. k : s[j] \in Results
      BY <1>2, <3>1
    <3>3. j \in 1 .. Len(s)
      BY <1>1, <2>1
    <3>4. QED
      BY <1>1, <3>2, <3>3
  <2>2. CASE ~(k <= Len(s))
    <3>1. k \in Len(s) + 1 .. Len(u)
      BY <1>1, <2>2
    <3>2. PICK j \in 1 .. Len(s) : s[j] \in Results
      BY <1>5, <3>1 DEF AddsNoData, Reports
    <3>3. j \notin 1 .. n
      BY <1>2, <1>3, <3>2, DataAndResults
    <3>4. j \in n + 1 .. k /\ u[j] = s[j]
      BY <1>1, <2>2, <3>3
    <3>5. QED
      BY <3>2, <3>4
  <2>3. QED
    BY <2>1, <2>2
<1>6. 0 <= n /\ n <= Len(u)
  BY <1>1
<1>7. QED
  BY <1>2, <1>3a, <1>4, <1>5, <1>6 DEF Front

(* ... when a byte of the identification is read ...                       *)
LEMMA FrontRead ==
    ASSUME NEW b \in Seq(Data), NEW id \in Seq(Data), NEW s \in Seq(Bytes),
           s # << >>, Front(b, id, s), Len(b) < Len(id)
    PROVE  /\ Head(s) \in Data
           /\ Front(Append(b, Head(s)), id, Tail(s))
<1> DEFINE n == Len(id) - Len(b)
           c == Append(b, Head(s))
           t == Tail(s)
<1>1. /\ n \in Int /\ 1 <= n /\ n <= Len(s) /\ Len(s) \in Nat /\ Len(b) \in Nat /\ Len(id) \in Nat
      /\ t \in Seq(Bytes) /\ Len(t) = Len(s) - 1 /\ Head(s) = s[1]
      /\ \A k \in 1 .. Len(t) : t[k] = s[k + 1]
  BY DEF Front
<1>2. /\ \A k \in 1 .. Len(b) : b[k] = id[k]
      /\ \A k \in 1 .. n : s[k] = id[Len(b) + k]
      /\ \A k \in n + 1 .. Len(s) : s[k] \in Data => \E j \in n + 1 .. k : s[j] \in Results
  BY DEF Front
<1>3. s[1] = id[Len(b) + 1] /\ id[Len(b) + 1] \in Data
  <2>1. 1 \in 1 .. n /\ Len(b) + 1 \in 1 .. Len(id)
    BY <1>1
  <2>2. QED
    BY <1>2, <2>1
<1>4. /\ c \in Seq(Data) /\ Len(c) = Len(b) + 1 /\ Len(id) - Len(c) = n - 1
      /\ c[Len(b) + 1] = s[1] /\ \A k \in 1 .. Len(b) : c[k] = b[k]
  BY <1>1, <1>3
<1> HIDE DEF n, c, t
<1>5. \A k \in 1 .. Len(c) : c[k] = id[k]
  <2> SUFFICES ASSUME NEW k \in 1 .. Len(c) PROVE c[k] = id[k]
    OBVIOUS
  <2>1. CASE k = Len(b) + 1
    BY <1>3, <1>4, <2>1
  <2>2. CASE k # Len(b) + 1
    <3>1. k \in 1 .. Len(b)
      BY <1>1, <1>4, <2>2
    <3>2. QED
      BY <1>2, <1>4, <3>1
  <2>3. QED
    BY <2>1, <2>2
<1>6. \A k \in 1 .. n - 1 : t[k] = id[Len(c) + k]
  <2> SUFFICES ASSUME NEW k \in 1 .. n - 1 PROVE t[k] = id[Len(c) + k]
    OBVIOUS
  <2>1. k + 1 \in 1 .. n /\ k \in 1 .. Len(t) /\ Len(b) + (k + 1) = Len(c) + k
    BY <1>1, <1>4
  <2>2. QED
    BY <1>1, <1>2, <2>1
<1>7. ASSUME NEW k \in (n - 1) + 1 .. Len(t), t[k] \in Data
      PROVE  \E j \in (n - 1) + 1 .. k : t[j] \in Results
  <2>1. k + 1 \in n + 1 .. Len(s) /\ k \in 1 .. Len(t)
    BY <1>1, <1>7
  <2>2. PICK j \in n + 1 .. k + 1 : s[j] \in Results
    BY <1>1, <1>2, <1>7, <2>1
  <2>3. j - 1 \in (n - 1) + 1 .. k /\ j - 1 \in 1 .. Len(t) /\ (j - 1) + 1 = j
    BY <1>1, <2>1
  <2>4. t[j - 1] = s[j]
    BY <1>1, <2>3
  <2>5. QED
    BY <2>2, <2>3, <2>4
<1>8. 0 <= n - 1 /\ n - 1 <= Len(t)
  BY <1>1
<1>9. Front(c, id, t)
  BY <1>4, <1>5, <1>6, <1>7, <1>8 DEF Front
<1>10. QED
  BY <1>1, <1>3, <1>9 DEF c, t

(* ... and when a byte behind it is read.                                  *)
LEMMA FrontPassed ==
    ASSUME NEW b \in Seq(Data), NEW id \in Seq(Data), NEW s \in Seq(Bytes),
           s # << >>, Front(b, id, s), Head(s) \notin Results,
           Len(b) = Len(id) \/ Head(s) \notin Data
    PROVE  Len(b) = Len(id) /\ Head(s) \notin Data /\ Front(b, id, Tail(s))
<1> DEFINE t == Tail(s)
<1>1. /\ Len(s) \in Nat /\ 1 <= Len(s) /\ Len(b) \in Nat /\ Len(id) \in Nat
      /\ t \in Seq(Bytes) /\ Len(t) = Len(s) - 1 /\ Head(s) = s[1]
      /\ \A k \in 1 .. Len(t) : t[k] = s[k + 1]
  OBVIOUS
<1>2. Len(b) = Len(id)
  <2>1. Len(b) <= Len(id)
    BY <1>1 DEF Front
  <2>2. QED
    BY <1>1, <2>1, FrontRead
<1>3. Len(id) - Len(b) = 0
  BY <1>1, <1>2
<1>4. /\ \A k \in 1 .. Len(b) : b[k] = id[k]
      /\ \A k \in 1 .. Len(s) : s[k] \in Data => \E j \in 1 .. k : s[j] \in Results
  <2> DEFINE n == Len(id) - Len(b)
  <2>1. /\ \A k \in 1 .. Len(b) : b[k] = id[k]
        /\ \A k \in n + 1 .. Len(s) : s[k] \in Data => \E j \in n + 1 .. k : s[j] \in Results
    BY DEF Front
  <2>2. n = 0
    BY <1>3
  <2> HIDE DEF n
  <2>3. n + 1 = 1
    BY <2>2
  <2>4. QED
    BY <2>1, <2>3
<1> HIDE DEF t
<1>5. s[1] \notin Data
  <2>1. s[1] \in Data => \E j \in 1 .. 1 : s[j] \in Results
    BY <1>1, <1>4
  <2>2. QED
    BY <1>1, <2>1
<1>6. ASSUME NEW k \in 1 .. Len(t), t[k] \in Data
      PROVE  \E j \in 1 .. k : t[j] \in Results
  <2>1. k + 1 \in 1 .. Len(s) /\ s[k + 1] \in Data
    BY <1>1, <1>6
  <2>2. PICK j \in 1 .. k + 1 : s[j] \in Results
    BY <1>4, <2>1
  <2>3. j # 1
    BY <1>1, <2>2
  <2>4. j - 1 \in 1 .. k /\ j - 1 \in 1 .. Len(t) /\ (j - 1) + 1 = j
    BY <1>1, <2>3
  <2>5. t[j - 1] = s[j]
    BY <1>1, <2>4
  <2>6. QED
    BY <2>2, <2>4, <2>5
<1>7. Front(b, id, t)
  BY <1>1, <1>3, <1>4, <1>6 DEF Front
<1>8. QED
  BY <1>1, <1>2, <1>5, <1>7 DEF t

(* A result stays on the line until it is read.                            *)
LEMMA ReportsStay ==
    ASSUME NEW s \in Seq(Bytes)
    PROVE  /\ \A u : Longer(u, s) /\ Reports(s) => Reports(u)
           /\ s # << >> /\ Head(s) \notin Results /\ Reports(s) => Reports(Tail(s))
<1>1. ASSUME NEW u, Longer(u, s), Reports(s) PROVE Reports(u)
  <2>1. PICK j \in 1 .. Len(s) : s[j] \in Results
    BY <1>1 DEF Reports
  <2>2. j \in 1 .. Len(u) /\ u[j] = s[j]
    BY <1>1 DEF Longer
  <2>3. QED
    BY <2>1, <2>2 DEF Reports
<1>2. ASSUME s # << >>, Head(s) \notin Results, Reports(s) PROVE Reports(Tail(s))
  <2>1. PICK j \in 1 .. Len(s) : s[j] \in Results
    BY <1>2 DEF Reports
  <2>2. j # 1
    BY <1>2, <2>1
  <2>3. j - 1 \in 1 .. Len(Tail(s)) /\ Tail(s)[j - 1] = s[j]
    BY <1>2, <2>2
  <2>4. QED
    BY <2>1, <2>3 DEF Reports
<1>3. QED
  BY <1>1, <1>2

-----------------------------------------------------------------------------
(* What a command brings a port, when nothing is lost: data only if it     *)
(* asks for an identification; and only a reset, which a result follows,   *)
(* or the driver's set-up makes the device report on its own.              *)
LEMMA AnswersNoData ==
    ASSUME NEW command \in Commands, NEW kind \in Kinds, NEW s \in Seq(Bytes)
    PROVE  /\ command # "identify" => AddsNoData(s \o Answer(command, kind), s)
           /\ command = "reset" /\ kind # "none" => Reports(s \o Answer(command, kind))
<1> DEFINE r == Answer(command, kind)
<1>1. r \in Seq(Bytes)
  BY Answers
<1>2. /\ Len(s \o r) = Len(s) + Len(r) /\ Len(s) \in Nat /\ Len(r) \in Nat
      /\ \A k \in 1 .. Len(r) : (s \o r)[Len(s) + k] = r[k]
  BY <1>1, Joined
<1>3. ASSUME command # "identify", NEW k \in 1 .. Len(r) PROVE r[k] \notin Data
  <2>1. r \in {<< >>, << "ack", "ok" >>, << "ack" >>, << "echo" >>, << "ack", "ack" >>}
    BY <1>3 DEF Commands, Answer
  <2>2. "ack" \notin Data /\ "ok" \notin Data /\ "echo" \notin Data
    BY DEF Data
  <2>3. r # << >>
    BY <1>2, <1>3
  <2> HIDE DEF r
  <2>4. k \in {1, 2} /\ r[k] \in {"ack", "ok", "echo"}
    BY <1>3, <2>1, <2>3
  <2>5. QED
    BY <2>2, <2>4
<1>4. ASSUME command = "reset", kind # "none" PROVE Reports(s \o r)
  <2>1. r = << "ack", "ok" >>
    BY <1>4 DEF Answer
  <2>2. Len(r) = 2 /\ r[2] = "ok"
    BY <2>1
  <2> HIDE DEF r
  <2>3. (s \o r)[Len(s) + 2] = "ok" /\ Len(s) + 2 \in 1 .. Len(s \o r)
    BY <1>2, <2>2
  <2>4. QED
    BY <2>3 DEF Reports, Results
<1> HIDE DEF r
<1>5. command # "identify" => AddsNoData(s \o r, s)
  <2> SUFFICES ASSUME command # "identify", NEW k \in Len(s) + 1 .. Len(s \o r)
               PROVE  (s \o r)[k] \notin Data
    BY DEF AddsNoData
  <2>1. k - Len(s) \in 1 .. Len(r) /\ Len(s) + (k - Len(s)) = k
    BY <1>2
  <2>2. (s \o r)[k] = r[k - Len(s)]
    BY <1>2, <2>1
  <2>3. QED
    BY <1>3, <2>1, <2>2
<1>6. QED
  BY <1>4, <1>5 DEF r

LEMMA TransmitScans ==
    ASSUME Wired, plugged \in [Ports -> Kinds],
           NEW p \in Ports, NEW command \in Commands,
           NEW lines \in [Ports -> Seq(Bytes)], NEW timeouts,
           Transmit(p, command, lines, timeouts), lost' = 0
    PROVE  /\ command # "identify" => AddsNoData(line'[p], lines[p])
           /\ \A q \in Ports \ {p} : scan'[q] = scan[q]
           /\ command # "setup" /\ scan'[p] /\ plugged[p] # "none" =>
                 scan[p] \/ Reports(line'[p])
           /\ command = "disable" /\ connected'[p] => ~scan'[p]
<1> DEFINE reply == Answer(command, plugged[p])
<1>1. /\ lost \in Nat /\ lines[p] \in Seq(Bytes) /\ plugged[p] \in Kinds
      /\ scan \in [Ports -> BOOLEAN]
  BY DEF Wired
<1>2. lost' # lost + 1
  BY <1>1
<1>3. CASE ~connected'[p] /\ line' = lines /\ UNCHANGED scan
  <2>1. AddsNoData(line'[p], lines[p])
    BY <1>1, <1>3 DEF AddsNoData
  <2>2. QED
    BY <1>3, <2>1
<1>4. CASE /\ line' = [lines EXCEPT ![p] = @ \o reply]
           /\ scan' = [scan EXCEPT ![p] = Scans(command, plugged[p], @)]
  <2>1. line'[p] = lines[p] \o reply
    BY <1>4
  <2>2. /\ command # "identify" => AddsNoData(line'[p], lines[p])
        /\ command = "reset" /\ plugged[p] # "none" => Reports(line'[p])
    BY <1>1, <2>1, AnswersNoData
  <2>3. /\ scan'[p] = Scans(command, plugged[p], scan[p])
        /\ \A q \in Ports \ {p} : scan'[q] = scan[q]
    BY <1>1, <1>4
  <2>4. /\ command = "disable" => ~scan'[p]
        /\ command \in {"echo", "identify"} => scan'[p] = scan[p]
    BY <2>3 DEF Scans
  <2>5. QED
    BY <2>2, <2>3, <2>4 DEF Commands
<1>5. QED
  BY <1>2, <1>3, <1>4 DEF Transmit, reply

LEMMA SendScans ==
    ASSUME Wired, plugged \in [Ports -> Kinds], NEW p \in Ports, NEW command \in Commands,
           NEW bytes \in Seq(Bytes), Send(p, command, bytes), lost' = 0
    PROVE  /\ command # "identify" => AddsNoData(line'[p], bytes)
           /\ \A q \in Ports \ {p} : scan'[q] = scan[q]
           /\ command # "setup" /\ scan'[p] /\ plugged[p] # "none" =>
                 scan[p] \/ Reports(line'[p])
           /\ command = "disable" /\ connected'[p] => ~scan'[p]
<1> DEFINE lines == [line EXCEPT ![p] = bytes]
<1>1. lines \in [Ports -> Seq(Bytes)] /\ lines[p] = bytes
  BY DEF Wired
<1>2. Transmit(p, command, lines, ps2_controller_timeouts)
  BY DEF Send
<1> HIDE DEF lines
<1>3. /\ command # "identify" => AddsNoData(line'[p], lines[p])
      /\ \A q \in Ports \ {p} : scan'[q] = scan[q]
      /\ command # "setup" /\ scan'[p] /\ plugged[p] # "none" => scan[p] \/ Reports(line'[p])
      /\ command = "disable" /\ connected'[p] => ~scan'[p]
  BY <1>1, <1>2, TransmitScans
<1>4. QED
  BY <1>1, <1>3

LEMMA SetupScans ==
    ASSUME Wired, plugged \in [Ports -> Kinds], NEW p \in Ports, NEW scancode2,
           NEW bytes \in Seq(Bytes), Setup(p, scancode2, bytes), lost' = 0,
           stopped' = "no"
    PROVE  \A q \in Ports \ {p} : scan'[q] = scan[q]
<1> DEFINE lines == [line EXCEPT ![p] = bytes]
<1>1. lines \in [Ports -> Seq(Bytes)] /\ "setup" \in Commands
  BY DEF Wired, Commands
<1>2. \E timeouts : Transmit(p, "setup", lines, timeouts)
  BY DEF Setup
<1> HIDE DEF lines
<1>3. QED
  BY <1>1, <1>2, TransmitScans

-----------------------------------------------------------------------------
(* The bytes of an identification are read before it is judged: the window *)
(* in which they arrive at the latest, or the one behind it, does not end  *)
(* without them, and its countdown is longer than that.                    *)
Buffer(p) == devices[p].buffer

Identified(p) == Id(plugged[p])

Reading(p) == clean[p] /\ State(p) = "IDENTIFY_IN_PROGRESS"

Judged(p) == turn \in {"controller", "check"} \/ (p = FIRST /\ turn = "second")

Unread(p) == Len(Identified(p)) - Len(Buffer(p))

Served(p) ==
    Unread(p) > 0 =>
        IF Judged(p)
        THEN ps2_manager_timeouts[p] > 0 \/ Unread(p) <= late[p]
        ELSE \/ ps2_manager_timeouts[p] > 1
             \/ ps2_manager_timeouts[p] > 0 /\ Unread(p) <= late[p]

(* A device reports on its own, while the manager goes through its         *)
(* identification, only behind the result of a self-test, which begins it  *)
(* anew.                                                                   *)
Silent(p) ==
    /\ plugged[p] # "none" /\ scan[p]
    /\ State(p) \in {"CONNECTED", "SCAN_DISABLED", "IDENTIFY_IN_PROGRESS"}
    => Reports(line[p])

Undisturbed(p) ==
    /\ clean[p] => plugged[p] # "none"
    /\ stopped = "no" /\ lost = 0 =>
          /\ Silent(p)
          /\ Reading(p) => Front(Buffer(p), Identified(p), line[p]) /\ Served(p)

(* What the lemmas about sequences need to know of a port.                 *)
LEMMA PortTypes ==
    ASSUME TypeOK, NEW p \in Ports
    PROVE  /\ line[p] \in Seq(Bytes) /\ Buffer(p) \in Seq(Data)
           /\ plugged[p] \in Kinds /\ Identified(p) \in Seq(Data) /\ Len(Identified(p)) <= 2
           /\ Unread(p) \in Int /\ late[p] \in Nat /\ ps2_manager_timeouts[p] \in Int
           /\ lost \in Nat /\ State(p) \in States
<1>1. Wired /\ Managed /\ Kept
  BY TypesParted
<1>2. line[p] \in Seq(Bytes) /\ plugged[p] \in Kinds /\ late[p] \in Nat /\ lost \in Nat
  BY <1>1 DEF Wired, Kept
<1>3. Buffer(p) \in Seq(Data) /\ State(p) \in States
  BY <1>1 DEF Managed, Device, Buffer, State
<1>4. Identified(p) \in Seq(Data) /\ Len(Identified(p)) <= 2
  BY <1>2, IdTypes DEF Identified
<1>5. ps2_manager_timeouts[p] \in Int
  BY <1>1 DEF Managed
<1>6. QED
  BY <1>2, <1>3, <1>4, <1>5 DEF Unread

(* A step that adds bytes to the line at most, or ends the identification. *)
LEMMA UndisturbedGrows ==
    ASSUME TypeOK, NEW p \in Ports, Undisturbed(p), stopped = "no", lost <= lost', lost' \in Nat,
           clean'[p] = clean[p], plugged'[p] = plugged[p],
           Buffer(p)' = Buffer(p),
           \/ State(p)' \in {"NOT_CONNECTED", "READY"}
           \/ /\ State(p)' = State(p)
              /\ Judged(p)' <=> Judged(p)
              /\ late'[p] = late[p] /\ ps2_manager_timeouts'[p] = ps2_manager_timeouts[p]
              /\ stopped' = "no" /\ lost' = 0 =>
                    /\ Longer(line'[p], line[p])
                    /\ AddsNoData(line'[p], line[p]) \/ (plugged[p] # "none" /\ scan[p])
                    /\ scan'[p] /\ plugged[p] # "none" => scan[p] \/ Reports(line'[p])
    PROVE  Undisturbed(p)'
<1> SUFFICES ASSUME stopped' = "no", lost' = 0 PROVE Silent(p)' /\ (Reading(p)' =>
                    Front(Buffer(p), Identified(p), line[p])' /\ Served(p)')
  BY DEF Undisturbed
<1>1. lost = 0 /\ Silent(p) /\ (Reading(p) => Front(Buffer(p), Identified(p), line[p]) /\ Served(p))
  BY PortTypes DEF Undisturbed
<1>2. CASE State(p)' \in {"NOT_CONNECTED", "READY"}
  BY <1>2 DEF Silent, Reading
<1>3. CASE /\ State(p)' = State(p)
           /\ Judged(p)' <=> Judged(p)
           /\ late'[p] = late[p] /\ ps2_manager_timeouts'[p] = ps2_manager_timeouts[p]
           /\ Longer(line'[p], line[p])
           /\ AddsNoData(line'[p], line[p]) \/ (plugged[p] # "none" /\ scan[p])
           /\ scan'[p] /\ plugged[p] # "none" => scan[p] \/ Reports(line'[p])
  <2>1. Silent(p)'
    BY <1>1, <1>3, ReportsStay, PortTypes DEF Silent
  <2>2. ASSUME Reading(p)' PROVE Front(Buffer(p), Identified(p), line[p])' /\ Served(p)'
    <3>1. Reading(p) /\ State(p) = "IDENTIFY_IN_PROGRESS"
      BY <1>3, <2>2 DEF Reading
    <3>2. AddsNoData(line'[p], line[p]) \/ Reports(line[p])
      BY <1>1, <1>3, <3>1 DEF Silent
    <3>3. Identified(p)' = Identified(p) /\ Unread(p)' = Unread(p)
      BY DEF Identified, Unread
    <3>4. Front(Buffer(p), Identified(p), line'[p])
      BY <1>1, <1>3, <3>1, <3>2, FrontGrows, PortTypes
    <3>5. Served(p)'
      BY <1>1, <1>3, <3>1, <3>3 DEF Served
    <3>6. QED
      BY <3>3, <3>4, <3>5
  <2>3. QED
    BY <2>1, <2>2
<1>4. QED
  BY <1>2, <1>3

(* A handler reads a byte that is neither data nor a result.               *)
LEMMA UndisturbedPassed ==
    ASSUME TypeOK, NEW p \in Ports, Undisturbed(p), stopped = "no",
           line[p] # << >>, Head(line[p]) \notin Data \union Results,
           line'[p] = Tail(line[p]), scan'[p] = scan[p], lost' = lost,
           clean'[p] = clean[p], plugged'[p] = plugged[p],
           Buffer(p)' = Buffer(p), State(p)' = State(p)
    PROVE  Undisturbed(p)'
<1> SUFFICES ASSUME stopped' = "no", lost' = 0 PROVE Silent(p)' /\ (Reading(p)' =>
                    Front(Buffer(p), Identified(p), line[p])' /\ Served(p)')
  BY DEF Undisturbed
<1>1. lost = 0 /\ Silent(p) /\ (Reading(p) => Front(Buffer(p), Identified(p), line[p]) /\ Served(p))
  BY DEF Undisturbed
<1>2. Silent(p)'
  BY <1>1, ReportsStay, PortTypes DEF Silent
<1>3. ASSUME Reading(p)' PROVE Front(Buffer(p), Identified(p), line[p])' /\ Served(p)'
  <2>1. Reading(p)
    BY <1>3 DEF Reading
  <2>2. Len(Buffer(p)) = Len(Identified(p)) /\ Front(Buffer(p), Identified(p), Tail(line[p]))
    BY <1>1, <2>1, FrontPassed, PortTypes
  <2>3. Identified(p)' = Identified(p) /\ Unread(p)' = Unread(p)
    BY DEF Identified, Unread
  <2>4. ~(Unread(p) > 0)
    BY <2>2, PortTypes DEF Unread
  <2>5. QED
    BY <2>2, <2>3, <2>4 DEF Served
<1>4. QED
  BY <1>2, <1>3

(* A byte of the identification.                                           *)
LEMMA UndisturbedData ==
    ASSUME MaxBuffer > 1, TypeOK, NEW p \in Ports, Undisturbed(p), IrqData(p)
    PROVE  Undisturbed(p)'
<1>1. /\ stopped = "no" /\ line[p] # << >> /\ Head(line[p]) \in Data /\ Rest(p) = Tail(line[p])
      /\ late'[p] = (IF late[p] > 0 THEN late[p] - 1 ELSE 0)
      /\ UNCHANGED << timer, plugged >> /\ Wired /\ Managed
  BY IrqFacts DEF IrqData
<1>2. /\ line'[p] = Tail(line[p]) /\ scan' = scan /\ lost' = lost
      /\ UNCHANGED << ps2_manager_timeouts, clean >>
  BY <1>1 DEF IrqData, NoSend, Wired, ghosts
<1>3. /\ State(p)' = State(p)
      /\ State(p) = "IDENTIFY_IN_PROGRESS" /\ Len(Buffer(p)) < MaxBuffer =>
            Buffer(p)' = Append(Buffer(p), Head(line[p]))
  BY <1>1 DEF IrqData, Managed, Device, State, Buffer
<1> SUFFICES ASSUME stopped' = "no", lost' = 0 PROVE Silent(p)' /\ (Reading(p)' =>
                    Front(Buffer(p), Identified(p), line[p])' /\ Served(p)')
  BY <1>1, <1>2 DEF Undisturbed
<1>4. lost = 0 /\ Silent(p) /\ (Reading(p) => Front(Buffer(p), Identified(p), line[p]) /\ Served(p))
  BY <1>1, <1>2 DEF Undisturbed
<1>5. Silent(p)'
  BY <1>1, <1>2, <1>3, <1>4, ReportsStay, PortTypes, DataAndResults DEF Silent
<1>6. ASSUME Reading(p)' PROVE Front(Buffer(p), Identified(p), line[p])' /\ Served(p)'
  <2>1. Reading(p) /\ State(p) = "IDENTIFY_IN_PROGRESS"
    BY <1>2, <1>3, <1>6 DEF Reading
  <2>2. Len(Buffer(p)) < Len(Identified(p))
    <3>1. Len(Buffer(p)) # Len(Identified(p))
      BY <1>1, <1>4, <2>1, FrontPassed, PortTypes, DataAndResults
    <3>2. 0 <= Unread(p)
      BY <1>4, <2>1 DEF Front, Unread
    <3>3. Len(Buffer(p)) \in Nat /\ Len(Identified(p)) \in Nat
      BY PortTypes
    <3>4. QED
      BY <3>1, <3>2, <3>3 DEF Unread
  <2>3. Len(Buffer(p)) < MaxBuffer
    <3>1. Len(Buffer(p)) \in Nat /\ Len(Identified(p)) \in Nat /\ Len(Identified(p)) <= 2
      BY PortTypes
    <3>2. QED
      BY <2>2, <3>1, ConstantTypes
  <2>4. /\ Buffer(p)' = Append(Buffer(p), Head(line[p])) /\ Identified(p)' = Identified(p)
        /\ line'[p] = Tail(line[p])
    BY <1>1, <1>2, <1>3, <2>1, <2>3 DEF Identified
  <2>5. Front(Append(Buffer(p), Head(line[p])), Identified(p), Tail(line[p]))
    BY <1>1, <1>4, <2>1, <2>2, FrontRead, PortTypes
  <2>6. Unread(p)' = Unread(p) - 1 /\ Unread(p) \in Int
    <3>1. Len(Append(Buffer(p), Head(line[p]))) = Len(Buffer(p)) + 1 /\ Len(Buffer(p)) \in Nat
      BY <1>1, PortTypes
    <3>2. QED
      BY <2>4, <3>1, PortTypes DEF Unread
  <2>7. Served(p)'
    <3>1. /\ Judged(p)' <=> Judged(p)
          /\ ps2_manager_timeouts'[p] = ps2_manager_timeouts[p]
      BY <1>1, <1>2 DEF Judged, timer
    <3>2. Unread(p) > 0 /\ Served(p) /\ late[p] \in Nat
      BY <1>4, <2>1, <2>2, PortTypes DEF Unread
    <3>3. Unread(p) <= late[p] => Unread(p)' <= late'[p]
      BY <1>1, <2>6, <3>2
    <3>4. QED
      BY <3>1, <3>2, <3>3 DEF Served
  <2>8. QED
    BY <2>4, <2>5, <2>7
<1>7. QED
  BY <1>5, <1>6

(* A handler of the port itself.                                           *)
LEMMA UndisturbedIrq ==
    ASSUME MaxBuffer > 1, MaxTimeout > 1, Base, NEW p \in Ports, Undisturbed(p), HandleIrq(p)
    PROVE  Undisturbed(p)'
<1>1. TypeOK
  BY DEF Base
<1>2. PICK bytes : Irq(p, bytes) /\ Head(line[p]) \in bytes
  BY DEF HandleIrq, IrqPresume, IrqEcho, IrqResend, IrqSelfTest, IrqAckDisable,
         IrqAckIdentify, IrqAckOther, IrqData, Irq
<1>3. /\ stopped = "no" /\ line[p] \in Seq(Bytes) /\ line[p] # << >>
      /\ Rest(p) = Tail(line[p]) /\ Rest(p) \in Seq(Bytes)
      /\ connected'[p] = TRUE
      /\ late'[p] = (IF late[p] > 0 THEN late[p] - 1 ELSE 0)
      /\ UNCHANGED << timer, pc, plugged, plugs >>
      /\ plugged \in [Ports -> Kinds] /\ Wired /\ Managed /\ Kept
  BY <1>1, <1>2, IrqFacts
<1>4. Quiet(p, Rest(p)) /\ lost <= lost' /\ lost \in Nat /\ lost' \in Nat
  <2>1. Quiet(p, Rest(p))
    BY IrqPresumeBase, IrqEchoBase, IrqResendBase, IrqOthersBase, IrqDataBase DEF HandleIrq
  <2>2. QED
    BY <1>3, <2>1, ConstantTypes DEF Quiet, Delivered, Wired
<1>5. Reports(line[p]) /\ Head(line[p]) \notin Results => Reports(Rest(p))
  BY <1>3, ReportsStay
<1>6. {"echo", "resend", "ack"} \cap (Data \union Results) = {}
  BY DEF Data, Results
<1>7. CASE IrqPresume(p)
  <2>1. State(p)' = "READY" /\ clean' = clean
    BY <1>3, <1>7 DEF IrqPresume, Managed, State, ghosts
  <2>2. QED
    BY <1>3, <2>1 DEF Undisturbed, Silent, Reading
<1>8. CASE IrqEcho(p) \/ IrqResend(p) \/ IrqAckOther(p)
  <2>1. /\ Head(line[p]) \in {"echo", "resend", "ack"}
        /\ NoSend(p, Rest(p)) /\ clean' = clean
    BY <1>8 DEF IrqEcho, IrqResend, IrqAckOther, Irq, ghosts
  <2>2. State(p)' = State(p) /\ Buffer(p)' = Buffer(p)
    BY <1>3, <1>8 DEF IrqEcho, IrqResend, IrqAckOther, manager, State, Buffer, Managed, Device
  <2>3. line'[p] = Tail(line[p]) /\ scan' = scan /\ lost' = lost
    BY <1>3, <2>1 DEF NoSend, Wired
  <2>4. QED
    BY <1>1, <1>3, <1>6, <2>1, <2>2, <2>3, UndisturbedPassed
<1>9. CASE IrqSelfTest(p)
  <2>1. clean' = clean
    BY <1>9 DEF IrqSelfTest, ghosts
  <2>2. CASE Become(p, "CONNECTED") /\ Send(p, "disable", Rest(p))
    <3>1. State(p)' = "CONNECTED"
      BY <1>3, <2>2 DEF Become, Managed, Device, State
    <3>2. "disable" \in Commands
      BY DEF Commands
    <3>3. lost' = 0 => ~scan'[p]
      BY <1>3, <2>2, <3>2, SendScans
    <3>4. QED
      BY <1>3, <2>1, <3>1, <3>3 DEF Undisturbed, Silent, Reading
  <2>3. CASE Become(p, "ERRORED")
    <3>1. State(p)' = "ERRORED"
      BY <1>3, <2>3 DEF Become, Managed, Device, State
    <3>2. QED
      BY <1>3, <2>1, <3>1 DEF Undisturbed, Silent, Reading
  <2>4. QED
    BY <1>9, <2>2, <2>3 DEF IrqSelfTest
<1>10. CASE IrqAckDisable(p)
  <2>1. /\ clean' = clean /\ State(p) = "CONNECTED" /\ State(p)' = "SCAN_DISABLED"
        /\ Send(p, "identify", Rest(p)) /\ Head(line[p]) \notin Results
    BY <1>3, <1>6, <1>10 DEF IrqAckDisable, Become, Managed, State, ghosts, Irq
  <2>2. "identify" \in Commands
    BY DEF Commands
  <2>3. ASSUME lost' = 0, stopped' = "no" PROVE Silent(p)'
    <3>1. scan'[p] /\ plugged[p] # "none" => scan[p] \/ Reports(line'[p])
      BY <1>3, <2>1, <2>2, <2>3, SendScans
    <3>2. Silent(p)
      BY <1>3, <1>4, <2>3 DEF Undisturbed
    <3>3. Reports(Rest(p)) => Reports(line'[p])
      BY <1>3, <1>4, <2>3, ReportsStay DEF Quiet, Delivered
    <3>4. QED
      BY <1>3, <1>5, <2>1, <3>1, <3>2, <3>3 DEF Silent
  <2>4. QED
    BY <1>3, <2>1, <2>3 DEF Undisturbed, Reading
<1>11. CASE IrqAckIdentify(p)
  <2>1. /\ Head(line[p]) \notin Results /\ State(p) = "SCAN_DISABLED"
        /\ State(p)' = "IDENTIFY_IN_PROGRESS" /\ Buffer(p)' = Buffer(p)
        /\ NoSend(p, Rest(p))
        /\ ps2_manager_timeouts'[p] = MaxTimeout
        /\ clean'[p] <=> /\ plugged[p] # "none" /\ Buffer(p) = << >>
                         /\ Rest(p) = Identified(p)
    BY <1>3, <1>6, <1>11
    DEF IrqAckIdentify, Become, Managed, Device, State, Buffer, Identified, Irq, Kept
  <2>2. line'[p] = Rest(p) /\ scan' = scan /\ lost' = lost
    BY <1>3, <2>1 DEF NoSend, Wired
  <2>3. ASSUME lost' = 0, stopped' = "no" PROVE Silent(p)'
    <3>1. Silent(p)
      BY <1>3, <2>2, <2>3 DEF Undisturbed
    <3>2. QED
      BY <1>3, <1>5, <2>1, <2>2, <3>1 DEF Silent
  <2>4. ASSUME clean'[p] PROVE Front(Buffer(p), Identified(p), line[p])' /\ Served(p)'
    <3>1. /\ Buffer(p)' = << >> /\ Identified(p)' = Identified(p) /\ line'[p] = Identified(p)
          /\ Identified(p) \in Seq(Data)
      BY <1>1, <1>3, <2>1, <2>2, <2>4, PortTypes DEF Identified
    <3>2. Front(<< >>, Identified(p), Identified(p))
      <4> DEFINE id == Identified(p)
      <4>1. id \in Seq(Data)
        BY <3>1
      <4> HIDE DEF id
      <4>2. Len(<< >>) = 0 /\ Len(id) \in Nat /\ Len(id) - 0 = Len(id)
        BY <4>1
      <4>3. Front(<< >>, id, id)
        BY <4>2 DEF Front
      <4>4. QED
        BY <4>3 DEF id
    <3>3. Served(p)'
      BY <2>1, ConstantTypes DEF Served
    <3>4. QED
      BY <3>1, <3>2, <3>3
  <2>5. QED
    BY <1>3, <2>1, <2>3, <2>4 DEF Undisturbed, Reading
<1>12. CASE IrqData(p)
  BY <1>1, <1>12, UndisturbedData
<1>13. QED
  BY <1>7, <1>8, <1>9, <1>10, <1>11, <1>12 DEF HandleIrq

(* A step of another port, or of the rest of the kernel.                   *)
LEMMA UndisturbedElsewhere ==
    ASSUME TypeOK, NEW p \in Ports, Undisturbed(p), stopped = "no", lost <= lost', lost' \in Nat,
           clean'[p] = clean[p], plugged'[p] = plugged[p],
           Buffer(p)' = Buffer(p), State(p)' = State(p), Judged(p)' <=> Judged(p),
           late'[p] = late[p], ps2_manager_timeouts'[p] = ps2_manager_timeouts[p],
           stopped' = "no" /\ lost' = 0 => line'[p] = line[p] /\ scan'[p] = scan[p]
    PROVE  Undisturbed(p)'
<1>1. line[p] \in Seq(Bytes)
  BY PortTypes
<1>2. Longer(line[p], line[p]) /\ AddsNoData(line[p], line[p])
  BY <1>1, LongerByNothing DEF AddsNoData
<1>3. QED
  BY <1>2, UndisturbedGrows

(* What a handler of another port leaves alone.                            *)
LEMMA OtherIrq ==
    ASSUME Base, NEW q \in Ports, NEW p \in Ports \ {q}, HandleIrq(q)
    PROVE  /\ stopped = "no" /\ lost <= lost' /\ lost' \in Nat
           /\ UNCHANGED << timer, plugged >>
           /\ devices'[p] = devices[p] /\ clean'[p] = clean[p] /\ late'[p] = late[p]
           /\ ps2_manager_timeouts'[p] = ps2_manager_timeouts[p]
           /\ stopped' = "no" /\ lost' = 0 => line'[p] = line[p] /\ scan'[p] = scan[p]
<1>1. PICK bytes : Irq(q, bytes)
  BY DEF HandleIrq, IrqPresume, IrqEcho, IrqResend, IrqSelfTest, IrqAckDisable,
         IrqAckIdentify, IrqAckOther, IrqData
<1>2. /\ stopped = "no" /\ UNCHANGED << timer, plugged >> /\ late'[p] = late[p]
      /\ Rest(q) \in Seq(Bytes) /\ plugged \in [Ports -> Kinds]
      /\ Wired /\ Managed /\ Kept
  BY <1>1, IrqFacts DEF Base
<1>3. Quiet(q, Rest(q))
  BY IrqPresumeBase, IrqEchoBase, IrqResendBase, IrqOthersBase, IrqDataBase DEF HandleIrq
<1>4. /\ lost <= lost' /\ lost' \in Nat
      /\ stopped' = "no" => line'[p] = line[p]
  BY <1>3, ConstantTypes DEF Quiet, Delivered, Wired
<1>5. devices'[p] = devices[p]
  BY <1>2 DEF HandleIrq, IrqPresume, IrqEcho, IrqResend, IrqSelfTest, IrqAckDisable,
         IrqAckIdentify, IrqAckOther, IrqData, Become, Managed, manager
<1>6. clean'[p] = clean[p] /\ ps2_manager_timeouts'[p] = ps2_manager_timeouts[p]
  BY <1>2 DEF HandleIrq, IrqPresume, IrqEcho, IrqResend, IrqSelfTest, IrqAckDisable,
         IrqAckIdentify, IrqAckOther, IrqData, Kept, Managed, manager, ghosts
<1>7. ASSUME stopped' = "no", lost' = 0 PROVE scan'[p] = scan[p]
  <2>1. \/ NoSend(q, Rest(q)) \/ Setup(q, TRUE, Rest(q))
        \/ \E command \in Commands : Send(q, command, Rest(q))
    BY DEF HandleIrq, IrqPresume, IrqEcho, IrqResend, IrqSelfTest, IrqAckDisable,
           IrqAckIdentify, IrqAckOther, IrqData, Commands
  <2>2. CASE NoSend(q, Rest(q))
    BY <2>2 DEF NoSend
  <2>3. CASE Setup(q, TRUE, Rest(q))
    BY <1>2, <1>7, <2>3, SetupScans
  <2>4. CASE \E command \in Commands : Send(q, command, Rest(q))
    BY <1>2, <1>7, <2>4, SendScans
  <2>5. QED
    BY <2>1, <2>2, <2>3, <2>4
<1>8. QED
  BY <1>2, <1>4, <1>5, <1>6, <1>7

LEMMA UndisturbedByIrqs ==
    ASSUME MaxBuffer > 1, MaxTimeout > 1, Base, NEW p \in Ports, Undisturbed(p),
           NEW q \in Ports, HandleIrq(q)
    PROVE  Undisturbed(p)'
<1>1. CASE q = p
  BY <1>1, UndisturbedIrq
<1>2. CASE q # p
  <2>1. TypeOK /\ p \in Ports \ {q}
    BY <1>2 DEF Base
  <2>2. /\ stopped = "no" /\ lost <= lost' /\ lost' \in Nat
        /\ UNCHANGED << timer, plugged >>
        /\ devices'[p] = devices[p] /\ clean'[p] = clean[p] /\ late'[p] = late[p]
        /\ ps2_manager_timeouts'[p] = ps2_manager_timeouts[p]
        /\ stopped' = "no" /\ lost' = 0 => line'[p] = line[p] /\ scan'[p] = scan[p]
    BY <2>1, OtherIrq
  <2>3. Buffer(p)' = Buffer(p) /\ State(p)' = State(p) /\ (Judged(p)' <=> Judged(p))
    BY <2>2 DEF Buffer, State, Judged, timer
  <2>4. QED
    BY <2>1, <2>2, <2>3, UndisturbedElsewhere
<1>3. QED
  BY <1>1, <1>2

-----------------------------------------------------------------------------
(* The timer tasks.  A window ends only when nothing is late, and all that *)
(* is on the wire then is late in the next one.                            *)
LEMMA UndisturbedTick ==
    ASSUME Base, NEW p \in Ports, Undisturbed(p), ControllerTimeout
    PROVE  Undisturbed(p)'
<1>1. TypeOK /\ Schedule /\ Wired /\ Managed /\ Kept
  BY TypesParted DEF Base
<1>2. /\ stopped = "no" /\ turn = "controller" /\ turn' = "first"
      /\ late[p] = 0 /\ late'[p] = Len(line[p])
      /\ UNCHANGED << ps2_manager_timeouts, plugged, scan, clean >>
  BY DEF ControllerTimeout, ghosts
<1>3. \/ line' = line /\ lost' = lost
      \/ lost' = lost + 1
  BY DEF ControllerTimeout
<1>4. State(p)' = State(p) /\ Buffer(p)' = Buffer(p)
  BY <1>1 DEF ControllerTimeout, Managed, Device, State, Buffer
<1>5. Judged(p) /\ ~Judged(p)'
  BY <1>2 DEF Judged
<1>6. lost \in Nat /\ (lost' = 0 => line' = line /\ lost = 0)
  BY <1>1, <1>3, PortTypes
<1> SUFFICES ASSUME stopped' = "no", lost' = 0 PROVE Silent(p)' /\ (Reading(p)' =>
                    Front(Buffer(p), Identified(p), line[p])' /\ Served(p)')
  BY <1>2 DEF Undisturbed
<1>7. /\ line' = line /\ Silent(p)
      /\ Reading(p) => Front(Buffer(p), Identified(p), line[p]) /\ Served(p)
  BY <1>2, <1>6 DEF Undisturbed
<1>8. Silent(p)'
  BY <1>2, <1>4, <1>7 DEF Silent
<1>9. ASSUME Reading(p)' PROVE Front(Buffer(p), Identified(p), line[p])' /\ Served(p)'
  <2>1. Reading(p)
    BY <1>2, <1>4, <1>9 DEF Reading
  <2>2. Identified(p)' = Identified(p) /\ Unread(p)' = Unread(p)
    BY <1>2, <1>4 DEF Identified, Unread
  <2>3. Unread(p) <= late'[p]
    BY <1>2, <1>7, <2>1 DEF Front, Unread
  <2>4. Unread(p) > 0 => ps2_manager_timeouts[p] > 0
    <3>1. Unread(p) > 0 => ~(Unread(p) <= late[p])
      BY <1>1, <1>2, PortTypes
    <3>2. QED
      BY <1>5, <1>7, <2>1, <3>1 DEF Served
  <2>5. QED
    BY <1>2, <1>4, <1>5, <1>7, <2>1, <2>2, <2>3, <2>4 DEF Served
<1>10. QED
  BY <1>8, <1>9

LEMMA TaskTurns ==
    ASSUME NEW p \in Ports, NEW q \in Ports, TaskDone(q)
    PROVE  /\ stopped = "no"
           /\ UNCHANGED << plugged, late, clean >>
           /\ q = p => ~Judged(p) /\ Judged(p)'
           /\ q # p => (Judged(p)' <=> Judged(p))
<1>1. /\ stopped = "no" /\ UNCHANGED << plugged, late, clean >>
      /\ IF q = FIRST
         THEN turn = "first" /\ turn' = "second"
         ELSE turn = "second" /\ turn' \in {"check", "controller"}
  BY DEF TaskDone, ghosts
<1>2. QED
  BY <1>1, PortNumbers DEF Judged

LEMMA UndisturbedCountDown ==
    ASSUME Base, NEW p \in Ports, Undisturbed(p), CountDown(p)
    PROVE  Undisturbed(p)'
<1>1. TypeOK /\ Wired /\ Managed /\ Kept
  BY TypesParted DEF Base
<1>2. /\ stopped = "no" /\ UNCHANGED << plugged, late, clean >> /\ ~Judged(p) /\ Judged(p)'
  BY TaskTurns DEF CountDown
<1>3. /\ UNCHANGED << devices, scan, lost >>
      /\ line'[p] = line[p]
      /\ ps2_manager_timeouts'[p] = IF ps2_manager_timeouts[p] > 0
                                    THEN ps2_manager_timeouts[p] - 1
                                    ELSE ps2_manager_timeouts[p]
  BY <1>1 DEF CountDown, NoSend, Wired, Managed
<1>4. /\ State(p)' = State(p) /\ Buffer(p)' = Buffer(p)
      /\ Identified(p)' = Identified(p) /\ Unread(p)' = Unread(p)
  BY <1>2, <1>3 DEF State, Buffer, Identified, Unread
<1>5. Silent(p) => Silent(p)'
  BY <1>2, <1>3, <1>4 DEF Silent
<1>6. Served(p) => Served(p)'
  <2>1. /\ Unread(p) \in Int /\ late[p] \in Nat /\ ps2_manager_timeouts[p] \in Int
        /\ late'[p] = late[p]
    BY <1>1, <1>2, PortTypes
  <2>2. QED
    BY <1>2, <1>3, <1>4, <2>1 DEF Served
<1>7. QED
  BY <1>2, <1>3, <1>4, <1>5, <1>6 DEF Undisturbed, Reading

LEMMA InitDeviceStates ==
    ASSUME TypeOK, NEW q \in Ports, InitDevice(q)
    PROVE  \A p \in Ports : Buffer(p)' = Buffer(p) /\ (p # q => State(p)' = State(p))
<1> DEFINE type == TypeOf(devices[q].buffer, devices[q].type)
           supported == Supports(devices[q].buffer, devices[q].supported)
<1>1. devices' = [devices EXCEPT ![q].state = "READY", ![q].type = type,
                                 ![q].supported = supported]
  BY DEF InitDevice
<1> HIDE DEF type, supported
<1>2. devices \in [Ports -> Device]
  BY TypesParted DEF Managed
<1>3. QED
  BY <1>1, <1>2 DEF Device, Buffer, State

LEMMA UndisturbedTask ==
    ASSUME Base, NEW p \in Ports, Undisturbed(p),
           NEW q \in Ports, CountDown(q) \/ InitDevice(q)
    PROVE  Undisturbed(p)'
<1>1. TypeOK /\ Wired /\ Managed /\ Kept /\ line[q] \in Seq(Bytes)
  BY TypesParted DEF Base, Wired
<1>2. /\ TaskDone(q) /\ Quiet(q, line[q])
      /\ InitDevice(q) => State(q)' = "READY"
  BY CountDownBase, InitDeviceBase DEF CountDown, InitDevice
<1>3. /\ stopped = "no" /\ UNCHANGED << plugged, late, clean >>
      /\ q # p => (Judged(p)' <=> Judged(p))
  BY <1>2, TaskTurns
<1>4. lost <= lost' /\ lost' \in Nat
  BY <1>2, ConstantTypes DEF Quiet, Delivered, Wired
<1>5. Buffer(p)' = Buffer(p) /\ (p # q => State(p)' = State(p))
  <2>1. CASE CountDown(q)
    BY <2>1 DEF CountDown, Buffer, State
  <2>2. CASE InitDevice(q)
    BY <1>1, <2>2, InitDeviceStates
  <2>3. QED
    BY <2>1, <2>2
<1>6. CASE q = p
  <2>1. CASE CountDown(q)
    BY <1>6, <2>1, UndisturbedCountDown
  <2>2. CASE InitDevice(q)
    BY <1>1, <1>2, <1>3, <1>4, <1>5, <1>6, <2>2, UndisturbedGrows
  <2>3. QED
    BY <2>1, <2>2
<1>7. CASE q # p
  <2>1. ps2_manager_timeouts'[p] = ps2_manager_timeouts[p]
    BY <1>1, <1>7 DEF CountDown, InitDevice, Managed
  <2>2. ASSUME stopped' = "no", lost' = 0 PROVE line'[p] = line[p] /\ scan'[p] = scan[p]
    <3>1. line'[p] = line[p]
      BY <1>2, <1>7, <2>2 DEF Quiet, Delivered
    <3>2. \/ NoSend(q, line[q])
          \/ \E scancode2 \in BOOLEAN : Setup(q, scancode2, line[q])
      BY DEF CountDown, InitDevice
    <3>3. scan'[p] = scan[p]
      <4>1. CASE NoSend(q, line[q])
        BY <4>1 DEF NoSend
      <4>2. CASE \E scancode2 \in BOOLEAN : Setup(q, scancode2, line[q])
        BY <1>1, <1>7, <2>2, <4>2, SetupScans DEF Kept
      <4>3. QED
        BY <3>2, <4>1, <4>2
    <3>4. QED
      BY <3>1, <3>3
  <2>3. QED
    BY <1>1, <1>3, <1>4, <1>5, <1>7, <2>1, <2>2, UndisturbedElsewhere
<1>8. QED
  BY <1>6, <1>7

(* The port checks ask the first port for an echo or reset it.             *)
LEMMA UndisturbedAsked ==
    ASSUME Base, NEW p \in Ports, Undisturbed(p), PortCheck \/ Main
    PROVE  Undisturbed(p)'
<1>1. TypeOK /\ Wired /\ Managed /\ Kept /\ FIRST \in Ports /\ line[FIRST] \in Seq(Bytes)
  BY TypesParted, PortNumbers DEF Base, Wired
<1>2. /\ stopped = "no" /\ (Judged(p)' <=> Judged(p))
      /\ UNCHANGED << ps2_manager_timeouts, plugged, late, clean >>
  BY DEF PortCheck, Main, MainCheck, MainTest, MainSend, MainAt, ghosts, timer, Judged
<1>3. Delivered(FIRST, line[FIRST])
  BY PortCheckBase, MainBase
<1>4. lost <= lost' /\ lost' \in Nat
  BY <1>3, ConstantTypes DEF Delivered, Wired
<1>5. Buffer(p)' = Buffer(p) /\ State(p)' \in {State(p), "NOT_CONNECTED"}
  <2>1. CASE ForgetIfSilent
    BY <1>1, <2>1, ForgetEffect DEF Buffer, State
  <2>2. CASE UNCHANGED devices
    BY <2>2 DEF Buffer, State
  <2>3. QED
    BY <2>1, <2>2 DEF PortCheck, Main, MainCheck, MainTest, MainSend
<1>6. ASSUME stopped' = "no", lost' = 0
      PROVE  /\ Longer(line'[p], line[p]) /\ AddsNoData(line'[p], line[p])
             /\ scan'[p] /\ plugged[p] # "none" => scan[p] \/ Reports(line'[p])
  <2>1. \/ NoSend(FIRST, line[FIRST])
        \/ \E command \in {"echo", "reset"} : Send(FIRST, command, line[FIRST])
    BY DEF PortCheck, CheckCommand, Main, MainCheck, MainTest, MainSend
  <2>2. /\ AddsNoData(line'[FIRST], line[FIRST])
        /\ \A r \in Ports \ {FIRST} : scan'[r] = scan[r]
        /\ scan'[FIRST] /\ plugged[FIRST] # "none" => scan[FIRST] \/ Reports(line'[FIRST])
    <3>1. CASE NoSend(FIRST, line[FIRST])
      BY <1>1, <3>1 DEF NoSend, AddsNoData, Wired
    <3>2. CASE \E command \in {"echo", "reset"} : Send(FIRST, command, line[FIRST])
      BY <1>1, <1>6, <3>2, SendScans DEF Commands, Kept
    <3>3. QED
      BY <2>1, <3>1, <3>2
  <2>3. CASE p = FIRST
    BY <1>3, <1>6, <2>2, <2>3 DEF Delivered
  <2>4. CASE p # FIRST
    <3>1. line'[p] = line[p] /\ scan'[p] = scan[p] /\ line[p] \in Seq(Bytes)
      BY <1>1, <1>3, <1>6, <2>2, <2>4 DEF Delivered, Wired
    <3>2. Longer(line[p], line[p]) /\ AddsNoData(line[p], line[p])
      BY <3>1, LongerByNothing DEF AddsNoData
    <3>3. QED
      BY <3>1, <3>2
  <2>5. QED
    BY <2>3, <2>4
<1>7. QED
  BY <1>1, <1>2, <1>4, <1>5, <1>6, UndisturbedGrows

(* The devices.  One that is plugged in begins with the result of its      *)
(* self-test.                                                              *)
LEMMA UndisturbedDevices ==
    ASSUME Base, NEW p \in Ports, Undisturbed(p), NEW q \in Ports,
           \/ \E kind \in KindsAt(q) : Plug(q, kind)
           \/ Unplug(q) \/ PressKey(q)
    PROVE  Undisturbed(p)'
<1>1. TypeOK /\ Wired /\ Managed /\ Kept
  BY TypesParted DEF Base
<1>2. Environment
  BY DEF Plug, Unplug, PressKey
<1>3. /\ stopped = "no" /\ lost' = lost /\ lost <= lost' /\ lost' \in Nat
      /\ Buffer(p)' = Buffer(p) /\ State(p)' = State(p) /\ (Judged(p)' <=> Judged(p))
      /\ ps2_manager_timeouts' = ps2_manager_timeouts
  BY <1>1, <1>2, ConstantTypes
  DEF Environment, manager, timer, Buffer, State, Judged, Wired
<1>4. CASE q # p
  <2>1. /\ line'[p] = line[p] /\ scan'[p] = scan[p] /\ clean'[p] = clean[p]
        /\ plugged'[p] = plugged[p] /\ late'[p] = late[p]
    BY <1>1, <1>4 DEF Plug, Unplug, PressKey, ghosts, Wired, Kept
  <2>2. QED
    BY <1>1, <1>3, <2>1, UndisturbedElsewhere
<1>5. ASSUME NEW kind \in KindsAt(p), Plug(p, kind) PROVE Undisturbed(p)'
  <2>1. plugged[p] = "none" /\ clean' = clean /\ ~clean[p]
    BY <1>5 DEF Plug, ghosts, Undisturbed
  <2>2. Reports(line[p])'
    <3>1. PICK result \in {"ok", "error"} : line' = [line EXCEPT ![p] = Append(@, result)]
      BY <1>5 DEF Plug
    <3>2. line[p] \in Seq(Bytes) /\ line'[p] = Append(line[p], result)
      BY <1>1, <3>1 DEF Wired
    <3>3. Len(line[p]) + 1 \in 1 .. Len(line'[p]) /\ line'[p][Len(line[p]) + 1] = result
      BY <3>2
    <3>4. QED
      BY <3>3 DEF Reports, Results
  <2>3. QED
    BY <2>1, <2>2 DEF Undisturbed, Silent, Reading
<1>6. CASE Unplug(p)
  <2>1. plugged'[p] = "none" /\ ~clean'[p]
    BY <1>1, <1>6 DEF Unplug, Kept
  <2>2. QED
    BY <2>1 DEF Undisturbed, Silent, Reading
<1>7. CASE PressKey(p)
  <2>1. /\ plugged[p] # "none" /\ scan[p]
        /\ UNCHANGED << plugged, scan, late, clean >>
    BY <1>7 DEF PressKey, ghosts
  <2>2. Longer(line'[p], line[p])
    BY <1>7, PressKeyBase
  <2>3. QED
    BY <1>1, <1>3, <2>1, <2>2, UndisturbedGrows
<1>8. QED
  BY <1>4, <1>5, <1>6, <1>7

-----------------------------------------------------------------------------
AllUndisturbed == \A p \in Ports : Undisturbed(p)

(* An identification takes two bytes and may be given a whole window: the  *)
(* 4 windows and 4 bytes of the kernel are more than it needs.             *)
Patience == MaxTimeout > 1 /\ MaxBuffer > 1

LEMMA InitUndisturbed == Init => AllUndisturbed
BY DEF Init, AllUndisturbed, Undisturbed, Silent, Reading, State

LEMMA NextUndisturbed ==
    Patience /\ Base /\ AllUndisturbed /\ [Next]_vars => AllUndisturbed'
<1> SUFFICES ASSUME Patience, Base, AllUndisturbed, [Next]_vars, NEW p \in Ports
             PROVE  Undisturbed(p)'
  BY DEF AllUndisturbed
<1>1. Undisturbed(p) /\ MaxTimeout > 1 /\ MaxBuffer > 1
  BY DEF AllUndisturbed, Patience
<1>2. ASSUME NEW q \in Ports, HandleIrq(q) PROVE Undisturbed(p)'
  BY <1>1, <1>2, UndisturbedByIrqs
<1>3. CASE Tick
  BY <1>1, <1>3, UndisturbedTick, UndisturbedTask, UndisturbedAsked DEF Tick
<1>4. CASE Main
  BY <1>1, <1>4, UndisturbedAsked
<1>5. ASSUME NEW q \in Ports,
             \/ \E kind \in KindsAt(q) : Plug(q, kind)
             \/ Unplug(q) \/ PressKey(q)
      PROVE  Undisturbed(p)'
  BY <1>1, <1>5, UndisturbedDevices
<1>6. CASE UNCHANGED vars
  <2>1. UNCHANGED << devices, ps2_manager_timeouts, turn, stopped, plugged, scan, line, late,
                     lost, clean >>
    BY <1>6 DEF vars, manager, timer, ghosts
  <2>2. QED
    BY <1>1, <2>1 DEF Undisturbed, Silent, Reading, Served, State, Buffer, Identified, Unread,
                      Judged
<1>7. QED
  BY <1>2, <1>3, <1>4, <1>5, <1>6 DEF Next

(* When the time of an identification is over, all of it has been read.    *)
LEMMA WhollyRead ==
    ASSUME Base, AllUndisturbed, NEW p \in Ports, InitDevice(p), Reading(p), lost = 0
    PROVE  Buffer(p) = Identified(p)
<1>1. TypeOK
  BY DEF Base
<1>2. /\ ps2_manager_timeouts[p] = 0 /\ stopped = "no" /\ ~Judged(p)
  BY TaskTurns DEF InitDevice
<1>3. Front(Buffer(p), Identified(p), line[p]) /\ Served(p)
  BY <1>2 DEF AllUndisturbed, Undisturbed
<1>4. ~(Unread(p) > 0)
  BY <1>2, <1>3 DEF Served
<1>5. Buffer(p) \in Seq(Data) /\ Identified(p) \in Seq(Data)
  BY <1>1, PortTypes
<1>6. Len(Buffer(p)) = Len(Identified(p))
  BY <1>3, <1>4, <1>5 DEF Front, Unread
<1>7. \A k \in 1 .. Len(Buffer(p)) : Buffer(p)[k] = Identified(p)[k]
  BY <1>3 DEF Front
<1>8. QED
  BY <1>5, <1>6, <1>7

(* init_device judges a device by the bytes __handle_identify stored: of   *)
(* one whose identification began with an empty buffer and that stayed     *)
(* plugged in, when nothing is lost, they are its identification, whatever *)
(* keys were pressed and whatever the port checks and the other port did   *)
(* in the meantime.                                                        *)
THEOREM IdentificationIsRight ==
    ASSUME Patience
    PROVE  Spec => IdentifiedRight
<1>1. ASSUME Base, AllUndisturbed
      PROVE  [\A p \in Ports :
                 InitDevice(p) /\ State(p) = "IDENTIFY_IN_PROGRESS" /\ clean[p] /\ lost = 0
                 => devices[p].buffer = Id(plugged[p])]_vars
  BY <1>1, WhollyRead DEF Reading, Buffer, Identified
<1>2. Base /\ AllUndisturbed /\ [Next]_vars => (Base /\ AllUndisturbed)'
  BY NextBase, NextUndisturbed
<1>3. QED
  BY <1>1, <1>2, InitBase, InitUndisturbed, PTL DEF Spec, IdentifiedRight

=============================================================================
