------------------------------ MODULE KtimerProofs ------------------------------
(***************************************************************************)
(* Proofs about the timer tasks, for any number of them and any intervals: *)
(* no task runs late or early, however the calls of kernel_main and the    *)
(* ticks interleave, and an addition never drops another task from the     *)
(* list (module Ktimer).                                                   *)
(***************************************************************************)
EXTENDS Ktimer, TLAPS

(* Visits(t), with the list as a parameter: its value before and after a   *)
(* step is then the same operator of two lists.                            *)
Walked(nx, t) ==
    {u \in Tasks :
        \A S \in SUBSET Tasks :
            (t \in S \union {NULL} /\ \A v \in S : nx[v] \in S \union {NULL}) => u \in S}

Pointers == Tasks \union {NULL}
Lists == [Tasks -> Pointers]

(* A walk stays where it has come to ...                                   *)
LEMMA WalkedClosed ==
    ASSUME NEW nx \in Lists, NEW t \in Pointers
    PROVE  /\ Walked(nx, t) \subseteq Tasks
           /\ t \in Walked(nx, t) \union {NULL}
           /\ \A v \in Walked(nx, t) : nx[v] \in Walked(nx, t) \union {NULL}
<1>1. ASSUME t # NULL PROVE t \in Walked(nx, t)
  BY <1>1 DEF Walked, Pointers
<1>2. ASSUME NEW v \in Walked(nx, t), nx[v] # NULL PROVE nx[v] \in Walked(nx, t)
  BY <1>2 DEF Walked, Lists, Pointers
<1>3. QED
  BY <1>1, <1>2 DEF Walked

(* ... and goes nowhere else.                                              *)
LEMMA WalkedLeast ==
    ASSUME NEW nx, NEW t, NEW S \in SUBSET Tasks, t \in S \union {NULL},
           \A v \in S : nx[v] \in S \union {NULL}
    PROVE  Walked(nx, t) \subseteq S
BY DEF Walked

LEMMA WalkedNull ==
    ASSUME NEW nx
    PROVE  Walked(nx, NULL) = {}
<1>1. {} \in SUBSET Tasks /\ NULL \in {} \union {NULL}
      /\ \A v \in {} : nx[v] \in {} \union {NULL}
  OBVIOUS
<1>2. QED
  BY <1>1 DEF Walked

LEMMA WalkedStep ==
    ASSUME NEW nx \in Lists, NEW t \in Tasks
    PROVE  Walked(nx, t) = {t} \union Walked(nx, nx[t])
<1>1. nx[t] \in Pointers /\ t \in Pointers /\ t # NULL
  BY TasksAssumption DEF Lists, Pointers
<1>2. Walked(nx, t) \subseteq {t} \union Walked(nx, nx[t])
  <2> DEFINE S == {t} \union Walked(nx, nx[t])
  <2>1. S \in SUBSET Tasks /\ t \in S \union {NULL}
    BY <1>1, WalkedClosed
  <2>2. \A v \in S : nx[v] \in S \union {NULL}
    BY <1>1, WalkedClosed
  <2> HIDE DEF S
  <2>3. Walked(nx, t) \subseteq S
    BY <2>1, <2>2, WalkedLeast
  <2>4. QED
    BY <2>3 DEF S
<1>3. Walked(nx, nx[t]) \subseteq Walked(nx, t) /\ t \in Walked(nx, t)
  BY <1>1, WalkedClosed, WalkedLeast
<1>4. QED
  BY <1>2, <1>3

(* A task linked behind the last one is all that a walk meets in addition. *)
LEMMA WalkedLink ==
    ASSUME NEW nx \in Lists, NEW last \in Tasks, NEW a \in Tasks, nx[last] = NULL, nx[a] = NULL,
           NEW ny, ny = [nx EXCEPT ![last] = a], NEW t \in Pointers
    PROVE  /\ ny \in Lists
           /\ Walked(nx, t) \subseteq Walked(ny, t)
           /\ Walked(ny, t) \subseteq Walked(nx, t) \union {a}
<1>1. ny \in Lists /\ ny[last] = a /\ \A v \in Tasks \ {last} : ny[v] = nx[v]
  BY DEF Lists, Pointers
<1>2. Walked(nx, t) \subseteq Walked(ny, t)
  <2>1. /\ Walked(ny, t) \subseteq Tasks
        /\ t \in Walked(ny, t) \union {NULL}
        /\ \A v \in Walked(ny, t) : ny[v] \in Walked(ny, t) \union {NULL}
    BY <1>1, WalkedClosed
  <2>2. \A v \in Walked(ny, t) : nx[v] \in Walked(ny, t) \union {NULL}
    BY <1>1, <2>1
  <2>3. QED
    BY <2>1, <2>2, WalkedLeast
<1>3. Walked(ny, t) \subseteq Walked(nx, t) \union {a}
  <2>1. /\ Walked(nx, t) \subseteq Tasks
        /\ t \in Walked(nx, t) \union {NULL}
        /\ \A v \in Walked(nx, t) : nx[v] \in Walked(nx, t) \union {NULL}
    BY WalkedClosed
  <2> DEFINE S == Walked(nx, t) \union {a}
  <2>2. S \in SUBSET Tasks /\ t \in S \union {NULL}
    BY <2>1
  <2>3. \A v \in S : ny[v] \in S \union {NULL}
    BY <1>1, <2>1
  <2> HIDE DEF S
  <2>4. Walked(ny, t) \subseteq S
    BY <2>2, <2>3, WalkedLeast
  <2>5. QED
    BY <2>4 DEF S
<1>4. QED
  BY <1>1, <1>2, <1>3

-----------------------------------------------------------------------------
(* The inductive invariant.  The list does not close on itself, the cursor *)
(* of a tick stays on it, and a linked task has as many ticks to go as its *)
(* interval exceeds those it has waited for, one more when the tick in     *)
(* progress has not come to it.                                            *)
CursorLinked == task \in Linked \union {NULL}

Acyclic == \A t \in Linked : t \notin Visits(next[t])

CallUnderWay ==
    /\ pc # "idle" => arg \in Tasks \ Linked /\ next[arg] = NULL
    /\ pc \in {"test", "walk"} => counter[arg] = interval[arg]
    /\ pc = "walk" => i \in Linked

OnTime ==
    \A t \in Linked :
        /\ counter[t] >= 1
        /\ since[t] + counter[t] = interval[t] + (IF t \in Visits(task) THEN 1 ELSE 0)

IInv == TypeOK /\ CursorLinked /\ Acyclic /\ CallUnderWay /\ OnTime

(* A tick counts a linked task's counter down without a wrap.              *)
LEMMA CountsDown ==
    ASSUME NEW c \in 1 .. MaxInterval
    PROVE  Down(c) = c - 1
<1>1. ASSUME NEW x \in Nat, NEW w \in Nat \ {0}, x < w PROVE x % w = x
  BY <1>1
<1>2. c - 1 \in Nat /\ Word \in Nat \ {0} /\ c - 1 < Word
  BY WordAssumption
<1>3. QED
  BY <1>1, <1>2 DEF Down

LEMMA ListFacts ==
    ASSUME TypeOK
    PROVE  /\ next \in Lists /\ root \in Pointers /\ task \in Pointers /\ NULL \notin Tasks
           /\ Linked = Walked(next, root) /\ Linked \subseteq Tasks
           /\ root \in Linked \union {NULL}
           /\ \A v \in Linked : next[v] \in Linked \union {NULL}
           /\ \A t \in Pointers : Visits(t) = Walked(next, t)
<1>1. next \in Lists /\ root \in Pointers /\ task \in Pointers /\ NULL \notin Tasks
  BY TasksAssumption DEF TypeOK, Lists, Pointers
<1>2. Linked = Walked(next, root) /\ \A t \in Pointers : Visits(t) = Walked(next, t)
  BY DEF Linked, Visits, Walked
<1>3. QED
  BY <1>1, <1>2, WalkedClosed

LEMMA ListFactsNext ==
    ASSUME TypeOK'
    PROVE  /\ next' \in Lists /\ root' \in Pointers /\ task' \in Pointers
           /\ Linked' = Walked(next', root') /\ Linked' \subseteq Tasks
           /\ root' \in Linked' \union {NULL}
           /\ \A v \in Linked' : next'[v] \in Linked' \union {NULL}
           /\ \A t \in Pointers : Visits(t)' = Walked(next', t)
           /\ Visits(task)' = Walked(next', task')
<1>1. next' \in Lists /\ root' \in Pointers /\ task' \in Pointers
  BY DEF TypeOK, Lists, Pointers
<1>2. /\ Linked' = Walked(next', root') /\ \A t \in Pointers : Visits(t)' = Walked(next', t)
      /\ Visits(task)' = Walked(next', task')
  BY DEF Linked, Visits, Walked
<1>3. QED
  BY <1>1, <1>2, WalkedClosed

(* Nothing but the list decides what is on it.                             *)
LEMMA SameList ==
    ASSUME UNCHANGED << root, next >>
    PROVE  /\ Linked' = Linked
           /\ \A t \in Pointers : Visits(t)' = Visits(t)
           /\ \A t \in Tasks : Visits(next[t])' = Visits(next[t])
BY DEF Linked, Visits

LEMMA InitIInv == Init => IInv
<1> SUFFICES ASSUME Init PROVE IInv
  OBVIOUS
<1>1. TypeOK
  BY WordAssumption DEF Init, TypeOK
<1>2. Linked = {}
  BY <1>1, ListFacts, WalkedNull DEF Init
<1>3. QED
  BY <1>1, <1>2 DEF Init, IInv, CursorLinked, Acyclic, CallUnderWay, OnTime

-----------------------------------------------------------------------------
(* kernel_main. *)
LEMMA ListKept ==
    ASSUME IInv, TypeOK', UNCHANGED << root, next, task, interval, since >>,
           \A t \in Linked : counter'[t] = counter[t], CallUnderWay'
    PROVE  IInv'
<1>1. /\ Linked' = Linked /\ Linked \subseteq Tasks /\ task \in Pointers
      /\ \A t \in Pointers : Visits(t)' = Visits(t)
      /\ \A t \in Tasks : Visits(next[t])' = Visits(next[t])
      /\ Visits(task)' = Visits(task)
  BY SameList, ListFacts DEF IInv, Visits
<1>2. CursorLinked' /\ Acyclic'
  BY <1>1 DEF IInv, CursorLinked, Acyclic
<1>3. OnTime'
  BY <1>1 DEF IInv, OnTime
<1>4. QED
  BY <1>2, <1>3 DEF IInv

LEMMA CallStep ==
    ASSUME IInv, \/ \E t \in Tasks : CallAdd(t)
                 \/ SetCounter \/ AddBehind \/ Walk
    PROVE  IInv'
<1>1. TypeOK /\ CallUnderWay
  BY DEF IInv
<1>2. /\ UNCHANGED << root, next, task, interval, since >>
      /\ Linked' = Linked
  BY SameList DEF CallAdd, SetCounter, AddBehind, Walk
<1>3. /\ next \in Lists /\ root \in Linked \union {NULL} /\ Linked \subseteq Tasks
      /\ \A v \in Linked : next[v] \in Linked \union {NULL} /\ NULL \notin Tasks
  BY <1>1, ListFacts
<1>4. ASSUME NEW t \in Tasks, CallAdd(t) PROVE IInv'
  <2>1. TypeOK'
    BY <1>1, <1>4 DEF CallAdd, TypeOK
  <2>2. CallUnderWay'
    BY <1>2, <1>4 DEF CallAdd, Addable, CallUnderWay
  <2>3. QED
    BY <1>2, <1>4, <2>1, <2>2, ListKept DEF CallAdd
<1>5. CASE SetCounter
  <2>1. arg \in Tasks \ Linked
    BY <1>1, <1>5 DEF SetCounter, MainAt, CallUnderWay
  <2>2. interval[arg] \in 0 .. MaxInterval
    BY <1>1, <2>1, WordAssumption DEF TypeOK
  <2>3. counter' = [counter EXCEPT ![arg] = interval[arg]] /\ pc' = "test"
        /\ UNCHANGED << arg, i >>
    BY <1>5 DEF SetCounter
  <2>4. TypeOK'
    BY <1>1, <1>2, <2>2, <2>3 DEF TypeOK
  <2>5. counter'[arg] = interval[arg] /\ \A t \in Linked : counter'[t] = counter[t]
    BY <1>1, <1>3, <2>1, <2>3 DEF TypeOK
  <2>6. CallUnderWay'
    BY <1>1, <1>2, <1>5, <2>3, <2>5 DEF SetCounter, MainAt, CallUnderWay
  <2>7. QED
    BY <1>2, <2>4, <2>5, <2>6, ListKept
<1>6. CASE AddBehind
  <2>1. TypeOK'
    BY <1>1, <1>6 DEF AddBehind, TypeOK
  <2>2. CallUnderWay'
    BY <1>1, <1>2, <1>3, <1>6 DEF AddBehind, MainAt, CallUnderWay
  <2>3. QED
    BY <1>2, <1>6, <2>1, <2>2, ListKept DEF AddBehind
<1>7. CASE Walk
  <2>1. i \in Linked /\ next[i] \in Linked
    BY <1>1, <1>3, <1>7 DEF Walk, MainAt, CallUnderWay
  <2>2. TypeOK'
    BY <1>1, <1>3, <1>7, <2>1 DEF Walk, TypeOK
  <2>3. CallUnderWay'
    BY <1>1, <1>2, <1>7, <2>1 DEF Walk, MainAt, CallUnderWay
  <2>4. QED
    BY <1>2, <1>7, <2>2, <2>3, ListKept DEF Walk
<1>8. QED
  BY <1>4, <1>5, <1>6, <1>7

(* The new task waits from now on; the others stay and wait as they did.   *)
LEMMA AddStep ==
    ASSUME IInv, AddFirst \/ Link
    PROVE  IInv' /\ Linked \subseteq Linked'
<1>1. TypeOK /\ CallUnderWay /\ OnTime /\ Acyclic
  BY DEF IInv
<1>2. /\ task = NULL /\ arg \in Tasks \ Linked /\ next[arg] = NULL
      /\ counter[arg] = interval[arg]
      /\ since' = [since EXCEPT ![arg] = 0]
      /\ pc' = "idle" /\ arg' = NULL /\ i' = NULL
      /\ UNCHANGED << counter, interval, task >>
  BY <1>1 DEF AddFirst, Link, MainAt, CallUnderWay, Return
<1>3. /\ next \in Lists /\ root \in Pointers /\ NULL \notin Tasks /\ NULL \in Pointers
      /\ Linked = Walked(next, root) /\ Linked \subseteq Tasks
      /\ root \in Linked \union {NULL}
      /\ \A v \in Linked : next[v] \in Linked \union {NULL}
      /\ \A t \in Pointers : Visits(t) = Walked(next, t)
  BY <1>1, ListFacts DEF Pointers
<1>4. root' \in Pointers /\ next' \in Lists
      /\ Linked \subseteq Walked(next', root')
      /\ Walked(next', root') \subseteq Linked \union {arg}
      /\ \A t \in Walked(next', root') : t \notin Walked(next', next'[t])
  <2>1. CASE AddFirst
    <3>1. root = NULL /\ root' = arg /\ next' = next
      BY <2>1 DEF AddFirst
    <3>2. Linked = {}
      BY <1>3, <3>1, WalkedNull
    <3>3. Walked(next, arg) = {arg} /\ Walked(next, next[arg]) = {}
      BY <1>2, <1>3, WalkedStep, WalkedNull
    <3>4. QED
      BY <1>2, <1>3, <3>1, <3>2, <3>3 DEF Pointers
  <2>2. CASE Link
    <3>1. /\ i \in Linked /\ next[i] = NULL /\ root' = root
          /\ next' = [next EXCEPT ![i] = arg]
      BY <1>1, <2>2 DEF Link, MainAt, CallUnderWay
    <3>2. /\ next' \in Lists /\ next'[i] = arg /\ next'[arg] = NULL /\ i \in Tasks
          /\ \A v \in Tasks \ {i} : next'[v] = next[v]
      BY <1>2, <1>3, <3>1 DEF Lists, Pointers
    <3>3. \A t \in Pointers : /\ Walked(next, t) \subseteq Walked(next', t)
                              /\ Walked(next', t) \subseteq Walked(next, t) \union {arg}
      <4> DEFINE ny == next'
      <4>1. ny = [next EXCEPT ![i] = arg]
        BY <3>1
      <4> HIDE DEF ny
      <4>2. /\ next \in Lists /\ i \in Tasks /\ arg \in Tasks
            /\ next[i] = NULL /\ next[arg] = NULL
        BY <1>2, <1>3, <3>1, <3>2
      <4>3. ASSUME NEW t \in Pointers
            PROVE  /\ Walked(next, t) \subseteq Walked(ny, t)
                   /\ Walked(ny, t) \subseteq Walked(next, t) \union {arg}
        BY <4>1, <4>2, WalkedLink
      <4>4. QED
        BY <4>3 DEF ny
    <3>4. ASSUME NEW t \in Walked(next', root) PROVE t \notin Walked(next', next'[t])
      <4>1. t \in Linked \union {arg} /\ t \in Tasks
        BY <1>2, <1>3, <3>3
      <4>2. CASE t = arg
        BY <3>2, <4>2, WalkedNull
      <4>3. CASE t = i
        <5>1. Walked(next', arg) = {arg} \union Walked(next', NULL)
          BY <1>2, <3>2, WalkedStep
        <5>2. i # arg
          BY <1>2, <3>1
        <5>3. QED
          BY <3>2, <4>3, <5>1, <5>2, WalkedNull
      <4>4. CASE t # arg /\ t # i
        <5>1. t \in Linked /\ next'[t] = next[t] /\ next[t] \in Pointers
          BY <1>3, <3>2, <4>1, <4>4 DEF Lists
        <5>2. t \notin Walked(next, next[t])
          BY <1>1, <1>3, <5>1 DEF Acyclic
        <5>3. QED
          BY <3>3, <4>4, <5>1, <5>2
      <4>5. QED
        BY <4>2, <4>3, <4>4
    <3>5. QED
      BY <1>3, <3>1, <3>2, <3>3, <3>4
  <2>3. QED
    BY <2>1, <2>2
<1>5. TypeOK'
  BY <1>1, <1>2, <1>4 DEF TypeOK, Lists, Pointers
<1>6. Linked' = Walked(next', root') /\ Visits(task)' = {}
      /\ \A t \in Tasks : Visits(next[t])' = Walked(next', next'[t])
  <2>1. Visits(task)' = Walked(next', NULL)
    BY <1>2, <1>5, ListFactsNext
  <2>2. \A t \in Tasks : Visits(next[t])' = Walked(next', next'[t])
    BY DEF Visits, Walked
  <2>3. QED
    BY <1>5, <2>1, <2>2, ListFactsNext, WalkedNull
<1>7. CursorLinked' /\ Acyclic' /\ CallUnderWay'
  BY <1>2, <1>3, <1>4, <1>5, <1>6, ListFactsNext DEF CursorLinked, Acyclic, CallUnderWay
<1>8. OnTime'
  <2> SUFFICES ASSUME NEW t \in Linked'
               PROVE  counter'[t] >= 1 /\ since'[t] + counter'[t] = interval'[t]
    <3>1. \A t \in Linked' : interval'[t] + 0 = interval'[t]
      BY <1>4, <1>5, <1>6, ListFactsNext, WordAssumption DEF TypeOK
    <3>2. QED
      BY <1>6, <3>1 DEF OnTime
  <2>1. t \in Linked \union {arg} /\ t \in Tasks /\ Visits(task) = {}
    BY <1>2, <1>3, <1>4, <1>6, WalkedNull
  <2>2. CASE t = arg
    <3>1. interval[arg] \in 1 .. MaxInterval /\ since'[arg] = 0
      BY <1>1, <1>2 DEF TypeOK
    <3>2. QED
      BY <1>2, <2>2, <3>1, WordAssumption
  <2>3. CASE t # arg
    <3>1. counter[t] >= 1 /\ since[t] + counter[t] = interval[t] + 0 /\ since'[t] = since[t]
      BY <1>1, <1>2, <2>1, <2>3 DEF OnTime, TypeOK
    <3>2. interval[t] \in Int
      BY <1>1, <2>1, WordAssumption DEF TypeOK
    <3>3. QED
      BY <1>2, <3>1, <3>2
  <2>4. QED
    BY <2>2, <2>3
<1>9. QED
  BY <1>4, <1>5, <1>6, <1>7, <1>8 DEF IInv

(* Only a head is ever removed.                                            *)
LEMMA RemoveStep ==
    ASSUME IInv, NEW t \in Tasks, RemoveTask(t)
    PROVE  /\ IInv'
           /\ \A u \in Linked \ Linked' : u = root /\ root' = next[u]
<1>1. TypeOK /\ Acyclic /\ OnTime /\ CallUnderWay
  BY DEF IInv
<1>2. /\ task = NULL /\ pc = "idle" /\ root # NULL
      /\ root' = IF root = t THEN next[root] ELSE root
      /\ UNCHANGED << next, counter, interval, pc, arg, i, task, since >>
  BY DEF RemoveTask, MainAt, main
<1>3. /\ next \in Lists /\ root \in Tasks /\ NULL \in Pointers
      /\ Linked = Walked(next, root) /\ Linked \subseteq Tasks
      /\ root \in Linked /\ next[root] \in Pointers
      /\ \A u \in Pointers : Visits(u) = Walked(next, u)
  BY <1>1, <1>2, ListFacts DEF Pointers, Lists
<1>4. TypeOK'
  BY <1>1, <1>2, <1>3 DEF TypeOK, Pointers
<1>5. Linked' = Walked(next, root')
  BY <1>2, <1>4, ListFactsNext
<1>6. Linked' \subseteq Linked /\ \A u \in Linked \ Linked' : u = root /\ root' = next[u]
  <2>1. Walked(next, root) = {root} \union Walked(next, next[root])
    BY <1>3, WalkedStep
  <2>2. QED
    BY <1>2, <1>3, <1>5, <2>1
<1>7. /\ \A u \in Tasks : Visits(next[u])' = Visits(next[u])
      /\ Visits(task)' = Visits(task)
  BY <1>2 DEF Visits
<1>8. /\ CursorLinked' /\ CallUnderWay'
  BY <1>2 DEF CursorLinked, CallUnderWay
<1>9. Acyclic'
  BY <1>1, <1>3, <1>6, <1>7 DEF Acyclic
<1>10. OnTime'
  BY <1>1, <1>2, <1>6, <1>7 DEF OnTime
<1>11. QED
  BY <1>4, <1>6, <1>8, <1>9, <1>10 DEF IInv

-----------------------------------------------------------------------------
(* The ticks. *)
LEMMA TickBeginStep ==
    ASSUME IInv, TickBegin
    PROVE  IInv'
<1>1. TypeOK /\ Acyclic /\ OnTime /\ CallUnderWay
  BY DEF IInv
<1>2. /\ task = NULL /\ task' = root
      /\ since' = [t \in Tasks |-> IF t \in Linked THEN since[t] + 1 ELSE since[t]]
      /\ UNCHANGED << root, next, counter, interval, pc, arg, i >>
  BY DEF TickBegin, main
<1>3. /\ next \in Lists /\ root \in Linked \union {NULL} /\ Linked \subseteq Tasks
      /\ Linked = Walked(next, root)
  BY <1>1, ListFacts
<1>4. TypeOK'
  <2>1. since' \in [Tasks -> Nat]
    BY <1>1, <1>2 DEF TypeOK
  <2>2. QED
    BY <1>1, <1>2, <2>1 DEF TypeOK
<1>5. /\ Linked' = Linked /\ \A t \in Tasks : Visits(next[t])' = Visits(next[t])
      /\ Visits(task) = {}
      /\ Visits(task)' = Linked
  <2>1. Visits(task) = {}
    BY <1>2, WalkedNull DEF Visits, Walked
  <2>2. Visits(task)' = Linked
    BY <1>2 DEF Visits, Linked
  <2>3. QED
    BY <1>2, <2>1, <2>2, SameList
<1>6. CursorLinked' /\ Acyclic' /\ CallUnderWay'
  BY <1>1, <1>2, <1>3, <1>5 DEF CursorLinked, Acyclic, CallUnderWay
<1>7. OnTime'
  <2> SUFFICES ASSUME NEW t \in Linked
               PROVE  counter[t] >= 1 /\ since'[t] + counter[t] = interval[t] + 1
    BY <1>2, <1>5 DEF OnTime
  <2>1. counter[t] >= 1 /\ since[t] + counter[t] = interval[t] + 0
    BY <1>1, <1>5 DEF OnTime
  <2>2. since'[t] = since[t] + 1 /\ since[t] \in Nat /\ counter[t] \in Int /\ interval[t] \in Int
    BY <1>1, <1>2, <1>3, WordAssumption DEF TypeOK
  <2>3. QED
    BY <2>1, <2>2
<1>8. QED
  BY <1>4, <1>6, <1>7 DEF IInv

LEMMA TickTaskStep ==
    ASSUME IInv, TickTask
    PROVE  IInv'
<1>1. TypeOK /\ Acyclic /\ OnTime /\ CallUnderWay /\ task \in Linked
  BY DEF IInv, CursorLinked, TickTask
<1>2. /\ counter' = [counter EXCEPT ![task] =
                         IF Runs(task) THEN interval[task] ELSE Down(counter[task])]
      /\ since' = IF Runs(task) THEN [since EXCEPT ![task] = 0] ELSE since
      /\ task' = next[task]
      /\ UNCHANGED << root, next, interval, pc, arg, i >>
  BY DEF TickTask, main
<1>3. /\ next \in Lists /\ Linked \subseteq Tasks /\ task \in Tasks
      /\ next[task] \in Linked \union {NULL} /\ next[task] \in Pointers /\ task \in Pointers
      /\ \A u \in Pointers : Visits(u) = Walked(next, u)
  BY <1>1, ListFacts DEF Lists
<1>4. /\ counter[task] \in 1 .. MaxInterval /\ interval[task] \in 1 .. MaxInterval
      /\ since[task] \in Nat
      /\ since[task] + counter[task] = interval[task] + 1
      /\ MaxInterval \in Nat
  <2>1. task \in Visits(task)
    BY <1>3, WalkedStep
  <2>2. counter[task] >= 1 /\ since[task] + counter[task] = interval[task] + 1
    BY <1>1, <2>1 DEF OnTime
  <2>3. QED
    BY <1>1, <1>3, <2>2, WordAssumption DEF TypeOK
<1>5. Down(counter[task]) = counter[task] - 1
  BY <1>4, CountsDown
<1> DEFINE count == IF Runs(task) THEN interval[task] ELSE Down(counter[task])
           waited == IF Runs(task) THEN 0 ELSE since[task]
<1>6. /\ count \in 1 .. MaxInterval /\ waited \in Nat
      /\ waited + count = interval[task]
  BY <1>4, <1>5 DEF Runs
<1>7. counter' = [counter EXCEPT ![task] = count]
  BY <1>2
<1>8. since' = [since EXCEPT ![task] = waited]
  <2>1. since = [since EXCEPT ![task] = since[task]]
    BY <1>1 DEF TypeOK
  <2>2. QED
    BY <1>2, <2>1
<1> HIDE DEF count, waited
<1>9. TypeOK'
  <2>1. counter' \in [Tasks -> 0 .. MaxInterval] /\ since' \in [Tasks -> Nat]
    <3>1. count \in 0 .. MaxInterval
      BY <1>4, <1>6
    <3>2. QED
      BY <1>1, <1>6, <1>7, <1>8, <3>1 DEF TypeOK
  <2>2. QED
    BY <1>1, <1>2, <1>3, <2>1 DEF TypeOK, Pointers
<1>10. /\ Linked' = Linked /\ \A t \in Tasks : Visits(next[t])' = Visits(next[t])
       /\ Visits(task)' = Visits(next[task])
       /\ Visits(task) = {task} \union Visits(next[task])
       /\ task \notin Visits(next[task])
  <2>1. Visits(task)' = Visits(next[task])
    BY <1>2 DEF Visits
  <2>2. Visits(task) = {task} \union Visits(next[task])
    BY <1>3, WalkedStep
  <2>3. QED
    BY <1>1, <1>2, <2>1, <2>2, SameList DEF Acyclic
<1>11. CursorLinked' /\ Acyclic'
  BY <1>1, <1>2, <1>3, <1>10 DEF CursorLinked, Acyclic
<1>12. CallUnderWay'
  <2>1. pc # "idle" => counter'[arg] = counter[arg]
    BY <1>1, <1>7 DEF CallUnderWay, TypeOK
  <2>2. QED
    BY <1>1, <1>2, <1>10, <2>1 DEF CallUnderWay
<1>13. OnTime'
  <2> SUFFICES ASSUME NEW t \in Linked
               PROVE  /\ counter'[t] >= 1
                      /\ since'[t] + counter'[t] =
                             interval[t] + (IF t \in Visits(next[task]) THEN 1 ELSE 0)
    BY <1>2, <1>10 DEF OnTime
  <2>1. CASE t = task
    <3>1. counter'[t] = count /\ since'[t] = waited
      BY <1>1, <1>3, <1>7, <1>8, <2>1 DEF TypeOK
    <3>2. QED
      BY <1>4, <1>6, <1>10, <2>1, <3>1
  <2>2. CASE t # task
    <3>1. counter'[t] = counter[t] /\ since'[t] = since[t]
      BY <1>1, <1>3, <1>7, <1>8, <2>2 DEF TypeOK
    <3>2. QED
      BY <1>1, <1>10, <2>2, <3>1 DEF OnTime
  <2>3. QED
    BY <2>1, <2>2
<1>14. QED
  BY <1>9, <1>11, <1>12, <1>13 DEF IInv

LEMMA NextIInv == IInv /\ [Next]_vars => IInv'
<1> SUFFICES ASSUME IInv, [Next]_vars PROVE IInv'
  OBVIOUS
<1>1. CASE \/ \E t \in Tasks : CallAdd(t)
           \/ SetCounter \/ AddBehind \/ Walk
  BY <1>1, CallStep
<1>2. CASE AddFirst \/ Link
  BY <1>2, AddStep
<1>3. CASE \E t \in Tasks : RemoveTask(t)
  BY <1>3, RemoveStep
<1>4. CASE TickBegin
  BY <1>4, TickBeginStep
<1>5. CASE TickTask
  BY <1>5, TickTaskStep
<1>6. CASE UNCHANGED vars
  BY <1>6 DEF vars, IInv, TypeOK, CursorLinked, Acyclic, CallUnderWay, OnTime, Linked, Visits
<1>7. QED
  BY <1>1, <1>2, <1>3, <1>4, <1>5, <1>6 DEF Next

-----------------------------------------------------------------------------
(* Whatever kernel_main adds and removes and whenever the ticks come: the  *)
(* list stays a list, and every linked task keeps the ticks it has to go.  *)
THEOREM TimerInvariant == Spec => []IInv
BY InitIInv, NextIInv, PTL DEF Spec

(* Every variable of ktimer.c keeps its type; no counter wraps.            *)
THEOREM TimerTypeOK == Spec => []TypeOK
<1>1. IInv => TypeOK
  BY DEF IInv
<1>2. QED
  BY <1>1, TimerInvariant, PTL

(* __ktimer_tick reaches every task of the list in time: none waits for    *)
(* more ticks than its interval.                                           *)
THEOREM TasksNeverLate == Spec => []NeverLate
<1>1. IInv => NeverLate
  <2> SUFFICES ASSUME IInv, NEW t \in Linked PROVE since[t] <= interval[t]
    BY DEF NeverLate
  <2>1. /\ counter[t] >= 1
        /\ since[t] + counter[t] = interval[t] + (IF t \in Visits(task) THEN 1 ELSE 0)
    BY DEF IInv, OnTime
  <2>2. t \in Tasks /\ since[t] \in Nat /\ counter[t] \in Int /\ interval[t] \in Int
    BY ListFacts, WordAssumption DEF IInv, TypeOK
  <2>3. QED
    BY <2>1, <2>2
<1>2. QED
  BY <1>1, TimerInvariant, PTL

(* A task that __ktimer_tick runs has waited for its whole interval.       *)
THEOREM TasksNeverEarly == Spec => NeverEarly
<1>1. IInv => \A t \in Tasks : Runs(t) => since[t] = interval[t]
  <2> SUFFICES ASSUME IInv, NEW t \in Tasks, Runs(t) PROVE since[t] = interval[t]
    OBVIOUS
  <2>1. task = t /\ Down(counter[t]) = 0
    BY DEF Runs
  <2>2. t \in Linked /\ t \in Visits(task)
    <3>1. t \in Linked /\ TypeOK
      BY <2>1, TasksAssumption DEF IInv, CursorLinked
    <3>2. QED
      BY <2>1, <3>1, ListFacts, WalkedStep
  <2>3. counter[t] >= 1 /\ since[t] + counter[t] = interval[t] + 1
    BY <2>2 DEF IInv, OnTime
  <2>4. /\ counter[t] \in 1 .. MaxInterval /\ since[t] \in Nat /\ interval[t] \in Int
    BY <2>3, WordAssumption DEF IInv, TypeOK
  <2>5. counter[t] - 1 = 0
    BY <2>1, <2>4, CountsDown
  <2>6. QED
    BY <2>3, <2>4, <2>5, WordAssumption
<1>2. QED
  BY <1>1, TimerInvariant, PTL DEF NeverEarly

(* ktimer_add_task keeps every task on the list, and ktimer_remove_task    *)
(* takes off no more than the head.                                        *)
THEOREM OthersKept == Spec => OthersStayLinked
<1>1. ASSUME IInv, [Next]_vars
      PROVE  [\A t \in Linked \ Linked' : t = root /\ root' = next[t]]_vars
  <2>1. CASE AddFirst \/ Link
    BY <1>1, <2>1, AddStep
  <2>2. CASE \E t \in Tasks : RemoveTask(t)
    BY <1>1, <2>2, RemoveStep
  <2>3. CASE \/ \E t \in Tasks : CallAdd(t)
             \/ SetCounter \/ AddBehind \/ Walk \/ TickBegin \/ TickTask
    <3>1. UNCHANGED << root, next >>
      BY <2>3 DEF CallAdd, SetCounter, AddBehind, Walk, TickBegin, TickTask
    <3>2. Linked' = Linked
      BY <3>1, SameList
    <3>3. QED
      BY <3>2
  <2>4. CASE UNCHANGED vars
    BY <2>4
  <2>5. QED
    BY <1>1, <2>1, <2>2, <2>3, <2>4 DEF Next
<1>2. QED
  BY <1>1, TimerInvariant, PTL DEF Spec, OthersStayLinked

=============================================================================
