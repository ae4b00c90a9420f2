-------------------------------- MODULE Ktimer --------------------------------
(***************************************************************************)
(* The timer tasks: ktimer.c's list, changed by kernel_main while the      *)
(* interrupt of the timer walks it.  ktimer_add_task and                   *)
(* ktimer_remove_task run with interrupts on and take no lock; a tick      *)
(* (__pit_tick, __ktimer_tick) may come between any two of their accesses  *)
(* to the list, and runs to its end, since no other handler is entered     *)
(* before its end-of-interrupt (module Interrupts, OneInService).          *)
(***************************************************************************)
EXTENDS Integers, FiniteSets

CONSTANTS
    Tasks,          \* the timer_task structures of the kernel
    NULL,           \* the null pointer
    MaxInterval,    \* bound: the longest interval a task may have
    Word            \* 2^32: counters are unsigned and wrap

ASSUME TasksAssumption == IsFiniteSet(Tasks) /\ NULL \notin Tasks
ASSUME WordAssumption ==
    {MaxInterval, Word} \subseteq Nat \ {0} /\ MaxInterval < Word - 1

VARIABLES
    root,           \* head of the list
    next, counter, interval,    \* the fields of every task
    pc, arg, i,     \* kernel_main: its call in progress, its argument, its cursor
    task,           \* the tick in progress: its cursor, NULL when there is none
    since           \* ghost: ticks since a task was linked or last ran

vars == << root, next, counter, interval, pc, arg, i, task, since >>
main == << pc, arg, i >>

(* The statically initialised tasks, none of them on the list. *)
Init ==
    /\ root = NULL
    /\ next = [t \in Tasks |-> NULL]
    /\ counter = [t \in Tasks |-> 0]
    /\ interval \in [Tasks -> 1 .. MaxInterval]
    /\ pc = "idle"
    /\ arg = NULL
    /\ i = NULL
    /\ task = NULL
    /\ since = [t \in Tasks |-> 0]

(* The tasks a walk from t visits: those in every set that holds t, unless *)
(* it is null, and the successor of each of its members.                   *)
Visits(t) ==
    {u \in Tasks :
        \A S \in SUBSET Tasks :
            (t \in S \union {NULL} /\ \A v \in S : next[v] \in S \union {NULL}) => u \in S}

Linked == Visits(root)

-----------------------------------------------------------------------------
(* kernel_main runs only while no tick does. *)
MainAt(p) == task = NULL /\ pc = p

Return ==
    /\ pc' = "idle"
    /\ arg' = NULL
    /\ i' = NULL

(* ktimer_add_task.  Nothing resets `next`: a task may be added when it is *)
(* not on the list and does not point into it any more.                    *)
Addable(t) == t \notin Linked /\ next[t] = NULL

CallAdd(t) ==
    /\ MainAt("idle")
    /\ Addable(t)
    /\ pc' = "counter"
    /\ arg' = t
    /\ UNCHANGED << root, next, counter, interval, i, task, since >>

SetCounter_Mutant ==
    /\ MainAt("counter")
    /\ pc' = "test"
    /\ UNCHANGED << root, next, counter, interval, arg, i, task, since >>

SetCounter ==
    /\ MainAt("counter")
    /\ counter' = [counter EXCEPT ![arg] = interval[arg]]
    /\ pc' = "test"
    /\ UNCHANGED << root, next, interval, arg, i, task, since >>

AddFirst ==
    /\ MainAt("test")
    /\ root = NULL
    /\ root' = arg
    /\ since' = [since EXCEPT ![arg] = 0]
    /\ Return
    /\ UNCHANGED << next, counter, interval, task >>

AddBehind ==
    /\ MainAt("test")
    /\ root # NULL
    /\ i' = root
    /\ pc' = "walk"
    /\ UNCHANGED << root, next, counter, interval, arg, task, since >>

Walk ==
    /\ MainAt("walk")
    /\ next[i] # NULL
    /\ i' = next[i]
    /\ UNCHANGED << root, next, counter, interval, pc, arg, task, since >>

Link_Mutant ==
    /\ MainAt("walk")
    /\ next' = [next EXCEPT ![i] = arg]
    /\ since' = [since EXCEPT ![arg] = 0]
    /\ Return
    /\ UNCHANGED << root, counter, interval, task >>

Link ==
    /\ MainAt("walk")
    /\ next[i] = NULL
    /\ next' = [next EXCEPT ![i] = arg]
    /\ since' = [since EXCEPT ![arg] = 0]
    /\ Return
    /\ UNCHANGED << root, counter, interval, task >>

(* ktimer_remove_task of a list that is not empty (the walk of an empty    *)
(* one starts at the null pointer).  The walk compares a local `task`,     *)
(* which hides the parameter, with its own successor: a task behind the    *)
(* head is never found and stays linked.                                   *)
RemoveTask(t) ==
    /\ MainAt("idle")
    /\ root # NULL
    /\ root' = IF root = t THEN next[root] ELSE root
    /\ UNCHANGED << next, counter, interval, main, task, since >>

-----------------------------------------------------------------------------
(* __ktimer_tick: the interrupt, and one step for each task.               *)
TickBegin ==
    /\ task = NULL
    /\ task' = root
    /\ since' = [t \in Tasks |-> IF t \in Linked THEN since[t] + 1 ELSE since[t]]
    /\ UNCHANGED << root, next, counter, interval, main >>

Down(n) == (n - 1) % Word

Runs(t) == task = t /\ Down(counter[t]) = 0

TickTask_BreakMutant ==
    /\ task # NULL
    /\ counter' = [counter EXCEPT ![task] =
                       IF Runs(task) THEN interval[task] ELSE Down(counter[task])]
    /\ since' = IF Runs(task) THEN [since EXCEPT ![task] = 0] ELSE since
    /\ task' = IF Runs(task) THEN NULL ELSE next[task]
    /\ UNCHANGED << root, next, interval, main >>

TickTask_StayMutant ==
    /\ task # NULL
    /\ counter' = [counter EXCEPT ![task] =
                       IF Runs(task) THEN interval[task] ELSE Down(counter[task])]
    /\ since' = IF Runs(task) THEN [since EXCEPT ![task] = 0] ELSE since
    /\ task' = IF Runs(task) THEN task ELSE next[task]
    /\ UNCHANGED << root, next, interval, main >>

TickTask ==
    /\ task # NULL
    /\ counter' = [counter EXCEPT ![task] =
                       IF Runs(task) THEN interval[task] ELSE Down(counter[task])]
    /\ since' = IF Runs(task) THEN [since EXCEPT ![task] = 0] ELSE since
    /\ task' = next[task]
    /\ UNCHANGED << root, next, interval, main >>

Next ==
    \/ \E t \in Tasks : CallAdd(t)
    \/ SetCounter \/ AddFirst \/ AddBehind \/ Walk \/ Link
    \/ \E t \in Tasks : RemoveTask(t)
    \/ TickBegin
    \/ TickTask

Spec == Init /\ [][Next]_vars

(* A handler that has been entered goes on. *)
FairSpec == Spec /\ WF_vars(TickTask)

-----------------------------------------------------------------------------
TypeOK ==
    /\ root \in Tasks \union {NULL}
    /\ next \in [Tasks -> Tasks \union {NULL}]
    /\ counter \in [Tasks -> 0 .. MaxInterval]
    /\ interval \in [Tasks -> 1 .. MaxInterval]
    /\ pc \in {"idle", "counter", "test", "walk"}
    /\ arg \in Tasks \union {NULL}
    /\ i \in Tasks \union {NULL}
    /\ task \in Tasks \union {NULL}
    /\ since \in [Tasks -> Nat]

(* "Interval in milliseconds": no task waits for more ticks than its       *)
(* interval, whatever is added or removed while it waits ...               *)
NeverLate == \A t \in Linked : since[t] <= interval[t]

(* ... and none runs before its interval is over. *)
NeverEarly == [][\A t \in Tasks : Runs(t) => since[t] = interval[t]]_vars

(* A task leaves the list only as its head, and its successor takes its    *)
(* place: an addition a tick interrupts, or one behind others, drops       *)
(* nobody.                                                                 *)
OthersStayLinked ==
    [][\A t \in Linked \ Linked' : t = root /\ root' = next[t]]_vars

(* Every tick ends: the list never closes on itself.                       *)
TicksEnd == task # NULL ~> task = NULL
=============================================================================
