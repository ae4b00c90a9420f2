----------------------------- MODULE ExtentPool -----------------------------
(***************************************************************************)
(* What an allocator of memory promises: a pool of PoolSize units of which *)
(* clients hold extents.  An extent handed out lies in the pool and shares *)
(* nothing with an extent somebody still holds; what is freed can be       *)
(* handed out again.  An allocation may fail, which changes nothing.       *)
(*                                                                         *)
(* The units are pages for kmem_liballoc_alloc and kmem_liballoc_free      *)
(* (module PageAlloc) and bytes for kmem_malloc and kmem_free (module      *)
(* Liballoc).  They are numbered from 1: 0 is the null pointer.            *)
(***************************************************************************)
EXTENDS Integers

CONSTANT PoolSize

VARIABLE held   \* the extents clients hold

(* A run of `size` units that starts at `ptr`. *)
Extents == [ptr : 1 .. PoolSize, size : 1 .. PoolSize]

(* The first unit after an extent. *)
End(e) == e.ptr + e.size

InHeap(e) == e.ptr >= 1 /\ e.size >= 1 /\ End(e) <= PoolSize + 1

Disjoint(e, f) == End(e) <= f.ptr \/ End(f) <= e.ptr

UnitsOf(e) == e.ptr .. (End(e) - 1)

Init == held = {}

(* A call that returns the extent e. *)
Alloc(e) ==
    /\ InHeap(e)
    /\ \A f \in held : Disjoint(e, f)
    /\ held' = held \union {e}

(* A call that gives back exactly an extent obtained earlier. *)
Free(e) ==
    /\ e \in held
    /\ held' = held \ {e}

(* (Naming the new extent from held' spares a checker the enumeration of   *)
(* Extents.)                                                               *)
Next ==
    \/ \E e \in held' \ held : Alloc(e)
    \/ \E e \in held : Free(e)

Spec == Init /\ [][Next]_held
=============================================================================
