------------------------------ MODULE SlabPool ------------------------------
(***************************************************************************)
(* The process-wide pool of buffer slabs (core/src/slab_pool.cpp).  Shard  *)
(* threads acquire and release slabs under one mutex, except that a fresh  *)
(* slab is reserved under the mutex and allocated outside it; a failed     *)
(* allocation takes the mutex again and gives the reservation back.        *)
(***************************************************************************)
EXTENDS Integers, FiniteSets

CONSTANTS
  Threads,
  Leases,     \* the SlabLease objects there can be
  slabSize,   \* options.slab_size_bytes
  maxTotal    \* options.max_total_bytes

\* What Create insists on.
ASSUME SizeAssumption == slabSize \in Nat \ {0}
ASSUME TotalAssumption == maxTotal \in Nat /\ maxTotal >= slabSize

VARIABLES
  freeSlabs,       \* size of free_slabs
  allocatedBytes,  \* allocated_bytes
  leasedSlabs,     \* leased_slabs
  allocating,      \* threads between reserving a slab and having its memory
  leases           \* SlabLease objects that own a slab

vars == <<freeSlabs, allocatedBytes, leasedSlabs, allocating, leases>>

\* The capacity Create reserves for free_slabs.
MaxSlabs == maxTotal \div slabSize

TypeOK ==
  /\ freeSlabs \in Nat
  /\ allocatedBytes \in Nat
  /\ leasedSlabs \in Nat
  /\ allocating \subseteq Threads /\ IsFiniteSet(allocating)
  /\ leases \subseteq Leases /\ IsFiniteSet(leases)

Init ==
  /\ freeSlabs = 0 /\ allocatedBytes = 0 /\ leasedSlabs = 0
  /\ allocating = {} /\ leases = {}

-----------------------------------------------------------------------------
NewLease == \E lease \in Leases \ leases : leases' = leases \cup {lease}

\* Acquire hands out a free slab if there is one...
AcquireFree(t) ==
  /\ t \notin allocating
  /\ freeSlabs > 0
  /\ freeSlabs' = freeSlabs - 1
  /\ leasedSlabs' = leasedSlabs + 1
  /\ NewLease
  /\ UNCHANGED <<allocatedBytes, allocating>>

\* Mutation of Fits: the limit is checked before the slab is added.
FitsBefore == allocatedBytes < maxTotal

Fits == allocatedBytes + slabSize <= maxTotal

\* ... reserves a fresh one while the cap allows it, and refuses otherwise.
Reserve(t) ==
  /\ t \notin allocating
  /\ freeSlabs = 0
  /\ Fits
  /\ allocatedBytes' = allocatedBytes + slabSize
  /\ leasedSlabs' = leasedSlabs + 1
  /\ allocating' = allocating \cup {t}
  /\ UNCHANGED <<freeSlabs, leases>>

AllocationSucceeds(t) ==
  /\ t \in allocating
  /\ allocating' = allocating \ {t}
  /\ NewLease
  /\ UNCHANGED <<freeSlabs, allocatedBytes, leasedSlabs>>

\* Mutation of GiveBack: the bytes stay accounted for.
GiveBackLeaseOnly ==
  leasedSlabs' = leasedSlabs - 1 /\ UNCHANGED allocatedBytes

GiveBack ==
  leasedSlabs' = leasedSlabs - 1 /\ allocatedBytes' = allocatedBytes - slabSize

AllocationFails(t) ==
  /\ t \in allocating
  /\ allocating' = allocating \ {t}
  /\ GiveBack
  /\ UNCHANGED <<freeSlabs, leases>>

\* SlabLease::Release, by whichever thread lets go of the lease.
Release ==
  /\ \E lease \in leases : leases' = leases \ {lease}
  /\ freeSlabs' = freeSlabs + 1
  /\ leasedSlabs' = leasedSlabs - 1
  /\ UNCHANGED <<allocatedBytes, allocating>>

Next ==
  \/ \E t \in Threads :
       AcquireFree(t) \/ Reserve(t) \/ AllocationSucceeds(t) \/ AllocationFails(t)
  \/ Release

Spec == Init /\ [][Next]_vars

-----------------------------------------------------------------------------
\* The gauges agree whenever the mutex is free: every allocated byte belongs to
\* a slab that is free or leased, also while a reserved slab is being allocated
\* and after an allocation failed (slab_pool.cpp:53-80).
Accounting == allocatedBytes = slabSize * (freeSlabs + leasedSlabs)

\* The pool never grows past its cap, so the subtraction in CanLease does not
\* wrap (slab_pool.cpp:84-85).
WithinCap == allocatedBytes <= maxTotal

\* Release can never make free_slabs allocate: all slabs together fit in the
\* capacity Create reserved (slab_pool.cpp:26-28).
FreeListFits == freeSlabs + leasedSlabs <= MaxSlabs

\* leased_slabs counts the leases that exist and the slabs being allocated, so
\* no lease is lost or counted twice (slab_pool.cpp:29-39, 66, 75).
LeasesCounted == leasedSlabs = Cardinality(leases) + Cardinality(allocating)
=============================================================================
