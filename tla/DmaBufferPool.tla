--------------------------- MODULE DmaBufferPool ---------------------------
(***************************************************************************)
(* A pool of DMA buffers (src/core/memory/DmaBufferPool.cpp) as a value:   *)
(* the state of the pool and the slots that are inUse. init() has          *)
(* succeeded: the users of a pool refuse to start without it, and reset()  *)
(* runs only in the destructor.                                            *)
(***************************************************************************)
EXTENDS Naturals

CONSTANT PoolSize

ASSUME PoolSizeAssumption == PoolSize \in Nat \ {0}

Outputs == 1 .. PoolSize

Pools == [state : {"Ready", "Busy"}, inUse : SUBSET Outputs]

NewPool == [state |-> "Ready", inUse |-> {}]

(* updateStateAfterSlotChangeLocked()                                      *)
PoolOf(used) ==
    [state |-> IF used = Outputs THEN "Busy" ELSE "Ready", inUse |-> used]

(* acquireFrame() looks at the slots, not at the state, of a pool that is  *)
(* Ready or Busy. It fails on a pool without a free slot.                  *)
CanAcquire(pool) == pool.inUse # Outputs

IsFirstFree(pool, o) ==
    o \notin pool.inUse /\ \A p \in Outputs : p < o => p \in pool.inUse

Acquired(pool, o) == PoolOf(pool.inUse \cup {o})

AcquireFailed(pool) == [pool EXCEPT !.state = "Busy"]

(* releaseFrame(). A second release is refused.                            *)
Released(pool, o) ==
    IF o \in pool.inUse THEN PoolOf(pool.inUse \ {o}) ELSE pool
=============================================================================
