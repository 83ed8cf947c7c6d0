------------------------------- MODULE MemoryPool ------------------------------
(* The pool of memory_pool.c: lists of blocks of three sizes, of which the     *)
(* first free one that is large enough by its class is handed out, with        *)
(* malloc() where the class has none and free() for what is no block of the    *)
(* class.  Each function locks the pool from its search to its mark, so that a *)
(* call is one step.                                                           *)
EXTENDS Integers, Sequences, FiniteSets, FiniteSetsExt

CONSTANTS
  BlockSize,   \* the size of the blocks of each class, ascending (POOL_..._SIZE)
  BlockCount   \* how many there are (POOL_..._COUNT)

ASSUME PoolAssumption == /\ BlockSize \in Seq(Nat) /\ BlockCount \in Seq(Nat)
                         /\ Len(BlockSize) = Len(BlockCount)

Heap == 0       \* in the place of the class of what malloc() returned
Blocks == UNION {{class} \X (1..BlockCount[class]) : class \in DOMAIN BlockSize}

\* The class that a size is looked up in; there may be none.
ClassesFor(size) == {class \in DOMAIN BlockSize : size <= BlockSize[class]}
BlocksFor(size) == {b \in Blocks : ClassesFor(size) # {} /\ b[1] = Min(ClassesFor(size))}

VARIABLES
  pool,    \* "live", "destroyed" (global_pool dangles) or "none" (it is NULL)
  inUse,   \* the blocks marked as used
  heap,    \* what malloc() has returned and nobody has freed
  active,  \* allocations - deallocations, as mp_stats prints it
  process  \* "up", "faulty" after a use of its memory that is undefined, or
           \* "corrupt" after one of other memory

memory == <<pool, inUse, heap, active, process>>

MPInit == pool = "live" /\ inUse = {} /\ heap = {} /\ active = 0 /\ process = "up"

\* A use of freed memory, or a second free: what follows is not described, nor what
\* follows a use of other memory that may be noticed.
Fault == process' = "faulty" /\ UNCHANGED <<pool, inUse, heap, active>>
MayCorrupt == process' \in {process, "corrupt"} /\ UNCHANGED <<pool, inUse, heap, active>>

Malloc(ptr) == heap' = heap \cup {ptr} /\ UNCHANGED <<pool, inUse, active, process>>

Free(ptr) == IF ptr \in heap THEN heap' = heap \ {ptr} /\ UNCHANGED <<pool, inUse, active, process>>
                             ELSE Fault
--------------------------------------------------------------------------------
FreeBlocks(size) == BlocksFor(size) \ inUse

\* What mp_alloc, or malloc without a pool, returns; fresh is what malloc would.
Allocated(size, fresh) ==
  IF pool = "live" /\ FreeBlocks(size) # {}
  THEN CHOOSE b \in FreeBlocks(size) : \A other \in FreeBlocks(size) : b[2] <= other[2]
  ELSE fresh

\* mp_alloc
Alloc(ptr) ==
  IF pool = "destroyed" THEN Fault
  ELSE IF ptr \in Blocks THEN /\ inUse' = inUse \cup {ptr} /\ active' = active + 1
                              /\ UNCHANGED <<pool, heap, process>>
  ELSE Malloc(ptr)

\* mp_free, or free without a pool: the blocks of the class of the given size are
\* searched for the pointer, and what is not found among them is passed to free().
Release(ptr, size) ==
  IF pool = "destroyed" THEN Fault
  ELSE IF pool = "live" /\ ptr \in BlocksFor(size)
       THEN /\ inUse' = inUse \ {ptr} /\ active' = active - 1
            /\ UNCHANGED <<pool, heap, process>>
  ELSE Free(ptr)

\* mp_destroy, and the pointer to the pool
Destroy == pool' = "destroyed" /\ inUse' = {} /\ UNCHANGED <<heap, active, process>>
Forget == pool' = "none" /\ UNCHANGED <<inUse, heap, active, process>>
--------------------------------------------------------------------------------
MPTypeOK ==
  /\ pool \in {"live", "destroyed", "none"} /\ process \in {"up", "faulty", "corrupt"}
  /\ inUse \subseteq Blocks /\ active \in Int
================================================================================
