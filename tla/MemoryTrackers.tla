--------------------------- MODULE MemoryTrackers ---------------------------
(***************************************************************************)
(* SystemAllocator (memory/allocator.cpp) over malloc and mmap, with its   *)
(* MemoryTracker (memory/memory_tracker.cpp), a hash table of the          *)
(* allocations that are alive. rep.heap is what malloc and mmap keep: the  *)
(* size at an address and whether it is mapped; the rest is the            *)
(* allocator's. ref.tracked is what a tracker ought to report.             *)
(***************************************************************************)
EXTENDS Integers, FiniteSets, Functions

CONSTANTS Addresses, LastAddress, Buckets, BucketSlots, PageSize, MaxSize, MallocSizeKnown, MaxCount
VARIABLES rep, ref, fault

vars == <<rep, ref, fault>>

Hole == 0
NoMemory == [size |-> 0, mapped |-> FALSE]

(* ensure_init: the table as mmap and memset leave it.                      *)
EmptyTable == [b \in 0 .. Buckets - 1 |-> [i \in 1 .. BucketSlots |-> Hole]]

Init ==
    /\ rep = [heap |-> [a \in Addresses |-> NoMemory], usage |-> 0, impl |-> FALSE, table |-> EmptyTable,
              live |-> 0, is_tracking |-> FALSE, is_paused |-> FALSE]
    /\ ref = [tracked |-> {}]
    /\ fault = "none"

get_bucket_for_address(a) == a % Buckets
Slots(r, a) == r.table[get_bucket_for_address(a)]
Entries(r) == (UNION {Range(r.table[b]) : b \in DOMAIN r.table}) \ {Hole}
Recording(r) == r.impl /\ r.is_tracking /\ ~r.is_paused

(* The first slot that is a hole or has the address; none in a full bucket. *)
Fitting(r, a) == {i \in 1 .. BucketSlots : Slots(r, a)[i] \in {Hole, a}}

track_allocation(r, a) ==
    LET i == CHOOSE i \in Fitting(r, a) : \A j \in Fitting(r, a) : i <= j
    IN  IF ~Recording(r) \/ Fitting(r, a) = {} THEN r
        ELSE [r EXCEPT !.table[get_bucket_for_address(a)][i] = a,
                       !.live = IF Slots(r, a)[i] = Hole THEN r.live + 1 ELSE r.live]

track_free(r, a) ==
    LET found == {i \in 1 .. BucketSlots : Slots(r, a)[i] = a}
        i     == CHOOSE i \in found : \A j \in found : i <= j
    IN  IF a = Hole \/ ~Recording(r) \/ found = {} THEN r
        ELSE [r EXCEPT !.table[get_bucket_for_address(a)][i] = Hole, !.live = r.live - 1]

start(r) == [r EXCEPT !.impl = TRUE, !.is_tracking = TRUE, !.is_paused = FALSE,
                      !.table = IF r.is_paused THEN r.table ELSE EmptyTable]
pause(r) == [r EXCEPT !.is_paused = r.impl]
unpause(r) == [r EXCEPT !.is_paused = FALSE]
stop(r) == [r EXCEPT !.is_tracking = FALSE, !.is_paused = FALSE]

(* get_results, in the order of the table.                                  *)
get_results(r) == IF r.impl THEN Entries(r) ELSE {}

get_allocation(r, a) == a \in Range(Slots(r, a))

-----------------------------------------------------------------------------
(* The C library. malloc_size is not known on every platform.               *)
Free(r) == {a \in Addresses : r.heap[a] = NoMemory}
system_alloc_size(r, a) == IF MallocSizeKnown /\ a # Hole THEN r.heap[a].size ELSE 0
system_alloc(r, a, size) == [r EXCEPT !.heap[a] = [size |-> size, mapped |-> FALSE]]
system_free(r, a) == [r EXCEPT !.heap = [x \in Addresses |-> IF x = a THEN NoMemory ELSE @[x]]]

Pages(nbytes) == PageSize * ((nbytes + PageSize - 1) \div PageSize)
system_alloc_large(r, a, size) == [r EXCEPT !.heap[a] = [size |-> size, mapped |-> TRUE]]

IsFull(r, a) == Recording(r) /\ Fitting(r, a) = {}

RefAllocated(tracked, a) == ref' = [tracked |-> IF Recording(rep) THEN tracked \cup {a} ELSE tracked \ {a}]

(* Nothing is recorded while the tracker is paused, the frees of what it    *)
(* recorded before included.                                                *)
FreeIsLost(a) == rep.is_tracking /\ rep.is_paused /\ a \in Entries(rep)

(* The tracking of an allocation at a that took the place of old.           *)
Track(r, a, old) ==
    /\ rep' = track_allocation(r, a)
    /\ RefAllocated(ref.tracked \ {old}, a)
    /\ fault' = CASE IsFull(r, a)    -> "bucket is full"
                  [] FreeIsLost(old) -> "free while paused"
                  [] OTHER           -> fault

allocate ==
    \E size \in 1 .. MaxSize, a \in Free(rep) :
      LET r == system_alloc(rep, a, size)
      IN  Track([r EXCEPT !.usage = @ + system_alloc_size(r, a)], a, Hole)

(* Of a block or of null, in place or elsewhere. A failure is thrown when   *)
(* the old block is already off the books, though it lives on.              *)
reallocate ==
    \E old \in {a \in Addresses : ~rep.heap[a].mapped /\ rep.heap[a].size > 0} \cup {Hole} :
      LET off == track_free([rep EXCEPT !.usage = @ - system_alloc_size(rep, old)], old)
      IN  \/ \E size \in 1 .. MaxSize, a \in Free(rep) \cup ({old} \ {Hole}) :
               LET r == system_alloc(system_free(off, old), a, size)
               IN  Track([r EXCEPT !.usage = @ + system_alloc_size(r, a)], a, old)
          \/ /\ rep' = off /\ fault' = "out of memory" /\ UNCHANGED ref

free ==
    \E a \in {a \in Addresses : ~rep.heap[a].mapped /\ rep.heap[a].size > 0} :
      /\ rep' = system_free(track_free([rep EXCEPT !.usage = @ - system_alloc_size(rep, a)], a), a)
      /\ ref' = [tracked |-> ref.tracked \ {a}]
      /\ fault' = IF FreeIsLost(a) THEN "free while paused" ELSE fault

allocate_large ==
    \E nbytes \in 1 .. MaxSize, a \in Free(rep) :
      LET actual == Pages(nbytes)
      IN  Track([system_alloc_large(rep, a, actual) EXCEPT !.usage = @ + actual], a, Hole)

free_large ==
    \E a \in {a \in Addresses : rep.heap[a].mapped} :
      /\ rep' = track_free(system_free([rep EXCEPT !.usage = @ - rep.heap[a].size], a), a)
      /\ ref' = [tracked |-> ref.tracked \ {a}]
      /\ fault' = IF FreeIsLost(a) THEN "free while paused" ELSE fault

-----------------------------------------------------------------------------
(* Started while paused, tracking goes on with the table it had, the table  *)
(* of a session that was finished long ago too.                             *)
start_allocation_tracking ==
    /\ rep.live < MaxCount
    /\ rep' = start(rep)
    /\ ref' = IF rep.is_paused THEN ref ELSE [tracked |-> {}]
    /\ fault' = IF rep.is_paused /\ ~rep.is_tracking THEN "resumed a finished session" ELSE fault

pause_allocation_tracking == rep' = pause(rep) /\ UNCHANGED <<ref, fault>>
unpause_allocation_tracking == rep' = unpause(rep) /\ UNCHANGED <<ref, fault>>

(* finish_allocation_tracking: ref forgets what was reported.               *)
finish_allocation_tracking ==
    /\ rep' = stop(rep)
    /\ ref' = [tracked |-> {}]
    /\ UNCHANGED fault

(* display_backtrace_for_allocation does not ask whether there is a table.  *)
display_backtrace_for_allocation ==
    /\ ~rep.impl
    /\ fault' = "null dereference" /\ UNCHANGED <<rep, ref>>

Next ==
    /\ fault = "none"
    /\ \/ allocate \/ reallocate \/ free \/ allocate_large \/ free_large
       \/ start_allocation_tracking \/ pause_allocation_tracking \/ unpause_allocation_tracking
       \/ finish_allocation_tracking \/ display_backtrace_for_allocation

Spec == Init /\ [][Next]_vars

-----------------------------------------------------------------------------
(* What the blocks at all addresses take, up to the last one.              *)
Weight(block) == IF block.mapped \/ MallocSizeKnown THEN block.size ELSE 0
Sizes(r) ==
    LET weight == [a \in Addresses |-> Weight(r.heap[a])]
        upto[n \in 0 .. LastAddress] ==
            IF n = 0 THEN 0
            ELSE IF n \in Addresses THEN upto[n - 1] + weight[n] ELSE upto[n - 1]
    IN  upto[LastAddress]

(* The counts agree with what they count: usage is the memory in use, and   *)
(* the counter of allocations, which start does not reset, never falls      *)
(* below the number of entries, so that its ASSERT holds.                   *)
ObjectsSound ==
    fault = "none" =>
      /\ rep.usage = Sizes(rep)
      /\ Cardinality(Entries(rep)) <= rep.live
      /\ \A b \in DOMAIN rep.table : \A i, j \in 1 .. BucketSlots :
            rep.table[b][i] = rep.table[b][j] /\ rep.table[b][i] # Hole => i = j

(* While it is tracking, the tracker has exactly the allocations that were  *)
(* made under its eyes and are alive.                                       *)
Represents ==
    fault = "none" /\ rep.is_tracking =>
        /\ get_results(rep) = ref.tracked
        /\ \A a \in Addresses : get_allocation(rep, a) <=> a \in ref.tracked
=============================================================================
