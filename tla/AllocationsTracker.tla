------------------------- MODULE AllocationsTracker -------------------------
(***************************************************************************)
(* The memory tracker of gpu_prover/src/allocator: AllocationsTracker with *)
(* its two indices of the free blocks, and InnerStaticAllocator and        *)
(* StaticHostAllocator above it, which round lengths up to whole chunks.   *)
(* Every call runs under the allocator's lock (or RefCell), so it is one   *)
(* action.  Pointers are addresses; a backend is a block <<ptr, len>> that *)
(* the tracker was created with.                                           *)
(***************************************************************************)
EXTENDS Integers, Functions

CONSTANTS
    AddressSpace,  \* one past the last address
    Backends,      \* the set of <<ptr, len>> the allocator owns
    ChunkSize,     \* 1 << log_chunk_size
    Sizes          \* the sizes in bytes that callers ask for

\* What InnerStaticAllocator::new asserts, and that the blocks do not overlap.
ASSUME BackendsAssumption ==
    /\ Backends \subseteq Nat \X (Nat \ {0})
    /\ \A b \in Backends : b[1] + b[2] <= AddressSpace /\ b[2] % ChunkSize = 0
    /\ \A b, c \in Backends : b # c => b[1] + b[2] <= c[1] \/ c[1] + c[2] <= b[1]
ASSUME AddressSpaceAssumption == AddressSpace \in Nat
ASSUME ChunkSizeAssumption == ChunkSize \in Nat \ {0}
ASSUME SizesAssumption == Sizes \subseteq Nat \ {0}

VARIABLES
    free_len_by_ptr,   \* the free blocks: their length by address
    free_ptrs_by_len,  \* the same blocks: the addresses by length
    used_mem_current,
    used_mem_peak,
    live               \* the allocations callers hold: [len, alloc_len] by address

vars == <<free_len_by_ptr, free_ptrs_by_len, used_mem_current, used_mem_peak, live>>

Placements == {"BestFit", "Bottom", "Top"}

\* The least and the greatest key of an ordered map.
First(S) == CHOOSE x \in S : \A y \in S : x <= y
Last(S) == CHOOSE x \in S : \A y \in S : y <= x

Bind(f, key, value) == [k \in DOMAIN f \cup {key} |-> IF k = key THEN value ELSE f[k]]

Unbind(f, key) == [k \in DOMAIN f \ {key} |-> f[k]]

Init ==
    /\ free_len_by_ptr = [p \in {b[1] : b \in Backends} |->
                             CHOOSE l \in {b[2] : b \in Backends} : <<p, l>> \in Backends]
    /\ free_ptrs_by_len = [l \in {b[2] : b \in Backends} |->
                              {p \in {b[1] : b \in Backends} : <<p, l>> \in Backends}]
    /\ used_mem_current = 0
    /\ used_mem_peak = 0
    /\ live = <<>>

----------------------------------------------------------------------------
(* The two indices.  A state of them is [by_ptr, by_len]. *)

free_blocks == [by_ptr |-> free_len_by_ptr, by_len |-> free_ptrs_by_len]

\* The entry of a length stays when its last block goes.
remove_block_KeepEmpty(t, ptr) ==
    [by_ptr |-> Unbind(t.by_ptr, ptr),
     by_len |-> [t.by_len EXCEPT ![t.by_ptr[ptr]] = @ \ {ptr}]]

\* A block leaves both indices; a length without blocks has no entry.
remove_block(t, ptr) ==
    LET len == t.by_ptr[ptr]
    IN  [by_ptr |-> Unbind(t.by_ptr, ptr),
         by_len |-> IF t.by_len[len] = {ptr}
                    THEN Unbind(t.by_len, len)
                    ELSE Bind(t.by_len, len, t.by_len[len] \ {ptr})]

insert_block(t, ptr, len) ==
    [by_ptr |-> Bind(t.by_ptr, ptr, len),
     by_len |-> Bind(t.by_len, len,
                     (IF len \in DOMAIN t.by_len THEN t.by_len[len] ELSE {}) \cup {ptr})]

\* The remainder of a block cut at the top starts where the cut block does.
insert_remainder_Offset(t, free_ptr, free_len, len, placement) ==
    IF placement = "Top" THEN insert_block(t, free_ptr, free_len - len)
    ELSE insert_block(t, free_ptr + len, free_len)

\* The free block was taken out; what the allocation leaves of it goes back.
insert_remainder(t, free_ptr, free_len, len, placement) ==
    IF placement = "Top" THEN insert_block(t, free_ptr, free_len - len)
    ELSE insert_block(t, free_ptr + len, free_len - len)

left_of_block(t, free_ptr, free_len, len, placement) ==
    IF free_len = len THEN t ELSE insert_remainder(t, free_ptr, free_len, len, placement)

\* The address that an allocation cut from a free block gets.
allocated_ptr(free_ptr, free_len, len, placement) ==
    IF placement = "Top" THEN free_ptr + (free_len - len) ELSE free_ptr

----------------------------------------------------------------------------
(* Allocation *)

\* The free blocks an allocation may be cut from.
find_free_ptr_by_len(len) == {p \in DOMAIN free_len_by_ptr : free_len_by_ptr[p] >= len}

\* The lengths from lower_bound(Included(len)) on.
lengths_from(len) == {l \in DOMAIN free_ptrs_by_len : l >= len}

\* The block that is cut: for BestFit the lowest of the shortest that fit, else
\* the first or the last that fits.
chosen_block(len, placement) ==
    CASE placement = "BestFit" -> First(free_ptrs_by_len[First(lengths_from(len))])
      [] placement = "Bottom"  -> First(find_free_ptr_by_len(len))
      [] placement = "Top"     -> Last(find_free_ptr_by_len(len))

\* Whether there is a block to cut; BestFit looks into one index, the others
\* into the other.
has_block(len, placement) ==
    IF placement = "BestFit" THEN lengths_from(len) # {}
    ELSE find_free_ptr_by_len(len) # {}

SetFreeBlocks(t) ==
    /\ free_len_by_ptr' = t.by_ptr
    /\ free_ptrs_by_len' = t.by_len

\* alloc of the tracker: cut the chosen block and count the memory.
TrackerAlloc(size, len, placement) ==
    LET free_ptr == chosen_block(len, placement)
        free_len == free_len_by_ptr[free_ptr]
        taken == remove_block(free_blocks, free_ptr)
        ptr == allocated_ptr(free_ptr, free_len, len, placement)
        current == used_mem_current + len
    IN  /\ has_block(len, placement)
        /\ SetFreeBlocks(left_of_block(taken, free_ptr, free_len, len, placement))
        /\ used_mem_current' = current
        /\ used_mem_peak' = IF current > used_mem_peak THEN current ELSE used_mem_peak
        /\ live' = Bind(live, ptr, [len |-> size, alloc_len |-> len])

\* next_multiple_of(1 << log_chunk_size)
next_multiple_of_chunk(len) == ((len + ChunkSize - 1) \div ChunkSize) * ChunkSize

\* InnerStaticAllocator::alloc.
Alloc(size, placement) == TrackerAlloc(size, next_multiple_of_chunk(size), placement)

\* The allocation fails and changes nothing.
AllocFails(size, placement) ==
    /\ ~has_block(next_multiple_of_chunk(size), placement)
    /\ UNCHANGED vars

----------------------------------------------------------------------------
(* Deallocation *)

\* The backend that binary_search finds for an address.
backend_of(ptr) ==
    LET base == Last({b[1] : b \in {c \in Backends : c[1] <= ptr}})
    IN  CHOOSE b \in Backends : b[1] = base

next_free(ptr) == {p \in DOMAIN free_len_by_ptr : p >= ptr}
prev_free(ptr) == {p \in DOMAIN free_len_by_ptr : p < ptr}

\* The asserts of free: within a backend, and not free already.
free_checks(ptr, len) ==
    /\ len # 0
    /\ {b \in Backends : b[1] <= ptr} # {}
    /\ ptr + len <= backend_of(ptr)[1] + backend_of(ptr)[2]
    /\ next_free(ptr) # {} => First(next_free(ptr)) - ptr >= len
    /\ prev_free(ptr) # {} =>
          LET prev == Last(prev_free(ptr)) IN ptr - prev >= free_len_by_ptr[prev]

\* Merging does not stop at the end of a backend.
merges_next_Always(ptr, len) ==
    /\ next_free(ptr) # {}
    /\ First(next_free(ptr)) = ptr + len

\* The free block behind the freed one is merged with it, unless the freed one
\* ends its backend.
merges_next(ptr, len) ==
    /\ next_free(ptr) # {}
    /\ First(next_free(ptr)) = ptr + len
    /\ ptr + len # backend_of(ptr)[1] + backend_of(ptr)[2]

\* The block in front is never merged.
merges_prev_Never(ptr) == FALSE

\* The same for the block in front, unless the freed one begins its backend.
merges_prev(ptr) ==
    /\ prev_free(ptr) # {}
    /\ LET prev == Last(prev_free(ptr)) IN prev + free_len_by_ptr[prev] = ptr
    /\ ptr # backend_of(ptr)[1]

\* free of the tracker: merge the block with its free neighbours.
TrackerFree(ptr, len) ==
    LET next == First(next_free(ptr))
        prev == Last(prev_free(ptr))
        with_next == merges_next(ptr, len)
        with_prev == merges_prev(ptr)
        t1 == IF with_next THEN remove_block(free_blocks, next) ELSE free_blocks
        len1 == IF with_next THEN len + free_len_by_ptr[next] ELSE len
        t2 == IF with_prev THEN remove_block(t1, prev) ELSE t1
        len2 == IF with_prev THEN len1 + free_len_by_ptr[prev] ELSE len1
    IN  /\ free_checks(ptr, len)
        /\ used_mem_current' = used_mem_current - len
        /\ SetFreeBlocks(insert_block(t2, IF with_prev THEN prev ELSE ptr, len2))
        /\ live' = Unbind(live, ptr)
        /\ UNCHANGED used_mem_peak

\* Dropping a StaticAllocation frees the chunks it remembers.
Free(ptr) == TrackerFree(ptr, live[ptr].alloc_len)

\* The layout's size is passed on as it is.
deallocate_Unrounded(ptr) == TrackerFree(ptr, live[ptr].len)

\* deallocate of the Allocator trait gets the layout and rounds again.
deallocate(ptr) == TrackerFree(ptr, next_multiple_of_chunk(live[ptr].len))

reset_used_mem_peak ==
    /\ used_mem_peak' = used_mem_current
    /\ UNCHANGED <<free_len_by_ptr, free_ptrs_by_len, used_mem_current, live>>

----------------------------------------------------------------------------
Next ==
    \/ \E size \in Sizes, placement \in Placements :
          Alloc(size, placement) \/ AllocFails(size, placement)
    \/ \E ptr \in DOMAIN live : Free(ptr) \/ deallocate(ptr)
    \/ reset_used_mem_peak

Spec == Init /\ [][Next]_vars

----------------------------------------------------------------------------
(* Properties *)

\* Every variable has its type; no block is empty.
TypeOK ==
    /\ DOMAIN free_len_by_ptr \subseteq Nat
    /\ \A p \in DOMAIN free_len_by_ptr : free_len_by_ptr[p] \in Nat \ {0}
    /\ DOMAIN free_ptrs_by_len \subseteq Nat \ {0}
    /\ \A l \in DOMAIN free_ptrs_by_len : free_ptrs_by_len[l] \subseteq Nat
    /\ used_mem_current \in Int
    /\ used_mem_peak \in Int
    /\ DOMAIN live \subseteq Nat
    /\ \A p \in DOMAIN live : live[p] \in [len : Nat \ {0}, alloc_len : Nat \ {0}]

\* The two indices describe the same free blocks, and no length has an empty
\* entry: the asserts on remove and insert in alloc and free hold, and
\* pop_first().unwrap() in alloc_best_fit finds a block.
IndicesAgree ==
    /\ \A l \in DOMAIN free_ptrs_by_len : free_ptrs_by_len[l] # {}
    /\ \A l \in DOMAIN free_ptrs_by_len : \A p \in free_ptrs_by_len[l] :
          p \in DOMAIN free_len_by_ptr /\ free_len_by_ptr[p] = l
    /\ \A p \in DOMAIN free_len_by_ptr :
          /\ free_len_by_ptr[p] \in DOMAIN free_ptrs_by_len
          /\ p \in free_ptrs_by_len[free_len_by_ptr[p]]

Apart(p, len, q, l) == p + len <= q \/ q + l <= p

\* The block lies in one backend.
Inside(p, len) == \E b \in Backends : b[1] <= p /\ p + len <= b[1] + b[2]

\* No two blocks share a byte, be they free or handed out, and none crosses the
\* end of a backend, also where two backends are adjacent in memory.
NoOverlap ==
    /\ \A p \in DOMAIN free_len_by_ptr :
          /\ Inside(p, free_len_by_ptr[p])
          /\ \A q \in DOMAIN free_len_by_ptr \ {p} :
                Apart(p, free_len_by_ptr[p], q, free_len_by_ptr[q])
          /\ \A q \in DOMAIN live : Apart(p, free_len_by_ptr[p], q, live[q].alloc_len)
    /\ \A p \in DOMAIN live :
          /\ Inside(p, live[p].alloc_len)
          /\ \A q \in DOMAIN live \ {p} : Apart(p, live[p].alloc_len, q, live[q].alloc_len)

\* Whatever a caller holds, freeing it passes the asserts of free.
FreeAccepted == \A p \in DOMAIN live : free_checks(p, live[p].alloc_len)

\* An allocation fails only when no backend has that many bytes in a row that
\* nobody holds: freeing merges all that can be merged, nothing leaks, and the
\* two indices give the same answer.
FailsOnlyWhenFull ==
    \A size \in Sizes, placement \in Placements :
        LET len == next_multiple_of_chunk(size) IN
        (\E b \in Backends : \E p \in b[1] .. (b[1] + b[2] - len) :
            \A q \in DOMAIN live : Apart(p, len, q, live[q].alloc_len))
        => has_block(len, placement)

\* used_mem_current is the memory handed out, so the unsigned subtraction in
\* free does not wrap, and the peak is never below it.
UsedMemExact ==
    /\ used_mem_current = SumFunction([p \in DOMAIN live |-> live[p].alloc_len])
    /\ used_mem_peak >= used_mem_current
=============================================================================
