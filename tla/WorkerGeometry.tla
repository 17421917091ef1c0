--------------------------- MODULE WorkerGeometry ---------------------------
(***************************************************************************)
(* How parallel loops split their work between the threads of the pool     *)
(* (worker/src/lib.rs): work_size positions are cut into num_chunks ranges, *)
(* all of ordinary_chunk_size positions except the last, which has          *)
(* remainder of them unless remainder is 0.                                 *)
(***************************************************************************)
EXTENDS Integers

is_power_of_two(x) == x > 0 /\ \A d \in 1 .. x : x % d = 0 => d = 1 \/ d % 2 = 0

\* d is the distance from x to x.next_power_of_two().
difference(x, d) ==
    /\ is_power_of_two(x + d)
    /\ \A e \in 0 .. d - 1 : ~is_power_of_two(x + e)

\* The heuristic: a power of two that is near is taken for the chunk size.
heuristic_chunk_size(x) ==
    IF \E d \in 0 .. 31 : difference(x, d)
    THEN x + (CHOOSE d \in 0 .. 31 : difference(x, d))
    ELSE x

min(a, b) == IF a < b THEN a ELSE b

Geometry(num_chunks, ordinary_chunk_size, remainder) ==
    [num_chunks |-> num_chunks, ordinary_chunk_size |-> ordinary_chunk_size,
     remainder |-> remainder]

\* The chunk size for the first num_chunks - 1 chunks when the work cannot be cut
\* evenly: the heuristic's, unless these chunks would leave nothing for the last.
uneven_chunk_size(num_chunks, work_size) ==
    LET rounded == heuristic_chunk_size(work_size \div num_chunks)
    IN  IF (num_chunks - 1) * rounded < work_size THEN rounded
        ELSE IF work_size % (num_chunks - 1) # 0 THEN work_size \div (num_chunks - 1)
        ELSE work_size \div num_chunks

\* The geometry before the last adjustment.
unadjusted_geometry(num_cores, work_size) ==
    LET num_chunks == min(num_cores, work_size)
        size == uneven_chunk_size(num_chunks, work_size)
    IN  IF work_size % num_chunks = 0
        THEN Geometry(num_chunks, work_size \div num_chunks, 0)
        ELSE Geometry(num_chunks, size, work_size - (num_chunks - 1) * size)

\* "We want to make the last chunk the smallest one if possible"
makes_last_smallest(g, num_cores) ==
    g.remainder > g.ordinary_chunk_size /\ g.remainder > num_cores - 1

get_geometry_for_num_cores(num_cores, work_size) ==
    LET g == unadjusted_geometry(num_cores, work_size)
    IN  IF makes_last_smallest(g, num_cores)
        THEN Geometry(g.num_chunks, g.ordinary_chunk_size + 1, g.remainder - (num_cores - 1))
        ELSE g

get_chunk_size(g, chunk_idx) ==
    IF g.remainder # 0 /\ chunk_idx = g.num_chunks - 1 THEN g.remainder
    ELSE g.ordinary_chunk_size

get_chunk_start_pos(g, chunk_idx) == g.ordinary_chunk_size * chunk_idx

\* The positions of a chunk.
Range_of(g, chunk_idx) ==
    get_chunk_start_pos(g, chunk_idx)
        .. get_chunk_start_pos(g, chunk_idx) + get_chunk_size(g, chunk_idx) - 1

\* Every position of the work is in exactly one chunk, and no chunk is empty.
Partitions(g, work_size) ==
    /\ \A i \in 0 .. g.num_chunks - 1 :
          Range_of(g, i) # {} /\ Range_of(g, i) \subseteq 0 .. work_size - 1
    /\ \A p \in 0 .. work_size - 1 : \E i \in 0 .. g.num_chunks - 1 : p \in Range_of(g, i)
    /\ \A i, j \in 0 .. g.num_chunks - 1 : i # j => Range_of(g, i) \cap Range_of(g, j) = {}

\* The assert!s of get_geometry_for_num_cores.
GeometryAsserts(num_cores, work_size) ==
    LET num_chunks == min(num_cores, work_size)
        g == unadjusted_geometry(num_cores, work_size)
        h == get_geometry_for_num_cores(num_cores, work_size)
    IN  work_size % num_chunks # 0 =>
            /\ num_chunks > 1
            /\ (num_chunks - 1) * g.ordinary_chunk_size < work_size
            /\ makes_last_smallest(g, num_cores) => h.ordinary_chunk_size > h.remainder
=============================================================================
