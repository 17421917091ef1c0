------------------------ MODULE WorkerGeometryProofs ------------------------
(***************************************************************************)
(* Proofs about WorkerGeometry, for every number of threads and every      *)
(* amount of work.                                                         *)
(***************************************************************************)
EXTENDS WorkerGeometry, TLAPS

\* Division with remainder.
LEMMA DivMod ==
    ASSUME NEW a \in Nat, NEW b \in Nat \ {0}
    PROVE  /\ a \div b \in Nat
           /\ a % b \in 0 .. b - 1
           /\ a = b * (a \div b) + (a % b)
  BY SMT

\* Multiplication is monotonic.
LEMMA TimesMonotonic ==
    ASSUME NEW o \in Nat, NEW a \in Nat, NEW b \in Nat, a <= b
    PROVE  o * a <= o * b
  BY SMT

\* The heuristic never makes a chunk smaller.
LEMMA HeuristicGrows ==
    ASSUME NEW x \in Nat
    PROVE  heuristic_chunk_size(x) \in Nat /\ heuristic_chunk_size(x) >= x
<1>1. CASE \E d \in 0 .. 31 : difference(x, d)
  <2> DEFINE e == CHOOSE d \in 0 .. 31 : difference(x, d)
  <2>1. e \in 0 .. 31
    BY <1>1
  <2>2. heuristic_chunk_size(x) = x + e
    BY <1>1 DEF heuristic_chunk_size
  <2> HIDE DEF e
  <2> QED
    BY <2>1, <2>2
<1>2. CASE ~ \E d \in 0 .. 31 : difference(x, d)
  BY <1>2 DEF heuristic_chunk_size
<1> QED
  BY <1>1, <1>2

\* The size of the chunks but the last, when the work cannot be cut evenly: they
\* leave something for the last, and if the last is larger than they are, then it is
\* by less than their number.
LEMMA UnevenChunkSize ==
    ASSUME NEW n \in Nat \ {0}, NEW W \in Nat \ {0}, n <= W, W % n # 0
    PROVE  LET o == uneven_chunk_size(n, W)
           IN  /\ n > 1
               /\ o \in Nat \ {0}
               /\ (n - 1) * o < W
               /\ W - (n - 1) * o > o => W - (n - 1) * o < o + n
<1> DEFINE q == W \div n
           r == W % n
           rounded == heuristic_chunk_size(q)
           q1 == W \div (n - 1)
           r1 == W % (n - 1)
<1>1. q \in Nat /\ r \in 1 .. n - 1 /\ W = n * q + r
  <2>1. q \in Nat /\ r \in 0 .. n - 1 /\ W = n * q + r
    BY DivMod, Zenon
  <2> HIDE DEF q
  <2> QED
    BY <2>1
<1>2. n > 1
  BY <1>1
<1>3. q1 \in Nat /\ r1 \in 0 .. n - 2 /\ W = (n - 1) * q1 + r1
  <2>1. n - 1 \in Nat \ {0}
    BY <1>2
  <2>2. q1 \in Nat /\ r1 \in 0 .. (n - 1) - 1 /\ W = (n - 1) * q1 + r1
    BY <2>1, DivMod, Zenon
  <2> HIDE DEF q1, r1
  <2> QED
    BY <2>2
<1>4. rounded \in Nat /\ rounded >= q
  BY <1>1, HeuristicGrows
<1>5. uneven_chunk_size(n, W) = IF (n - 1) * rounded < W THEN rounded
                                ELSE IF r1 # 0 THEN q1 ELSE q
  BY DEF uneven_chunk_size
<1>6. q > 0 /\ q1 > 0
  <2> HIDE DEF q, r, q1, r1
  <2>1. q # 0
    BY <1>1
  <2>2. q1 # 0
    BY <1>3
  <2> QED
    BY <2>1, <2>2, <1>1, <1>3
<1> HIDE DEF q, r, rounded, q1, r1
<1>7. n * q = (n - 1) * q + q
  BY <1>1
<1>8. W - (n - 1) * q = q + r
  BY <1>1, <1>7
<1>9. CASE (n - 1) * rounded < W
  <2>1. uneven_chunk_size(n, W) = rounded
    BY <1>5, <1>9
  <2>2. (n - 1) * rounded >= (n - 1) * q
    BY <1>1, <1>2, <1>4, TimesMonotonic
  <2>3. W - (n - 1) * rounded <= q + r
    BY <2>2, <1>8, <1>1, <1>2, <1>4
  <2> QED
    BY <2>1, <2>3, <1>1, <1>2, <1>4, <1>6, <1>9
<1>10. CASE ~((n - 1) * rounded < W) /\ r1 # 0
  <2>1. uneven_chunk_size(n, W) = q1
    BY <1>5, <1>10
  <2>2. W - (n - 1) * q1 = r1
    BY <1>3, <1>2
  <2>3. (n - 1) * q1 < W
    BY <1>3, <1>2, <1>10
  <2> QED
    BY <2>1, <2>2, <2>3, <1>2, <1>3, <1>6
<1>11. CASE ~((n - 1) * rounded < W) /\ r1 = 0
  <2>1. uneven_chunk_size(n, W) = q
    BY <1>5, <1>11
  <2>2. (n - 1) * q < W
    BY <1>8, <1>1, <1>2, <1>6
  <2> QED
    BY <2>1, <2>2, <1>1, <1>2, <1>6, <1>8
<1> QED
  BY <1>9, <1>10, <1>11

\* A geometry that accounts for the whole work.
Accounts(g, W) ==
    /\ g.num_chunks \in Nat \ {0}
    /\ g.ordinary_chunk_size \in Nat \ {0}
    /\ g.remainder \in Nat
    /\ g.remainder = 0 => g.num_chunks * g.ordinary_chunk_size = W
    /\ g.remainder # 0 => (g.num_chunks - 1) * g.ordinary_chunk_size + g.remainder = W

\* The chunks of such a geometry lie one behind the other and end where the work does.
LEMMA AccountsPartitions ==
    ASSUME NEW W \in Nat \ {0}, NEW g, Accounts(g, W)
    PROVE  Partitions(g, W)
<1> DEFINE n == g.num_chunks
           o == g.ordinary_chunk_size
           last == n - 1
           end(i) == o * i + get_chunk_size(g, i)
<1>1. n \in Nat \ {0} /\ o \in Nat \ {0} /\ g.remainder \in Nat
  BY DEF Accounts
<1>2. \A i \in 0 .. last : get_chunk_size(g, i) \in Nat \ {0}
  BY <1>1 DEF get_chunk_size
<1>3. end(last) = W
  <2>1. CASE g.remainder = 0
    BY <1>1, <2>1 DEF get_chunk_size, Accounts
  <2>2. CASE g.remainder # 0
    BY <1>1, <2>2 DEF get_chunk_size, Accounts
  <2> QED
    BY <2>1, <2>2
<1>4. \A i \in 0 .. last - 1 : get_chunk_size(g, i) = o
  BY <1>1 DEF get_chunk_size
<1>5. ASSUME NEW i \in 0 .. last, NEW j \in 0 .. last, i < j
      PROVE  end(i) <= o * j
  <2>1. end(i) = o * (i + 1)
    BY <1>1, <1>4, <1>5
  <2>2. o * (i + 1) <= o * j
    BY <1>1, <1>5, TimesMonotonic
  <2> QED
    BY <2>1, <2>2
<1>6. ASSUME NEW i \in 0 .. last
      PROVE  Range_of(g, i) = o * i .. end(i) - 1
  <2>1. Range_of(g, i) = get_chunk_start_pos(g, i) .. get_chunk_start_pos(g, i) + get_chunk_size(g, i) - 1
    BY DEF Range_of
  <2>2. get_chunk_start_pos(g, i) = o * i
    BY DEF get_chunk_start_pos
  <2>3. PICK start \in Nat : start = o * i
    BY <1>1
  <2>4. PICK size \in Nat : size = get_chunk_size(g, i)
    BY <1>2
  <2>5. Range_of(g, i) = start .. start + size - 1 /\ end(i) = start + size
    BY <2>1, <2>2, <2>3, <2>4, Zenon
  <2> HIDE DEF o, end
  <2> QED
    BY <2>3, <2>5
<1>7. ASSUME NEW i \in 0 .. last
      PROVE  end(i) <= W
  <2>1. CASE i = last
    BY <2>1, <1>1, <1>3
  <2>2. CASE i # last
    <3>1. i < last /\ last \in 0 .. last
      BY <2>2, <1>1
    <3>2. end(i) <= o * last
      BY <3>1, <1>5
    <3>3. o * last <= end(last)
      BY <3>1, <1>1, <1>2
    <3>4. o * last \in Int /\ end(i) \in Int
      BY <1>1, <1>2
    <3> QED
      BY <3>2, <3>3, <3>4, <1>3
  <2> QED
    BY <2>1, <2>2
<1>8. ASSUME NEW i \in 0 .. last
      PROVE  o * i \in Nat /\ end(i) \in Nat /\ o * i < end(i)
  BY <1>1, <1>2
<1> HIDE DEF o, last, end
<1>9. ASSUME NEW i \in 0 .. last
      PROVE  Range_of(g, i) # {} /\ Range_of(g, i) \subseteq 0 .. W - 1
  <2>1. o * i \in Range_of(g, i)
    BY <1>6, <1>8
  <2> QED
    BY <2>1, <1>6, <1>7, <1>8
<1>10. ASSUME NEW i \in 0 .. last, NEW j \in 0 .. last, i # j
       PROVE  Range_of(g, i) \cap Range_of(g, j) = {}
  <2>0. i \in Int /\ j \in Int
    BY <1>1 DEF last
  <2>1. CASE i < j
    BY <2>1, <1>5, <1>6, <1>8
  <2>2. CASE j < i
    BY <2>2, <1>5, <1>6, <1>8
  <2> QED
    BY <2>0, <2>1, <2>2, <1>10
<1>11. ASSUME NEW p \in 0 .. W - 1
       PROVE  \E i \in 0 .. last : p \in Range_of(g, i)
  <2>1. CASE p >= o * last
    <3>1. last \in 0 .. last
      BY <1>1 DEF last
    <3>2. p \in o * last .. end(last) - 1
      BY <2>1, <3>1, <1>3, <1>8
    <3> QED
      BY <3>1, <3>2, <1>6
  <2>2. CASE p < o * last
    <3> DEFINE i == p \div o
    <3>1. i \in Nat /\ p % o \in 0 .. o - 1 /\ p = o * i + (p % o)
      <4>1. p \in Nat /\ o \in Nat \ {0}
        BY <1>1 DEF o
      <4> QED
        BY <4>1, DivMod, Zenon
    <3>o. o \in Nat \ {0} /\ last \in Nat
      BY <1>1 DEF o, last
    <3> HIDE DEF i
    <3>2. i < last
      <4>1. SUFFICES ASSUME last <= i PROVE FALSE
        BY <3>1, <3>o
      <4>2. o * last <= o * i
        BY <4>1, <3>1, <3>o, TimesMonotonic
      <4> QED
        BY <4>2, <2>2, <3>1, <3>o
    <3>3. i \in 0 .. last /\ end(i) = o * i + o
      BY <3>1, <3>2, <3>o, <1>4 DEF end
    <3>4. p \in o * i .. end(i) - 1
      BY <3>1, <3>3, <3>o
    <3> QED
      BY <3>3, <3>4, <1>6
  <2>3. o * last \in Int /\ p \in Int
    BY <1>1 DEF o, last
  <2> QED
    BY <2>1, <2>2, <2>3
<1> QED
  BY <1>9, <1>10, <1>11 DEF Partitions, last

\* What get_geometry_for_num_cores computes accounts for the whole work with at most
\* one chunk for each thread, and its assert!s hold.
LEMMA GeometryAccounts ==
    ASSUME NEW num_cores \in Nat \ {0}, NEW work_size \in Nat \ {0}
    PROVE  LET g == get_geometry_for_num_cores(num_cores, work_size)
           IN  /\ Accounts(g, work_size)
               /\ g.num_chunks <= num_cores
               /\ GeometryAsserts(num_cores, work_size)
<1> DEFINE n == min(num_cores, work_size)
           u == unadjusted_geometry(num_cores, work_size)
           g == get_geometry_for_num_cores(num_cores, work_size)
           o == uneven_chunk_size(n, work_size)
           r == work_size - (n - 1) * o
<1>1. n \in Nat \ {0} /\ n <= work_size /\ n <= num_cores
  BY DEF min
<1>2. CASE work_size % n = 0
  <2>1. work_size \div n \in Nat /\ work_size = n * (work_size \div n)
    <3>1. work_size \div n \in Nat /\ work_size = n * (work_size \div n) + (work_size % n)
      BY <1>1, DivMod, Zenon
    <3> DEFINE q == work_size \div n
    <3> HIDE DEF n, q
    <3> QED
      BY <3>1, <1>1, <1>2 DEF q
  <2>2. u = Geometry(n, work_size \div n, 0)
    BY <1>2 DEF unadjusted_geometry
  <2>3. g = u
    BY <2>1, <2>2 DEF get_geometry_for_num_cores, makes_last_smallest, Geometry
  <2>4. work_size \div n # 0
    BY <2>1, <1>1
  <2> HIDE DEF n
  <2> QED
    BY <1>1, <1>2, <2>1, <2>2, <2>3, <2>4 DEF Accounts, Geometry, GeometryAsserts, n
<1>3. CASE work_size % n # 0
  <2>1. n = num_cores
    BY <1>3, <1>1 DEF min
  <2>2. /\ n > 1
        /\ o \in Nat \ {0}
        /\ (n - 1) * o < work_size
        /\ r > o => r < o + n
    BY <1>1, <1>3, UnevenChunkSize
  <2>3. u = Geometry(n, o, r)
    BY <1>3 DEF unadjusted_geometry
  <2>4. r \in Nat \ {0} /\ (n - 1) * o + r = work_size
    BY <1>1, <2>2
  <2>5. CASE r > o /\ r > n - 1
    <3>1. makes_last_smallest(u, num_cores)
      BY <2>1, <2>3, <2>5 DEF makes_last_smallest, Geometry
    <3>2. g = Geometry(n, o + 1, r - (n - 1))
      BY <3>1, <2>1, <2>3 DEF get_geometry_for_num_cores, Geometry
    <3> HIDE DEF n, u, g, o, r
    <3>3. (n - 1) * (o + 1) = (n - 1) * o + (n - 1)
      BY <1>1, <2>2
    <3>4. (n - 1) * (o + 1) + (r - (n - 1)) = work_size
      BY <3>3, <2>4, <1>1, <2>2
    <3>5. Accounts(g, work_size) /\ g.num_chunks <= num_cores
      BY <3>2, <3>4, <2>1, <2>2, <2>4, <2>5, <1>1 DEF Accounts, Geometry
    <3>6. g.ordinary_chunk_size > g.remainder
      BY <3>2, <2>2, <2>4, <2>5, <1>1 DEF Geometry
    <3>7. GeometryAsserts(num_cores, work_size)
      BY <3>6, <2>2, <2>3 DEF GeometryAsserts, Geometry, n, u, g
    <3> QED
      BY <3>5, <3>7 DEF g
  <2>6. CASE ~(r > o /\ r > n - 1)
    <3>1. ~makes_last_smallest(u, num_cores)
      BY <2>1, <2>3, <2>6 DEF makes_last_smallest, Geometry
    <3>2. g = u
      BY <3>1 DEF get_geometry_for_num_cores
    <3> HIDE DEF n, u, g, o, r
    <3>3. Accounts(g, work_size) /\ g.num_chunks <= num_cores
      BY <3>2, <2>1, <2>2, <2>3, <2>4, <1>1 DEF Accounts, Geometry
    <3>4. GeometryAsserts(num_cores, work_size)
      BY <3>1, <2>2, <2>3 DEF GeometryAsserts, Geometry, n, u
    <3> QED
      BY <3>3, <3>4 DEF g
  <2> QED
    BY <2>5, <2>6
<1> QED
  BY <1>2, <1>3

\* Whatever the number of threads and the amount of work, the ranges that the bodies
\* of a parallel loop are given partition the work, none is empty, there are no more
\* of them than threads, and no assert! of get_geometry_for_num_cores fails.
THEOREM GeometryPartitions ==
    \A num_cores \in Nat \ {0}, work_size \in Nat \ {0} :
        LET g == get_geometry_for_num_cores(num_cores, work_size)
        IN  /\ Partitions(g, work_size)
            /\ g.num_chunks <= num_cores
            /\ GeometryAsserts(num_cores, work_size)
  BY GeometryAccounts, AccountsPartitions
=============================================================================
