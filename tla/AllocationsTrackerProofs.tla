---------------------- MODULE AllocationsTrackerProofs ----------------------
(***************************************************************************)
(* The tracker's free blocks, for any backends, chunk size and sizes.      *)
(***************************************************************************)
EXTENDS AllocationsTracker, FiniteSetTheorems, TLAPS

----------------------------------------------------------------------------
(* The least and the greatest element of a set of addresses exist *)

\* A non-empty set of numbers has a least one.
LEMMA NatMin ==
    ASSUME NEW S \in SUBSET Nat, S # {}
    PROVE  \E x \in S : \A y \in S : x <= y
  <1> DEFINE T == {0 .. (x - 1) : x \in S}
  <1>1. \A x \in S : 0 .. (x - 1) \in FiniteSubsetsOf(Nat)
    <2> SUFFICES ASSUME NEW x \in S PROVE 0 .. (x - 1) \in FiniteSubsetsOf(Nat)
      OBVIOUS
    <2>1. IsFiniteSet(0 .. (x - 1))
      BY FS_Interval
    <2>2. 0 .. (x - 1) \in SUBSET Nat
      OBVIOUS
    <2> QED
      BY <2>1, <2>2 DEF FiniteSubsetsOf
  <1>2. T \subseteq FiniteSubsetsOf(Nat) /\ T # {}
    BY <1>1
  <1>3. IsWellFoundedOn(StrictSubsetOrdering(Nat), FiniteSubsetsOf(Nat))
    BY FS_StrictSubsetOrderingWellFounded
  <1>4. PICK t \in T : \A u \in T : ~(<<u, t>> \in StrictSubsetOrdering(Nat))
    <2> HIDE DEF T
    <2> QED BY <1>2, <1>3, WFMin
  <1>5. PICK x \in S : t = 0 .. (x - 1)
    OBVIOUS
  <1>6. ASSUME NEW y \in S, y < x PROVE FALSE
    <2>1. 0 .. (y - 1) \subseteq 0 .. (x - 1)
      BY <1>6
    <2>2. y \in 0 .. (x - 1) /\ y \notin 0 .. (y - 1)
      BY <1>6
    <2>3. 0 .. (y - 1) # 0 .. (x - 1)
      BY <2>2
    <2>4. 0 .. (y - 1) \in SUBSET Nat /\ 0 .. (x - 1) \in SUBSET Nat
      OBVIOUS
    <2>5. <<0 .. (y - 1), 0 .. (x - 1)>> \in StrictSubsetOrdering(Nat)
      BY <2>1, <2>3, <2>4 DEF StrictSubsetOrdering
    <2>6. QED
      BY <1>4, <1>5, <2>5
  <1>7. QED
    BY <1>6

\* A bounded non-empty set of numbers has a greatest one.
LEMMA NatMax ==
    ASSUME NEW S \in SUBSET Nat, S # {}, NEW top \in Nat, \A x \in S : x <= top
    PROVE  \E x \in S : \A y \in S : y <= x
  <1> DEFINE T == {z \in Nat : \E x \in S : z = top - x}
  <1>1. T \in SUBSET Nat
    OBVIOUS
  <1>2. T # {}
    <2>1. PICK x : x \in S
      OBVIOUS
    <2>2. x \in Nat /\ x <= top
      BY <2>1
    <2>3. top - x \in Nat
      BY <2>2
    <2>4. QED
      BY <2>1, <2>3
  <1>3. PICK t \in T : \A u \in T : t <= u
    <2> HIDE DEF T
    <2> QED BY <1>1, <1>2, NatMin
  <1>4. PICK x \in S : t = top - x
    OBVIOUS
  <1>5. ASSUME NEW y \in S PROVE y <= x
    <2>1. y \in Nat /\ x \in Nat /\ y <= top
      OBVIOUS
    <2>2. top - y \in Nat
      BY <2>1
    <2>3. top - y \in T
      BY <2>2
    <2>4. top - x <= top - y
      BY <1>3, <1>4, <2>3
    <2>5. QED
      BY <2>1, <2>4
  <1>6. QED
    BY <1>5

\* The first key of an ordered map is its least.
LEMMA FirstIsLeast ==
    ASSUME NEW S \in SUBSET Nat, S # {}
    PROVE  First(S) \in S /\ \A y \in S : First(S) <= y
  BY NatMin DEF First

\* The last key of an ordered map is its greatest.
LEMMA LastIsGreatest ==
    ASSUME NEW S \in SUBSET Nat, S # {}, \A x \in S : x <= AddressSpace
    PROVE  Last(S) \in S /\ \A y \in S : y <= Last(S)
  BY NatMax, AddressSpaceAssumption DEF Last

----------------------------------------------------------------------------
(* The two indices *)

\* IndicesAgree, said of any state m, n of the two indices.
Agree(m, n) ==
    /\ \A l \in DOMAIN n : n[l] # {}
    /\ \A l \in DOMAIN n : \A p \in n[l] : p \in DOMAIN m /\ m[p] = l
    /\ \A p \in DOMAIN m : m[p] \in DOMAIN n /\ p \in n[m[p]]

\* Removing a block from both maps of the tracker keeps them in agreement.
LEMMA RemoveAgrees ==
    ASSUME NEW m, NEW n, Agree(m, n), NEW p \in DOMAIN m
    PROVE  Agree(Unbind(m, p), IF n[m[p]] = {p} THEN Unbind(n, m[p])
                                ELSE Bind(n, m[p], n[m[p]] \ {p}))
  <1>1. m[p] \in DOMAIN n /\ p \in n[m[p]]
    BY DEF Agree
  <1>2. PICK m2 : m2 = Unbind(m, p)
    OBVIOUS
  <1>3. DOMAIN m2 = DOMAIN m \ {p} /\ \A j \in DOMAIN m : j # p => m2[j] = m[j]
    BY <1>2 DEF Unbind
  <1>4. CASE n[m[p]] = {p}
    <2>1. PICK n2 : n2 = Unbind(n, m[p])
      OBVIOUS
    <2>2. DOMAIN n2 = DOMAIN n \ {m[p]} /\ \A j \in DOMAIN n : j # m[p] => n2[j] = n[j]
      BY <2>1 DEF Unbind
    <2>3. Agree(m2, n2)
      BY <1>1, <1>3, <1>4, <2>2 DEF Agree
    <2>4. QED
      BY <1>2, <1>4, <2>1, <2>3
  <1>5. CASE n[m[p]] # {p}
    <2>1. PICK n2 : n2 = Bind(n, m[p], n[m[p]] \ {p})
      OBVIOUS
    <2>2. /\ DOMAIN n2 = DOMAIN n /\ n2[m[p]] = n[m[p]] \ {p}
          /\ \A j \in DOMAIN n : j # m[p] => n2[j] = n[j]
      BY <1>1, <2>1 DEF Bind
    <2>3. n2[m[p]] # {}
      BY <1>1, <1>5, <2>2
    <2>4. Agree(m2, n2)
      BY <1>1, <1>3, <2>2, <2>3 DEF Agree
    <2>5. QED
      BY <1>2, <1>5, <2>1, <2>4
  <1>6. QED
    BY <1>4, <1>5

\* Inserting a block into both maps of the tracker keeps them in agreement.
LEMMA InsertAgrees ==
    ASSUME NEW m, NEW n, Agree(m, n), NEW p, p \notin DOMAIN m, NEW len
    PROVE  Agree(Bind(m, p, len),
                 Bind(n, len, (IF len \in DOMAIN n THEN n[len] ELSE {}) \cup {p}))
  <1>1. PICK old : old = IF len \in DOMAIN n THEN n[len] ELSE {}
    OBVIOUS
  <1>2. PICK m2 : m2 = Bind(m, p, len)
    OBVIOUS
  <1>3. PICK n2 : n2 = Bind(n, len, old \cup {p})
    OBVIOUS
  <1>4. DOMAIN m2 = DOMAIN m \cup {p} /\ m2[p] = len /\ \A j \in DOMAIN m : j # p => m2[j] = m[j]
    BY <1>2 DEF Bind
  <1>5. /\ DOMAIN n2 = DOMAIN n \cup {len} /\ n2[len] = old \cup {p}
        /\ \A j \in DOMAIN n : j # len => n2[j] = n[j]
    BY <1>3 DEF Bind
  <1>6. /\ \A q \in old : q \in DOMAIN m /\ m[q] = len
        /\ len \in DOMAIN n => old = n[len]
    BY <1>1 DEF Agree
  <1>7. Agree(m2, n2)
    BY <1>4, <1>5, <1>6 DEF Agree
  <1>8. QED
    BY <1>1, <1>2, <1>3, <1>7

\* remove_block takes one block out of the free blocks.
LEMMA RemoveBlock ==
    ASSUME NEW t, Agree(t.by_ptr, t.by_len), NEW p \in DOMAIN t.by_ptr
    PROVE  /\ Agree(remove_block(t, p).by_ptr, remove_block(t, p).by_len)
           /\ remove_block(t, p).by_ptr = Unbind(t.by_ptr, p)
  BY RemoveAgrees DEF remove_block

\* insert_block adds one block to the free blocks.
LEMMA InsertBlock ==
    ASSUME NEW t, Agree(t.by_ptr, t.by_len), NEW p, p \notin DOMAIN t.by_ptr, NEW len
    PROVE  /\ Agree(insert_block(t, p, len).by_ptr, insert_block(t, p, len).by_len)
           /\ insert_block(t, p, len).by_ptr = Bind(t.by_ptr, p, len)
  BY InsertAgrees DEF insert_block

----------------------------------------------------------------------------
(* The blocks.  m gives the length of the free blocks, v that of the blocks *)
(* callers hold.                                                            *)

Lengths(m) == DOMAIN m \subseteq Nat /\ \A p \in DOMAIN m : m[p] \in Nat \ {0}

Fits(m, v) ==
    /\ \A p \in DOMAIN m : Inside(p, m[p])
    /\ \A p \in DOMAIN v : Inside(p, v[p])

Disjoint(m, v) ==
    /\ \A p, q \in DOMAIN m : p # q => Apart(p, m[p], q, m[q])
    /\ \A p, q \in DOMAIN v : p # q => Apart(p, v[p], q, v[q])
    /\ \A p \in DOMAIN m, q \in DOMAIN v : Apart(p, m[p], q, v[q])

Holds(m, x) == \E p \in DOMAIN m : p <= x /\ x < p + m[p]

\* Every byte of a backend is free or held.
Covers(m, v) ==
    \A b \in Backends : \A x \in b[1] .. (b[1] + b[2] - 1) : Holds(m, x) \/ Holds(v, x)

\* Free blocks touch only where a backend begins.
Merged(m) ==
    \A p, q \in DOMAIN m : p + m[p] = q => \E b \in Backends : b[1] = q

Shape(m, v) ==
    /\ Lengths(m) /\ Lengths(v) /\ Fits(m, v) /\ Disjoint(m, v) /\ Covers(m, v) /\ Merged(m)

\* An allocation of len bytes at a is cut from the free block at f, of which
\* rest bytes at r remain.
IsCut(m, v, f, len, rest, a, r, m2, v2) ==
    /\ f \in DOMAIN m /\ len \in Nat \ {0} /\ rest \in Nat /\ m[f] = len + rest
    /\ (a = f /\ r = f + len) \/ (r = f /\ a = f + rest)
    /\ DOMAIN m2 = (DOMAIN m \ {f}) \cup (IF rest = 0 THEN {} ELSE {r})
    /\ \A p \in DOMAIN m \ {f} : p # r \/ rest = 0 => m2[p] = m[p]
    /\ rest # 0 => m2[r] = rest
    /\ DOMAIN v2 = DOMAIN v \cup {a} /\ v2[a] = len
    /\ \A p \in DOMAIN v : p # a => v2[p] = v[p]

\* Cutting an allocation off a free block leaves all blocks apart and in their backends.
LEMMA Cut ==
    ASSUME NEW m, NEW v, Shape(m, v), NEW f, NEW len, NEW rest, NEW a, NEW r, NEW m2, NEW v2,
           IsCut(m, v, f, len, rest, a, r, m2, v2)
    PROVE  Shape(m2, v2)
  <1> USE DEF IsCut
  <1>1. f \in Nat /\ a \in Nat /\ r \in Nat
    BY DEF Shape, Lengths
  <1>2. a \notin DOMAIN v
    BY <1>1 DEF Shape, Lengths, Disjoint, Apart
  <1>3. rest # 0 => r \notin DOMAIN m \ {f}
    BY <1>1 DEF Shape, Lengths, Disjoint, Apart
  <1>4. \A p \in DOMAIN m2 : \/ p \in DOMAIN m /\ p # f /\ m2[p] = m[p]
                             \/ p = r /\ rest # 0 /\ m2[p] = rest
    BY <1>3
  <1>5. \A p \in DOMAIN v2 : \/ p \in DOMAIN v /\ p # a /\ v2[p] = v[p]
                             \/ p = a /\ v2[p] = len
    OBVIOUS
  <1>6. Lengths(m2) /\ Lengths(v2)
    BY <1>1, <1>4, <1>5 DEF Shape, Lengths
  <1>7. Fits(m2, v2)
    <2>1. PICK b \in Backends : b[1] <= f /\ f + m[f] <= b[1] + b[2]
      BY DEF Shape, Fits, Inside
    <2>2. b[1] \in Nat /\ b[2] \in Nat
      BY BackendsAssumption
    <2>3. Inside(a, len) /\ Inside(r, rest)
      BY <1>1, <2>1, <2>2 DEF Inside
    <2>4. QED
      BY <1>4, <1>5, <2>3 DEF Shape, Fits
  <1>8. Disjoint(m2, v2)
    <2>1. \A p, q \in DOMAIN m2 : p # q => Apart(p, m2[p], q, m2[q])
      BY <1>1, <1>4 DEF Shape, Lengths, Disjoint, Apart
    <2>2. \A p, q \in DOMAIN v2 : p # q => Apart(p, v2[p], q, v2[q])
      BY <1>1, <1>5 DEF Shape, Lengths, Disjoint, Apart
    <2>3. \A p \in DOMAIN m2, q \in DOMAIN v2 : Apart(p, m2[p], q, v2[q])
      BY <1>1, <1>4, <1>5 DEF Shape, Lengths, Disjoint, Apart
    <2>4. QED
      BY <2>1, <2>2, <2>3 DEF Disjoint
  <1>9. Covers(m2, v2)
    <2> SUFFICES ASSUME NEW b \in Backends, NEW x \in b[1] .. (b[1] + b[2] - 1)
                 PROVE  Holds(m2, x) \/ Holds(v2, x)
      BY DEF Covers
    <2>1. x \in Int
      BY BackendsAssumption
    <2>2. CASE Holds(v, x)
      BY <1>2, <2>2 DEF Holds
    <2>3. CASE \E p \in DOMAIN m : p # f /\ p <= x /\ x < p + m[p]
      BY <1>3, <2>3 DEF Holds
    <2>4. CASE f <= x /\ x < f + m[f]
      <3>1. (a <= x /\ x < a + len) \/ (rest # 0 /\ r <= x /\ x < r + rest)
        BY <1>1, <2>1, <2>4 DEF Shape, Lengths
      <3>2. QED
        BY <3>1 DEF Holds
    <2>5. Holds(m, x) \/ Holds(v, x)
      BY DEF Shape, Covers
    <2>6. QED
      BY <2>2, <2>3, <2>4, <2>5 DEF Holds
  <1>10. Merged(m2)
    <2> SUFFICES ASSUME NEW p \in DOMAIN m2, NEW q \in DOMAIN m2, p + m2[p] = q
                 PROVE  \E b \in Backends : b[1] = q
      BY DEF Merged
    <2>1. CASE p # r \/ rest = 0
      <3>1. p \in DOMAIN m /\ p # f /\ m2[p] = m[p]
        BY <1>4, <2>1
      <3>2. CASE q \in DOMAIN m
        BY <3>1, <3>2 DEF Shape, Merged
      <3>3. CASE q \notin DOMAIN m
        BY <1>1, <1>4, <3>1, <3>3 DEF Shape, Lengths, Disjoint, Apart
      <3>4. QED
        BY <3>2, <3>3
    <2>2. CASE p = r /\ rest # 0
      <3>1. q \in DOMAIN m /\ q # f /\ m2[q] = m[q] /\ m2[p] = rest
        BY <1>1, <1>4, <2>2
      <3>2. CASE r = f + len
        BY <1>1, <2>2, <3>1, <3>2 DEF Shape, Merged
      <3>3. CASE r = f /\ a = f + rest
        BY <1>1, <2>2, <3>1, <3>3 DEF Shape, Lengths, Disjoint, Apart
      <3>4. QED
        BY <3>2, <3>3
    <2>3. QED
      BY <2>1, <2>2
  <1>11. QED
    BY <1>2, <1>3, <1>6, <1>7, <1>8, <1>9, <1>10 DEF Shape

\* Blocks that share a byte with a backend lie in it.
LEMMA SameBackend ==
    ASSUME NEW b \in Backends, NEW p \in Nat, NEW len \in Nat \ {0}, Inside(p, len),
           p < b[1] + b[2], b[1] < p + len
    PROVE  b[1] <= p /\ p + len <= b[1] + b[2]
  <1>1. PICK c \in Backends : c[1] <= p /\ p + len <= c[1] + c[2]
    BY DEF Inside
  <1>2. b[1] \in Nat /\ b[2] \in Nat /\ c[1] \in Nat /\ c[2] \in Nat
    BY BackendsAssumption
  <1>3. b # c => b[1] + b[2] <= c[1] \/ c[1] + c[2] <= b[1]
    BY BackendsAssumption
  <1>4. QED
    BY <1>1, <1>2, <1>3

\* The held block at p is freed and joined with the before bytes of the free
\* block in front of it and the after bytes of the one behind it (0: none).
IsJoin(m, v, p, b, before, after, m2, v2) ==
    /\ p \in DOMAIN v /\ before \in Nat /\ after \in Nat
    /\ b \in Backends /\ b[1] <= p /\ p + v[p] <= b[1] + b[2]
    /\ before # 0 => p - before \in DOMAIN m /\ m[p - before] = before /\ p # b[1]
    /\ before = 0 => p = b[1] \/ \A q \in DOMAIN m : q + m[q] # p
    /\ after # 0 => p + v[p] \in DOMAIN m /\ m[p + v[p]] = after /\ p + v[p] # b[1] + b[2]
    /\ after = 0 => p + v[p] = b[1] + b[2] \/ p + v[p] \notin DOMAIN m
    /\ DOMAIN m2 = {q \in DOMAIN m : /\ before # 0 => q # p - before
                                     /\ after # 0 => q # p + v[p]} \cup {p - before}
    /\ m2[p - before] = before + v[p] + after
    /\ \A q \in DOMAIN m2 : q # p - before => m2[q] = m[q]
    /\ DOMAIN v2 = DOMAIN v \ {p} /\ \A q \in DOMAIN v2 : v2[q] = v[q]

\* Joining a freed block with its free neighbours leaves all blocks apart.
LEMMA Join ==
    ASSUME NEW m, NEW v, Shape(m, v), NEW p, NEW b, NEW before, NEW after, NEW m2, NEW v2,
           IsJoin(m, v, p, b, before, after, m2, v2)
    PROVE  Shape(m2, v2)
  <1> USE DEF IsJoin
  <1> DEFINE n == p - before
             len == v[p]
  <1>1. /\ p \in Nat /\ len \in Nat \ {0} /\ b[1] \in Nat /\ b[2] \in Nat
        /\ before # 0 => n \in Nat
    BY BackendsAssumption DEF Shape, Lengths
  <1>2. n \in Nat
    BY <1>1
  <1>3. \A q \in DOMAIN m2 : \/ /\ q \in DOMAIN m /\ q # n /\ m2[q] = m[q]
                                /\ after # 0 => q # p + len
                             \/ q = n /\ m2[q] = before + len + after
    OBVIOUS
  <1>4. /\ before # 0 => n \in DOMAIN m /\ m[n] = before /\ p # b[1]
        /\ before = 0 => n = p /\ (p = b[1] \/ \A q \in DOMAIN m : q + m[q] # p)
        /\ after # 0 => p + len \in DOMAIN m /\ m[p + len] = after /\ p + len # b[1] + b[2]
        /\ n + before = p
    BY <1>1
  <1> HIDE DEF n, len
  <1>5. Lengths(m2) /\ Lengths(v2)
    BY <1>1, <1>2, <1>3 DEF Shape, Lengths
  <1>6. b[1] <= n /\ n + (before + len + after) <= b[1] + b[2]
    <2>1. b[1] <= n
      <3>1. CASE before = 0
        BY <1>4, <3>1
      <3>2. CASE before # 0
        <4>1. Inside(n, before) /\ p <= b[1] + b[2] /\ b[1] < p
          BY <1>1, <1>4, <3>2 DEF Shape, Fits, len
        <4>2. QED
          BY <1>1, <1>2, <1>4, <3>2, <4>1, SameBackend
      <3>3. QED
        BY <3>1, <3>2
    <2>2. p + len + after <= b[1] + b[2]
      <3>1. CASE after = 0
        BY <1>1, <3>1 DEF len
      <3>2. CASE after # 0
        <4>1. Inside(p + len, after) /\ p + len < b[1] + b[2] /\ b[1] < p + len
          BY <1>1, <1>4, <3>2 DEF Shape, Fits, len
        <4>2. QED
          BY <1>1, <3>2, <4>1, SameBackend
      <3>3. QED
        BY <3>1, <3>2
    <2>3. QED
      BY <1>1, <1>2, <1>4, <2>1, <2>2
  <1>7. Fits(m2, v2)
    BY <1>3, <1>6 DEF Shape, Fits, Inside
  <1>8. Disjoint(m2, v2)
    <2>1. \A q \in DOMAIN m : q # n /\ (after # 0 => q # p + len) =>
                               Apart(n, before + len + after, q, m[q])
      BY <1>1, <1>2, <1>4 DEF Shape, Lengths, Disjoint, Apart, len
    <2>2. \A q \in DOMAIN v : q # p => Apart(n, before + len + after, q, v[q])
      BY <1>1, <1>2, <1>4 DEF Shape, Lengths, Disjoint, Apart, len
    <2>3. \A q, s \in DOMAIN m2 : q # s => Apart(q, m2[q], s, m2[s])
      BY <1>3, <2>1 DEF Shape, Disjoint, Apart
    <2>4. \A q \in DOMAIN m2, s \in DOMAIN v2 : Apart(q, m2[q], s, v2[s])
      BY <1>3, <2>2 DEF Shape, Disjoint
    <2>5. QED
      BY <2>3, <2>4 DEF Shape, Disjoint
  <1>9. Covers(m2, v2)
    <2> SUFFICES ASSUME NEW c \in Backends, NEW x \in c[1] .. (c[1] + c[2] - 1)
                 PROVE  Holds(m2, x) \/ Holds(v2, x)
      BY DEF Covers
    <2>1. x \in Int
      BY BackendsAssumption
    <2>2. Holds(m, x) \/ Holds(v, x)
      BY DEF Shape, Covers
    <2>3. n \in DOMAIN m2 /\ m2[n] = before + len + after
      BY DEF n, len
    <2>4. CASE n <= x /\ x < n + (before + len + after)
      BY <2>3, <2>4 DEF Holds
    <2>5. CASE ~(n <= x /\ x < n + (before + len + after))
      <3>1. ASSUME NEW q \in DOMAIN m, q <= x, x < q + m[q] PROVE Holds(m2, x)
        <4>1. q # n /\ (after # 0 => q # p + len)
          BY <1>1, <1>2, <1>4, <2>1, <2>5, <3>1 DEF Shape, Lengths, Disjoint, Apart, len
        <4>2. q \in DOMAIN m2 /\ m2[q] = m[q]
          BY <4>1 DEF n, len
        <4>3. QED
          BY <3>1, <4>2 DEF Holds
      <3>2. ASSUME NEW q \in DOMAIN v, q <= x, x < q + v[q] PROVE Holds(v2, x)
        <4>1. q # p
          BY <1>1, <1>2, <1>4, <2>1, <2>5, <3>2 DEF len
        <4>2. QED
          BY <3>2, <4>1 DEF Holds
      <3>3. QED
        BY <2>2, <3>1, <3>2 DEF Holds
    <2>6. QED
      BY <2>4, <2>5
  <1>10. Merged(m2)
    <2> SUFFICES ASSUME NEW x \in DOMAIN m2, NEW y \in DOMAIN m2, x + m2[x] = y
                 PROVE  \E c \in Backends : c[1] = y
      BY DEF Merged
    <2>1. x \in Nat /\ y \in Nat /\ m2[x] \in Nat \ {0}
      BY <1>5 DEF Lengths
    <2>2. CASE x = n
      <3>1. y \in DOMAIN m /\ m2[x] = before + len + after
        BY <1>3, <2>1, <2>2
      <3>2. y = p + len + after
        BY <1>1, <1>2, <1>4, <2>2, <3>1
      <3>3. CASE after # 0
        BY <1>1, <1>4, <3>1, <3>2, <3>3 DEF Shape, Merged
      <3>4. CASE after = 0
        <4>1. y = b[1] + b[2]
          <5>1. y = p + len
            BY <1>1, <3>2, <3>4
          <5>2. QED
            BY <3>1, <3>4, <5>1 DEF len
        <4>2. PICK c \in Backends : c[1] <= y /\ y + m[y] <= c[1] + c[2]
          BY <3>1 DEF Shape, Fits, Inside
        <4>3. c[1] \in Nat /\ c[2] \in Nat /\ m[y] \in Nat \ {0}
          BY <3>1, BackendsAssumption DEF Shape, Lengths
        <4>4. c # b => b[1] + b[2] <= c[1] \/ c[1] + c[2] <= b[1]
          BY BackendsAssumption
        <4>5. c[1] = y
          <5>1. y \in Nat
            BY <3>1 DEF Shape, Lengths
          <5>2. c # b
            BY <1>1, <4>1, <4>2, <4>3, <5>1
          <5>3. QED
            BY <1>1, <4>1, <4>2, <4>3, <4>4, <5>1, <5>2
        <4>6. QED
          BY <4>5
      <3>5. QED
        BY <3>3, <3>4
    <2>3. CASE x # n /\ y = n
      <3>1. x \in DOMAIN m /\ x + m[x] = n
        BY <1>3, <2>3
      <3>2. CASE before # 0
        BY <1>4, <2>3, <3>1, <3>2 DEF Shape, Merged
      <3>3. CASE before = 0
        BY <1>4, <2>3, <3>1, <3>3
      <3>4. QED
        BY <3>2, <3>3
    <2>4. CASE x # n /\ y # n
      BY <1>3, <2>4 DEF Shape, Merged
    <2>5. QED
      BY <2>2, <2>3, <2>4
  <1>11. QED
    BY <1>5, <1>7, <1>8, <1>9, <1>10 DEF Shape

----------------------------------------------------------------------------
(* The inductive invariant *)

Held == [p \in DOMAIN live |-> live[p].alloc_len]

\* The two ways to free an allocation give back the same number of bytes.
Rounded ==
    \A p \in DOMAIN live :
        /\ live[p] \in [len : Nat \ {0}, alloc_len : Nat \ {0}]
        /\ live[p].alloc_len = next_multiple_of_chunk(live[p].len)

IInv ==
    /\ used_mem_current \in Int /\ used_mem_peak \in Int
    /\ Agree(free_len_by_ptr, free_ptrs_by_len)
    /\ Shape(free_len_by_ptr, Held)
    /\ Rounded

\* A rounded size is positive.
LEMMA ChunksPositive ==
    ASSUME NEW size \in Nat \ {0}
    PROVE  next_multiple_of_chunk(size) \in Nat \ {0}
  <1> DEFINE q == (size + ChunkSize - 1) \div ChunkSize
  <1>1. q \in Int /\ q * ChunkSize <= size + ChunkSize - 1 /\ size + ChunkSize - 1 < (q + 1) * ChunkSize
    BY ChunkSizeAssumption
  <1> HIDE DEF q
  <1>2. q >= 1
    BY <1>1, ChunkSizeAssumption
  <1>3. q * ChunkSize \in Nat \ {0}
    BY <1>1, <1>2, ChunkSizeAssumption
  <1>4. QED
    BY <1>3 DEF next_multiple_of_chunk, q

\* The invariant holds for a new tracker.
LEMMA IInvInit == Init => IInv
  <1> SUFFICES ASSUME Init PROVE IInv
    OBVIOUS
  <1>1. \A b \in Backends : b[1] \in Nat /\ b[2] \in Nat \ {0} /\ b = <<b[1], b[2]>>
    BY BackendsAssumption
  <1>2. \A b \in Backends : \A l : <<b[1], l>> \in Backends => l = b[2]
    <2> SUFFICES ASSUME NEW b \in Backends, NEW l, <<b[1], l>> \in Backends PROVE l = b[2]
      OBVIOUS
    <2>1. l \in Nat \ {0}
      BY BackendsAssumption
    <2>2. <<b[1], l>> # b => b[1] + l <= b[1] \/ b[1] + b[2] <= b[1]
      BY BackendsAssumption
    <2>3. QED
      BY <1>1, <2>1, <2>2
  <1>3. \A b \in Backends : b[1] \in DOMAIN free_len_by_ptr /\ free_len_by_ptr[b[1]] = b[2]
    BY <1>1, <1>2 DEF Init
  <1>4. \A p \in DOMAIN free_len_by_ptr : \E b \in Backends : p = b[1]
    BY DEF Init
  <1>5. DOMAIN Held = {}
    BY DEF Init, Held
  <1>6. Agree(free_len_by_ptr, free_ptrs_by_len)
    <2>1. \A l \in DOMAIN free_ptrs_by_len :
              /\ \E b \in Backends : l = b[2]
              /\ \A q \in free_ptrs_by_len[l] : <<q, l>> \in Backends
      BY DEF Init
    <2>2. \A b \in Backends : b[2] \in DOMAIN free_ptrs_by_len /\ b[1] \in free_ptrs_by_len[b[2]]
      BY <1>1 DEF Init
    <2>3. \A l \in DOMAIN free_ptrs_by_len : \A q \in free_ptrs_by_len[l] :
              q \in DOMAIN free_len_by_ptr /\ free_len_by_ptr[q] = l
      <3> SUFFICES ASSUME NEW l \in DOMAIN free_ptrs_by_len, NEW q \in free_ptrs_by_len[l]
                   PROVE  q \in DOMAIN free_len_by_ptr /\ free_len_by_ptr[q] = l
        OBVIOUS
      <3>1. <<q, l>> \in Backends
        BY <2>1
      <3>2. <<q, l>>[1] \in DOMAIN free_len_by_ptr /\ free_len_by_ptr[<<q, l>>[1]] = <<q, l>>[2]
        BY <1>3, <3>1
      <3>3. QED
        BY <3>2
    <2>4. QED
      BY <1>3, <1>4, <2>1, <2>2, <2>3 DEF Agree
  <1>7. Shape(free_len_by_ptr, Held)
    <2>1. Lengths(free_len_by_ptr) /\ Lengths(Held)
      BY <1>1, <1>3, <1>4, <1>5 DEF Lengths
    <2>2. Fits(free_len_by_ptr, Held)
      BY <1>1, <1>3, <1>4, <1>5 DEF Fits, Inside
    <2>3. Disjoint(free_len_by_ptr, Held)
      BY <1>1, <1>3, <1>4, <1>5, BackendsAssumption DEF Disjoint, Apart
    <2>4. Covers(free_len_by_ptr, Held)
      BY <1>1, <1>3 DEF Covers, Holds
    <2>5. Merged(free_len_by_ptr)
      BY <1>4 DEF Merged
    <2>6. QED
      BY <2>1, <2>2, <2>3, <2>4, <2>5 DEF Shape
  <1>8. Rounded
    BY DEF Init, Rounded
  <1>9. QED
    BY <1>6, <1>7, <1>8 DEF IInv, Init

\* The block that alloc picks is free and long enough, whichever index it was
\* looked up in.
LEMMA ChosenBlock ==
    ASSUME IInv, NEW len \in Nat \ {0}, NEW placement \in Placements, has_block(len, placement)
    PROVE  /\ chosen_block(len, placement) \in DOMAIN free_len_by_ptr
           /\ free_len_by_ptr[chosen_block(len, placement)] >= len
  <1>1. Lengths(free_len_by_ptr) /\ Fits(free_len_by_ptr, Held)
    BY DEF IInv, Shape
  <1>2. CASE placement = "BestFit"
    <2>1. DOMAIN free_ptrs_by_len \subseteq Nat
      BY <1>1 DEF IInv, Agree, Lengths
    <2>2. First(lengths_from(len)) \in lengths_from(len)
      BY <1>2, <2>1, FirstIsLeast DEF has_block, lengths_from
    <2>3. PICK l \in DOMAIN free_ptrs_by_len : l = First(lengths_from(len)) /\ l >= len
      BY <2>2 DEF lengths_from
    <2>4. free_ptrs_by_len[l] \in SUBSET Nat /\ free_ptrs_by_len[l] # {}
      BY <1>1 DEF IInv, Agree, Lengths
    <2>5. First(free_ptrs_by_len[l]) \in free_ptrs_by_len[l]
      BY <2>4, FirstIsLeast
    <2>6. QED
      BY <1>2, <2>3, <2>5 DEF chosen_block, IInv, Agree
  <1>3. CASE placement \in {"Bottom", "Top"}
    <2>1. find_free_ptr_by_len(len) \in SUBSET Nat /\ find_free_ptr_by_len(len) # {}
      BY <1>1, <1>3 DEF find_free_ptr_by_len, Lengths, has_block
    <2>2. \A q \in find_free_ptr_by_len(len) : q <= AddressSpace
      BY <1>1, BackendsAssumption, AddressSpaceAssumption
         DEF find_free_ptr_by_len, Fits, Lengths, Inside
    <2>3. First(find_free_ptr_by_len(len)) \in find_free_ptr_by_len(len)
      BY <2>1, FirstIsLeast
    <2>4. Last(find_free_ptr_by_len(len)) \in find_free_ptr_by_len(len)
      BY <2>1, <2>2, LastIsGreatest
    <2>5. QED
      BY <1>3, <2>3, <2>4 DEF chosen_block, find_free_ptr_by_len
  <1>4. QED
    BY <1>2, <1>3 DEF Placements

\* alloc preserves the invariant.
LEMMA IInvAlloc ==
    ASSUME IInv, NEW size \in Sizes, NEW placement \in Placements, Alloc(size, placement)
    PROVE  IInv'
  <1>1. PICK len : len = next_multiple_of_chunk(size) /\ len \in Nat \ {0} /\ size \in Nat \ {0}
    BY ChunksPositive, SizesAssumption
  <1>2. TrackerAlloc(size, len, placement)
    BY <1>1 DEF Alloc
  <1>3. PICK f \in DOMAIN free_len_by_ptr :
            f = chosen_block(len, placement) /\ free_len_by_ptr[f] >= len
    BY <1>1, <1>2, ChosenBlock DEF TrackerAlloc
  <1>4. f \in Nat /\ free_len_by_ptr[f] \in Nat
    BY <1>3 DEF IInv, Shape, Lengths
  <1>5. PICK rest \in Nat : free_len_by_ptr[f] = len + rest
    <2>1. free_len_by_ptr[f] - len \in Nat /\ free_len_by_ptr[f] = len + (free_len_by_ptr[f] - len)
      BY <1>1, <1>3, <1>4
    <2>2. QED
      BY <2>1
  <1>6. PICK a, r : /\ a = allocated_ptr(f, free_len_by_ptr[f], len, placement)
                    /\ r = IF placement = "Top" THEN f ELSE f + len
                    /\ (a = f /\ r = f + len) \/ (r = f /\ a = f + rest)
    BY <1>1, <1>4, <1>5 DEF allocated_ptr
  <1>7. PICK t : /\ t = remove_block(free_blocks, f)
                 /\ Agree(t.by_ptr, t.by_len) /\ t.by_ptr = Unbind(free_len_by_ptr, f)
    <2>1. free_blocks.by_ptr = free_len_by_ptr /\ free_blocks.by_len = free_ptrs_by_len
      BY DEF free_blocks
    <2>2. Agree(free_blocks.by_ptr, free_blocks.by_len) /\ f \in DOMAIN free_blocks.by_ptr
      BY <2>1 DEF IInv
    <2>3. QED
      BY <2>1, <2>2, RemoveBlock, Zenon
  <1>8. /\ free_len_by_ptr' = left_of_block(t, f, free_len_by_ptr[f], len, placement).by_ptr
        /\ free_ptrs_by_len' = left_of_block(t, f, free_len_by_ptr[f], len, placement).by_len
        /\ live' = Bind(live, a, [len |-> size, alloc_len |-> len])
        /\ used_mem_current' = used_mem_current + len
        /\ used_mem_peak' \in {used_mem_current + len, used_mem_peak}
    BY <1>2, <1>3, <1>6, <1>7 DEF TrackerAlloc, SetFreeBlocks
  <1>9. rest # 0 => r \notin DOMAIN t.by_ptr
    <2>1. DOMAIN t.by_ptr = DOMAIN free_len_by_ptr \ {f}
      BY <1>7 DEF Unbind
    <2>2. QED
      BY <1>1, <1>4, <1>5, <1>6, <2>1 DEF IInv, Shape, Lengths, Disjoint, Apart
  <1>10. /\ Agree(free_len_by_ptr, free_ptrs_by_len)'
         /\ DOMAIN free_len_by_ptr' = (DOMAIN free_len_by_ptr \ {f})
                                         \cup (IF rest = 0 THEN {} ELSE {r})
         /\ \A p \in DOMAIN free_len_by_ptr \ {f} :
               p # r \/ rest = 0 => free_len_by_ptr'[p] = free_len_by_ptr[p]
         /\ rest # 0 => free_len_by_ptr'[r] = rest
    <2>1. CASE rest = 0
      <3>1. free_len_by_ptr' = t.by_ptr /\ free_ptrs_by_len' = t.by_len
        BY <1>1, <1>5, <1>8, <2>1 DEF left_of_block
      <3>2. Agree(free_len_by_ptr, free_ptrs_by_len)'
        BY <1>7, <3>1 DEF Agree
      <3>3. free_len_by_ptr' = Unbind(free_len_by_ptr, f)
        BY <1>7, <3>1
      <3>4. QED
        BY <2>1, <3>2, <3>3 DEF Unbind
    <2>2. CASE rest # 0
      <3>1. left_of_block(t, f, free_len_by_ptr[f], len, placement) = insert_block(t, r, rest)
        BY <1>1, <1>4, <1>5, <1>6, <2>2 DEF left_of_block, insert_remainder
      <3>2. /\ Agree(insert_block(t, r, rest).by_ptr, insert_block(t, r, rest).by_len)
            /\ insert_block(t, r, rest).by_ptr = Bind(t.by_ptr, r, rest)
        BY <1>7, <1>9, <2>2, InsertBlock
      <3>3. Agree(free_len_by_ptr, free_ptrs_by_len)'
        BY <1>8, <3>1, <3>2 DEF Agree
      <3>4. free_len_by_ptr' = Bind(Unbind(free_len_by_ptr, f), r, rest)
        BY <1>7, <1>8, <3>1, <3>2
      <3>5. QED
        BY <2>2, <3>3, <3>4 DEF Bind, Unbind
    <2>3. QED
      BY <2>1, <2>2
  <1>11. /\ DOMAIN Held' = DOMAIN Held \cup {a} /\ Held'[a] = len
         /\ \A p \in DOMAIN Held : p # a => Held'[p] = Held[p]
    BY <1>8 DEF Held, Bind
  <1>12. Shape(free_len_by_ptr', Held')
    <2>1. Shape(free_len_by_ptr, Held)
      BY DEF IInv
    <2>2. IsCut(free_len_by_ptr, Held, f, len, rest, a, r, free_len_by_ptr', Held')
      BY <1>1, <1>3, <1>5, <1>6, <1>10, <1>11 DEF IsCut
    <2>3. QED
      BY <2>1, <2>2, Cut
  <1>13. Shape(free_len_by_ptr, Held)'
    BY <1>12 DEF Shape, Lengths, Fits, Disjoint, Covers, Holds, Merged
  <1>14. Rounded'
    BY <1>1, <1>8 DEF IInv, Rounded, Bind
  <1>15. QED
    BY <1>1, <1>8, <1>10, <1>13, <1>14 DEF IInv

\* The search for the last backend at or below an address of a block finds the
\* backend the block lies in.
LEMMA BackendOf ==
    ASSUME NEW p \in Nat, NEW len \in Nat \ {0}, NEW b \in Backends,
           b[1] <= p, p + len <= b[1] + b[2]
    PROVE  backend_of(p) = b
  <1>1. PICK S : S = {c[1] : c \in {c \in Backends : c[1] <= p}}
    OBVIOUS
  <1>2. \A c \in Backends : c \in Nat \X (Nat \ {0}) /\ c[1] \in Nat /\ c[2] \in Nat \ {0}
    BY BackendsAssumption
  <1>3. S \subseteq Nat /\ b[1] \in S /\ \A x \in S : x <= AddressSpace
    BY <1>1, <1>2, BackendsAssumption, AddressSpaceAssumption
  <1>4. \A x \in S : x <= b[1]
    <2> SUFFICES ASSUME NEW c \in Backends, c[1] <= p
                 PROVE  c[1] <= b[1]
      BY <1>1
    <2>1. c # b => b[1] + b[2] <= c[1] \/ c[1] + c[2] <= b[1]
      BY BackendsAssumption
    <2>2. QED
      BY <1>2, <2>1
  <1>5. Last(S) \in S /\ \A x \in S : x <= Last(S)
    BY <1>3, LastIsGreatest
  <1>6. Last(S) = b[1]
    <2>1. Last(S) \in Nat /\ b[1] \in Nat /\ Last(S) <= b[1] /\ b[1] <= Last(S)
      BY <1>3, <1>4, <1>5
    <2>2. QED
      BY <2>1
  <1>7. \A c \in Backends : c[1] = b[1] => c = b
    <2> SUFFICES ASSUME NEW c \in Backends, c[1] = b[1], c # b
                 PROVE  FALSE
      OBVIOUS
    <2>1. b[1] + b[2] <= c[1] \/ c[1] + c[2] <= b[1]
      BY BackendsAssumption
    <2>2. QED
      BY <1>2, <2>1
  <1>8. backend_of(p) = CHOOSE c \in Backends : c[1] = b[1]
    BY <1>1, <1>6 DEF backend_of
  <1>9. QED
    BY <1>7, <1>8

\* The neighbour that free merges behind the block is the free block that starts
\* where it ends.
LEMMA NextMerged ==
    ASSUME IInv, NEW p \in DOMAIN Held
    PROVE  IF merges_next(p, Held[p])
           THEN /\ First(next_free(p)) = p + Held[p]
                /\ p + Held[p] \in DOMAIN free_len_by_ptr
                /\ p + Held[p] # backend_of(p)[1] + backend_of(p)[2]
           ELSE \/ p + Held[p] = backend_of(p)[1] + backend_of(p)[2]
                \/ p + Held[p] \notin DOMAIN free_len_by_ptr
  <1>1. p \in Nat /\ Held[p] \in Nat \ {0} /\ Lengths(free_len_by_ptr)
    BY DEF IInv, Shape, Lengths
  <1>2. next_free(p) \subseteq Nat
    BY <1>1 DEF next_free, Lengths
  <1>3. next_free(p) # {} => /\ First(next_free(p)) \in next_free(p)
                            /\ \A q \in next_free(p) : First(next_free(p)) <= q
    BY <1>2, FirstIsLeast
  <1>4. \A q \in next_free(p) : q >= p + Held[p]
    BY <1>1 DEF next_free, IInv, Shape, Lengths, Disjoint, Apart
  <1>5. CASE merges_next(p, Held[p])
    BY <1>3, <1>5 DEF merges_next, next_free
  <1>6. CASE ~merges_next(p, Held[p]) /\ p + Held[p] \in DOMAIN free_len_by_ptr
    <2>1. p + Held[p] \in next_free(p)
      BY <1>1, <1>6 DEF next_free
    <2>2. First(next_free(p)) = p + Held[p]
      BY <1>1, <1>2, <1>3, <1>4, <2>1
    <2>3. QED
      BY <1>6, <2>1, <2>2 DEF merges_next
  <1>7. QED
    BY <1>5, <1>6

\* The same in front of the block.
LEMMA PrevMerged ==
    ASSUME IInv, NEW p \in DOMAIN Held
    PROVE  IF merges_prev(p)
           THEN /\ Last(prev_free(p)) \in DOMAIN free_len_by_ptr
                /\ Last(prev_free(p)) + free_len_by_ptr[Last(prev_free(p))] = p
                /\ p # backend_of(p)[1]
           ELSE \/ p = backend_of(p)[1]
                \/ \A q \in DOMAIN free_len_by_ptr : q + free_len_by_ptr[q] # p
  <1>1. p \in Nat /\ Lengths(free_len_by_ptr)
    BY DEF IInv, Shape, Lengths
  <1>2. prev_free(p) \subseteq Nat /\ \A q \in prev_free(p) : q <= AddressSpace
    BY <1>1, BackendsAssumption, AddressSpaceAssumption
       DEF prev_free, IInv, Shape, Lengths, Fits, Inside
  <1>3. prev_free(p) # {} => /\ Last(prev_free(p)) \in prev_free(p)
                            /\ \A q \in prev_free(p) : q <= Last(prev_free(p))
    BY <1>1, <1>2, LastIsGreatest
  <1>4. CASE merges_prev(p)
    BY <1>3, <1>4 DEF merges_prev, prev_free
  <1>5. ASSUME ~merges_prev(p), NEW q \in DOMAIN free_len_by_ptr, q + free_len_by_ptr[q] = p
        PROVE  p = backend_of(p)[1]
    <2>1. PICK l : l = Last(prev_free(p))
      OBVIOUS
    <2>2. q \in prev_free(p)
      BY <1>1, <1>5 DEF prev_free, Lengths
    <2>3. l \in DOMAIN free_len_by_ptr /\ l < p /\ q <= l
      BY <1>3, <2>1, <2>2 DEF prev_free
    <2>4. l = q
      BY <1>1, <1>5, <2>3 DEF IInv, Shape, Lengths, Disjoint, Apart
    <2>5. QED
      BY <1>5, <2>1, <2>2, <2>4 DEF merges_prev
  <1>6. QED
    BY <1>4, <1>5

\* What is left of the indices once the neighbours that are merged are out.
AreRemoved(m, n, P, Q, x, y, t, t1, t2) ==
    /\ Agree(m, n) /\ t.by_ptr = m /\ t.by_len = n
    /\ P \subseteq DOMAIN m /\ Q \subseteq DOMAIN m /\ P \cap Q = {}
    /\ P \in {{}, {x}} /\ Q \in {{}, {y}}
    /\ t1 = IF Q = {y} THEN remove_block(t, y) ELSE t
    /\ t2 = IF P = {x} THEN remove_block(t1, x) ELSE t1

\* The neighbours free merges with are taken out of both maps.
LEMMA NeighboursRemoved ==
    ASSUME NEW m, NEW n, NEW P, NEW Q, NEW x, NEW y, NEW t, NEW t1, NEW t2,
           AreRemoved(m, n, P, Q, x, y, t, t1, t2)
    PROVE  /\ Agree(t2.by_ptr, t2.by_len)
           /\ DOMAIN t2.by_ptr = DOMAIN m \ (P \cup Q)
           /\ \A q \in DOMAIN t2.by_ptr : t2.by_ptr[q] = m[q]
  <1> USE DEF AreRemoved
  <1>1. /\ Agree(t1.by_ptr, t1.by_len)
        /\ DOMAIN t1.by_ptr = DOMAIN m \ Q
        /\ \A q \in DOMAIN t1.by_ptr : t1.by_ptr[q] = m[q]
    <2>1. CASE Q = {y}
      <3>1. Agree(t.by_ptr, t.by_len) /\ y \in DOMAIN t.by_ptr
        BY <2>1
      <3>2. Agree(t1.by_ptr, t1.by_len) /\ t1.by_ptr = Unbind(m, y)
        BY <2>1, <3>1, RemoveBlock
      <3>3. QED
        BY <2>1, <3>2 DEF Unbind
    <2>2. CASE Q # {y}
      BY <2>2
    <2>3. QED
      BY <2>1, <2>2
  <1>2. CASE P = {x}
    <2>1. x \in DOMAIN t1.by_ptr
      BY <1>1, <1>2
    <2>2. Agree(t2.by_ptr, t2.by_len) /\ t2.by_ptr = Unbind(t1.by_ptr, x)
      BY <1>1, <1>2, <2>1, RemoveBlock
    <2>3. QED
      BY <1>1, <1>2, <2>2 DEF Unbind
  <1>3. CASE P # {x}
    BY <1>1, <1>3
  <1>4. QED
    BY <1>2, <1>3

\* free preserves the invariant.
LEMMA IInvFree ==
    ASSUME IInv, NEW ptr \in DOMAIN live, TrackerFree(ptr, live[ptr].alloc_len)
    PROVE  IInv'
  <1>1. PICK len : /\ len = live[ptr].alloc_len /\ len = Held[ptr] /\ ptr \in DOMAIN Held
                   /\ ptr \in Nat /\ len \in Nat \ {0}
    BY DEF IInv, Shape, Lengths, Held
  <1>2. PICK b \in Backends : b[1] <= ptr /\ ptr + len <= b[1] + b[2] /\ backend_of(ptr) = b
    <2>1. PICK b \in Backends : b[1] <= ptr /\ ptr + len <= b[1] + b[2]
      BY <1>1 DEF IInv, Shape, Fits, Inside
    <2>2. QED
      BY <1>1, <2>1, BackendOf
  <1>3. PICK y : y = First(next_free(ptr))
    OBVIOUS
  <1>4. PICK x : x = Last(prev_free(ptr))
    OBVIOUS
  <1>5. PICK after : after = IF merges_next(ptr, len) THEN free_len_by_ptr[y] ELSE 0
    OBVIOUS
  <1>6. PICK before : before = IF merges_prev(ptr) THEN free_len_by_ptr[x] ELSE 0
    OBVIOUS
  <1>7. /\ after \in Nat
        /\ after # 0 <=> merges_next(ptr, len)
        /\ after # 0 => /\ y = ptr + len /\ ptr + len \in DOMAIN free_len_by_ptr
                        /\ free_len_by_ptr[ptr + len] = after /\ ptr + len # b[1] + b[2]
        /\ after = 0 => ptr + len = b[1] + b[2] \/ ptr + len \notin DOMAIN free_len_by_ptr
    <2>1. CASE merges_next(ptr, len)
      <3>1. /\ y = ptr + len /\ ptr + len \in DOMAIN free_len_by_ptr
            /\ ptr + len # b[1] + b[2]
        BY <1>1, <1>2, <1>3, <2>1, NextMerged
      <3>2. free_len_by_ptr[ptr + len] \in Nat \ {0}
        BY <3>1 DEF IInv, Shape, Lengths
      <3>3. QED
        BY <1>5, <2>1, <3>1, <3>2
    <2>2. CASE ~merges_next(ptr, len)
      BY <1>1, <1>2, <1>5, <2>2, NextMerged
    <2>3. QED
      BY <2>1, <2>2
  <1>8. /\ before \in Nat
        /\ before # 0 <=> merges_prev(ptr)
        /\ before # 0 => /\ x = ptr - before /\ ptr - before \in DOMAIN free_len_by_ptr
                         /\ free_len_by_ptr[ptr - before] = before /\ ptr # b[1]
        /\ before = 0 => \/ ptr = b[1]
                         \/ \A q \in DOMAIN free_len_by_ptr : q + free_len_by_ptr[q] # ptr
    <2>1. CASE merges_prev(ptr)
      <3>1. /\ x \in DOMAIN free_len_by_ptr /\ x + free_len_by_ptr[x] = ptr /\ ptr # b[1]
        BY <1>1, <1>2, <1>4, <2>1, PrevMerged
      <3>2. x \in Nat /\ free_len_by_ptr[x] \in Nat \ {0}
        BY <3>1 DEF IInv, Shape, Lengths
      <3>3. QED
        BY <1>1, <1>6, <2>1, <3>1, <3>2
    <2>2. CASE ~merges_prev(ptr)
      BY <1>1, <1>2, <1>6, <2>2, PrevMerged
    <2>3. QED
      BY <2>1, <2>2
  <1>9. PICK t1 : t1 = IF after # 0 THEN remove_block(free_blocks, y) ELSE free_blocks
    OBVIOUS
  <1>10. PICK t2 : t2 = IF before # 0 THEN remove_block(t1, x) ELSE t1
    OBVIOUS
  <1>11. /\ Agree(t2.by_ptr, t2.by_len)
         /\ DOMAIN t2.by_ptr = {q \in DOMAIN free_len_by_ptr : /\ before # 0 => q # ptr - before
                                                               /\ after # 0 => q # ptr + len}
         /\ \A q \in DOMAIN t2.by_ptr : t2.by_ptr[q] = free_len_by_ptr[q]
    <2>1. PICK P, Q : /\ P = (IF before # 0 THEN {x} ELSE {})
                      /\ Q = (IF after # 0 THEN {y} ELSE {})
      OBVIOUS
    <2>2. P \subseteq DOMAIN free_len_by_ptr /\ Q \subseteq DOMAIN free_len_by_ptr
      BY <1>7, <1>8, <2>1
    <2>3. P \cap Q = {}
      <3>1. before # 0 /\ after # 0 => x # y
        BY <1>1, <1>7, <1>8
      <3>2. QED
        BY <2>1, <3>1
    <2>4. P \in {{}, {x}} /\ Q \in {{}, {y}}
      BY <2>1
    <2>5. free_blocks.by_ptr = free_len_by_ptr /\ free_blocks.by_len = free_ptrs_by_len
      BY DEF free_blocks
    <2>6. /\ t1 = IF Q = {y} THEN remove_block(free_blocks, y) ELSE free_blocks
          /\ t2 = IF P = {x} THEN remove_block(t1, x) ELSE t1
      BY <1>9, <1>10, <2>1
    <2>7. Agree(free_len_by_ptr, free_ptrs_by_len)
      BY DEF IInv
    <2>8. AreRemoved(free_len_by_ptr, free_ptrs_by_len, P, Q, x, y, free_blocks, t1, t2)
      BY <2>2, <2>3, <2>4, <2>5, <2>6, <2>7 DEF AreRemoved
    <2>9. /\ Agree(t2.by_ptr, t2.by_len)
          /\ DOMAIN t2.by_ptr = DOMAIN free_len_by_ptr \ (P \cup Q)
          /\ \A q \in DOMAIN t2.by_ptr : t2.by_ptr[q] = free_len_by_ptr[q]
      BY <2>8, NeighboursRemoved
    <2>10. QED
      BY <1>7, <1>8, <2>1, <2>9
  <1>12. /\ free_len_by_ptr' = insert_block(t2, ptr - before, before + len + after).by_ptr
         /\ free_ptrs_by_len' = insert_block(t2, ptr - before, before + len + after).by_len
         /\ live' = Unbind(live, ptr)
         /\ used_mem_current' = used_mem_current - len
         /\ used_mem_peak' = used_mem_peak
    <2>1. TrackerFree(ptr, len)
      BY <1>1
    <2>2. PICK at, total :
              /\ at = (IF merges_prev(ptr) THEN x ELSE ptr)
              /\ total = IF merges_prev(ptr)
                         THEN (IF merges_next(ptr, len) THEN len + free_len_by_ptr[y] ELSE len)
                                 + free_len_by_ptr[x]
                         ELSE (IF merges_next(ptr, len) THEN len + free_len_by_ptr[y] ELSE len)
      OBVIOUS
    <2>3. at = ptr - before /\ total = before + len + after
      BY <1>1, <1>5, <1>6, <1>7, <1>8, <2>2
    <2>4. /\ free_len_by_ptr' = insert_block(t2, at, total).by_ptr
          /\ free_ptrs_by_len' = insert_block(t2, at, total).by_len
      BY <1>3, <1>4, <1>7, <1>8, <1>9, <1>10, <2>1, <2>2 DEF TrackerFree, SetFreeBlocks
    <2>5. QED
      BY <2>1, <2>3, <2>4 DEF TrackerFree
  <1>13. ptr - before \notin DOMAIN t2.by_ptr
    <2>1. CASE before # 0
      BY <1>11, <2>1
    <2>2. CASE before = 0
      <3>1. ptr \notin DOMAIN free_len_by_ptr
        BY <1>1 DEF IInv, Shape, Lengths, Disjoint, Apart
      <3>2. ptr - before = ptr
        BY <1>1, <2>2
      <3>3. QED
        BY <1>11, <3>1, <3>2
    <2>3. QED
      BY <2>1, <2>2
  <1>14. /\ Agree(free_len_by_ptr, free_ptrs_by_len)'
         /\ free_len_by_ptr' = Bind(t2.by_ptr, ptr - before, before + len + after)
    <2>1. PICK at, total : at = ptr - before /\ total = before + len + after
      OBVIOUS
    <2>2. /\ Agree(insert_block(t2, at, total).by_ptr, insert_block(t2, at, total).by_len)
          /\ insert_block(t2, at, total).by_ptr = Bind(t2.by_ptr, at, total)
      BY <1>11, <1>13, <2>1, InsertBlock
    <2>3. QED
      BY <1>12, <2>1, <2>2 DEF Agree
  <1>15. /\ DOMAIN Held' = DOMAIN Held \ {ptr}
         /\ \A q \in DOMAIN Held' : Held'[q] = Held[q]
    BY <1>12 DEF Held, Unbind
  <1>16. /\ DOMAIN free_len_by_ptr' = DOMAIN t2.by_ptr \cup {ptr - before}
         /\ free_len_by_ptr'[ptr - before] = before + len + after
         /\ \A q \in DOMAIN free_len_by_ptr' :
               q # ptr - before => free_len_by_ptr'[q] = free_len_by_ptr[q]
    BY <1>11, <1>14 DEF Bind
  <1>17. IsJoin(free_len_by_ptr, Held, ptr, b, before, after, free_len_by_ptr', Held')
    <2>1. DOMAIN Held' = DOMAIN Held \ {ptr} /\ \A q \in DOMAIN Held' : Held'[q] = Held[q]
      BY <1>15
    <2>2. DOMAIN free_len_by_ptr'
             = {q \in DOMAIN free_len_by_ptr : /\ before # 0 => q # ptr - before
                                               /\ after # 0 => q # ptr + Held[ptr]}
                  \cup {ptr - before}
      BY <1>1, <1>11, <1>16
    <2>3. free_len_by_ptr'[ptr - before] = before + Held[ptr] + after
      BY <1>1, <1>16
    <2>4. QED
      BY <1>1, <1>2, <1>7, <1>8, <1>16, <2>1, <2>2, <2>3 DEF IsJoin
  <1>18. Shape(free_len_by_ptr', Held')
    <2>1. Shape(free_len_by_ptr, Held)
      BY DEF IInv
    <2>2. QED
      BY <1>17, <2>1, Join
  <1>19. Shape(free_len_by_ptr, Held)'
    BY <1>18 DEF Shape, Lengths, Fits, Disjoint, Covers, Holds, Merged
  <1>20. Rounded'
    BY <1>12 DEF IInv, Rounded, Unbind
  <1>21. QED
    BY <1>1, <1>12, <1>14, <1>19, <1>20 DEF IInv

\* Every operation preserves the invariant.
LEMMA IInvNext == IInv /\ [Next]_vars => IInv'
  <1> SUFFICES ASSUME IInv, [Next]_vars
               PROVE  IInv'
    OBVIOUS
  <1>1. ASSUME NEW size \in Sizes, NEW placement \in Placements, Alloc(size, placement)
        PROVE  IInv'
    BY <1>1, IInvAlloc
  <1>2. ASSUME free_len_by_ptr' = free_len_by_ptr, free_ptrs_by_len' = free_ptrs_by_len,
               live' = live, used_mem_current' = used_mem_current, used_mem_peak' \in Int
        PROVE  IInv'
    <2>1. Held' = Held
      BY <1>2 DEF Held
    <2>2. Agree(free_len_by_ptr, free_ptrs_by_len)' /\ Shape(free_len_by_ptr, Held)' /\ Rounded'
      BY <1>2, <2>1
         DEF IInv, Agree, Shape, Lengths, Fits, Disjoint, Covers, Holds, Merged, Rounded
    <2>3. QED
      BY <1>2, <2>2 DEF IInv
  <1>3. ASSUME NEW ptr \in DOMAIN live, Free(ptr)
        PROVE  IInv'
    BY <1>3, IInvFree DEF Free
  <1>4. ASSUME NEW ptr \in DOMAIN live, deallocate(ptr)
        PROVE  IInv'
    <2>1. live[ptr].alloc_len = next_multiple_of_chunk(live[ptr].len)
      BY DEF IInv, Rounded
    <2>2. QED
      BY <1>4, <2>1, IInvFree DEF deallocate
  <1>5. CASE \E size \in Sizes, placement \in Placements : AllocFails(size, placement)
    BY <1>2, <1>5 DEF AllocFails, vars, IInv
  <1>6. CASE reset_used_mem_peak
    BY <1>2, <1>6 DEF reset_used_mem_peak, IInv
  <1>7. CASE UNCHANGED vars
    BY <1>2, <1>7 DEF vars, IInv
  <1>8. QED
    BY <1>1, <1>3, <1>4, <1>5, <1>6, <1>7 DEF Next

\* The invariant always holds.
LEMMA Inductive == Spec => []IInv
  BY IInvInit, IInvNext, PTL DEF Spec

----------------------------------------------------------------------------
(* The theorems *)

\* Every variable of the tracker has its type, and no block it knows is empty.
THEOREM TypeCorrect == Spec => []TypeOK
  <1>1. IInv => TypeOK
    BY DEF IInv, Agree, Shape, Lengths, Held, Rounded, TypeOK
  <1>2. QED
    BY <1>1, Inductive, PTL

\* The two indices of the free blocks agree, so no assert on a remove or an
\* insert of alloc and free fails, whatever the backends, the chunk size and the
\* sizes asked for.
THEOREM TrackerIndicesAgree == Spec => []IndicesAgree
  <1>1. IInv => IndicesAgree
    BY DEF IInv, Agree, IndicesAgree
  <1>2. QED
    BY <1>1, Inductive, PTL

\* No two blocks overlap, free or handed out, and none leaves its backend.
THEOREM BlocksDisjoint == Spec => []NoOverlap
  <1>1. IInv => NoOverlap
    <2> SUFFICES ASSUME IInv
                 PROVE  NoOverlap
      OBVIOUS
    <2>1. Fits(free_len_by_ptr, Held) /\ Disjoint(free_len_by_ptr, Held)
      BY DEF IInv, Shape
    <2>2. DOMAIN Held = DOMAIN live /\ \A q \in DOMAIN live : Held[q] = live[q].alloc_len
      BY DEF Held
    <2>3. QED
      BY <2>1, <2>2 DEF Fits, Disjoint, NoOverlap
  <1>2. QED
    BY <1>1, Inductive, PTL

\* Whatever a caller holds, free accepts: its asserts on the backend and on the
\* free neighbours hold.
THEOREM HeldCanBeFreed == Spec => []FreeAccepted
  <1>1. ASSUME IInv, NEW p \in DOMAIN live
        PROVE  free_checks(p, live[p].alloc_len)
    <2>1. PICK len : /\ len = live[p].alloc_len /\ len = Held[p] /\ p \in DOMAIN Held
                     /\ p \in Nat /\ len \in Nat \ {0}
      BY <1>1 DEF IInv, Shape, Lengths, Held
    <2>2. PICK b \in Backends : b[1] <= p /\ p + len <= b[1] + b[2]
      BY <1>1, <2>1 DEF IInv, Shape, Fits, Inside
    <2>3. backend_of(p) = b
      BY <2>1, <2>2, BackendOf
    <2>4. Lengths(free_len_by_ptr) /\ Disjoint(free_len_by_ptr, Held)
      BY <1>1 DEF IInv, Shape
    <2>5. ASSUME next_free(p) # {}
          PROVE  First(next_free(p)) - p >= len
      <3>1. next_free(p) \in SUBSET Nat
        BY <2>4 DEF next_free, Lengths
      <3>2. PICK q \in DOMAIN free_len_by_ptr : q = First(next_free(p)) /\ q >= p
        BY <2>5, <3>1, FirstIsLeast DEF next_free
      <3>3. Apart(q, free_len_by_ptr[q], p, len) /\ q \in Nat /\ free_len_by_ptr[q] \in Nat \ {0}
        BY <2>1, <2>4 DEF Disjoint, Lengths
      <3>4. QED
        BY <2>1, <3>2, <3>3 DEF Apart
    <2>6. ASSUME prev_free(p) # {}
          PROVE  p - Last(prev_free(p)) >= free_len_by_ptr[Last(prev_free(p))]
      <3>1. prev_free(p) \in SUBSET Nat /\ \A q \in prev_free(p) : q <= AddressSpace
        BY <1>1, BackendsAssumption, AddressSpaceAssumption
           DEF prev_free, IInv, Shape, Lengths, Fits, Inside
      <3>2. PICK q \in DOMAIN free_len_by_ptr : q = Last(prev_free(p)) /\ q < p
        BY <2>6, <3>1, LastIsGreatest DEF prev_free
      <3>3. Apart(q, free_len_by_ptr[q], p, len) /\ q \in Nat /\ free_len_by_ptr[q] \in Nat \ {0}
        BY <2>1, <2>4 DEF Disjoint, Lengths
      <3>4. QED
        BY <2>1, <3>2, <3>3 DEF Apart
    <2>7. QED
      BY <2>1, <2>2, <2>3, <2>5, <2>6 DEF free_checks
  <1>2. IInv => FreeAccepted
    BY <1>1 DEF FreeAccepted
  <1>3. QED
    BY <1>2, Inductive, PTL

\* A run of bytes in one backend that nobody holds lies in one free block.
LEMMA RunIsFree ==
    ASSUME NEW m, NEW v, Shape(m, v), NEW b \in Backends, NEW p \in Nat,
           NEW len \in Nat \ {0}, b[1] <= p, p + len <= b[1] + b[2],
           \A q \in DOMAIN v : Apart(p, len, q, v[q])
    PROVE  \E q \in DOMAIN m : m[q] >= len
  <1>1. b[1] \in Nat /\ b[2] \in Nat
    BY BackendsAssumption
  <1>2. ASSUME NEW x \in Nat, p <= x, x < p + len
        PROVE  \E q \in DOMAIN m : q <= x /\ x < q + m[q]
    <2>1. Holds(m, x) \/ Holds(v, x)
      BY <1>1, <1>2 DEF Shape, Covers
    <2>2. ~Holds(v, x)
      BY <1>2 DEF Holds, Apart, Shape, Lengths
    <2>3. QED
      BY <2>1, <2>2 DEF Holds
  <1>3. PICK q \in DOMAIN m : q <= p /\ p < q + m[q]
    BY <1>2
  <1>4. q \in Nat /\ m[q] \in Nat \ {0} /\ Inside(q, m[q])
    BY DEF Shape, Lengths, Fits
  <1>5. b[1] <= q /\ q + m[q] <= b[1] + b[2]
    BY <1>1, <1>3, <1>4, SameBackend
  <1>6. ASSUME q + m[q] < p + len
        PROVE  FALSE
    <2>1. PICK s \in DOMAIN m : s <= q + m[q] /\ q + m[q] < s + m[s]
      BY <1>2, <1>3, <1>4, <1>6
    <2>2. s \in Nat /\ m[s] \in Nat \ {0} /\ s # q
      BY <1>4, <2>1 DEF Shape, Lengths
    <2>3. Apart(q, m[q], s, m[s])
      BY <2>2 DEF Shape, Disjoint
    <2>4. q + m[q] = s
      BY <1>4, <2>1, <2>2, <2>3 DEF Apart
    <2>5. PICK c \in Backends : c[1] = s
      BY <2>4 DEF Shape, Merged
    <2>6. c # b => c[1] + c[2] <= b[1] \/ b[1] + b[2] <= c[1]
      BY BackendsAssumption
    <2>7. c[1] \in Nat /\ c[2] \in Nat
      BY BackendsAssumption
    <2>8. QED
      BY <1>1, <1>4, <1>5, <1>6, <2>4, <2>5, <2>6, <2>7
  <1>7. m[q] >= len
    BY <1>3, <1>4, <1>6
  <1>8. QED
    BY <1>7

\* alloc fails only when no backend has enough bytes in a row that nobody holds,
\* for every placement: no byte is ever lost and no merge is ever missed.
THEOREM NoFragmentationLoss == Spec => []FailsOnlyWhenFull
  <1>1. ASSUME IInv, NEW size \in Sizes, NEW placement \in Placements, NEW b \in Backends,
               NEW len, len = next_multiple_of_chunk(size),
               NEW p \in b[1] .. (b[1] + b[2] - len),
               \A q \in DOMAIN live : Apart(p, len, q, live[q].alloc_len)
        PROVE  has_block(len, placement)
    <2>1. len \in Nat \ {0}
      BY <1>1, SizesAssumption, ChunksPositive
    <2>2. b[1] \in Nat /\ b[2] \in Nat
      BY BackendsAssumption
    <2>3. p \in Nat /\ b[1] <= p /\ p + len <= b[1] + b[2]
      BY <2>1, <2>2
    <2>4. Shape(free_len_by_ptr, Held)
      BY <1>1 DEF IInv
    <2>5. \A q \in DOMAIN Held : Apart(p, len, q, Held[q])
      BY <1>1 DEF Held
    <2>6. PICK q \in DOMAIN free_len_by_ptr : free_len_by_ptr[q] >= len
      BY <2>1, <2>3, <2>4, <2>5, RunIsFree
    <2>7. free_len_by_ptr[q] \in DOMAIN free_ptrs_by_len
      BY <1>1 DEF IInv, Agree
    <2>8. QED
      BY <2>6, <2>7 DEF has_block, lengths_from, find_free_ptr_by_len
  <1>2. IInv => FailsOnlyWhenFull
    BY <1>1 DEF FailsOnlyWhenFull
  <1>3. QED
    BY <1>2, Inductive, PTL
=============================================================================
