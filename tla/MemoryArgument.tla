--------------------------- MODULE MemoryArgument ---------------------------
(***************************************************************************)
(* Why a memory argument works, without proofs or circuits: a finite set   *)
(* of parts each of which reads a timestamp of a memory cell and writes    *)
(* one, where every timestamp is read as often as it is written.           *)
(***************************************************************************)
EXTENDS Integers, FiniteSets, FiniteSetTheorems, WellFoundedInduction, TLAPS

\* The elements of X with a value of f, and up to a value
At(X, f, t) == {x \in X : f[x] = t}
UpTo(X, f, t) == {x \in X : f[x] <= t}

\* Every timestamp is read as often as it is written.
Balanced(X, read, write) ==
    \A t \in Nat : Cardinality(At(X, read, t)) = Cardinality(At(X, write, t))

\* The subset I of X initialises, at timestamp 0; the others read from before they
\* write.
InitsOf(I, X, read, write) ==
    I \subseteq X /\ (\A x \in I : write[x] = 0) /\ (\A x \in X \ I : read[x] < write[x])

\* Who is under way: has read and not written; and who is torn down later
Spanning(I, X, read, write, now) == {x \in X \ I : read[x] <= now /\ now < write[x]}
Later(I, read, now) == {x \in I : now < read[x]}

\* A set of natural numbers that is not empty has a least element.
LEMMA LeastNatural ==
    ASSUME NEW T \in SUBSET Nat, T # {}
    PROVE  \E n \in T : \A m \in T : n <= m
<1>1. PICK n \in T : \A m \in T : ~ (<<m, n>> \in OpToRel(<, Nat))
  BY NatLessThanWellFounded, WFMin, Zenon
<1>2. \A m \in T : ~ (m < n)
  BY <1>1 DEF OpToRel
<1>3. n \in Nat /\ \A m \in T : m \in Nat
  OBVIOUS
<1>4. \A m \in T : n <= m
  BY <1>2, <1>3
<1> QED
  BY <1>4

\* The subset U of X falls into the parts S and T.
Splits(X, U, S, T) == U \subseteq X /\ U = S \cup T /\ S \cap T = {}

\* The cardinalities of two disjoint parts add up.
LEMMA DisjointUnion ==
    ASSUME NEW X, IsFiniteSet(X), NEW U, NEW S, NEW T, Splits(X, U, S, T)
    PROVE  /\ IsFiniteSet(S) /\ IsFiniteSet(T)
           /\ Cardinality(S) \in Nat /\ Cardinality(T) \in Nat
           /\ Cardinality(U) = Cardinality(S) + Cardinality(T)
<1>1. S \in SUBSET X /\ T \in SUBSET X /\ U = S \cup T /\ S \cap T = {}
  BY DEF Splits
<1>2. IsFiniteSet(S) /\ IsFiniteSet(T)
  BY <1>1, FS_Subset, Zenon
<1>3. Cardinality(S) \in Nat /\ Cardinality(T) \in Nat
  BY <1>2, FS_CardinalityType, Zenon
<1>4. Cardinality(S \cup T) = Cardinality(S) + Cardinality(T) - Cardinality(S \cap T)
  BY <1>2, FS_Union, Zenon
<1>5. Cardinality(S \cap T) = 0
  BY <1>1, FS_EmptySet, Zenon
<1> QED
  BY <1>1, <1>2, <1>3, <1>4, <1>5

\* When every timestamp is read as often as it is written, then so are all timestamps
\* up to some time together.
LEMMA CountsUpTo ==
    ASSUME NEW X, IsFiniteSet(X), NEW read \in [X -> Nat], NEW write \in [X -> Nat],
           Balanced(X, read, write),
           NEW now \in Nat
    PROVE  Cardinality(UpTo(X, read, now)) = Cardinality(UpTo(X, write, now))
<1> DEFINE T == {t \in Nat : Cardinality(UpTo(X, read, t)) # Cardinality(UpTo(X, write, t))}
<1>1. SUFFICES ASSUME T # {} PROVE FALSE
  OBVIOUS
<1>2. PICK n \in T : \A m \in T : n <= m
  <2> T \in SUBSET Nat
    OBVIOUS
  <2> HIDE DEF T
  <2> QED
    BY <1>1, LeastNatural
<1>3. n \in Nat /\ Cardinality(UpTo(X, read, n)) # Cardinality(UpTo(X, write, n))
  BY <1>2
<1>4. CASE n = 0
  <2>1. UpTo(X, read, 0) = At(X, read, 0) /\ UpTo(X, write, 0) = At(X, write, 0)
    BY DEF UpTo, At
  <2>2. Cardinality(At(X, read, 0)) = Cardinality(At(X, write, 0))
    BY DEF Balanced
  <2> QED
    BY <1>3, <1>4, <2>1, <2>2
<1>5. CASE n # 0
  <2> DEFINE p == n - 1
  <2>1. p \in Nat /\ ~ (n <= p)
    BY <1>3, <1>5
  <2>2. Cardinality(UpTo(X, read, p)) = Cardinality(UpTo(X, write, p))
    BY <1>2, <2>1
  <2>3. Cardinality(At(X, read, n)) = Cardinality(At(X, write, n))
    BY <1>3 DEF Balanced
  <2>4. ASSUME NEW f \in [X -> Nat]
        PROVE  Cardinality(UpTo(X, f, n)) = Cardinality(UpTo(X, f, p)) + Cardinality(At(X, f, n))
    <3>1. Splits(X, UpTo(X, f, n), UpTo(X, f, p), At(X, f, n))
      BY <1>3, <2>1 DEF Splits, UpTo, At
    <3> HIDE DEF p
    <3> QED
      BY <3>1, DisjointUnion
  <2> HIDE DEF p
  <2> QED
    BY <1>3, <2>2, <2>3, <2>4, Zenon
<1> QED
  BY <1>4, <1>5

\* Parts of one cell: inits, which write timestamp 0, and accesses, which read from
\* before they write.  At any time there are as many accesses under way, with a read
\* in the past and a write in the future, as there are inits whose teardown is in the
\* future.
LEMMA SpansOfInits ==
    ASSUME NEW X, IsFiniteSet(X), NEW read \in [X -> Nat], NEW write \in [X -> Nat],
           Balanced(X, read, write),
           NEW I, InitsOf(I, X, read, write),
           NEW now \in Nat
    PROVE  /\ IsFiniteSet(Spanning(I, X, read, write, now)) /\ IsFiniteSet(Later(I, read, now))
           /\ Cardinality(Spanning(I, X, read, write, now)) = Cardinality(Later(I, read, now))
<1> DEFINE R == UpTo(X, read, now)
           W == UpTo(X, write, now)
           S == Spanning(I, X, read, write, now)
           L == Later(I, read, now)
           B == {x \in X : read[x] <= now /\ write[x] <= now}
<1>1. Cardinality(R) = Cardinality(W)
  BY CountsUpTo, Zenon
<1>2. Splits(X, R, S, B)
  BY DEF Splits, UpTo, Spanning, Later, InitsOf
<1>3. Splits(X, W, L, B)
  BY DEF Splits, UpTo, Spanning, Later, InitsOf
<1> HIDE DEF R, W, S, L, B
<1>4. IsFiniteSet(S) /\ Cardinality(S) \in Nat /\ Cardinality(B) \in Nat
      /\ Cardinality(R) = Cardinality(S) + Cardinality(B)
  BY <1>2, DisjointUnion
<1>5. IsFiniteSet(L) /\ Cardinality(L) \in Nat /\ Cardinality(W) = Cardinality(L) + Cardinality(B)
  BY <1>2, <1>3, DisjointUnion
<1>6. Cardinality(S) = Cardinality(L)
  <2>1. \A s, l, b \in Nat : s + b = l + b => s = l
    OBVIOUS
  <2>2. Cardinality(S) + Cardinality(B) = Cardinality(L) + Cardinality(B)
    BY <1>1, <1>4, <1>5
  <2> QED
    BY <1>4, <1>5, <2>1, <2>2, Zenon
<1> QED
  BY <1>4, <1>5, <1>6 DEF S, L

\* A cell that is initialised once: nothing is written between the read and the write
\* of an access, nor after the teardown of the cell.
THEOREM SingleHistory ==
    ASSUME NEW X, IsFiniteSet(X), NEW read \in [X -> Nat], NEW write \in [X -> Nat],
           Balanced(X, read, write),
           NEW I, InitsOf(I, X, read, write),
           \A x, y \in I : read[x] > 0 /\ read[y] > 0 => x = y
    PROVE  /\ \A x, y \in X \ I : write[y] < write[x] => write[y] <= read[x]
           /\ \A x, y \in X \ I : write[y] = write[x] => x = y
           /\ \A y \in X \ I : \E i \in I : read[i] >= write[y]
<1> DEFINE S(now) == Spanning(I, X, read, write, now)
           L(now) == Later(I, read, now)
<1>1. ASSUME NEW now \in Nat
      PROVE  IsFiniteSet(S(now)) /\ IsFiniteSet(L(now)) /\ Cardinality(S(now)) = Cardinality(L(now))
  BY SpansOfInits
<1>2. ASSUME NEW now \in Nat, NEW x \in S(now) PROVE L(now) # {}
  <2>1. S(now) # {}
    BY <1>2
  <2>2. IsFiniteSet(S(now)) /\ IsFiniteSet(L(now)) /\ Cardinality(S(now)) = Cardinality(L(now))
    BY <1>1
  <2> HIDE DEF S, L
  <2> QED
    BY <2>1, <2>2, FS_EmptySet
<1>3. ASSUME NEW now \in Nat, NEW x \in S(now), NEW y \in S(now) PROVE x = y
  <2>1. PICK i \in L(now) : TRUE
    BY <1>2
  <2>2. \A j \in L(now) : i = j
    BY <2>1 DEF Later, InitsOf
  <2>3. L(now) = {i}
    BY <2>1, <2>2
  <2>4. IsFiniteSet(S(now)) /\ IsFiniteSet(L(now)) /\ Cardinality(S(now)) = Cardinality(L(now))
    BY <1>1
  <2> HIDE DEF S, L
  <2>5. Cardinality(S(now)) = 1
    BY <2>3, <2>4, FS_Singleton
  <2>6. PICK z : S(now) = {z}
    BY <2>4, <2>5, FS_Singleton
  <2> QED
    BY <1>3, <2>6
<1>4. ASSUME NEW y \in X \ I PROVE write[y] - 1 \in Nat /\ y \in S(write[y] - 1)
  <2>1. read[y] \in Nat /\ write[y] \in Nat /\ read[y] < write[y]
    BY DEF InitsOf
  <2> QED
    BY <2>1 DEF Spanning
<1>5. ASSUME NEW x \in X \ I, NEW y \in X \ I, write[y] < write[x] PROVE write[y] <= read[x]
  <2>1. read[x] \in Nat /\ write[x] \in Nat /\ write[y] \in Nat /\ write[y] - 1 \in Nat
    BY <1>4
  <2>2. SUFFICES ASSUME read[x] < write[y] PROVE FALSE
    BY <2>1
  <2>3. x \in S(write[y] - 1)
    BY <1>5, <2>1, <2>2 DEF Spanning
  <2>4. y \in S(write[y] - 1)
    BY <1>4
  <2>5. x = y
    BY <1>3, <2>1, <2>3, <2>4
  <2> QED
    BY <1>5, <2>1, <2>5
<1>6. ASSUME NEW x \in X \ I, NEW y \in X \ I, write[y] = write[x] PROVE x = y
  <2>1. write[y] - 1 \in Nat /\ y \in S(write[y] - 1) /\ x \in S(write[y] - 1)
    BY <1>4, <1>6
  <2> QED
    BY <1>3, <2>1
<1>7. ASSUME NEW y \in X \ I PROVE \E i \in I : read[i] >= write[y]
  <2>1. write[y] - 1 \in Nat /\ y \in S(write[y] - 1)
    BY <1>4
  <2>2. PICK i \in L(write[y] - 1) : TRUE
    BY <1>2, <2>1
  <2>3. i \in I /\ write[y] - 1 < read[i] /\ read[i] \in Nat /\ write[y] \in Nat
    BY <2>2 DEF Later, InitsOf
  <2> QED
    BY <2>3
<1> QED
  BY <1>5, <1>6, <1>7
=============================================================================
