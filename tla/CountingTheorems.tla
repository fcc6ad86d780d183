-------------------------- MODULE CountingTheorems --------------------------
(***************************************************************************)
(* Facts about the number of elements of a set that is put together from    *)
(* others: the proofs about sums count the points, or the places in a list, *)
(* that a sum stands for, so that they need no induction over a fold.       *)
(***************************************************************************)
EXTENDS Integers, FiniteSets, FiniteSetTheorems, TLAPS

\* Sets without a common element have as many elements together as each of them.
LEMMA DisjointUnion ==
    ASSUME NEW S, NEW T, IsFiniteSet(S), IsFiniteSet(T), S \cap T = {}
    PROVE  /\ IsFiniteSet(S \cup T)
           /\ Cardinality(S \cup T) = Cardinality(S) + Cardinality(T)
  <1>1. Cardinality(S) \in Nat /\ Cardinality(T) \in Nat
    BY FS_CardinalityType
  <1>2. Cardinality(S \cap T) = 0
    BY FS_EmptySet
  <1>3. /\ IsFiniteSet(S \cup T)
        /\ Cardinality(S \cup T) = Cardinality(S) + Cardinality(T) - Cardinality(S \cap T)
    BY FS_Union
  <1> QED BY <1>1, <1>2, <1>3

\* What is taken out of a set is missing from it.
LEMMA PartRemoved ==
    ASSUME NEW S, NEW T, IsFiniteSet(S), T \subseteq S
    PROVE  /\ IsFiniteSet(S \ T) /\ IsFiniteSet(T)
           /\ Cardinality(S) = Cardinality(S \ T) + Cardinality(T)
  <1>1. IsFiniteSet(S \ T) /\ IsFiniteSet(T)
    BY FS_Subset, FS_Difference
  <1>2. (S \ T) \cap T = {} /\ (S \ T) \cup T = S
    OBVIOUS
  <1> QED BY <1>1, <1>2, DisjointUnion

\* Tagging the elements of a set with x changes their number as little as taking
\* the tag off does.
LEMMA Tagged ==
    ASSUME NEW x, NEW S, IsFiniteSet(S)
    PROVE  IsFiniteSet({x} \X S) /\ Cardinality({x} \X S) = Cardinality(S)
  <1>1. IsFiniteSet({x}) /\ Cardinality({x}) = 1
    BY FS_Singleton
  <1>2. Cardinality(S) \in Nat
    BY FS_CardinalityType
  <1>3. IsFiniteSet({x} \X S) /\ Cardinality({x} \X S) = Cardinality({x}) * Cardinality(S)
    BY <1>1, FS_Product
  <1> QED BY <1>1, <1>2, <1>3

\* A range of n places, tagged with x, has n elements.
LEMMA TaggedPlaces ==
    ASSUME NEW x, NEW n \in Nat
    PROVE  IsFiniteSet({x} \X (1 .. n)) /\ Cardinality({x} \X (1 .. n)) = n
  <1>1. IsFiniteSet(1 .. n) /\ Cardinality(1 .. n) = n
    BY FS_Interval
  <1> QED BY <1>1, Tagged

\* When the family G differs from F in the set at i alone, its elements are counted
\* anew at i alone.
LEMMA TaggedStep ==
    ASSUME NEW S, NEW F, NEW G, NEW i \in S, \A j \in S \ {i} : G[j] = F[j],
           IsFiniteSet(UNION {{j} \X F[j] : j \in S}), IsFiniteSet(G[i])
    PROVE  /\ IsFiniteSet(F[i]) /\ IsFiniteSet(UNION {{j} \X G[j] : j \in S})
           /\ Cardinality(UNION {{j} \X G[j] : j \in S}) + Cardinality(F[i])
                 = Cardinality(UNION {{j} \X F[j] : j \in S}) + Cardinality(G[i])
  <1> DEFINE Others == UNION {{j} \X F[j] : j \in S \ {i}}
  <1>1. /\ UNION {{j} \X F[j] : j \in S} = Others \cup ({i} \X F[i])
        /\ UNION {{j} \X G[j] : j \in S} = Others \cup ({i} \X G[i])
        /\ Others \cap ({i} \X F[i]) = {} /\ Others \cap ({i} \X G[i]) = {}
    OBVIOUS
  <1> HIDE DEF Others
  <1>2. IsFiniteSet(Others) /\ IsFiniteSet({i} \X F[i])
    BY <1>1, FS_Subset
  <1>3. IsFiniteSet(F[i])
    <2> DEFINE f == [p \in {i} \X F[i] |-> p[2]]
    <2>1. f \in [{i} \X F[i] -> F[i]]
      OBVIOUS
    <2>2. ASSUME NEW y \in F[i] PROVE \E p \in {i} \X F[i] : f[p] = y
      <3>1. <<i, y>> \in {i} \X F[i] /\ f[<<i, y>>] = y
        OBVIOUS
      <3> QED BY <3>1
    <2>3. f \in Surjection({i} \X F[i], F[i])
      BY <2>1, <2>2 DEF Surjection
    <2> QED BY <1>2, <2>3, FS_Surjection
  <1>4. /\ IsFiniteSet({i} \X G[i]) /\ Cardinality({i} \X G[i]) = Cardinality(G[i])
        /\ Cardinality({i} \X F[i]) = Cardinality(F[i])
    BY <1>3, Tagged
  <1>5. /\ IsFiniteSet(Others \cup ({i} \X G[i]))
        /\ Cardinality(Others \cup ({i} \X G[i])) = Cardinality(Others) + Cardinality(G[i])
        /\ Cardinality(Others \cup ({i} \X F[i])) = Cardinality(Others) + Cardinality(F[i])
    BY <1>1, <1>2, <1>4, DisjointUnion
  <1>6. /\ Cardinality(Others) \in Nat /\ Cardinality(F[i]) \in Nat
        /\ Cardinality(G[i]) \in Nat
    BY <1>2, <1>3, FS_CardinalityType
  <1>7. IsFiniteSet(UNION {{j} \X G[j] : j \in S})
    BY <1>1, <1>5
  <1>8. Cardinality(UNION {{j} \X G[j] : j \in S}) = Cardinality(Others) + Cardinality(G[i])
    BY <1>1, <1>5
  <1>9. Cardinality(UNION {{j} \X F[j] : j \in S}) = Cardinality(Others) + Cardinality(F[i])
    BY <1>1, <1>5
  <1> QED BY <1>3, <1>6, <1>7, <1>8, <1>9
=============================================================================
