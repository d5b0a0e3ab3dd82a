-------------------------- MODULE TokenLedgerProofs --------------------------
(***************************************************************************)
(* What holds of TokenLedger for any finite set of processes, any sizes,   *)
(* buckets and bounds: no token is lost but where it says so, and no write *)
(* of the buckets undoes another.                                          *)
(*                                                                         *)
(* The state is added up over buffers, batches and rows, so the first part *)
(* is about sums.  What the fold of the library computes is shown by       *)
(* induction over the subsets of a finite set, with a set in the place of  *)
(* the predicate.                                                          *)
(***************************************************************************)
EXTENDS TokenLedger, FiniteSetTheorems, SequenceTheorems, WellFoundedInduction, TLAPS

\* A nonempty set of naturals has a least element.
LEMMA LeastNat ==
    ASSUME NEW I, I \subseteq Nat, I # {}
    PROVE  \E i \in I : \A j \in I : i <= j
<1>. DEFINE L == OpToRel(<, Nat)
<1>1. IsWellFoundedOn(L, Nat)
  BY NatLessThanWellFounded
<1>2. \A x, y \in Nat : x < y => <<x, y>> \in L
  BY DEF OpToRel
<1>. HIDE DEF L
<1>3. PICK i \in I : \A j \in I : ~ (<<j, i>> \in L)
  BY <1>1, WFMin
<1>4. \A j \in I : ~(j < i)
  BY <1>2, <1>3
<1>. QED
  BY <1>3, <1>4

\* Induction with a set in the place of a predicate: on the naturals, and on the
\* subsets of a finite set.
LEMMA NatSetInduction ==
    ASSUME NEW G, 0 \in G, \A n \in Nat : n \in G => n + 1 \in G
    PROVE  Nat \subseteq G
<1>. DEFINE I == Nat \ G
<1>1. SUFFICES ASSUME I # {} PROVE FALSE
  OBVIOUS
<1>2. PICK i \in I : \A j \in I : i <= j
  BY <1>1, LeastNat
<1>3. i \in Nat /\ i # 0 /\ i - 1 \in Nat /\ ~(i <= i - 1) /\ i - 1 + 1 = i
  BY <1>2
<1>4. i - 1 \in G
  BY <1>2, <1>3
<1>. QED
  BY <1>2, <1>3, <1>4

LEMMA SubsetInduction ==
    ASSUME NEW S, IsFiniteSet(S), NEW G,
           \A T \in SUBSET S : (\A x \in T : T \ {x} \in G) => T \in G
    PROVE  SUBSET S \subseteq G
<1>. DEFINE N == {n \in Nat : \A T \in SUBSET S : Cardinality(T) = n => T \in G}
<1>1. \A T \in SUBSET S : IsFiniteSet(T) /\ Cardinality(T) \in Nat
  BY FS_Subset, FS_CardinalityType
<1>2. 0 \in N
  <2>1. \A T \in SUBSET S : Cardinality(T) = 0 => T = {}
    BY <1>1, FS_EmptySet
  <2>. QED
    BY <2>1
<1>3. ASSUME NEW n \in Nat, n \in N PROVE n + 1 \in N
  <2>. SUFFICES ASSUME NEW T \in SUBSET S, Cardinality(T) = n + 1 PROVE T \in G
    OBVIOUS
  <2>1. ASSUME NEW x \in T PROVE T \ {x} \in G
    <3>1. Cardinality(T \ {x}) = n
      BY <1>1, FS_RemoveElement
    <3>2. T \ {x} \in SUBSET S
      OBVIOUS
    <3>. QED
      BY <1>3, <3>1, <3>2
  <2>. QED
    BY <2>1
<1>. HIDE DEF N
<1>4. Nat \subseteq N
  BY <1>2, <1>3, NatSetInduction
<1>. QED
  BY <1>1, <1>4 DEF N

(***************************************************************************)
(* The sums of the values of a function over a finite set.                 *)
(***************************************************************************)
Chosen(T) == CHOOSE x \in T : TRUE
Sums(g, f, S) ==
    g = [T \in SUBSET S |-> IF T = {} THEN 0 ELSE f[Chosen(T)] + g[T \ {Chosen(T)}]]

LEMMA SumsExist ==
    ASSUME NEW f, NEW S, IsFiniteSet(S)
    PROVE  \E g : Sums(g, f, S)
<1>. DEFINE D(n) == {T \in SUBSET S : Cardinality(T) <= n}
            Part(g, n) == g = [T \in D(n) |-> IF T = {} THEN 0 ELSE f[Chosen(T)] + g[T \ {Chosen(T)}]]
            N == {n \in Nat : \E g : Part(g, n)}
<1>1. \A T \in SUBSET S : IsFiniteSet(T) /\ Cardinality(T) \in Nat /\ Cardinality(T) <= Cardinality(S)
  BY FS_Subset, FS_CardinalityType
<1>2. 0 \in N
  <2>1. \A T \in D(0) : T = {}
    BY <1>1, FS_EmptySet
  <2>2. Part([T \in D(0) |-> 0], 0)
    BY <2>1
  <2>. QED
    BY <2>2
<1>3. ASSUME NEW n \in Nat, n \in N PROVE n + 1 \in N
  <2>1. PICK g : Part(g, n)
    BY <1>3
  <2>. DEFINE h == [T \in D(n + 1) |-> IF T = {} THEN 0 ELSE f[Chosen(T)] + g[T \ {Chosen(T)}]]
  <2>2. ASSUME NEW T \in D(n + 1), T # {} PROVE T \ {Chosen(T)} \in D(n) /\ T \ {Chosen(T)} \in D(n + 1)
    <3>1. Chosen(T) \in T
      BY <2>2 DEF Chosen
    <3>2. Cardinality(T \ {Chosen(T)}) = Cardinality(T) - 1 /\ T \ {Chosen(T)} \in SUBSET S
      BY <1>1, <3>1, FS_RemoveElement
    <3>. QED
      BY <1>1, <3>2
  <2>3. \A T \in D(n) : T \in D(n + 1) /\ h[T] = g[T]
    <3>1. \A T \in D(n) : T \in D(n + 1)
      BY <1>1
    <3>2. \A T \in D(n) : g[T] = IF T = {} THEN 0 ELSE f[Chosen(T)] + g[T \ {Chosen(T)}]
      BY <2>1
    <3>. QED
      BY <3>1, <3>2
  <2>4. \A T \in D(n + 1) : h[T] = IF T = {} THEN 0 ELSE f[Chosen(T)] + h[T \ {Chosen(T)}]
    <3>1. \A T \in D(n + 1) : h[T] = IF T = {} THEN 0 ELSE f[Chosen(T)] + g[T \ {Chosen(T)}]
      OBVIOUS
    <3>. HIDE DEF h
    <3>. QED
      BY <2>2, <2>3, <3>1
  <2>5. h = [T \in D(n + 1) |-> h[T]]
    OBVIOUS
  <2>. HIDE DEF h, D
  <2>6. Part(h, n + 1)
    BY <2>4, <2>5
  <2>. HIDE DEF Part
  <2>. QED
    BY <2>6
<1>. HIDE DEF N
<1>4. Nat \subseteq N
  BY <1>2, <1>3, NatSetInduction
<1>5. Cardinality(S) \in Nat
  BY FS_CardinalityType
<1>6. PICK g : Part(g, Cardinality(S))
  BY <1>4, <1>5 DEF N
<1>7. D(Cardinality(S)) = SUBSET S
  BY <1>1
<1>. QED
  BY <1>6, <1>7 DEF Sums

LEMMA SumIs ==
    ASSUME NEW f, NEW S, IsFiniteSet(S)
    PROVE  \E g : Sums(g, f, S) /\ SumFunctionOnSet(f, S) = g[S]
<1>. DEFINE g == CHOOSE g : Sums(g, f, S)
<1>1. Sums(g, f, S)
  BY SumsExist
<1>2. SumFunctionOnSet(f, S) = g[S]
  BY DEF SumFunctionOnSet, FoldFunctionOnSet, MapThenFoldSet, Sums, Chosen
<1>. QED
  BY <1>1, <1>2

\* Sums of the same values are the same.
LEMMA SumsAgree ==
    ASSUME NEW f, NEW h, NEW S, NEW T, IsFiniteSet(S), T \subseteq S, \A x \in T : f[x] = h[x],
           NEW g, Sums(g, f, S), NEW k, Sums(k, h, T)
    PROVE  \A U \in SUBSET T : g[U] = k[U]
<1>. DEFINE G == {U \in SUBSET T : g[U] = k[U]}
<1>1. ASSUME NEW U \in SUBSET T, \A x \in U : U \ {x} \in G PROVE U \in G
  <2>1. U # {} => Chosen(U) \in U
    BY DEF Chosen
  <2>2. g[U] = IF U = {} THEN 0 ELSE f[Chosen(U)] + g[U \ {Chosen(U)}]
    BY DEF Sums
  <2>3. k[U] = IF U = {} THEN 0 ELSE h[Chosen(U)] + k[U \ {Chosen(U)}]
    BY DEF Sums
  <2>. QED
    BY <1>1, <2>1, <2>2, <2>3
<1>2. IsFiniteSet(T)
  BY FS_Subset
<1>. HIDE DEF G
<1>3. SUBSET T \subseteq G
  BY <1>1, <1>2, SubsetInduction
<1>. QED
  BY <1>3 DEF G

\* The sum over nothing is 0, sums are integers, and one value more adds itself.
LEMMA SumFacts ==
    ASSUME NEW f, NEW S, IsFiniteSet(S), \A x \in S : f[x] \in Int
    PROVE  /\ S = {} => SumFunctionOnSet(f, S) = 0
           /\ SumFunctionOnSet(f, S) \in Int
           /\ \A x \in S : SumFunctionOnSet(f, S) = f[x] + SumFunctionOnSet(f, S \ {x})
<1>1. PICK g : Sums(g, f, S) /\ SumFunctionOnSet(f, S) = g[S]
  BY SumIs
<1>2. \A U \in SUBSET S : SumFunctionOnSet(f, U) = g[U]
  <2>. SUFFICES ASSUME NEW U \in SUBSET S PROVE SumFunctionOnSet(f, U) = g[U]
    OBVIOUS
  <2>1. IsFiniteSet(U)
    BY FS_Subset
  <2>2. PICK k : Sums(k, f, U) /\ SumFunctionOnSet(f, U) = k[U]
    BY <2>1, SumIs
  <2>. QED
    BY <1>1, <2>2, SumsAgree
<1>3. \A U \in SUBSET S : g[U] = IF U = {} THEN 0 ELSE f[Chosen(U)] + g[U \ {Chosen(U)}]
  BY <1>1 DEF Sums
<1>4. \A U \in SUBSET S : U # {} => Chosen(U) \in U
  BY DEF Chosen
<1>. DEFINE I == {U \in SUBSET S : g[U] \in Int}
            G == {U \in SUBSET S : \A x \in U : g[U] = f[x] + g[U \ {x}]}
<1>5. \A U \in SUBSET S : g[U] \in Int
  <2>1. ASSUME NEW U \in SUBSET S, \A x \in U : U \ {x} \in I PROVE g[U] \in Int
    <3>1. CASE U = {}
      <4>1. g[U] = 0
        BY <1>3, <3>1
      <4>. QED
        BY <4>1
    <3>2. CASE U # {}
      <4>1. Chosen(U) \in U /\ g[U] = f[Chosen(U)] + g[U \ {Chosen(U)}]
        BY <1>3, <1>4, <3>2
      <4>2. f[Chosen(U)] \in Int /\ g[U \ {Chosen(U)}] \in Int
        BY <2>1, <4>1
      <4>. QED
        BY <4>1, <4>2
    <3>. QED
      BY <3>1, <3>2
  <2>2. SUBSET S \subseteq I
    <3>1. \A U \in SUBSET S : (\A x \in U : U \ {x} \in I) => U \in I
      BY <2>1
    <3>. HIDE DEF I
    <3>. QED
      BY <3>1, SubsetInduction
  <2>. QED
    BY <2>2
<1>6. ASSUME NEW U \in SUBSET S, \A x \in U : U \ {x} \in G, NEW x \in U
      PROVE  g[U] = f[x] + g[U \ {x}]
  <2>. DEFINE c == Chosen(U)
              V == (U \ {x}) \ {c}
  <2>1. c \in U /\ g[U] = f[c] + g[U \ {c}]
    BY <1>3, <1>4
  <2>. HIDE DEF c
  <2>2. CASE x = c
    BY <2>1, <2>2
  <2>3. CASE x # c
    <3>1. V = (U \ {c}) \ {x} /\ V \in SUBSET S /\ x \in U \ {c} /\ c \in U \ {x}
      BY <2>1, <2>3
    <3>2. g[U \ {c}] = f[x] + g[(U \ {c}) \ {x}]
      BY <1>6, <2>1, <3>1
    <3>3. g[U \ {x}] = f[c] + g[V]
      BY <1>6, <3>1
    <3>4. f[x] \in Int /\ f[c] \in Int /\ g[V] \in Int
      BY <1>5, <2>1, <3>1
    <3>. HIDE DEF V
    <3>. QED
      BY <2>1, <3>1, <3>2, <3>3, <3>4
  <2>. QED
    BY <2>2, <2>3
<1>7. \A x \in S : g[S] = f[x] + g[S \ {x}]
  <2>1. \A U \in SUBSET S : (\A x \in U : U \ {x} \in G) => U \in G
    BY <1>6
  <2>2. S \in SUBSET S
    OBVIOUS
  <2>. HIDE DEF G
  <2>3. S \in G
    BY <2>1, <2>2, SubsetInduction
  <2>. QED
    BY <2>3 DEF G
<1>8. \A x \in S : S \ {x} \in SUBSET S
  OBVIOUS
<1>9. S = {} => g[S] = 0
  BY <1>3
<1>. QED
  BY <1>2, <1>5, <1>7, <1>8, <1>9

LEMMA SumSame ==
    ASSUME NEW f, NEW h, NEW S, IsFiniteSet(S), \A x \in S : f[x] = h[x]
    PROVE  SumFunctionOnSet(f, S) = SumFunctionOnSet(h, S)
<1>1. PICK g : Sums(g, f, S) /\ SumFunctionOnSet(f, S) = g[S]
  BY SumIs
<1>2. PICK k : Sums(k, h, S) /\ SumFunctionOnSet(h, S) = k[S]
  BY SumIs
<1>3. g[S] = k[S]
  <2>1. \A U \in SUBSET S : g[U] = k[U]
    BY <1>1, <1>2, SumsAgree
  <2>. QED
    BY <2>1
<1>. QED
  BY <1>1, <1>2, <1>3

\* One value that changes changes the sum by as much.
LEMMA SumChange ==
    ASSUME NEW f, NEW h, NEW S, IsFiniteSet(S), NEW x \in S,
           \A y \in S : f[y] \in Int /\ h[y] \in Int /\ (y # x => h[y] = f[y])
    PROVE  SumFunctionOnSet(h, S) = SumFunctionOnSet(f, S) - f[x] + h[x]
<1>1. IsFiniteSet(S \ {x})
  BY FS_RemoveElement
<1>2. SumFunctionOnSet(f, S) = f[x] + SumFunctionOnSet(f, S \ {x})
  BY SumFacts
<1>3. SumFunctionOnSet(h, S) = h[x] + SumFunctionOnSet(h, S \ {x})
  BY SumFacts
<1>4. SumFunctionOnSet(f, S \ {x}) = SumFunctionOnSet(h, S \ {x})
  <2>1. \A y \in S \ {x} : f[y] = h[y]
    OBVIOUS
  <2>. QED
    BY <1>1, <2>1, SumSame
<1>5. SumFunctionOnSet(f, S \ {x}) \in Int
  <2>1. \A y \in S \ {x} : f[y] \in Int
    OBVIOUS
  <2>. QED
    BY <1>1, <2>1, SumFacts
<1>. QED
  BY <1>2, <1>3, <1>4, <1>5

\* A sum is that over a part and that over the rest.
LEMMA SumSplit ==
    ASSUME NEW f, NEW S, IsFiniteSet(S), \A x \in S : f[x] \in Int, NEW T \in SUBSET S
    PROVE  SumFunctionOnSet(f, S) = SumFunctionOnSet(f, T) + SumFunctionOnSet(f, S \ T)
<1>. DEFINE G == {U \in SUBSET S : SumFunctionOnSet(f, S) = SumFunctionOnSet(f, U) + SumFunctionOnSet(f, S \ U)}
<1>0. \A U \in SUBSET S : IsFiniteSet(U) /\ SumFunctionOnSet(f, U) \in Int
  <2>. SUFFICES ASSUME NEW U \in SUBSET S PROVE IsFiniteSet(U) /\ SumFunctionOnSet(f, U) \in Int
    OBVIOUS
  <2>1. IsFiniteSet(U) /\ \A x \in U : f[x] \in Int
    BY FS_Subset
  <2>. QED
    BY <2>1, SumFacts
<1>1. ASSUME NEW U \in SUBSET S, \A x \in U : U \ {x} \in G
      PROVE  SumFunctionOnSet(f, S) = SumFunctionOnSet(f, U) + SumFunctionOnSet(f, S \ U)
  <2>1. CASE U = {}
    <3>1. SumFunctionOnSet(f, {}) = 0
      BY SumFacts, FS_EmptySet
    <3>2. S \ U = S
      BY <2>1
    <3>3. SumFunctionOnSet(f, S) \in Int
      BY SumFacts
    <3>. QED
      BY <2>1, <3>1, <3>2, <3>3
  <2>2. CASE U # {}
    <3>1. PICK x \in U : TRUE
      BY <2>2
    <3>. DEFINE V == U \ {x}
    <3>2. V \in SUBSET S /\ S \ U \in SUBSET S /\ S \ V \in SUBSET S /\ x \in S \ V /\ (S \ V) \ {x} = S \ U /\ f[x] \in Int
      BY <3>1
    <3>3. SumFunctionOnSet(f, U) = f[x] + SumFunctionOnSet(f, V)
      <4>1. IsFiniteSet(U) /\ \A y \in U : f[y] \in Int
        BY <1>0
      <4>. QED
        BY <4>1, SumFacts
    <3>4. SumFunctionOnSet(f, S \ V) = f[x] + SumFunctionOnSet(f, (S \ V) \ {x})
      <4>1. IsFiniteSet(S \ V) /\ \A y \in S \ V : f[y] \in Int
        BY <1>0, <3>2
      <4>. QED
        BY <3>2, <4>1, SumFacts
    <3>5. SumFunctionOnSet(f, S) = SumFunctionOnSet(f, V) + SumFunctionOnSet(f, S \ V)
      BY <1>1, <3>1
    <3>6. /\ SumFunctionOnSet(f, V) \in Int /\ SumFunctionOnSet(f, S \ V) \in Int
          /\ SumFunctionOnSet(f, S \ U) \in Int
      BY <1>0, <3>2
    <3>. DEFINE sv == SumFunctionOnSet(f, V)
                sr == SumFunctionOnSet(f, S \ V)
                su == SumFunctionOnSet(f, S \ U)
    <3>7. sr = f[x] + su
      BY <3>2, <3>4
    <3>. HIDE DEF sv, sr, su
    <3>8. f[x] \in Int /\ sv \in Int /\ sr \in Int /\ su \in Int
      BY <3>2, <3>6 DEF sv, sr, su
    <3>9. SumFunctionOnSet(f, S) = sv + sr /\ SumFunctionOnSet(f, U) = f[x] + sv
      BY <3>3, <3>5 DEF sv, sr
    <3>10. SumFunctionOnSet(f, S) = SumFunctionOnSet(f, U) + su
      BY <3>7, <3>8, <3>9
    <3>. QED
      BY <3>10 DEF su
  <2>. QED
    BY <2>1, <2>2
<1>2. \A U \in SUBSET S : (\A x \in U : U \ {x} \in G) => U \in G
  BY <1>1
<1>. HIDE DEF G
<1>3. T \in G
  BY <1>2, SubsetInduction
<1>. QED
  BY <1>3 DEF G

\* A sum of natural numbers is one.
LEMMA SumNat ==
    ASSUME NEW f, NEW S, IsFiniteSet(S), \A x \in S : f[x] \in Nat
    PROVE  SumFunctionOnSet(f, S) \in Nat
<1>. DEFINE G == {U \in SUBSET S : SumFunctionOnSet(f, U) \in Nat}
<1>1. ASSUME NEW U \in SUBSET S, \A x \in U : U \ {x} \in G PROVE SumFunctionOnSet(f, U) \in Nat
  <2>1. IsFiniteSet(U) /\ \A x \in U : f[x] \in Int
    BY FS_Subset
  <2>2. CASE U = {}
    <3>1. SumFunctionOnSet(f, U) = 0
      BY <2>1, <2>2, SumFacts
    <3>. QED
      BY <3>1
  <2>3. CASE U # {}
    <3>1. PICK x \in U : TRUE
      BY <2>3
    <3>2. SumFunctionOnSet(f, U) = f[x] + SumFunctionOnSet(f, U \ {x})
      BY <2>1, SumFacts
    <3>3. f[x] \in Nat /\ SumFunctionOnSet(f, U \ {x}) \in Nat
      BY <1>1
    <3>. QED
      BY <3>2, <3>3
  <2>. QED
    BY <2>2, <2>3
<1>2. \A U \in SUBSET S : (\A x \in U : U \ {x} \in G) => U \in G
  BY <1>1
<1>3. S \in SUBSET S
  OBVIOUS
<1>. HIDE DEF G
<1>4. S \in G
  BY <1>2, <1>3, SubsetInduction
<1>. QED
  BY <1>4 DEF G

\* A sum of zeros is one.
LEMMA SumZero ==
    ASSUME NEW f, NEW S, IsFiniteSet(S), \A x \in S : f[x] = 0
    PROVE  SumFunctionOnSet(f, S) = 0
<1>. DEFINE G == {U \in SUBSET S : SumFunctionOnSet(f, U) = 0}
<1>1. ASSUME NEW U \in SUBSET S, \A x \in U : U \ {x} \in G PROVE SumFunctionOnSet(f, U) = 0
  <2>1. IsFiniteSet(U) /\ \A x \in U : f[x] \in Int
    BY FS_Subset
  <2>2. CASE U = {}
    BY <2>1, <2>2, SumFacts
  <2>3. CASE U # {}
    <3>1. PICK x \in U : TRUE
      BY <2>3
    <3>2. SumFunctionOnSet(f, U) = f[x] + SumFunctionOnSet(f, U \ {x})
      BY <2>1, SumFacts
    <3>3. f[x] = 0 /\ SumFunctionOnSet(f, U \ {x}) = 0
      BY <1>1
    <3>. QED
      BY <3>2, <3>3
  <2>. QED
    BY <2>2, <2>3
<1>2. \A U \in SUBSET S : (\A x \in U : U \ {x} \in G) => U \in G
  BY <1>1
<1>3. S \in SUBSET S
  OBVIOUS
<1>. HIDE DEF G
<1>4. S \in G
  BY <1>2, <1>3, SubsetInduction
<1>. QED
  BY <1>4 DEF G

(***************************************************************************)
(* The sums of sequences.                                                  *)
(***************************************************************************)
\* The sum of the n values after the first m, and the value at a place of it.
SumAfter(s, m, n) == SumFunctionOnSet(s, m + 1 .. m + n)
Shifted(s, m, t, n) == \A i \in 1 .. n : t[i] \in Int /\ s[m + i] = t[i]

LEMMA SumShift ==
    ASSUME NEW s, NEW t, NEW m \in Nat, NEW n \in Nat, Shifted(s, m, t, n)
    PROVE  SumAfter(s, m, n) = SumFunctionOnSet(t, 1 .. n)
<1>0. \A i \in 1 .. n : t[i] \in Int /\ s[m + i] = t[i]
  BY DEF Shifted
<1>. DEFINE Same(k) == SumFunctionOnSet(s, m + 1 .. m + k) = SumFunctionOnSet(t, 1 .. k)
            N == {k \in Nat : k <= n => Same(k)}
<1>1. 0 \in N
  <2>1. m + 1 .. m + 0 = {} /\ 1 .. 0 = {} /\ IsFiniteSet({})
    BY FS_EmptySet
  <2>2. SumFunctionOnSet(s, {}) = 0 /\ SumFunctionOnSet(t, {}) = 0
    BY <2>1, SumFacts
  <2>. QED
    BY <2>1, <2>2
<1>2. ASSUME NEW k \in Nat, k \in N PROVE k + 1 \in N
  <2>. SUFFICES ASSUME k + 1 <= n PROVE Same(k + 1)
    OBVIOUS
  <2>1. Same(k)
    BY <1>2
  <2>2. k + 1 \in 1 .. n /\ m + (k + 1) \in m + 1 .. m + (k + 1) /\ k + 1 \in 1 .. k + 1
    OBVIOUS
  <2>3. (m + 1 .. m + (k + 1)) \ {m + (k + 1)} = m + 1 .. m + k /\ (1 .. k + 1) \ {k + 1} = 1 .. k
    OBVIOUS
  <2>4. IsFiniteSet(m + 1 .. m + (k + 1)) /\ IsFiniteSet(1 .. k + 1)
    BY FS_Interval
  <2>5. \A i \in m + 1 .. m + (k + 1) : s[i] \in Int
    <3>. SUFFICES ASSUME NEW i \in m + 1 .. m + (k + 1) PROVE s[i] \in Int
      OBVIOUS
    <3>1. i - m \in 1 .. n /\ m + (i - m) = i
      OBVIOUS
    <3>2. s[m + (i - m)] \in Int
      BY <1>0, <3>1
    <3>. QED
      BY <3>1, <3>2
  <2>6. \A i \in 1 .. k + 1 : t[i] \in Int
    BY <1>0
  <2>. DEFINE A == m + 1 .. m + (k + 1)
              B == 1 .. k + 1
              a == m + (k + 1)
              b == k + 1
  <2>7. SumFunctionOnSet(s, A) = s[a] + SumFunctionOnSet(s, A \ {a})
    <3>1. IsFiniteSet(A) /\ a \in A /\ \A i \in A : s[i] \in Int
      BY <2>2, <2>4, <2>5
    <3>. HIDE DEF A, a
    <3>. QED
      BY <3>1, SumFacts
  <2>8. SumFunctionOnSet(t, B) = t[b] + SumFunctionOnSet(t, B \ {b})
    <3>1. IsFiniteSet(B) /\ b \in B /\ \A i \in B : t[i] \in Int
      BY <2>2, <2>4, <2>6
    <3>. HIDE DEF B, b
    <3>. QED
      BY <3>1, SumFacts
  <2>9. s[a] = t[b]
    BY <1>0, <2>2
  <2>10. A \ {a} = m + 1 .. m + k /\ B \ {b} = 1 .. k
    BY <2>3
  <2>. QED
    BY <2>1, <2>7, <2>8, <2>9, <2>10
<1>. HIDE DEF N
<1>3. n \in N
  BY <1>1, <1>2, NatSetInduction
<1>. QED
  BY <1>3 DEF N, SumAfter


LEMMA TotalConcat ==
    ASSUME NEW s \in Seq(Nat), NEW t \in Seq(Nat)
    PROVE  s \o t \in Seq(Nat) /\ Total(s \o t) = Total(s) + Total(t) /\ Total(s) \in Nat
<1>1. /\ s \o t \in Seq(Nat) /\ Len(s \o t) = Len(s) + Len(t)
      /\ \A i \in 1 .. Len(s) + Len(t) : (s \o t)[i] = IF i <= Len(s) THEN s[i] ELSE t[i - Len(s)]
  BY ConcatProperties
<1>. DEFINE u == s \o t
            m == Len(s)
            n == Len(t)
<1>2. /\ m \in Nat /\ n \in Nat /\ DOMAIN s = 1 .. m /\ DOMAIN t = 1 .. n /\ DOMAIN u = 1 .. m + n
      /\ \A i \in 1 .. m : s[i] \in Nat
      /\ \A i \in 1 .. n : t[i] \in Nat
  BY <1>1, LenProperties, ElementOfSeq
<1>. HIDE DEF u, m, n
<1>3. (\A i \in 1 .. m : u[i] = s[i]) /\ (\A i \in 1 .. n : u[m + i] = t[i])
  BY <1>1, <1>2 DEF u, m, n
<1>4. (1 .. m + n) \ (1 .. m) = m + 1 .. m + n /\ 1 .. m \in SUBSET (1 .. m + n)
  BY <1>2
<1>5. \A i \in 1 .. m + n : u[i] \in Int
  <2>. SUFFICES ASSUME NEW i \in 1 .. m + n PROVE u[i] \in Int
    OBVIOUS
  <2>1. CASE i \in 1 .. m
    BY <1>2, <1>3, <2>1
  <2>2. CASE i \notin 1 .. m
    <3>1. i - m \in 1 .. n /\ m + (i - m) = i
      BY <1>2, <2>2
    <3>2. u[m + (i - m)] = t[i - m] /\ t[i - m] \in Nat
      BY <1>2, <1>3, <3>1
    <3>. QED
      BY <3>1, <3>2
  <2>. QED
    BY <2>1, <2>2
<1>6. IsFiniteSet(1 .. m + n) /\ IsFiniteSet(1 .. m)
  <2>1. 1 \in Int /\ m \in Int /\ m + n \in Int
    BY <1>2
  <2>. QED
    BY <2>1, FS_Interval
<1>7. SumFunctionOnSet(u, 1 .. m + n) = SumFunctionOnSet(u, 1 .. m) + SumFunctionOnSet(u, m + 1 .. m + n)
  <2>. DEFINE D == 1 .. m + n
              P == 1 .. m
  <2>1. IsFiniteSet(D) /\ P \in SUBSET D /\ \A i \in D : u[i] \in Int
    BY <1>4, <1>5, <1>6
  <2>2. D \ P = m + 1 .. m + n
    BY <1>4
  <2>. HIDE DEF D, P
  <2>3. SumFunctionOnSet(u, D) = SumFunctionOnSet(u, P) + SumFunctionOnSet(u, D \ P)
    BY <2>1, SumSplit
  <2>. QED
    BY <2>2, <2>3 DEF D, P
<1>8. SumFunctionOnSet(u, 1 .. m) = SumFunctionOnSet(s, 1 .. m)
  BY <1>3, <1>6, SumSame
<1>9. SumFunctionOnSet(u, m + 1 .. m + n) = SumFunctionOnSet(t, 1 .. n)
  <2>1. Shifted(u, m, t, n)
    BY <1>2, <1>3 DEF Shifted
  <2>2. SumAfter(u, m, n) = SumFunctionOnSet(t, 1 .. n)
    BY <1>2, <2>1, SumShift
  <2>. QED
    BY <2>2 DEF SumAfter
<1>10. SumFunctionOnSet(s, 1 .. m) \in Nat
  BY <1>2, <1>6, SumNat
<1>. QED
  BY <1>1, <1>2, <1>7, <1>8, <1>9, <1>10 DEF Total, SumFunction, u

LEMMA TotalOne == ASSUME NEW n \in Nat PROVE <<n>> \in Seq(Nat) /\ Total(<<n>>) = n
<1>. DEFINE s == <<n>>
<1>1. s \in Seq(Nat) /\ DOMAIN s = {1} /\ s[1] = n
  OBVIOUS
<1>2. IsFiniteSet({1}) /\ IsFiniteSet({}) /\ {1} \ {1} = {}
  BY FS_Singleton, FS_EmptySet
<1>. HIDE DEF s
<1>3. SumFunctionOnSet(s, {1}) = s[1] + SumFunctionOnSet(s, {1} \ {1})
  BY <1>1, <1>2, SumFacts
<1>4. SumFunctionOnSet(s, {}) = 0
  BY <1>2, SumFacts
<1>. QED
  BY <1>1, <1>2, <1>3, <1>4 DEF Total, SumFunction, s

LEMMA TotalNone == Total(<<>>) = 0
<1>1. DOMAIN <<>> = {} /\ IsFiniteSet({})
  BY FS_EmptySet
<1>2. SumFunctionOnSet(<<>>, {}) = 0
  BY <1>1, SumFacts
<1>. QED
  BY <1>1, <1>2 DEF Total, SumFunction

LEMMA TotalAppend ==
    ASSUME NEW s \in Seq(Nat), NEW n \in Nat
    PROVE  Append(s, n) \in Seq(Nat) /\ Total(Append(s, n)) = Total(s) + n /\ Total(s) \in Nat
<1>. DEFINE u == <<n>>
<1>1. Append(s, n) = s \o u
  BY AppendIsConcat
<1>2. u \in Seq(Nat) /\ Total(u) = n
  BY TotalOne
<1>. HIDE DEF u
<1>. QED
  BY <1>1, <1>2, TotalConcat

LEMMA TotalTail ==
    ASSUME NEW s \in Seq(Nat), s # <<>>
    PROVE  Tail(s) \in Seq(Nat) /\ Head(s) \in Nat /\ Total(Tail(s)) = Total(s) - Head(s) /\ Total(s) \in Nat
<1>. DEFINE v == Tail(s)
            n == Len(v)
<1>1. /\ Head(s) \in Nat /\ v \in Seq(Nat) /\ Len(s) = 1 + n /\ n \in Nat
      /\ Head(s) = s[1]
      /\ \A i \in 1 .. n : v[i] = s[i + 1]
  BY HeadTailProperties, LenProperties
<1>2. DOMAIN s = 1 .. 1 + n /\ DOMAIN v = 1 .. n /\ \A i \in 1 .. 1 + n : s[i] \in Nat
  BY <1>1, LenProperties, ElementOfSeq
<1>. HIDE DEF v, n
<1>4. SumFunctionOnSet(s, 1 + 1 .. 1 + n) = SumFunctionOnSet(v, 1 .. n)
  <2>1. Shifted(s, 1, v, n)
    BY <1>1, <1>2 DEF Shifted
  <2>2. SumAfter(s, 1, n) = SumFunctionOnSet(v, 1 .. n)
    BY <1>1, <2>1, SumShift
  <2>. QED
    BY <2>2 DEF SumAfter
<1>. DEFINE D == 1 .. 1 + n
<1>5. IsFiniteSet(D) /\ 1 \in D /\ D \ {1} = 1 + 1 .. 1 + n /\ \A i \in D : s[i] \in Nat
  <2>1. 1 \in Int /\ 1 + n \in Int
    BY <1>1
  <2>2. IsFiniteSet(D)
    BY <2>1, FS_Interval
  <2>. QED
    BY <1>1, <1>2, <2>2
<1>6. SumFunctionOnSet(s, D) = s[1] + SumFunctionOnSet(s, D \ {1}) /\ SumFunctionOnSet(s, D) \in Nat
  <2>. HIDE DEF D
  <2>1. \A i \in D : s[i] \in Int
    BY <1>5
  <2>2. SumFunctionOnSet(s, D) = s[1] + SumFunctionOnSet(s, D \ {1})
    BY <1>5, <2>1, SumFacts
  <2>. QED
    BY <1>5, <2>2, SumNat
<1>7. SumFunctionOnSet(v, 1 .. n) \in Nat
  <2>1. IsFiniteSet(1 .. n) /\ \A i \in 1 .. n : v[i] \in Nat
    <3>1. 1 \in Int /\ n \in Int
      BY <1>1
    <3>2. \A i \in 1 .. n : v[i] \in Nat
      BY <1>1, <1>2
    <3>. QED
      BY <3>1, <3>2, FS_Interval
  <2>. QED
    BY <2>1, SumNat
<1>. HIDE DEF D
<1>8. Total(s) = SumFunctionOnSet(s, D) /\ Total(v) = SumFunctionOnSet(v, 1 .. n)
  BY <1>2 DEF Total, SumFunction, D
<1>9. Total(s) = Head(s) + Total(v) /\ Total(s) \in Nat /\ Total(v) \in Nat
  <2>1. Total(s) = s[1] + SumFunctionOnSet(s, 1 + 1 .. 1 + n)
    BY <1>5, <1>6, <1>8
  <2>2. Total(s) = s[1] + Total(v)
    BY <1>4, <1>8, <2>1
  <2>. QED
    BY <1>1, <1>6, <1>7, <1>8, <2>2
<1>10. Total(v) = Total(s) - Head(s)
  BY <1>1, <1>9
<1>. QED
  BY <1>1, <1>9, <1>10 DEF v

(***************************************************************************)
(* The invariant.                                                          *)
(***************************************************************************)
Buckets == [free : Int, live : BOOLEAN, used : 0 .. Quota, bal : Int]
States == {"off", "idle", "final", "insert", "settle", "tenant", "deduct", "done"}

\* The types, as far as the sums need them.
LedgerTyped ==
    /\ up \in [Procs -> {"up", "stopping", "down"}]
    /\ buf \in [Procs -> Seq(Nat)] /\ hand \in [Flushers -> Seq(Nat)]
    /\ pc \in [Flushers -> States]
    /\ DOMAIN mine = Flushers /\ DOMAIN seen = Flushers
    /\ nextId \in Nat \ {0} /\ DOMAIN rows \subseteq 1 .. nextId - 1
    /\ \A i \in DOMAIN rows : rows[i] \in Nat
    /\ bk \in Buckets /\ due \in BOOLEAN
    /\ sums \in [SumNames -> Int]

\* A batch is in hand between swapping it out and writing its row only, and the
\* main goroutine of a process that is up has not begun to flush.
HandInv ==
    /\ \A f \in Flushers : pc[f] # "insert" => hand[f] = <<>>
    /\ \A p \in Stoppable : up[p] = "up" => pc[<<p, "main">>] = "off"

\* Locked rows are there as they were read, and locked by one flusher.
MineInv ==
    /\ \A f \in Flushers : DOMAIN mine[f] \subseteq DOMAIN rows
                           /\ \A i \in DOMAIN mine[f] : mine[f][i] = rows[i]
    /\ \A f, g \in Flushers : f # g => DOMAIN mine[f] \cap DOMAIN mine[g] = {}

\* One flusher deducts at a time, from the buckets as they are.
SeenInv ==
    /\ \A f \in Flushers : pc[f] = "deduct" => seen[f] = bk
    /\ \A f, g \in Flushers : pc[f] = "deduct" /\ pc[g] = "deduct" => f = g

\* What the month has charged and what is left of it are within the quotas given.
MonthInv ==
    sums.monthly + (Quota - bk.used) + (IF due THEN Quota ELSE 0) <= Quota * (1 + sums.months)

LedgerInv == LedgerTyped /\ HandInv /\ MineInv /\ SeenInv

(***************************************************************************)
(* The tokens in memory and in rows.                                       *)
(***************************************************************************)
\* The tokens a process holds, and all of them, for given buffers and batches.
MemOf(b, h, p) == Total(b[p]) + SumFunction([f \in {g \in Flushers : g[1] = p} |-> Total(h[f])])
Held(b, h) == SumFunction([p \in Procs |-> MemOf(b, h, p)])
MemTyped(b, h) == b \in [Procs -> Seq(Nat)] /\ h \in [Flushers -> Seq(Nat)]

LEMMA FlushersFinite == IsFiniteSet(Flushers) /\ \A f \in Flushers : f[1] \in Procs
<1>1. IsFiniteSet(Stoppable)
  BY ProcsAssumption, FS_Subset
<1>2. IsFiniteSet({"run"}) /\ IsFiniteSet({"main"})
  BY FS_Singleton
<1>3. IsFiniteSet(Procs \X {"run"}) /\ IsFiniteSet(Stoppable \X {"main"})
  BY <1>1, <1>2, ProcsAssumption, FS_Product
<1>4. IsFiniteSet(Flushers)
  BY <1>3, FS_Union DEF Flushers
<1>. QED
  BY <1>4, ProcsAssumption DEF Flushers

LEMMA TotalNat == ASSUME NEW s \in Seq(Nat) PROVE Total(s) \in Nat
<1>1. <<>> \in Seq(Nat)
  OBVIOUS
<1>. QED
  BY <1>1, TotalConcat

\* The batches of the flushers of p, added up: a number; one that changes
\* changes it by as much; and none count nothing.
BatchesOf(h, p) == SumFunction([f \in {g \in Flushers : g[1] = p} |-> Total(h[f])])

LEMMA BatchFacts ==
    ASSUME NEW h \in [Flushers -> Seq(Nat)], NEW p
    PROVE  /\ BatchesOf(h, p) \in Nat
           /\ (\A f \in Flushers : f[1] = p => h[f] = <<>>) => BatchesOf(h, p) = 0
<1>. DEFINE F == {g \in Flushers : g[1] = p}
            b == [f \in F |-> Total(h[f])]
<1>1. IsFiniteSet(F)
  BY FlushersFinite, FS_Subset
<1>2. DOMAIN b = F /\ \A f \in F : b[f] = Total(h[f])
  OBVIOUS
<1>3. \A f \in F : h[f] \in Seq(Nat)
  OBVIOUS
<1>4. BatchesOf(h, p) = SumFunctionOnSet(b, F)
  BY <1>2 DEF BatchesOf, SumFunction
<1>5. (\A f \in Flushers : f[1] = p => h[f] = <<>>) => \A f \in F : h[f] = <<>>
  OBVIOUS
<1>. HIDE DEF b, F
<1>6. \A f \in F : b[f] \in Nat
  BY <1>2, <1>3, TotalNat
<1>7. (\A f \in F : h[f] = <<>>) => \A f \in F : b[f] = 0
  BY <1>2, TotalNone
<1>8. SumFunctionOnSet(b, F) \in Nat
  BY <1>1, <1>6, SumNat
<1>9. (\A f \in F : b[f] = 0) => SumFunctionOnSet(b, F) = 0
  BY <1>1, SumZero
<1>. QED
  BY <1>4, <1>5, <1>7, <1>8, <1>9

LEMMA BatchChange ==
    ASSUME NEW h \in [Flushers -> Seq(Nat)], NEW k \in [Flushers -> Seq(Nat)], NEW f \in Flushers,
           \A g \in Flushers \ {f} : k[g] = h[g]
    PROVE  BatchesOf(k, f[1]) = BatchesOf(h, f[1]) - Total(h[f]) + Total(k[f])
<1>. DEFINE F == {g \in Flushers : g[1] = f[1]}
            a == [g \in F |-> Total(h[g])]
            b == [g \in F |-> Total(k[g])]
<1>1. IsFiniteSet(F) /\ f \in F
  BY FlushersFinite, FS_Subset
<1>2. DOMAIN a = F /\ DOMAIN b = F /\ \A g \in F : a[g] = Total(h[g]) /\ b[g] = Total(k[g])
  OBVIOUS
<1>3. BatchesOf(h, f[1]) = SumFunctionOnSet(a, F) /\ BatchesOf(k, f[1]) = SumFunctionOnSet(b, F)
  BY <1>2 DEF BatchesOf, SumFunction
<1>4. \A g \in F : h[g] \in Seq(Nat) /\ k[g] \in Seq(Nat) /\ (g # f => k[g] = h[g])
  OBVIOUS
<1>. HIDE DEF a, b, F
<1>5. \A g \in F : a[g] \in Int /\ b[g] \in Int /\ (g # f => b[g] = a[g])
  <2>. SUFFICES ASSUME NEW g \in F PROVE a[g] \in Int /\ b[g] \in Int /\ (g # f => b[g] = a[g])
    OBVIOUS
  <2>1. Total(h[g]) \in Nat /\ Total(k[g]) \in Nat
    BY <1>4, TotalNat
  <2>2. g # f => Total(k[g]) = Total(h[g])
    BY <1>4
  <2>. QED
    BY <1>2, <2>1, <2>2
<1>6. SumFunctionOnSet(b, F) = SumFunctionOnSet(a, F) - a[f] + b[f]
  BY <1>1, <1>5, SumChange
<1>. QED
  BY <1>1, <1>2, <1>3, <1>6

\* Only the memory of one process changes.
LEMMA HeldChange ==
    ASSUME NEW b, NEW h, MemTyped(b, h), NEW c, NEW k, MemTyped(c, k), NEW p \in Procs,
           \A q \in Procs \ {p} : c[q] = b[q],
           \A f \in Flushers : f[1] # p => k[f] = h[f]
    PROVE  /\ Held(c, k) = Held(b, h) - MemOf(b, h, p) + MemOf(c, k, p)
           /\ Held(b, h) \in Int /\ MemOf(b, h, p) \in Nat
           /\ MemOf(b, h, p) = Total(b[p]) + BatchesOf(h, p)
           /\ MemOf(c, k, p) = Total(c[p]) + BatchesOf(k, p)
<1>. DEFINE x == [q \in Procs |-> MemOf(b, h, q)]
            y == [q \in Procs |-> MemOf(c, k, q)]
<1>1. \A q \in Procs : MemOf(b, h, q) \in Nat /\ MemOf(c, k, q) \in Nat
  <2>. SUFFICES ASSUME NEW q \in Procs PROVE MemOf(b, h, q) \in Nat /\ MemOf(c, k, q) \in Nat
    OBVIOUS
  <2>1. Total(b[q]) \in Nat /\ Total(c[q]) \in Nat
    BY TotalNat DEF MemTyped
  <2>2. BatchesOf(h, q) \in Nat /\ BatchesOf(k, q) \in Nat
    BY BatchFacts DEF MemTyped
  <2>3. MemOf(b, h, q) = Total(b[q]) + BatchesOf(h, q) /\ MemOf(c, k, q) = Total(c[q]) + BatchesOf(k, q)
    BY DEF MemOf, BatchesOf
  <2>. QED
    BY <2>1, <2>2, <2>3
<1>2. \A q \in Procs \ {p} : MemOf(c, k, q) = MemOf(b, h, q)
  <2>. SUFFICES ASSUME NEW q \in Procs \ {p} PROVE MemOf(c, k, q) = MemOf(b, h, q)
    OBVIOUS
  <2>1. [f \in {g \in Flushers : g[1] = q} |-> Total(k[f])] = [f \in {g \in Flushers : g[1] = q} |-> Total(h[f])]
    OBVIOUS
  <2>2. c[q] = b[q]
    OBVIOUS
  <2>. QED
    BY <2>1, <2>2 DEF MemOf
<1>3. /\ DOMAIN x = Procs /\ DOMAIN y = Procs
      /\ \A q \in Procs : x[q] = MemOf(b, h, q) /\ y[q] = MemOf(c, k, q)
  OBVIOUS
<1>4. Held(b, h) = SumFunctionOnSet(x, Procs) /\ Held(c, k) = SumFunctionOnSet(y, Procs)
  BY <1>3 DEF Held, SumFunction
<1>. HIDE DEF x, y
<1>5. \A q \in Procs : x[q] \in Int /\ y[q] \in Int /\ (q # p => y[q] = x[q])
  BY <1>1, <1>2, <1>3
<1>6. SumFunctionOnSet(y, Procs) = SumFunctionOnSet(x, Procs) - x[p] + y[p]
  BY <1>5, ProcsAssumption, SumChange
<1>7. SumFunctionOnSet(x, Procs) \in Int
  BY <1>5, ProcsAssumption, SumFacts
<1>8. MemOf(b, h, p) = Total(b[p]) + BatchesOf(h, p) /\ MemOf(c, k, p) = Total(c[p]) + BatchesOf(k, p)
  BY DEF MemOf, BatchesOf
<1>. QED
  BY <1>1, <1>3, <1>4, <1>6, <1>7, <1>8

\* A buffer and a batch of one process change.
LEMMA HeldMove ==
    ASSUME NEW b, NEW h, MemTyped(b, h), NEW c, NEW k, MemTyped(c, k), NEW f \in Flushers,
           \A q \in Procs \ {f[1]} : c[q] = b[q],
           \A g \in Flushers \ {f} : k[g] = h[g]
    PROVE  /\ Held(c, k) = Held(b, h) - Total(b[f[1]]) - Total(h[f]) + Total(c[f[1]]) + Total(k[f])
           /\ Held(b, h) \in Int
<1>. DEFINE p == f[1]
<1>1. p \in Procs
  BY FlushersFinite
<1>2. /\ \A q \in Procs \ {p} : c[q] = b[q]
      /\ \A g \in Flushers : g[1] # p => k[g] = h[g]
  OBVIOUS
<1>3. BatchesOf(k, p) = BatchesOf(h, p) - Total(h[f]) + Total(k[f]) /\ BatchesOf(h, p) \in Nat
  BY BatchChange, BatchFacts DEF MemTyped
<1>. HIDE DEF p
<1>4. /\ Held(c, k) = Held(b, h) - MemOf(b, h, p) + MemOf(c, k, p)
      /\ Held(b, h) \in Int
      /\ MemOf(b, h, p) = Total(b[p]) + BatchesOf(h, p)
      /\ MemOf(c, k, p) = Total(c[p]) + BatchesOf(k, p)
  BY <1>1, <1>2, HeldChange
<1>5. Total(b[p]) \in Nat /\ Total(c[p]) \in Nat /\ Total(h[f]) \in Nat /\ Total(k[f]) \in Nat
  BY <1>1, TotalNat DEF MemTyped
<1>6. Held(c, k) = Held(b, h) - Total(b[p]) - Total(h[f]) + Total(c[p]) + Total(k[f])
  BY <1>3, <1>4, <1>5
<1>. QED
  BY <1>4, <1>6 DEF p

\* A process loses its memory.
LEMMA HeldGone ==
    ASSUME NEW b, NEW h, MemTyped(b, h), NEW c, NEW k, MemTyped(c, k), NEW p \in Procs,
           c[p] = <<>>, \A q \in Procs \ {p} : c[q] = b[q],
           \A f \in Flushers : f[1] = p => k[f] = <<>>,
           \A f \in Flushers : f[1] # p => k[f] = h[f]
    PROVE  Held(c, k) = Held(b, h) - MemOf(b, h, p) /\ Held(b, h) \in Int /\ MemOf(b, h, p) \in Nat
<1>2. BatchesOf(k, p) = 0 /\ Total(c[p]) = 0
  BY BatchFacts, TotalNone DEF MemTyped
<1>3. /\ Held(c, k) = Held(b, h) - MemOf(b, h, p) + MemOf(c, k, p)
      /\ Held(b, h) \in Int /\ MemOf(b, h, p) \in Nat
      /\ MemOf(c, k, p) = Total(c[p]) + BatchesOf(k, p)
  BY HeldChange
<1>. QED
  BY <1>2, <1>3


\* Rows of tokens, with ids below n.
RowsUpTo(rs, n) == DOMAIN rs \subseteq 1 .. n - 1 /\ \A i \in DOMAIN rs : rs[i] \in Nat

LEMMA RowFacts ==
    ASSUME NEW n \in Nat \ {0}, NEW rs, RowsUpTo(rs, n)
    PROVE  IsFiniteSet(DOMAIN rs) /\ Total(rs) \in Nat
<1>1. IsFiniteSet(1 .. n - 1)
  <2>1. 1 \in Int /\ n - 1 \in Int
    OBVIOUS
  <2>. QED
    BY <2>1, FS_Interval
<1>2. IsFiniteSet(DOMAIN rs)
  BY <1>1, FS_Subset DEF RowsUpTo
<1>3. SumFunctionOnSet(rs, DOMAIN rs) \in Nat
  BY <1>2, SumNat DEF RowsUpTo
<1>. QED
  BY <1>2, <1>3 DEF Total, SumFunction

\* A row more counts its tokens, and the others stay.
LEMMA RowAdded ==
    ASSUME nextId \in Nat \ {0}, NEW rs, RowsUpTo(rs, nextId), NEW n \in Nat
    PROVE  /\ RowsUpTo(WithRow(rs, n), nextId + 1)
           /\ Total(WithRow(rs, n)) = Total(rs) + n
           /\ \A i \in DOMAIN rs : i \in DOMAIN WithRow(rs, n) /\ WithRow(rs, n)[i] = rs[i]
<1>0. IsFiniteSet(DOMAIN rs) /\ Total(rs) \in Nat
  BY RowFacts
<1>1. CASE n = 0
  <2>1. WithRow(rs, n) = rs
    BY <1>1 DEF WithRow
  <2>. QED
    BY <1>0, <1>1, <2>1 DEF RowsUpTo
<1>2. CASE n > 0
  <2>. DEFINE D == DOMAIN rs
              w == [i \in D \cup {nextId} |-> IF i = nextId THEN n ELSE rs[i]]
              E == D \cup {nextId}
  <2>1. WithRow(rs, n) = w
    BY <1>2 DEF WithRow
  <2>2. nextId \notin D
    BY DEF RowsUpTo
  <2>3. DOMAIN w = E /\ w[nextId] = n /\ \A i \in D : w[i] = rs[i]
    BY <2>2
  <2>4. RowsUpTo(w, nextId + 1)
    <3>1. E \subseteq 1 .. nextId /\ nextId + 1 - 1 = nextId
      BY DEF RowsUpTo
    <3>2. \A i \in E : w[i] \in Nat
      BY DEF RowsUpTo
    <3>. HIDE DEF w
    <3>. QED
      BY <2>3, <3>1, <3>2 DEF RowsUpTo
  <2>5. IsFiniteSet(D) /\ IsFiniteSet(E)
    BY <1>0, FS_AddElement
  <2>6. E \ {nextId} = D /\ nextId \in E
    BY <2>2
  <2>. HIDE DEF w, E, D
  <2>7. \A i \in E : w[i] \in Int
    BY <2>3, <2>4 DEF RowsUpTo
  <2>8. SumFunctionOnSet(w, E) = w[nextId] + SumFunctionOnSet(w, D)
    <3>1. SumFunctionOnSet(w, E) = w[nextId] + SumFunctionOnSet(w, E \ {nextId})
      BY <2>5, <2>6, <2>7, SumFacts
    <3>. QED
      BY <2>6, <3>1
  <2>9. SumFunctionOnSet(w, D) = SumFunctionOnSet(rs, D)
    BY <2>3, <2>5, SumSame
  <2>10. Total(w) = SumFunctionOnSet(w, E) /\ Total(rs) = SumFunctionOnSet(rs, D)
    BY <2>3 DEF Total, SumFunction, D
  <2>11. Total(w) = Total(rs) + n
    BY <1>0, <2>3, <2>8, <2>9, <2>10
  <2>12. \A i \in DOMAIN rs : i \in DOMAIN w /\ w[i] = rs[i]
    BY <2>3 DEF D, E
  <2>. QED
    BY <2>1, <2>4, <2>11, <2>12
<1>. QED
  BY <1>1, <1>2

\* Rows taken out count no more.
LEMMA RowsTaken ==
    ASSUME NEW n \in Nat \ {0}, NEW rs, RowsUpTo(rs, n),
           NEW m, DOMAIN m \subseteq DOMAIN rs, \A i \in DOMAIN m : m[i] = rs[i],
           NEW left, left = Restrict(rs, DOMAIN rs \ DOMAIN m)
    PROVE  /\ RowsUpTo(left, n) /\ Total(m) \in Nat /\ Total(left) = Total(rs) - Total(m)
           /\ DOMAIN left = DOMAIN rs \ DOMAIN m
           /\ \A i \in DOMAIN left : left[i] = rs[i]
<1>. DEFINE D == DOMAIN rs
            M == DOMAIN m
            L == D \ M
<1>1. DOMAIN left = L /\ \A i \in L : left[i] = rs[i]
  BY DEF Restrict
<1>2. RowsUpTo(left, n) /\ RowsUpTo(m, n)
  BY <1>1 DEF RowsUpTo
<1>3. IsFiniteSet(D) /\ IsFiniteSet(M) /\ IsFiniteSet(L)
  BY <1>1, <1>2, RowFacts
<1>4. M \in SUBSET D /\ D \ M = L /\ \A i \in D : rs[i] \in Int
  BY DEF RowsUpTo
<1>5. Total(m) \in Nat /\ Total(left) \in Nat
  BY <1>2, RowFacts
<1>6. Total(rs) = SumFunctionOnSet(rs, D) /\ Total(m) = SumFunctionOnSet(m, M) /\ Total(left) = SumFunctionOnSet(left, L)
  BY <1>1 DEF Total, SumFunction
<1>. HIDE DEF D, M, L
<1>7. SumFunctionOnSet(rs, D) = SumFunctionOnSet(rs, M) + SumFunctionOnSet(rs, L)
  BY <1>3, <1>4, SumSplit
<1>8. SumFunctionOnSet(rs, M) = SumFunctionOnSet(m, M)
  <2>1. \A i \in M : rs[i] = m[i]
    BY DEF M
  <2>. QED
    BY <1>3, <2>1, SumSame
<1>9. SumFunctionOnSet(rs, L) = SumFunctionOnSet(left, L)
  BY <1>1, <1>3, SumSame
<1>10. Total(left) = Total(rs) - Total(m)
  BY <1>5, <1>6, <1>7, <1>8, <1>9
<1>. QED
  BY <1>1, <1>2, <1>5, <1>10 DEF L, D, M

\* What the buckets give is at most what is asked for, and the month's share is
\* at most what is left of it.
LEMMA TakenFacts ==
    ASSUME NEW t \in Buckets, NEW n \in Nat
    PROVE  /\ Taken(t, n) \in Int /\ n - Taken(t, n) \in Nat
           /\ Deducted(t, n) \in Buckets
           /\ FromMonthly(t, n) \in 0 .. (Quota - t.used)
           /\ FromBalance(t, n) \in Int
           /\ Deducted(t, n).bal = t.bal - FromBalance(t, n)
           /\ Deducted(t, n).used = t.used + FromMonthly(t, n)
<1>1. t.free \in Int /\ t.live \in BOOLEAN /\ t.used \in 0 .. Quota /\ t.bal \in Int /\ Quota \in Nat
  BY BucketsAssumption DEF Buckets
<1>. DEFINE a == FromFree(t, n)
            m == FromMonthly(t, n)
            b == FromBalance(t, n)
<1>2. a \in Int /\ a <= n
  BY <1>1 DEF FromFree, Lesser
<1>3. m \in Int /\ m <= n - a /\ m <= Quota - t.used /\ m >= 0
  <2>1. m = Lesser(Quota - t.used, n - a)
    BY DEF FromMonthly
  <2>. HIDE DEF a, m
  <2>. QED
    BY <1>1, <1>2, <2>1 DEF Lesser
<1>4. b \in Int /\ b <= n - a - m
  <2>1. b = Lesser(t.bal, n - a - m)
    BY DEF FromBalance
  <2>. HIDE DEF a, m, b
  <2>. QED
    BY <1>1, <1>2, <1>3, <2>1 DEF Lesser
<1>5. Taken(t, n) = a + m + b
  BY DEF Taken
<1>6. Deducted(t, n) = [free |-> (IF t.live THEN t.free ELSE 0) - a, live |-> t.live,
                        used |-> t.used + m, bal |-> t.bal - b]
  BY DEF Deducted
<1>. HIDE DEF a, m, b
<1>7. Taken(t, n) \in Int /\ n - Taken(t, n) \in Nat
  BY <1>2, <1>3, <1>4, <1>5
<1>8. Deducted(t, n) \in Buckets
  BY <1>1, <1>2, <1>3, <1>4, <1>6 DEF Buckets
<1>9. Deducted(t, n).bal = t.bal - b /\ Deducted(t, n).used = t.used + m /\ m \in 0 .. (Quota - t.used)
  BY <1>1, <1>3, <1>6
<1>. QED
  BY <1>4, <1>7, <1>8, <1>9 DEF m, b


(***************************************************************************)
(* The steps.                                                              *)
(***************************************************************************)
\* The tokens that are somewhere by the history.
Owed(s) == s.recorded + s.twice + s.debt - s.charged - s.dropped - s.lost - s.stopped
\* What a step adds to them it adds to memory and rows.
Even == Owed(sums') - Owed(sums) = Held(buf', hand') - Held(buf, hand) + Total(rows') - Total(rows)

Books == bk.bal = sums.topped - sums.clawed - sums.balance /\ MonthInv
Kept == LedgerInv' /\ Even /\ (Books => Books')

LEMMA SumsAreInts ==
    ASSUME NEW s \in [SumNames -> Int]
    PROVE  /\ s.recorded \in Int /\ s.twice \in Int /\ s.debt \in Int /\ s.charged \in Int
           /\ s.dropped \in Int /\ s.lost \in Int /\ s.stopped \in Int /\ s.monthly \in Int
           /\ s.balance \in Int /\ s.topped \in Int /\ s.clawed \in Int /\ s.months \in Int
           /\ s.calls \in Int /\ s.events \in Int /\ s.faults \in Int
  BY DEF SumNames

\* What changes count, by name.
Change(ch, c) == IF c \in DOMAIN ch THEN ch[c] ELSE 0
OwedChange(ch) ==
    Change(ch, "recorded") + Change(ch, "twice") + Change(ch, "debt") - Change(ch, "charged")
    - Change(ch, "dropped") - Change(ch, "lost") - Change(ch, "stopped")

LEMMA Counted ==
    ASSUME sums \in [SumNames -> Int], NEW ch, Count(ch), \A c \in SumNames : Change(ch, c) \in Int
    PROVE  /\ sums' \in [SumNames -> Int]
           /\ \A c \in SumNames : sums'[c] = sums[c] + Change(ch, c)
           /\ Owed(sums') = Owed(sums) + OwedChange(ch)
<1>1. DOMAIN sums' = SumNames /\ \A c \in SumNames : sums'[c] = sums[c] + Change(ch, c)
  BY DEF Count, Change
<1>2. sums' = [c \in SumNames |-> sums'[c]]
  BY DEF Count
<1>3. sums' \in [SumNames -> Int]
  BY <1>1, <1>2
<1>4. /\ sums'["recorded"] = sums["recorded"] + Change(ch, "recorded")
      /\ sums'["twice"] = sums["twice"] + Change(ch, "twice")
      /\ sums'["debt"] = sums["debt"] + Change(ch, "debt")
      /\ sums'["charged"] = sums["charged"] + Change(ch, "charged")
      /\ sums'["dropped"] = sums["dropped"] + Change(ch, "dropped")
      /\ sums'["lost"] = sums["lost"] + Change(ch, "lost")
      /\ sums'["stopped"] = sums["stopped"] + Change(ch, "stopped")
  BY <1>1 DEF SumNames
<1>5. /\ Change(ch, "recorded") \in Int /\ Change(ch, "twice") \in Int /\ Change(ch, "debt") \in Int
      /\ Change(ch, "charged") \in Int /\ Change(ch, "dropped") \in Int
      /\ Change(ch, "lost") \in Int /\ Change(ch, "stopped") \in Int
  BY DEF SumNames
<1>6. Owed(sums') = Owed(sums) + OwedChange(ch)
  BY <1>4, <1>5, SumsAreInts DEF Owed, OwedChange
<1>. QED
  BY <1>1, <1>3, <1>6

\* The sums of a state are integers.
LEMMA TotalsAreInts ==
    ASSUME LedgerTyped
    PROVE  /\ Held(buf, hand) \in Int /\ Total(rows) \in Int /\ Owed(sums) \in Int
           /\ RowsUpTo(rows, nextId) /\ MemTyped(buf, hand)
<1>1. RowsUpTo(rows, nextId) /\ MemTyped(buf, hand)
  BY DEF LedgerTyped, RowsUpTo, MemTyped
<1>2. Total(rows) \in Int
  BY <1>1, RowFacts DEF LedgerTyped
<1>3. Owed(sums) \in Int
  BY SumsAreInts DEF Owed, LedgerTyped
<1>4. Held(buf, hand) \in Int
  <2>. DEFINE x == [p \in Procs |-> MemOf(buf, hand, p)]
  <2>1. \A p \in Procs : MemOf(buf, hand, p) \in Nat
    BY <1>1, HeldChange
  <2>2. DOMAIN x = Procs /\ \A p \in Procs : x[p] = MemOf(buf, hand, p)
    OBVIOUS
  <2>3. Held(buf, hand) = SumFunctionOnSet(x, Procs)
    BY <2>2 DEF Held, SumFunction
  <2>. HIDE DEF x
  <2>4. \A p \in Procs : x[p] \in Int
    BY <2>1, <2>2
  <2>. QED
    BY <2>3, <2>4, ProcsAssumption, SumFacts
<1>. QED
  BY <1>1, <1>2, <1>3, <1>4

\* A step that leaves history, memory and rows as they are is even.
LEMMA EvenIfSame ==
    ASSUME LedgerTyped, UNCHANGED <<buf, hand, rows>>, Owed(sums') = Owed(sums)
    PROVE  Even
<1>1. Held(buf', hand') = Held(buf, hand) /\ Total(rows') = Total(rows)
  OBVIOUS
<1>. QED
  BY <1>1, TotalsAreInts DEF Even

LEMMA BooksIfSame ==
    ASSUME UNCHANGED <<bk, due>>, sums'.monthly = sums.monthly, sums'.months = sums.months,
           sums'.topped = sums.topped, sums'.clawed = sums.clawed, sums'.balance = sums.balance
    PROVE  Books => Books'
  BY DEF Books, MonthInv

LEMMA RecordKeeps ==
    ASSUME LedgerInv, NEW p \in Procs, NEW n \in Sizes, Record(p, n)
    PROVE  Kept
<1>. USE DEF LedgerInv
<1>1. LedgerTyped /\ buf[p] \in Seq(Nat) /\ n \in Nat /\ Total(buf[p]) \in Nat
  BY TokensAssumption, TotalNat DEF LedgerTyped
<1>2. UNCHANGED <<up, hand, pc, mine, seen, rows, nextId, bk, due>>
  BY DEF Record, flusher, table
<1>. DEFINE d == IF Len(buf[p]) >= MaxBuf THEN Head(buf[p]) ELSE 0
            s == IF Len(buf[p]) >= MaxBuf THEN Append(Tail(buf[p]), n) ELSE Append(buf[p], n)
<1>3. buf' = [buf EXCEPT ![p] = s]
  BY DEF Record
<1>4. d \in Nat /\ s \in Seq(Nat) /\ Total(s) = Total(buf[p]) + n - d
  <2>1. CASE Len(buf[p]) >= MaxBuf
    <3>1. buf[p] # <<>>
      BY <1>1, <2>1, BufferAssumption
    <3>2. /\ Tail(buf[p]) \in Seq(Nat) /\ Head(buf[p]) \in Nat
          /\ Total(Tail(buf[p])) = Total(buf[p]) - Head(buf[p])
      BY <1>1, <3>1, TotalTail
    <3>3. /\ Append(Tail(buf[p]), n) \in Seq(Nat)
          /\ Total(Append(Tail(buf[p]), n)) = Total(Tail(buf[p])) + n
      BY <1>1, <3>2, TotalAppend
    <3>. QED
      BY <1>1, <2>1, <3>2, <3>3
  <2>2. CASE ~(Len(buf[p]) >= MaxBuf)
    <3>1. Append(buf[p], n) \in Seq(Nat) /\ Total(Append(buf[p], n)) = Total(buf[p]) + n
      BY <1>1, TotalAppend
    <3>. QED
      BY <1>1, <2>2, <3>1
  <2>. QED
    BY <2>1, <2>2
<1>5. /\ sums' \in [SumNames -> Int] /\ Owed(sums') = Owed(sums) + n - d
      /\ sums'.monthly = sums.monthly /\ sums'.balance = sums.balance /\ sums'.topped = sums.topped
      /\ sums'.clawed = sums.clawed /\ sums'.months = sums.months
  <2>. DEFINE ch == IF Len(buf[p]) >= MaxBuf THEN [calls |-> 1, recorded |-> n, dropped |-> d]
                                             ELSE [calls |-> 1, recorded |-> n]
  <2>1. sums \in [SumNames -> Int] /\ Count(ch)
    BY <1>1 DEF LedgerTyped, Record
  <2>2. /\ Change(ch, "recorded") = n /\ Change(ch, "dropped") = d /\ Change(ch, "calls") = 1
        /\ \A c \in SumNames \ {"recorded", "dropped", "calls"} : Change(ch, c) = 0
    BY DEF Change
  <2>. HIDE DEF ch, d, s
  <2>3. \A c \in SumNames : Change(ch, c) \in Int
    BY <1>1, <1>4, <2>2
  <2>4. /\ sums' \in [SumNames -> Int] /\ Owed(sums') = Owed(sums) + OwedChange(ch)
        /\ \A c \in SumNames : sums'[c] = sums[c] + Change(ch, c)
    BY <2>1, <2>3, Counted
  <2>5. OwedChange(ch) = n - d
    BY <1>1, <1>4, <2>2 DEF OwedChange, SumNames
  <2>6. /\ sums'.monthly = sums.monthly /\ sums'.balance = sums.balance /\ sums'.topped = sums.topped
        /\ sums'.clawed = sums.clawed /\ sums'.months = sums.months
    BY <2>1, <2>2, <2>4 DEF SumNames
  <2>7. Owed(sums) \in Int
    BY <1>1, TotalsAreInts
  <2>. QED
    BY <1>1, <1>4, <2>4, <2>5, <2>6, <2>7
<1>. HIDE DEF d, s
<1>6. LedgerTyped'
  BY <1>1, <1>2, <1>3, <1>4, <1>5 DEF LedgerTyped
<1>7. HandInv' /\ MineInv' /\ SeenInv'
  BY <1>2 DEF HandInv, MineInv, SeenInv
<1>8. Even
  <2>. DEFINE f == <<p, "run">>
  <2>1. f \in Flushers /\ f[1] = p
    BY DEF Flushers
  <2>2. MemTyped(buf, hand) /\ MemTyped(buf', hand)
    BY <1>1, <1>2, <1>6 DEF LedgerTyped, MemTyped
  <2>3. buf'[p] = s /\ \A q \in Procs \ {p} : buf'[q] = buf[q]
    BY <1>1, <1>3 DEF LedgerTyped
  <2>. HIDE DEF f
  <2>4. Held(buf', hand) = Held(buf, hand) - Total(buf[p]) - Total(hand[f]) + Total(s) + Total(hand[f])
    BY <2>1, <2>2, <2>3, HeldMove
  <2>5. Total(hand[f]) \in Nat
    BY <2>1, <2>2, TotalNat DEF MemTyped
  <2>6. Held(buf', hand) = Held(buf, hand) + n - d
    BY <1>1, <1>4, <2>4, <2>5, TotalsAreInts
  <2>7. Held(buf', hand') = Held(buf', hand) /\ Total(rows') = Total(rows)
    BY <1>2
  <2>8. Owed(sums') - Owed(sums) = n - d /\ Held(buf', hand') - Held(buf, hand) = n - d
    BY <1>1, <1>4, <1>5, <2>6, <2>7, TotalsAreInts
  <2>9. Total(rows') - Total(rows) = 0
    BY <1>1, <2>7, TotalsAreInts
  <2>10. /\ Held(buf, hand) \in Int /\ Held(buf', hand') \in Int
         /\ Total(rows) \in Int /\ Total(rows') \in Int
    BY <1>1, <1>4, <2>6, <2>7, TotalsAreInts
  <2>. QED
    BY <1>1, <1>4, <2>8, <2>9, <2>10 DEF Even
<1>9. Books => Books'
  BY <1>2, <1>5, BooksIfSame
<1>. QED
  BY <1>6, <1>7, <1>8, <1>9 DEF Kept


LEMMA EvenBy ==
    ASSUME LedgerTyped, NEW a \in Int, NEW b \in Int, NEW c \in Int, a = b + c,
           Owed(sums') = Owed(sums) + a, Held(buf', hand') = Held(buf, hand) + b,
           Total(rows') = Total(rows) + c
    PROVE  Even
  BY TotalsAreInts DEF Even

LEMMA BeginFlushKeeps ==
    ASSUME LedgerInv, NEW f \in Flushers, BeginFlush(f)
    PROVE  Kept
<1>. USE DEF LedgerInv
<1>. DEFINE p == f[1]
<1>1. LedgerTyped /\ p \in Procs /\ buf[p] \in Seq(Nat) /\ hand[f] = <<>>
  BY FlushersFinite DEF LedgerTyped, HandInv, BeginFlush
<1>2. UNCHANGED <<up, todo, tries, mine, seen, rows, nextId, bk, due, gate, sweeper, sums>>
  BY DEF BeginFlush, table
<1>3. pc[f] \in {"idle", "final"}
  BY DEF BeginFlush
<1>4. CASE /\ buf[p] # <<>> /\ hand' = [hand EXCEPT ![f] = buf[p]]
           /\ buf' = [buf EXCEPT ![p] = <<>>] /\ pc' = [pc EXCEPT ![f] = "insert"]
  <2>. HIDE DEF p
  <2>0. <<>> \in Seq(Nat)
    OBVIOUS
  <2>1. LedgerTyped'
    BY <1>1, <1>2, <1>4, <2>0 DEF LedgerTyped, States
  <2>2. HandInv'
    <3>1. \A g \in Flushers : pc'[g] # "insert" => hand'[g] = <<>>
      BY <1>1, <1>4 DEF LedgerTyped, HandInv
    <3>2. \A q \in Stoppable : up'[q] = "up" => pc'[<<q, "main">>] = "off"
      <4>1. \A q \in Stoppable : <<q, "main">> \in Flushers
        BY DEF Flushers
      <4>. QED
        BY <1>1, <1>2, <1>3, <1>4, <4>1 DEF LedgerTyped, HandInv
    <3>. QED
      BY <3>1, <3>2 DEF HandInv
  <2>3. MineInv' /\ SeenInv'
    <3>1. \A g \in Flushers : pc'[g] = "deduct" => pc[g] = "deduct"
      BY <1>1, <1>4 DEF LedgerTyped
    <3>. QED
      BY <1>2, <3>1 DEF MineInv, SeenInv
  <2>4. Even
    <3>1. MemTyped(buf, hand) /\ MemTyped(buf', hand')
      BY <1>1, <2>1 DEF LedgerTyped, MemTyped
    <3>2. /\ buf'[p] = <<>> /\ \A q \in Procs \ {p} : buf'[q] = buf[q]
          /\ hand'[f] = buf[p] /\ \A g \in Flushers \ {f} : hand'[g] = hand[g]
      BY <1>1, <1>4 DEF LedgerTyped
    <3>3. Held(buf', hand') = Held(buf, hand) - Total(buf[f[1]]) - Total(hand[f]) + Total(buf'[f[1]]) + Total(hand'[f])
      BY <3>1, <3>2, HeldMove DEF p
    <3>4. Total(hand[f]) = 0 /\ Total(buf'[p]) = 0 /\ Total(hand'[f]) = Total(buf[p]) /\ Total(buf[p]) \in Nat
      BY <1>1, <3>2, TotalNone, TotalNat
    <3>5. Held(buf', hand') = Held(buf, hand)
      BY <1>1, <3>3, <3>4, TotalsAreInts DEF p
    <3>6. Owed(sums') = Owed(sums) /\ Total(rows') = Total(rows)
      BY <1>2
    <3>. QED
      BY <1>1, <3>5, <3>6, TotalsAreInts DEF Even
  <2>. QED
    BY <1>2, <2>1, <2>2, <2>3, <2>4, BooksIfSame DEF Kept
<1>5. CASE pc[f] = "final" /\ pc' = [pc EXCEPT ![f] = "done"] /\ UNCHANGED <<hand, buf>>
  <2>1. LedgerTyped'
    BY <1>1, <1>2, <1>5 DEF LedgerTyped, States
  <2>2. HandInv'
    <3>1. \A q \in Stoppable : <<q, "main">> \in Flushers
      BY DEF Flushers
    <3>. QED
      BY <1>1, <1>2, <1>5, <3>1 DEF LedgerTyped, HandInv
  <2>3. MineInv' /\ SeenInv'
    <3>1. \A g \in Flushers : pc'[g] = "deduct" => pc[g] = "deduct"
      BY <1>1, <1>5 DEF LedgerTyped
    <3>. QED
      BY <1>2, <3>1 DEF MineInv, SeenInv
  <2>. QED
    BY <1>1, <1>2, <1>5, <2>1, <2>2, <2>3, EvenIfSame, BooksIfSame DEF Kept
<1>. QED
  BY <1>4, <1>5 DEF BeginFlush

\* A flusher that is not in a transaction leaves the rows and the buckets to the
\* others.
LEMMA FreeStep ==
    ASSUME LedgerInv, NEW f \in Flushers, UNCHANGED <<mine, seen, bk>>,
           \A g \in Flushers \ {f} : pc'[g] = pc[g], pc'[f] # "deduct",
           \A i \in DOMAIN rows : i \in DOMAIN rows' /\ rows'[i] = rows[i]
    PROVE  MineInv' /\ SeenInv'
<1>1. MineInv'
  BY DEF LedgerInv, MineInv
<1>2. \A g \in Flushers : pc'[g] = "deduct" => pc[g] = "deduct"
  OBVIOUS
<1>3. SeenInv'
  BY <1>2 DEF LedgerInv, SeenInv
<1>. QED
  BY <1>1, <1>3

\* The main goroutine of a process that is up takes no step.
LEMMA HandIfPut ==
    ASSUME LedgerInv, NEW f \in Flushers, pc[f] # "off", UNCHANGED up,
           \A g \in Flushers \ {f} : pc'[g] = pc[g] /\ hand'[g] = hand[g],
           pc'[f] # "insert" => hand'[f] = <<>>
    PROVE  HandInv'
<1>1. \A g \in Flushers : pc'[g] # "insert" => hand'[g] = <<>>
  BY DEF LedgerInv, HandInv
<1>2. \A q \in Stoppable : <<q, "main">> \in Flushers
  BY DEF Flushers
<1>3. \A q \in Stoppable : up'[q] = "up" => pc'[<<q, "main">>] = "off"
  BY <1>2 DEF LedgerInv, HandInv
<1>. QED
  BY <1>1, <1>3 DEF HandInv

LEMMA InsertKeeps ==
    ASSUME LedgerInv, NEW f \in Flushers, Insert(f)
    PROVE  Kept
<1>. USE DEF LedgerInv
<1>. DEFINE p == f[1]
            n == Total(hand[f])
            added == rows' = WithRow(rows, n) /\ nextId' = nextId + 1
            back == /\ buf' = [buf EXCEPT ![p] = hand[f] \o buf[p]]
                    /\ pc' = [pc EXCEPT ![f] = Resting(f)]
<1>1. LedgerTyped /\ p \in Procs /\ buf[p] \in Seq(Nat) /\ hand[f] \in Seq(Nat) /\ n \in Nat
  BY FlushersFinite, TotalNat DEF LedgerTyped
<1>2. UNCHANGED <<up, mine, seen, bk, due>> /\ pc[f] = "insert" /\ hand' = [hand EXCEPT ![f] = <<>>]
  BY DEF Insert
<1>3. \/ added /\ UNCHANGED <<buf, sums>> /\ pc' = [pc EXCEPT ![f] = "settle"]
      \/ back /\ Count([faults |-> 1]) /\ UNCHANGED <<rows, nextId>>
      \/ back /\ added /\ Count([faults |-> 1, twice |-> n])
  BY DEF Insert, table
<1>4. RowsUpTo(rows, nextId) /\ nextId \in Nat \ {0}
  BY <1>1, TotalsAreInts DEF LedgerTyped
<1>5. added => /\ RowsUpTo(rows', nextId') /\ Total(rows') = Total(rows) + n
               /\ \A i \in DOMAIN rows : i \in DOMAIN rows' /\ rows'[i] = rows[i]
  <2>. SUFFICES ASSUME added
                PROVE  /\ RowsUpTo(rows', nextId') /\ Total(rows') = Total(rows) + n
                       /\ \A i \in DOMAIN rows : i \in DOMAIN rows' /\ rows'[i] = rows[i]
    OBVIOUS
  <2>. HIDE DEF n
  <2>. QED
    BY <1>1, <1>4, RowAdded
<1>6. Resting(f) \in States /\ Resting(f) # "insert" /\ Resting(f) # "deduct"
  BY DEF Resting, States
<1>7. hand[f] \o buf[p] \in Seq(Nat) /\ Total(hand[f] \o buf[p]) = n + Total(buf[p]) /\ Total(buf[p]) \in Nat
  BY <1>1, TotalConcat, TotalNat
<1>8. <<>> \in Seq(Nat) /\ hand' \in [Flushers -> Seq(Nat)] /\ hand'[f] = <<>>
      /\ \A g \in Flushers \ {f} : hand'[g] = hand[g]
  BY <1>1, <1>2 DEF LedgerTyped
<1>9. /\ pc' \in [Flushers -> States] /\ pc'[f] # "deduct" /\ pc'[f] # "insert"
      /\ \A g \in Flushers \ {f} : pc'[g] = pc[g]
  BY <1>1, <1>3, <1>6 DEF LedgerTyped, States
<1>10. sums' \in [SumNames -> Int]
  <2>1. sums \in [SumNames -> Int]
    BY <1>1 DEF LedgerTyped
  <2>. DEFINE ch == [faults |-> 1]
              dh == [faults |-> 1, twice |-> n]
  <2>2. \A c \in SumNames : Change(ch, c) \in Int /\ Change(dh, c) \in Int
    <3>1. \A c \in SumNames : Change(ch, c) \in {0, 1} /\ Change(dh, c) \in {0, 1, n}
      BY DEF Change
    <3>. QED
      BY <1>1, <3>1
  <2>3. UNCHANGED sums \/ Count(ch) \/ Count(dh)
    BY <1>3
  <2>. HIDE DEF ch, dh
  <2>. QED
    BY <2>1, <2>2, <2>3, Counted
<1>11. buf' \in [Procs -> Seq(Nat)] /\ \A q \in Procs \ {p} : buf'[q] = buf[q]
  BY <1>1, <1>3, <1>7 DEF LedgerTyped
<1>12. RowsUpTo(rows', nextId') /\ nextId' \in Nat \ {0} /\ \A i \in DOMAIN rows : i \in DOMAIN rows' /\ rows'[i] = rows[i]
  <2>1. CASE added
    BY <1>4, <1>5, <2>1
  <2>2. CASE UNCHANGED <<rows, nextId>>
    BY <1>4, <2>2
  <2>. QED
    BY <1>3, <2>1, <2>2
<1>. HIDE DEF p, n, added, back
<1>13. LedgerTyped'
  BY <1>1, <1>2, <1>8, <1>9, <1>10, <1>11, <1>12 DEF LedgerTyped, RowsUpTo
<1>14. HandInv'
  BY <1>2, <1>8, <1>9, HandIfPut
<1>15. MineInv' /\ SeenInv'
  BY <1>2, <1>9, <1>12, FreeStep
<1>16. MemTyped(buf, hand) /\ MemTyped(buf', hand')
  BY <1>1, <1>13 DEF LedgerTyped, MemTyped
<1>17. Held(buf', hand') = Held(buf, hand) - Total(buf[p]) - n + Total(buf'[p])
  <2>1. Held(buf', hand') = Held(buf, hand) - Total(buf[f[1]]) - Total(hand[f]) + Total(buf'[f[1]]) + Total(hand'[f])
    BY <1>8, <1>11, <1>16, HeldMove DEF p
  <2>2. buf'[p] \in Seq(Nat) /\ Total(buf'[p]) \in Nat /\ Total(hand'[f]) = 0
    BY <1>1, <1>8, <1>11, TotalNat, TotalNone
  <2>. QED
    BY <1>1, <1>7, <2>1, <2>2, TotalsAreInts DEF p, n
<1>18. Owed(sums) \in Int /\ sums \in [SumNames -> Int] /\ Held(buf, hand) \in Int /\ Total(rows) \in Int
  BY <1>1, TotalsAreInts DEF LedgerTyped
<1>19. CASE added /\ UNCHANGED <<buf, sums>>
  <2>1. Held(buf', hand') = Held(buf, hand) - n
    BY <1>1, <1>7, <1>17, <1>18, <1>19 DEF p
  <2>2. Total(rows') = Total(rows) + n /\ Owed(sums') = Owed(sums)
    BY <1>5, <1>19
  <2>3. Even
    BY <1>1, <1>18, <2>1, <2>2 DEF Even
  <2>. QED
    BY <1>2, <1>13, <1>14, <1>15, <1>19, <2>3, BooksIfSame DEF Kept
<1>20. back => Held(buf', hand') = Held(buf, hand)
  <2>1. back => buf'[p] = hand[f] \o buf[p]
    BY <1>1 DEF LedgerTyped, back
  <2>2. back => Total(buf'[p]) = n + Total(buf[p])
    BY <1>7, <2>1 DEF p
  <2>3. n \in Int /\ Total(buf[p]) \in Int
    BY <1>1, <1>7 DEF p
  <2>. QED
    BY <1>17, <1>18, <2>2, <2>3
<1>21. CASE back /\ Count([faults |-> 1]) /\ UNCHANGED <<rows, nextId>>
  <2>. DEFINE ch == [faults |-> 1]
  <2>1. Change(ch, "faults") = 1 /\ \A c \in SumNames \ {"faults"} : Change(ch, c) = 0
    BY DEF Change
  <2>2. Count(ch)
    BY <1>21
  <2>. HIDE DEF ch
  <2>3. /\ Owed(sums') = Owed(sums) + OwedChange(ch)
        /\ \A c \in SumNames : sums'[c] = sums[c] + Change(ch, c)
    <3>1. \A c \in SumNames : Change(ch, c) \in Int
      BY <2>1
    <3>. QED
      BY <1>18, <2>2, <3>1, Counted
  <2>4. OwedChange(ch) = 0
    BY <2>1 DEF OwedChange, SumNames
  <2>5. /\ sums'.monthly = sums.monthly /\ sums'.balance = sums.balance /\ sums'.topped = sums.topped
        /\ sums'.clawed = sums.clawed /\ sums'.months = sums.months
    BY <1>18, <2>1, <2>3 DEF SumNames
  <2>6. Even
    BY <1>18, <1>20, <1>21, <2>3, <2>4 DEF Even
  <2>. QED
    BY <1>2, <1>13, <1>14, <1>15, <2>5, <2>6, BooksIfSame DEF Kept
<1>22. CASE back /\ added /\ Count([faults |-> 1, twice |-> n])
  <2>. DEFINE ch == [faults |-> 1, twice |-> n]
  <2>1. /\ Change(ch, "faults") = 1 /\ Change(ch, "twice") = n
        /\ \A c \in SumNames \ {"faults", "twice"} : Change(ch, c) = 0
    BY DEF Change
  <2>2. Count(ch)
    BY <1>22
  <2>. HIDE DEF ch
  <2>3. /\ Owed(sums') = Owed(sums) + OwedChange(ch)
        /\ \A c \in SumNames : sums'[c] = sums[c] + Change(ch, c)
    <3>1. \A c \in SumNames : Change(ch, c) \in Int
      BY <1>1, <2>1 DEF n
    <3>. QED
      BY <1>18, <2>2, <3>1, Counted
  <2>4. OwedChange(ch) = n
    BY <1>1, <2>1 DEF OwedChange, SumNames, n
  <2>5. /\ sums'.monthly = sums.monthly /\ sums'.balance = sums.balance /\ sums'.topped = sums.topped
        /\ sums'.clawed = sums.clawed /\ sums'.months = sums.months
    BY <1>18, <2>1, <2>3 DEF SumNames
  <2>6. Even
    <3>1. Total(rows') = Total(rows) + n
      BY <1>5, <1>22
    <3>. QED
      BY <1>1, <1>18, <1>20, <1>22, <2>3, <2>4, <3>1 DEF Even
  <2>. QED
    BY <1>2, <1>13, <1>14, <1>15, <2>5, <2>6, BooksIfSame DEF Kept
<1>. QED
  BY <1>3, <1>19, <1>21, <1>22


\* The end of an attempt: the flusher holds no rows and no buckets, and the rows
\* and the buckets of the others are as they were.
LEMMA AttemptEnds ==
    ASSUME LedgerInv, NEW f \in Flushers, NEW left, EndAttempt(f, left), UNCHANGED <<up, hand>>,
           pc[f] \in {"settle", "tenant", "deduct"}, bk' = bk \/ pc[f] = "deduct",
           \A i \in DOMAIN rows : i \in DOMAIN mine[f] \/ (i \in DOMAIN rows' /\ rows'[i] = rows[i])
    PROVE  /\ pc' \in [Flushers -> States] /\ DOMAIN mine' = Flushers /\ DOMAIN seen' = Flushers
           /\ HandInv' /\ MineInv' /\ SeenInv'
<1>. USE DEF LedgerInv
<1>1. /\ mine' = [mine EXCEPT ![f] = <<>>] /\ seen' = [seen EXCEPT ![f] = Zero]
      /\ \E x \in {"settle", "idle", "done"} : pc' = [pc EXCEPT ![f] = x]
  BY DEF EndAttempt, Resting
<1>2. pc \in [Flushers -> States] /\ DOMAIN mine = Flushers /\ DOMAIN seen = Flushers
  BY DEF LedgerTyped
<1>3. PICK x \in {"settle", "idle", "done"} : pc' = [pc EXCEPT ![f] = x]
  BY <1>1
<1>4. /\ pc' \in [Flushers -> States] /\ pc'[f] \in {"settle", "idle", "done"}
      /\ \A g \in Flushers \ {f} : pc'[g] = pc[g]
  BY <1>2, <1>3 DEF States
<1>5. /\ DOMAIN mine' = Flushers /\ mine'[f] = <<>> /\ \A g \in Flushers \ {f} : mine'[g] = mine[g]
      /\ DOMAIN seen' = Flushers /\ \A g \in Flushers \ {f} : seen'[g] = seen[g]
  BY <1>1, <1>2
<1>6. HandInv'
  <2>1. hand[f] = <<>>
    BY DEF HandInv
  <2>. QED
    BY <1>4, <2>1, HandIfPut
<1>7. MineInv'
  <2>0. DOMAIN mine'[f] = {}
    BY <1>5
  <2>1. ASSUME NEW g \in Flushers
        PROVE  DOMAIN mine'[g] \subseteq DOMAIN rows' /\ \A i \in DOMAIN mine'[g] : mine'[g][i] = rows'[i]
    <3>1. CASE g = f
      BY <2>0, <3>1
    <3>2. CASE g # f
      <4>1. mine'[g] = mine[g]
        BY <1>5, <3>2
      <4>2. \A i \in DOMAIN mine[g] : i \in DOMAIN rows /\ mine[g][i] = rows[i] /\ i \notin DOMAIN mine[f]
        BY <3>2 DEF MineInv
      <4>. QED
        BY <4>1, <4>2
    <3>. QED
      BY <3>1, <3>2
  <2>2. \A g, h \in Flushers : g # h => DOMAIN mine'[g] \cap DOMAIN mine'[h] = {}
    BY <1>5, <2>0 DEF MineInv
  <2>. QED
    BY <2>1, <2>2 DEF MineInv
<1>8. SeenInv'
  <2>1. \A g \in Flushers : pc'[g] = "deduct" => g # f /\ pc[g] = "deduct" /\ seen'[g] = seen[g] /\ bk' = bk
    <3>1. \A g \in Flushers : pc'[g] = "deduct" => g # f /\ pc[g] = "deduct" /\ seen'[g] = seen[g]
      BY <1>4, <1>5
    <3>. QED
      BY <3>1 DEF SeenInv
  <2>. QED
    BY <2>1 DEF SeenInv
<1>. QED
  BY <1>4, <1>5, <1>6, <1>7, <1>8

LEMMA LockRowsKeeps ==
    ASSUME LedgerInv, NEW f \in Flushers, LockRows(f)
    PROVE  Kept
<1>. USE DEF LedgerInv
<1>1. UNCHANGED <<up, buf, hand, rows, nextId, bk, due, sums>> /\ pc[f] = "settle"
  BY DEF LockRows, process, table
<1>2. LedgerTyped
  OBVIOUS
<1>3. CASE mine' = [mine EXCEPT ![f] = Restrict(rows, Lockable(f))] /\ pc' = [pc EXCEPT ![f] = "tenant"] /\ UNCHANGED seen
  <2>. DEFINE m == Restrict(rows, Lockable(f))
  <2>1. DOMAIN m = Lockable(f) /\ \A i \in Lockable(f) : m[i] = rows[i]
    BY DEF Restrict
  <2>2. Lockable(f) \subseteq DOMAIN rows /\ \A g \in Flushers : Lockable(f) \cap DOMAIN mine[g] = {}
    BY DEF Lockable
  <2>3. mine' = [mine EXCEPT ![f] = m]
    BY <1>3
  <2>. HIDE DEF m
  <2>4. DOMAIN mine' = Flushers /\ mine'[f] = m /\ \A g \in Flushers \ {f} : mine'[g] = mine[g]
    BY <1>2, <2>3 DEF LedgerTyped
  <2>5. /\ pc' \in [Flushers -> States] /\ pc'[f] = "tenant" /\ \A g \in Flushers \ {f} : pc'[g] = pc[g]
    BY <1>2, <1>3 DEF LedgerTyped, States
  <2>6. LedgerTyped'
    BY <1>1, <1>2, <1>3, <2>4, <2>5 DEF LedgerTyped
  <2>7. HandInv'
    <3>1. hand[f] = <<>>
      BY <1>1 DEF HandInv
    <3>. QED
      BY <1>1, <2>5, <3>1, HandIfPut
  <2>8. MineInv'
    <3>1. \A g \in Flushers : /\ DOMAIN mine'[g] \subseteq DOMAIN rows
                              /\ \A i \in DOMAIN mine'[g] : mine'[g][i] = rows[i]
      BY <2>1, <2>2, <2>4 DEF MineInv
    <3>2. \A g, h \in Flushers : g # h => DOMAIN mine'[g] \cap DOMAIN mine'[h] = {}
      BY <2>1, <2>2, <2>4 DEF MineInv
    <3>. QED
      BY <1>1, <3>1, <3>2 DEF MineInv
  <2>9. SeenInv'
    BY <1>1, <1>3, <2>5 DEF SeenInv
  <2>. QED
    BY <1>1, <1>2, <2>6, <2>7, <2>8, <2>9, EvenIfSame, BooksIfSame DEF Kept
<1>4. CASE EndAttempt(f, todo[f])
  <2>1. /\ pc' \in [Flushers -> States] /\ DOMAIN mine' = Flushers /\ DOMAIN seen' = Flushers
        /\ HandInv' /\ MineInv' /\ SeenInv'
    BY <1>1, <1>4, AttemptEnds
  <2>2. LedgerTyped'
    BY <1>1, <1>2, <2>1 DEF LedgerTyped
  <2>. QED
    BY <1>1, <1>2, <2>1, <2>2, EvenIfSame, BooksIfSame DEF Kept
<1>. QED
  BY <1>3, <1>4 DEF LockRows

LEMMA LockTenantKeeps ==
    ASSUME LedgerInv, NEW f \in Flushers, LockTenant(f)
    PROVE  Kept
<1>. USE DEF LedgerInv
<1>1. UNCHANGED <<up, buf, hand, mine, rows, nextId, bk, due, sums>> /\ pc[f] = "tenant"
  BY DEF LockTenant, process, table
<1>2. LedgerTyped
  OBVIOUS
<1>3. seen' = [seen EXCEPT ![f] = bk] /\ pc' = [pc EXCEPT ![f] = "deduct"] /\ TenantFree
  BY DEF LockTenant
<1>4. /\ DOMAIN seen' = Flushers /\ seen'[f] = bk /\ pc' \in [Flushers -> States] /\ pc'[f] = "deduct"
      /\ \A g \in Flushers \ {f} : pc'[g] = pc[g]
  BY <1>2, <1>3 DEF LedgerTyped, States
<1>5. LedgerTyped'
  BY <1>1, <1>2, <1>4 DEF LedgerTyped
<1>6. HandInv'
  <2>1. hand[f] = <<>>
    BY <1>1 DEF HandInv
  <2>. QED
    BY <1>1, <1>4, <2>1, HandIfPut
<1>7. MineInv'
  BY <1>1 DEF MineInv
<1>8. SeenInv'
  <2>1. \A g \in Flushers : pc'[g] = "deduct" => g = f
    BY <1>3, <1>4 DEF TenantFree
  <2>. QED
    BY <1>1, <1>4, <2>1 DEF SeenInv
<1>. QED
  BY <1>1, <1>2, <1>5, <1>6, <1>7, <1>8, EvenIfSame, BooksIfSame DEF Kept

LEMMA BeginSweepKeeps ==
    ASSUME LedgerInv, NEW f \in Flushers, BeginSweep(f)
    PROVE  Kept
<1>. USE DEF LedgerInv
<1>1. UNCHANGED <<up, buf, hand, mine, seen, rows, nextId, bk, due, sums>> /\ pc[f] = "idle"
  BY DEF BeginSweep, process, table
<1>2. LedgerTyped /\ pc' = [pc EXCEPT ![f] = "settle"]
  BY DEF BeginSweep
<1>3. pc' \in [Flushers -> States] /\ pc'[f] = "settle" /\ \A g \in Flushers \ {f} : pc'[g] = pc[g]
  BY <1>2 DEF LedgerTyped, States
<1>4. LedgerTyped'
  BY <1>1, <1>2, <1>3 DEF LedgerTyped
<1>5. HandInv'
  <2>1. hand[f] = <<>>
    BY <1>1 DEF HandInv
  <2>. QED
    BY <1>1, <1>3, <2>1, HandIfPut
<1>6. MineInv' /\ SeenInv'
  BY <1>1, <1>3, FreeStep
<1>. QED
  BY <1>1, <1>2, <1>4, <1>5, <1>6, EvenIfSame, BooksIfSame DEF Kept

LEMMA SettleFailsKeeps ==
    ASSUME LedgerInv, NEW f \in Flushers, SettleFails(f)
    PROVE  Kept
<1>. USE DEF LedgerInv
<1>1. UNCHANGED <<up, buf, hand, rows, nextId, bk, due>> /\ pc[f] \in {"tenant", "deduct"}
  BY DEF SettleFails, process, table
<1>2. LedgerTyped /\ sums \in [SumNames -> Int]
  BY DEF LedgerTyped
<1>3. PICK left : EndAttempt(f, left)
  BY DEF SettleFails
<1>4. /\ pc' \in [Flushers -> States] /\ DOMAIN mine' = Flushers /\ DOMAIN seen' = Flushers
      /\ HandInv' /\ MineInv' /\ SeenInv'
  BY <1>1, <1>3, AttemptEnds
<1>. DEFINE ch == [faults |-> 1]
<1>5. Change(ch, "faults") = 1 /\ \A c \in SumNames \ {"faults"} : Change(ch, c) = 0
  BY DEF Change
<1>6. Count(ch)
  BY DEF SettleFails
<1>. HIDE DEF ch
<1>7. /\ Owed(sums') = Owed(sums) + OwedChange(ch) /\ sums' \in [SumNames -> Int]
      /\ \A c \in SumNames : sums'[c] = sums[c] + Change(ch, c)
  <2>1. \A c \in SumNames : Change(ch, c) \in Int
    BY <1>5
  <2>. QED
    BY <1>2, <1>6, <2>1, Counted
<1>8. OwedChange(ch) = 0
  BY <1>5 DEF OwedChange, SumNames
<1>9. /\ sums'.monthly = sums.monthly /\ sums'.balance = sums.balance /\ sums'.topped = sums.topped
      /\ sums'.clawed = sums.clawed /\ sums'.months = sums.months
  BY <1>2, <1>5, <1>7 DEF SumNames
<1>10. Owed(sums') = Owed(sums)
  BY <1>2, <1>7, <1>8, TotalsAreInts
<1>11. LedgerTyped'
  BY <1>1, <1>2, <1>4, <1>7 DEF LedgerTyped
<1>. QED
  BY <1>1, <1>2, <1>4, <1>9, <1>10, <1>11, EvenIfSame, BooksIfSame DEF Kept


LEMMA SettleKeeps ==
    ASSUME LedgerInv, NEW f \in Flushers, Settle(f)
    PROVE  Kept
<1>. USE DEF LedgerInv
<1>. DEFINE n == Total(mine[f])
            t == seen[f]
<1>1. UNCHANGED <<up, buf, hand, due>> /\ pc[f] = "deduct"
  BY DEF Settle, process
<1>2. LedgerTyped /\ sums \in [SumNames -> Int] /\ RowsUpTo(rows, nextId) /\ nextId \in Nat \ {0}
  BY TotalsAreInts DEF LedgerTyped
<1>3. t = bk /\ bk \in Buckets /\ Quota \in Nat
  BY <1>1, BucketsAssumption DEF SeenInv, LedgerTyped
<1>4. DOMAIN mine[f] \subseteq DOMAIN rows /\ \A i \in DOMAIN mine[f] : mine[f][i] = rows[i]
  BY DEF MineInv
<1>. DEFINE left == Restrict(rows, DOMAIN rows \ DOMAIN mine[f])
<1>5. /\ RowsUpTo(left, nextId) /\ n \in Nat /\ Total(left) = Total(rows) - n
      /\ DOMAIN left = DOMAIN rows \ DOMAIN mine[f]
      /\ \A i \in DOMAIN left : left[i] = rows[i]
  BY <1>2, <1>4, RowsTaken
<1>6. CASE Taken(t, n) = 0 /\ EndAttempt(f, todo[f]) /\ UNCHANGED <<rows, nextId, bk, sums>>
  <2>1. /\ pc' \in [Flushers -> States] /\ DOMAIN mine' = Flushers /\ DOMAIN seen' = Flushers
        /\ HandInv' /\ MineInv' /\ SeenInv'
    BY <1>1, <1>6, AttemptEnds
  <2>2. LedgerTyped'
    BY <1>1, <1>2, <1>6, <2>1 DEF LedgerTyped
  <2>. QED
    BY <1>1, <1>2, <1>6, <2>1, <2>2, EvenIfSame, BooksIfSame DEF Kept
<1>. DEFINE ch == [charged |-> Taken(t, n), monthly |-> FromMonthly(t, n), balance |-> FromBalance(t, n)]
            lack == n - Taken(t, n)
<1>7. CASE /\ bk' = Deducted(t, n) /\ rows' = WithRow(left, lack) /\ nextId' = nextId + 1
           /\ Count(ch) /\ EndAttempt(f, todo[f] \ DOMAIN mine[f])
  <2>0. /\ Taken(t, n) \in Int /\ lack \in Nat /\ bk' \in Buckets
        /\ FromMonthly(t, n) \in 0 .. (Quota - bk.used) /\ FromBalance(t, n) \in Int
        /\ bk'.bal = bk.bal - FromBalance(t, n) /\ bk'.used = bk.used + FromMonthly(t, n)
    BY <1>3, <1>5, <1>7, TakenFacts
  <2>1. /\ Change(ch, "charged") = Taken(t, n) /\ Change(ch, "monthly") = FromMonthly(t, n)
        /\ Change(ch, "balance") = FromBalance(t, n)
        /\ \A c \in SumNames \ {"charged", "monthly", "balance"} : Change(ch, c) = 0
    BY DEF Change
  <2>2. n - lack = Taken(t, n)
    BY <1>5, <2>0
  <2>. HIDE DEF ch, left, lack, n, t
  <2>3. /\ RowsUpTo(rows', nextId') /\ Total(rows') = Total(left) + lack
        /\ \A i \in DOMAIN left : i \in DOMAIN rows' /\ rows'[i] = left[i]
    BY <1>2, <1>5, <1>7, <2>0, RowAdded
  <2>4. \A i \in DOMAIN rows : i \in DOMAIN mine[f] \/ (i \in DOMAIN rows' /\ rows'[i] = rows[i])
    BY <1>5, <2>3
  <2>5. /\ pc' \in [Flushers -> States] /\ DOMAIN mine' = Flushers /\ DOMAIN seen' = Flushers
        /\ HandInv' /\ MineInv' /\ SeenInv'
    BY <1>1, <1>7, <2>4, AttemptEnds
  <2>6. /\ Owed(sums') = Owed(sums) + OwedChange(ch) /\ sums' \in [SumNames -> Int]
        /\ \A c \in SumNames : sums'[c] = sums[c] + Change(ch, c)
    <3>1. \A c \in SumNames : Change(ch, c) \in Int
      BY <2>0, <2>1
    <3>. QED
      BY <1>2, <1>7, <3>1, Counted
  <2>7. LedgerTyped'
    BY <1>1, <1>2, <1>7, <2>0, <2>3, <2>5, <2>6 DEF LedgerTyped, RowsUpTo
  <2>8. Even
    <3>1. OwedChange(ch) = 0 - Taken(t, n)
      BY <2>0, <2>1 DEF OwedChange, SumNames
    <3>2. Held(buf', hand') = Held(buf, hand)
      BY <1>1
    <3>3. Total(rows') = Total(rows) - Taken(t, n)
      BY <1>2, <1>5, <2>0, <2>2, <2>3, TotalsAreInts
    <3>. QED
      BY <1>2, <2>0, <2>6, <3>1, <3>2, <3>3, TotalsAreInts DEF Even
  <2>9. Books => Books'
    <3>1. /\ sums'.monthly = sums.monthly + FromMonthly(t, n) /\ sums'.balance = sums.balance + FromBalance(t, n)
          /\ sums'.topped = sums.topped /\ sums'.clawed = sums.clawed /\ sums'.months = sums.months
      BY <1>2, <2>1, <2>6 DEF SumNames
    <3>2. /\ sums.monthly \in Int /\ sums.balance \in Int /\ sums.topped \in Int /\ sums.clawed \in Int
          /\ bk.bal \in Int /\ bk.used \in Int /\ FromMonthly(t, n) \in Int
      BY <1>2, <1>3, <2>0, SumsAreInts DEF Buckets
    <3>3. sums'.monthly + (Quota - bk'.used) = sums.monthly + (Quota - bk.used)
      BY <1>3, <2>0, <3>1, <3>2
    <3>4. MonthInv => MonthInv'
      BY <1>1, <3>1, <3>3 DEF MonthInv
    <3>5. bk.bal = sums.topped - sums.clawed - sums.balance => bk'.bal = sums'.topped - sums'.clawed - sums'.balance
      BY <2>0, <3>1, <3>2
    <3>. QED
      BY <3>4, <3>5 DEF Books
  <2>. QED
    BY <2>5, <2>7, <2>8, <2>9 DEF Kept
<1>. QED
  BY <1>6, <1>7 DEF Settle, table

\* A writer of the buckets who has the row of the tenant, and who may add a row.
LEMMA WriterKeeps ==
    ASSUME LedgerInv, UNCHANGED <<process, flusher>>, TenantFree \/ bk' = bk,
           bk' \in Buckets, due' \in BOOLEAN, sums' \in [SumNames -> Int],
           RowsUpTo(rows', nextId'), nextId' \in Nat \ {0},
           \A i \in DOMAIN rows : i \in DOMAIN rows' /\ rows'[i] = rows[i]
    PROVE  LedgerInv' /\ Held(buf', hand') = Held(buf, hand)
<1>1. UNCHANGED <<up, buf, hand, pc, mine, seen>>
  BY DEF process, flusher
<1>2. LedgerTyped'
  BY <1>1 DEF LedgerInv, LedgerTyped, RowsUpTo
<1>3. HandInv'
  BY <1>1 DEF LedgerInv, HandInv
<1>4. MineInv'
  BY <1>1 DEF LedgerInv, MineInv
<1>5. SeenInv'
  BY <1>1 DEF LedgerInv, SeenInv, TenantFree
<1>. QED
  BY <1>1, <1>2, <1>3, <1>4, <1>5 DEF LedgerInv

\* One that adds no row.
LEMMA BucketWriterKeeps ==
    ASSUME LedgerInv, UNCHANGED <<process, flusher, table>>, TenantFree \/ bk' = bk,
           bk' \in Buckets, due' \in BOOLEAN, NEW ch, Count(ch), \A c \in SumNames : Change(ch, c) \in Int,
           OwedChange(ch) = 0
    PROVE  LedgerInv' /\ Even /\ \A c \in SumNames : sums'[c] = sums[c] + Change(ch, c)
<1>1. LedgerTyped /\ sums \in [SumNames -> Int] /\ RowsUpTo(rows, nextId) /\ nextId \in Nat \ {0}
  BY TotalsAreInts DEF LedgerInv, LedgerTyped
<1>2. /\ Owed(sums') = Owed(sums) + OwedChange(ch) /\ sums' \in [SumNames -> Int]
      /\ \A c \in SumNames : sums'[c] = sums[c] + Change(ch, c)
  BY <1>1, Counted
<1>3. UNCHANGED <<rows, nextId>>
  BY DEF table
<1>4. LedgerInv' /\ Held(buf', hand') = Held(buf, hand)
  BY <1>1, <1>2, <1>3, WriterKeeps
<1>5. Owed(sums') = Owed(sums) /\ Total(rows') = Total(rows)
  BY <1>1, <1>2, <1>3, TotalsAreInts
<1>. QED
  BY <1>1, <1>2, <1>4, <1>5, TotalsAreInts DEF Even


\* Tokens put into the balance: a top-up, or a reward.
LEMMA PutInKeeps ==
    ASSUME LedgerInv, NEW n \in Nat, UNCHANGED <<process, flusher, table, due>>, TenantFree,
           bk' = [bk EXCEPT !.bal = @ + n], Count([events |-> 1, topped |-> n])
    PROVE  Kept
<1>. DEFINE ch == [events |-> 1, topped |-> n]
<1>1. /\ Change(ch, "events") = 1 /\ Change(ch, "topped") = n
      /\ \A c \in SumNames \ {"events", "topped"} : Change(ch, c) = 0
  BY DEF Change
<1>2. Count(ch)
  OBVIOUS
<1>. HIDE DEF ch
<1>3. (\A c \in SumNames : Change(ch, c) \in Int) /\ OwedChange(ch) = 0
  <2>1. \A c \in SumNames : Change(ch, c) \in Int
    BY <1>1
  <2>2. OwedChange(ch) = 0
    BY <1>1 DEF OwedChange, SumNames
  <2>. QED
    BY <2>1, <2>2
<1>4. bk \in Buckets /\ due' \in BOOLEAN /\ sums \in [SumNames -> Int]
  BY DEF LedgerInv, LedgerTyped
<1>5. bk' \in Buckets /\ bk'.bal = bk.bal + n /\ bk'.used = bk.used
  BY <1>4 DEF Buckets
<1>6. LedgerInv' /\ Even /\ \A c \in SumNames : sums'[c] = sums[c] + Change(ch, c)
  BY <1>2, <1>3, <1>4, <1>5, BucketWriterKeeps
<1>7. /\ sums'.monthly = sums.monthly /\ sums'.balance = sums.balance /\ sums'.topped = sums.topped + n
      /\ sums'.clawed = sums.clawed /\ sums'.months = sums.months
  BY <1>1, <1>4, <1>6 DEF SumNames
<1>8. Books => Books'
  <2>1. bk.bal \in Int /\ sums.topped \in Int /\ sums.clawed \in Int /\ sums.balance \in Int
    BY <1>4, SumsAreInts DEF Buckets
  <2>2. MonthInv => MonthInv'
    BY <1>5, <1>7 DEF MonthInv
  <2>3. bk.bal = sums.topped - sums.clawed - sums.balance => bk'.bal = sums'.topped - sums'.clawed - sums'.balance
    BY <1>5, <1>7, <2>1
  <2>. QED
    BY <2>2, <2>3 DEF Books
<1>. QED
  BY <1>6, <1>8 DEF Kept

LEMMA FreeTokensKeep ==
    ASSUME LedgerInv, GrantFree \/ FreeTokensExpire
    PROVE  Kept
<1>. DEFINE ch == [events |-> 1]
<1>1. Change(ch, "events") = 1 /\ \A c \in SumNames \ {"events"} : Change(ch, c) = 0
  BY DEF Change
<1>2. Count(ch) /\ TenantFree /\ UNCHANGED <<process, flusher, table, due>>
  BY DEF GrantFree, FreeTokensExpire, WriteBuckets
<1>. HIDE DEF ch
<1>3. (\A c \in SumNames : Change(ch, c) \in Int) /\ OwedChange(ch) = 0
  <2>1. \A c \in SumNames : Change(ch, c) \in Int
    BY <1>1
  <2>2. OwedChange(ch) = 0
    BY <1>1 DEF OwedChange, SumNames
  <2>. QED
    BY <2>1, <2>2
<1>4. bk \in Buckets /\ due' \in BOOLEAN /\ sums \in [SumNames -> Int]
  BY <1>2 DEF LedgerInv, LedgerTyped
<1>5. bk' \in Buckets /\ bk'.bal = bk.bal /\ bk'.used = bk.used
  <2>1. CASE GrantFree
    BY <1>4, <2>1 DEF GrantFree, WriteBuckets, Buckets
  <2>2. CASE FreeTokensExpire
    BY <1>4, <2>2 DEF FreeTokensExpire, WriteBuckets, Buckets
  <2>. QED
    BY <2>1, <2>2
<1>6. LedgerInv' /\ Even /\ \A c \in SumNames : sums'[c] = sums[c] + Change(ch, c)
  BY <1>2, <1>3, <1>4, <1>5, BucketWriterKeeps
<1>7. /\ sums'.monthly = sums.monthly /\ sums'.balance = sums.balance /\ sums'.topped = sums.topped
      /\ sums'.clawed = sums.clawed /\ sums'.months = sums.months
  BY <1>1, <1>4, <1>6 DEF SumNames
<1>8. Books => Books'
  BY <1>2, <1>5, <1>7 DEF Books, MonthInv
<1>. QED
  BY <1>6, <1>8 DEF Kept

\* One quota more for one month more.
LEMMA MoreQuota == ASSUME NEW q \in Nat, NEW m \in Int PROVE q * (1 + (m + 1)) = q * (1 + m) + q
  OBVIOUS

LEMMA NewMonthKeeps ==
    ASSUME LedgerInv, NewMonth
    PROVE  Kept
<1>. DEFINE ch == [events |-> 1, months |-> 1]
<1>1. /\ Change(ch, "events") = 1 /\ Change(ch, "months") = 1
      /\ \A c \in SumNames \ {"events", "months"} : Change(ch, c) = 0
  BY DEF Change
<1>2. Count(ch) /\ UNCHANGED <<process, flusher, table, bk>> /\ ~due /\ due' = TRUE
  BY DEF NewMonth
<1>. HIDE DEF ch
<1>3. (\A c \in SumNames : Change(ch, c) \in Int) /\ OwedChange(ch) = 0
  <2>1. \A c \in SumNames : Change(ch, c) \in Int
    BY <1>1
  <2>2. OwedChange(ch) = 0
    BY <1>1 DEF OwedChange, SumNames
  <2>. QED
    BY <2>1, <2>2
<1>4. bk \in Buckets /\ bk' = bk /\ due' \in BOOLEAN /\ sums \in [SumNames -> Int] /\ Quota \in Nat
  BY <1>2, BucketsAssumption DEF LedgerInv, LedgerTyped
<1>6. LedgerInv' /\ Even /\ \A c \in SumNames : sums'[c] = sums[c] + Change(ch, c)
  BY <1>2, <1>3, <1>4, BucketWriterKeeps
<1>7. /\ sums'.monthly = sums.monthly /\ sums'.balance = sums.balance /\ sums'.topped = sums.topped
      /\ sums'.clawed = sums.clawed /\ sums'.months = sums.months + 1
  BY <1>1, <1>4, <1>6 DEF SumNames
<1>8. Books => Books'
  <2>. DEFINE q == Quota * (1 + sums.months)
              r == Quota * (1 + sums'.months)
  <2>1. sums.months \in Int /\ sums.monthly \in Int /\ bk.used \in Int
    BY <1>4, SumsAreInts DEF Buckets
  <2>2. r = q + Quota
    BY <1>4, <1>7, <2>1, MoreQuota
  <2>3. q \in Int
    BY <1>4, <2>1
  <2>. HIDE DEF q, r
  <2>4. sums.monthly + (Quota - bk.used) + 0 <= q => sums.monthly + (Quota - bk.used) + Quota <= r
    BY <1>4, <2>1, <2>2, <2>3
  <2>5. MonthInv => MonthInv'
    BY <1>2, <1>7, <2>4 DEF MonthInv, q, r
  <2>. QED
    BY <1>2, <1>7, <2>5 DEF Books
<1>. QED
  BY <1>6, <1>8 DEF Kept

LEMMA GrantMonthlyKeeps ==
    ASSUME LedgerInv, GrantMonthly
    PROVE  Kept
<1>. DEFINE ch(m) == IF m = 0 THEN [events |-> 1] ELSE [events |-> 1, months |-> 1]
<1>1. ASSUME NEW m \in {0, 1}
      PROVE  /\ Change(ch(m), "events") = 1 /\ Change(ch(m), "months") = m
             /\ \A c \in SumNames \ {"events", "months"} : Change(ch(m), c) = 0
  BY DEF Change
<1>2. PICK m \in {0, 1} :
          Count(ch(m)) /\ bk' = IF m = 0 THEN bk ELSE [bk EXCEPT !.used = 0]
  BY DEF GrantMonthly, WriteBuckets
<1>3. TenantFree /\ UNCHANGED <<process, flusher, table, due>>
  BY DEF GrantMonthly, WriteBuckets
<1>. HIDE DEF ch
<1>4. (\A c \in SumNames : Change(ch(m), c) \in Int) /\ OwedChange(ch(m)) = 0
  <2>1. \A c \in SumNames : Change(ch(m), c) \in Int
    BY <1>1
  <2>2. OwedChange(ch(m)) = 0
    BY <1>1 DEF OwedChange, SumNames
  <2>. QED
    BY <2>1, <2>2
<1>5. bk \in Buckets /\ due' \in BOOLEAN /\ sums \in [SumNames -> Int] /\ Quota \in Nat
  BY <1>3, BucketsAssumption DEF LedgerInv, LedgerTyped
<1>6. /\ bk' \in Buckets /\ bk'.bal = bk.bal
      /\ bk'.used = IF m = 0 THEN bk.used ELSE 0
  BY <1>2, <1>5 DEF Buckets
<1>7. LedgerInv' /\ Even /\ \A c \in SumNames : sums'[c] = sums[c] + Change(ch(m), c)
  BY <1>2, <1>3, <1>4, <1>5, <1>6, BucketWriterKeeps
<1>8. /\ sums'.monthly = sums.monthly /\ sums'.balance = sums.balance /\ sums'.topped = sums.topped
      /\ sums'.clawed = sums.clawed /\ sums'.months = sums.months + m
  BY <1>1, <1>5, <1>7 DEF SumNames
<1>9. Books => Books'
  <2>. DEFINE q == Quota * (1 + sums.months)
              r == Quota * (1 + sums'.months)
  <2>1. sums.months \in Int /\ sums.monthly \in Int /\ bk.used \in 0 .. Quota
    BY <1>5, SumsAreInts DEF Buckets
  <2>2. r = IF m = 0 THEN q ELSE q + Quota
    <3>1. CASE m = 0
      BY <1>8, <2>1, <3>1
    <3>2. CASE m = 1
      BY <1>5, <1>8, <2>1, <3>2, MoreQuota
    <3>. QED
      BY <3>1, <3>2
  <2>3. q \in Int
    BY <1>5, <2>1
  <2>. HIDE DEF q, r
  <2>4. ASSUME NEW d \in {0, Quota}, sums.monthly + (Quota - bk.used) + d <= q
        PROVE  sums.monthly + (Quota - bk'.used) + d <= r
    BY <1>5, <1>6, <2>1, <2>2, <2>3, <2>4
  <2>5. MonthInv => MonthInv'
    BY <1>3, <1>8, <2>4 DEF MonthInv, q, r
  <2>. QED
    BY <1>6, <1>8, <2>5 DEF Books
<1>. QED
  BY <1>7, <1>9 DEF Kept

LEMMA MonthlyResetKeeps ==
    ASSUME LedgerInv, MonthlyReset
    PROVE  Kept
<1>. DEFINE ch == <<>>
<1>1. \A c \in SumNames : Change(ch, c) = 0
  BY DEF Change
<1>2. Count(ch) /\ TenantFree /\ UNCHANGED <<process, flusher, table>> /\ due /\ due' = FALSE
  BY DEF MonthlyReset, WriteBuckets
<1>. HIDE DEF ch
<1>3. (\A c \in SumNames : Change(ch, c) \in Int) /\ OwedChange(ch) = 0
  <2>1. \A c \in SumNames : Change(ch, c) \in Int
    BY <1>1
  <2>2. OwedChange(ch) = 0
    BY <1>1 DEF OwedChange, SumNames
  <2>. QED
    BY <2>1, <2>2
<1>4. bk \in Buckets /\ due' \in BOOLEAN /\ sums \in [SumNames -> Int] /\ Quota \in Nat
  BY <1>2, BucketsAssumption DEF LedgerInv, LedgerTyped
<1>5. bk' \in Buckets /\ bk'.bal = bk.bal /\ bk'.used = 0
  BY <1>4 DEF MonthlyReset, WriteBuckets, Buckets
<1>6. LedgerInv' /\ Even /\ \A c \in SumNames : sums'[c] = sums[c] + Change(ch, c)
  BY <1>2, <1>3, <1>4, <1>5, BucketWriterKeeps
<1>7. /\ sums'.monthly = sums.monthly /\ sums'.balance = sums.balance /\ sums'.topped = sums.topped
      /\ sums'.clawed = sums.clawed /\ sums'.months = sums.months
  BY <1>1, <1>4, <1>6 DEF SumNames
<1>8. Books => Books'
  <2>. DEFINE q == Quota * (1 + sums.months)
  <2>1. sums.months \in Int /\ sums.monthly \in Int /\ bk.used \in 0 .. Quota
    BY <1>4, SumsAreInts DEF Buckets
  <2>2. q \in Int
    BY <1>4, <2>1
  <2>. HIDE DEF q
  <2>3. sums.monthly + (Quota - bk.used) + Quota <= q => sums.monthly + (Quota - 0) + 0 <= q
    BY <1>4, <2>1, <2>2
  <2>4. MonthInv => MonthInv'
    BY <1>2, <1>5, <1>7, <2>3 DEF MonthInv, q
  <2>. QED
    BY <1>5, <1>7, <2>4 DEF Books
<1>. QED
  BY <1>6, <1>8 DEF Kept

LEMMA ClawbackKeeps ==
    ASSUME LedgerInv, Clawback
    PROVE  Kept
<1>. DEFINE n == Lesser(bk.bal, Bonus)
            lack == Bonus - n
            ch == [clawed |-> n, debt |-> lack]
<1>1. /\ Change(ch, "clawed") = n /\ Change(ch, "debt") = lack
      /\ \A c \in SumNames \ {"clawed", "debt"} : Change(ch, c) = 0
  BY DEF Change
<1>2. /\ Count(ch) /\ TenantFree /\ UNCHANGED <<process, flusher, due>>
      /\ bk' = [bk EXCEPT !.bal = @ - n]
      /\ rows' = WithRow(rows, lack) /\ nextId' = nextId + 1
  BY DEF Clawback, WriteBuckets
<1>3. /\ LedgerTyped /\ bk \in Buckets /\ due' \in BOOLEAN /\ sums \in [SumNames -> Int]
      /\ nextId \in Nat \ {0} /\ RowsUpTo(rows, nextId)
  BY <1>2, TotalsAreInts DEF LedgerInv, LedgerTyped
<1>4. n \in Int /\ lack \in Nat
  BY <1>3, BucketsAssumption DEF Buckets, Lesser
<1>. HIDE DEF n, lack, ch
<1>5. (\A c \in SumNames : Change(ch, c) \in Int) /\ OwedChange(ch) = lack
  BY <1>1, <1>4 DEF OwedChange, SumNames
<1>6. bk' \in Buckets /\ bk'.bal = bk.bal - n /\ bk'.used = bk.used
  BY <1>2, <1>3, <1>4 DEF Buckets
<1>7. /\ RowsUpTo(rows', nextId') /\ nextId' \in Nat \ {0} /\ Total(rows') = Total(rows) + lack
      /\ \A i \in DOMAIN rows : i \in DOMAIN rows' /\ rows'[i] = rows[i]
  BY <1>2, <1>3, <1>4, RowAdded
<1>8. /\ Owed(sums') = Owed(sums) + lack /\ sums' \in [SumNames -> Int]
      /\ \A c \in SumNames : sums'[c] = sums[c] + Change(ch, c)
  BY <1>2, <1>3, <1>5, Counted
<1>9. LedgerInv' /\ Held(buf', hand') = Held(buf, hand)
  BY <1>2, <1>3, <1>6, <1>7, <1>8, WriterKeeps
<1>10. Even
  BY <1>3, <1>4, <1>7, <1>8, <1>9, TotalsAreInts DEF Even
<1>11. /\ sums'.monthly = sums.monthly /\ sums'.balance = sums.balance /\ sums'.topped = sums.topped
       /\ sums'.clawed = sums.clawed + n /\ sums'.months = sums.months
  BY <1>1, <1>3, <1>8 DEF SumNames
<1>12. Books => Books'
  <2>1. bk.bal \in Int /\ sums.topped \in Int /\ sums.clawed \in Int /\ sums.balance \in Int
    BY <1>3, SumsAreInts DEF Buckets
  <2>2. MonthInv => MonthInv'
    BY <1>2, <1>6, <1>11 DEF MonthInv
  <2>3. bk.bal = sums.topped - sums.clawed - sums.balance => bk'.bal = sums'.topped - sums'.clawed - sums'.balance
    BY <1>4, <1>6, <1>11, <2>1
  <2>. QED
    BY <2>2, <2>3 DEF Books
<1>. QED
  BY <1>9, <1>10, <1>12 DEF Kept


LEMMA GoneKeeps ==
    ASSUME LedgerInv, NEW p \in Procs, NEW where \in {"idle", "off"}, Gone(p, where),
           up' \in [Procs -> {"up", "stopping", "down"}], \A q \in Procs \ {p} : up'[q] = up[q],
           sums' \in [SumNames -> Int]
    PROVE  /\ LedgerInv' /\ UNCHANGED <<bk, due, rows>>
           /\ Held(buf', hand') = Held(buf, hand) - InMemory(p) /\ InMemory(p) \in Nat
<1>. USE DEF LedgerInv
<1>1. LedgerTyped
  OBVIOUS
<1>2. /\ buf' = [buf EXCEPT ![p] = <<>>] /\ UNCHANGED <<rows, nextId, bk, due>>
      /\ DOMAIN mine' = Flushers /\ DOMAIN seen' = Flushers
      /\ pc' = [f \in Flushers |-> IF f[1] # p THEN pc[f] ELSE IF f[2] = "run" THEN where ELSE "off"]
      /\ hand' = [f \in Flushers |-> IF f[1] = p THEN <<>> ELSE hand[f]]
      /\ \A f \in Flushers : f[1] = p => mine'[f] = <<>>
      /\ \A f \in Flushers : f[1] # p => mine'[f] = mine[f] /\ seen'[f] = seen[f]
  BY DEF Gone, table
<1>3. /\ \A f \in Flushers : f[1] # p => pc'[f] = pc[f] /\ hand'[f] = hand[f]
      /\ \A f \in Flushers : f[1] = p => pc'[f] \in {"idle", "off"} /\ hand'[f] = <<>>
      /\ pc' \in [Flushers -> States] /\ hand' \in [Flushers -> Seq(Nat)]
  <2>1. /\ \A f \in Flushers : f[1] # p => pc'[f] = pc[f] /\ hand'[f] = hand[f]
        /\ \A f \in Flushers : f[1] = p => pc'[f] \in {"idle", "off"} /\ hand'[f] = <<>>
    BY <1>2
  <2>2. ASSUME NEW f \in Flushers PROVE pc'[f] \in States /\ hand'[f] \in Seq(Nat)
    <3>1. CASE f[1] = p
      <4>1. pc'[f] \in {"idle", "off"} /\ hand'[f] = <<>>
        BY <2>1, <3>1
      <4>. QED
        BY <4>1 DEF States
    <3>2. CASE f[1] # p
      BY <1>1, <2>1, <3>2 DEF LedgerTyped
    <3>. QED
      BY <3>1, <3>2
  <2>. QED
    BY <1>2, <2>1, <2>2
<1>4. buf' \in [Procs -> Seq(Nat)] /\ buf'[p] = <<>> /\ \A q \in Procs \ {p} : buf'[q] = buf[q]
  <2>1. <<>> \in Seq(Nat)
    OBVIOUS
  <2>. QED
    BY <1>1, <1>2, <2>1 DEF LedgerTyped
<1>5. LedgerTyped'
  BY <1>1, <1>2, <1>3, <1>4 DEF LedgerTyped
<1>6. HandInv'
  <2>1. \A f \in Flushers : pc'[f] # "insert" => hand'[f] = <<>>
    BY <1>3 DEF HandInv
  <2>2. ASSUME NEW q \in Stoppable, up'[q] = "up" PROVE pc'[<<q, "main">>] = "off"
    <3>1. <<q, "main">> \in Flushers /\ q \in Procs /\ <<q, "main">>[1] = q /\ <<q, "main">>[2] = "main"
      BY ProcsAssumption DEF Flushers
    <3>2. CASE q = p
      BY <1>2, <3>1, <3>2
    <3>3. CASE q # p
      BY <1>3, <2>2, <3>1, <3>3 DEF HandInv
    <3>. QED
      BY <3>2, <3>3
  <2>. QED
    BY <2>1, <2>2 DEF HandInv
<1>7. MineInv'
  <2>1. \A f \in Flushers : mine'[f] = mine[f] \/ DOMAIN mine'[f] = {}
    BY <1>2
  <2>2. \A f \in Flushers : /\ DOMAIN mine'[f] \subseteq DOMAIN rows
                            /\ \A i \in DOMAIN mine'[f] : mine'[f][i] = rows[i]
    BY <2>1 DEF MineInv
  <2>3. \A f, g \in Flushers : f # g => DOMAIN mine'[f] \cap DOMAIN mine'[g] = {}
    BY <2>1 DEF MineInv
  <2>. QED
    BY <1>2, <2>2, <2>3 DEF MineInv
<1>8. SeenInv'
  <2>1. \A f \in Flushers : pc'[f] = "deduct" => pc[f] = "deduct" /\ seen'[f] = seen[f]
    BY <1>2, <1>3
  <2>. QED
    BY <1>2, <2>1 DEF SeenInv
<1>9. InMemory(p) = MemOf(buf, hand, p)
  BY DEF InMemory, MemOf
<1>10. MemTyped(buf, hand) /\ MemTyped(buf', hand')
  BY <1>1, <1>5 DEF LedgerTyped, MemTyped
<1>11. Held(buf', hand') = Held(buf, hand) - MemOf(buf, hand, p) /\ MemOf(buf, hand, p) \in Nat
  <2>1. /\ \A f \in Flushers : f[1] = p => hand'[f] = <<>>
        /\ \A f \in Flushers : f[1] # p => hand'[f] = hand[f]
    BY <1>3
  <2>2. buf'[p] = <<>> /\ \A q \in Procs \ {p} : buf'[q] = buf[q]
    BY <1>4
  <2>. QED
    BY <1>10, <2>1, <2>2, HeldGone
<1>. QED
  BY <1>2, <1>5, <1>6, <1>7, <1>8, <1>9, <1>11

\* What was in the memory of p counts as lost, or as stopped.
LEMMA MemoryCounted ==
    ASSUME LedgerTyped, NEW p \in Procs, InMemory(p) \in Nat, NEW ch, Count(ch),
           \A c \in SumNames : Change(ch, c) \in Int,
           OwedChange(ch) = 0 - InMemory(p),
           \A c \in {"monthly", "balance", "topped", "clawed", "months"} : Change(ch, c) = 0
    PROVE  /\ sums' \in [SumNames -> Int] /\ Owed(sums') = Owed(sums) - InMemory(p)
           /\ sums'.monthly = sums.monthly /\ sums'.balance = sums.balance /\ sums'.topped = sums.topped
           /\ sums'.clawed = sums.clawed /\ sums'.months = sums.months
<1>1. sums \in [SumNames -> Int] /\ Owed(sums) \in Int
  BY TotalsAreInts DEF LedgerTyped
<1>2. /\ Owed(sums') = Owed(sums) + OwedChange(ch) /\ sums' \in [SumNames -> Int]
      /\ \A c \in SumNames : sums'[c] = sums[c] + Change(ch, c)
  BY <1>1, Counted
<1>3. Owed(sums') = Owed(sums) - InMemory(p)
  BY <1>1, <1>2
<1>4. /\ sums'.monthly = sums.monthly /\ sums'.balance = sums.balance /\ sums'.topped = sums.topped
      /\ sums'.clawed = sums.clawed /\ sums'.months = sums.months
  BY <1>1, <1>2 DEF SumNames
<1>. QED
  BY <1>2, <1>3, <1>4

LEMMA MemNat == ASSUME LedgerTyped, NEW p \in Procs PROVE InMemory(p) \in Nat
<1>1. MemTyped(buf, hand)
  BY TotalsAreInts
<1>2. MemOf(buf, hand, p) \in Nat
  BY <1>1, HeldChange
<1>. QED
  BY <1>2 DEF InMemory, MemOf

LEMMA CrashKeeps ==
    ASSUME LedgerInv, NEW p \in Procs, Crash(p)
    PROVE  Kept
<1>0. LedgerTyped /\ InMemory(p) \in Nat
  BY MemNat DEF LedgerInv
<1>. DEFINE m == InMemory(p)
            ch == [faults |-> 1, lost |-> m]
<1>1. /\ Change(ch, "faults") = 1 /\ Change(ch, "lost") = m
      /\ \A c \in SumNames \ {"faults", "lost"} : Change(ch, c) = 0
  BY DEF Change
<1>2. Count(ch) /\ Gone(p, "idle") /\ up' = up
  BY DEF Crash
<1>. HIDE DEF m, ch
<1>3. \A c \in SumNames : Change(ch, c) \in Int
  BY <1>0, <1>1 DEF m
<1>4. OwedChange(ch) = 0 - m
  BY <1>0, <1>1 DEF OwedChange, SumNames, m
<1>5. \A c \in {"monthly", "balance", "topped", "clawed", "months"} : Change(ch, c) = 0
  BY <1>1 DEF SumNames
<1>6. /\ sums' \in [SumNames -> Int] /\ Owed(sums') = Owed(sums) - InMemory(p)
      /\ sums'.monthly = sums.monthly /\ sums'.balance = sums.balance /\ sums'.topped = sums.topped
      /\ sums'.clawed = sums.clawed /\ sums'.months = sums.months
  BY <1>0, <1>2, <1>3, <1>4, <1>5, MemoryCounted DEF m
<1>7. up' \in [Procs -> {"up", "stopping", "down"}] /\ \A q \in Procs \ {p} : up'[q] = up[q]
  BY <1>0, <1>2 DEF LedgerTyped
<1>8. LedgerInv' /\ UNCHANGED <<bk, due, rows>> /\ Held(buf', hand') = Held(buf, hand) - InMemory(p)
  BY <1>2, <1>6, <1>7, GoneKeeps
<1>9. Even
  <2>1. Total(rows') = Total(rows)
    BY <1>8
  <2>. QED
    BY <1>0, <1>6, <1>8, <2>1, TotalsAreInts DEF Even
<1>. QED
  BY <1>6, <1>8, <1>9, BooksIfSame DEF Kept

LEMMA ExitKeeps ==
    ASSUME LedgerInv, NEW p \in Procs, Exit(p)
    PROVE  Kept
<1>0. LedgerTyped /\ InMemory(p) \in Nat
  BY MemNat DEF LedgerInv
<1>. DEFINE m == InMemory(p)
            ch == [stopped |-> m]
<1>1. Change(ch, "stopped") = m /\ \A c \in SumNames \ {"stopped"} : Change(ch, c) = 0
  BY DEF Change
<1>2. Count(ch) /\ Gone(p, "off") /\ up' = [up EXCEPT ![p] = "down"]
  BY DEF Exit
<1>. HIDE DEF m, ch
<1>3. \A c \in SumNames : Change(ch, c) \in Int
  BY <1>0, <1>1 DEF m
<1>4. OwedChange(ch) = 0 - m
  BY <1>0, <1>1 DEF OwedChange, SumNames, m
<1>5. \A c \in {"monthly", "balance", "topped", "clawed", "months"} : Change(ch, c) = 0
  BY <1>1 DEF SumNames
<1>6. /\ sums' \in [SumNames -> Int] /\ Owed(sums') = Owed(sums) - InMemory(p)
      /\ sums'.monthly = sums.monthly /\ sums'.balance = sums.balance /\ sums'.topped = sums.topped
      /\ sums'.clawed = sums.clawed /\ sums'.months = sums.months
  BY <1>0, <1>2, <1>3, <1>4, <1>5, MemoryCounted DEF m
<1>7. up' \in [Procs -> {"up", "stopping", "down"}] /\ \A q \in Procs \ {p} : up'[q] = up[q]
  BY <1>0, <1>2 DEF LedgerTyped
<1>8. LedgerInv' /\ UNCHANGED <<bk, due, rows>> /\ Held(buf', hand') = Held(buf, hand) - InMemory(p)
  BY <1>2, <1>6, <1>7, GoneKeeps
<1>9. Even
  <2>1. Total(rows') = Total(rows)
    BY <1>8
  <2>. QED
    BY <1>0, <1>6, <1>8, <2>1, TotalsAreInts DEF Even
<1>. QED
  BY <1>6, <1>8, <1>9, BooksIfSame DEF Kept

LEMMA StopKeeps ==
    ASSUME LedgerInv, NEW p \in Procs, Stop(p)
    PROVE  Kept
<1>. USE DEF LedgerInv
<1>. DEFINE m == <<p, "main">>
<1>1. /\ UNCHANGED <<buf, hand, mine, seen, rows, nextId, bk, due, sums>> /\ up' = [up EXCEPT ![p] = "stopping"]
      /\ p \in Stoppable /\ up[p] = "up" /\ pc' = [pc EXCEPT ![m] = "final"]
  BY DEF Stop, table
<1>2. LedgerTyped /\ m \in Flushers /\ pc[m] = "off"
  BY <1>1 DEF HandInv, Flushers
<1>3. \A q \in Stoppable : <<q, "main">> \in Flushers /\ (q # p => <<q, "main">> # m)
  BY DEF Flushers
<1>. HIDE DEF m
<1>4. /\ pc' \in [Flushers -> States] /\ pc'[m] = "final" /\ \A g \in Flushers \ {m} : pc'[g] = pc[g]
      /\ up' \in [Procs -> {"up", "stopping", "down"}] /\ up'[p] = "stopping" /\ \A q \in Procs \ {p} : up'[q] = up[q]
  BY <1>1, <1>2 DEF LedgerTyped, States
<1>5. LedgerTyped'
  BY <1>1, <1>2, <1>4 DEF LedgerTyped
<1>6. HandInv'
  <2>1. \A f \in Flushers : pc'[f] # "insert" => hand'[f] = <<>>
    BY <1>1, <1>2, <1>4 DEF HandInv
  <2>2. \A q \in Stoppable : up'[q] = "up" => pc'[<<q, "main">>] = "off"
    BY <1>1, <1>3, <1>4, ProcsAssumption DEF HandInv
  <2>. QED
    BY <2>1, <2>2 DEF HandInv
<1>7. MineInv' /\ SeenInv'
  BY <1>1, <1>2, <1>4, FreeStep
<1>. QED
  BY <1>1, <1>2, <1>5, <1>6, <1>7, EvenIfSame, BooksIfSame DEF Kept

(***************************************************************************)
(* The theorems.                                                           *)
(***************************************************************************)
LEMMA StepKeeps == LedgerInv /\ [Next]_vars => Kept
<1>. SUFFICES ASSUME LedgerInv, [Next]_vars PROVE Kept
  OBVIOUS
<1>0. ASSUME UNCHANGED <<up, buf, hand, pc, mine, seen, rows, nextId, bk, due, sums>> PROVE Kept
  <2>1. LedgerInv'
    BY <1>0 DEF LedgerInv, LedgerTyped, HandInv, MineInv, SeenInv
  <2>2. Even
    BY <1>0, EvenIfSame DEF LedgerInv
  <2>3. Books => Books'
    BY <1>0, BooksIfSame
  <2>. QED
    BY <2>1, <2>2, <2>3 DEF Kept
<1>1. CASE \E p \in Procs, n \in Sizes : Record(p, n)
  BY <1>1, RecordKeeps
<1>2. ASSUME NEW f \in Flushers, FlusherStep(f) \/ SettleFails(f) PROVE Kept
  BY <1>2, BeginFlushKeeps, InsertKeeps, LockRowsKeeps, LockTenantKeeps, SettleKeeps, SettleFailsKeeps DEF FlusherStep
<1>3. ASSUME NEW p \in Procs, BeginSweep(<<p, "run">>) PROVE Kept
  <2>1. <<p, "run">> \in Flushers
    BY DEF Flushers
  <2>. QED
    BY <1>3, <2>1, BeginSweepKeeps
<1>4. CASE SweepLockExpires
  BY <1>0, <1>4 DEF SweepLockExpires, process, flusher, table
<1>5. CASE TopUp \/ Reward
  <2>1. TenantFree /\ UNCHANGED <<process, flusher, table, due>>
    BY <1>5 DEF TopUp, Reward, WriteBuckets
  <2>2. CASE TopUp
    BY <2>1, <2>2, PutInKeeps DEF TopUp, WriteBuckets
  <2>3. CASE Reward
    BY <2>1, <2>3, PutInKeeps, BucketsAssumption DEF Reward, WriteBuckets
  <2>. QED
    BY <1>5, <2>2, <2>3
<1>6. CASE GrantFree \/ FreeTokensExpire
  BY <1>6, FreeTokensKeep
<1>7. CASE GrantMonthly \/ NewMonth \/ MonthlyReset \/ Clawback
  BY <1>7, GrantMonthlyKeeps, NewMonthKeeps, MonthlyResetKeeps, ClawbackKeeps
<1>8. ASSUME NEW p \in Procs, Crash(p) \/ Stop(p) \/ Exit(p) PROVE Kept
  BY <1>8, CrashKeeps, StopKeeps, ExitKeeps
<1>9. CASE UNCHANGED vars
  BY <1>0, <1>9 DEF vars, process, flusher, table
<1>. QED
  BY <1>1, <1>2, <1>3, <1>4, <1>5, <1>6, <1>7, <1>8, <1>9 DEF Next

\* Conserved says that the tokens of the history are in memory and in rows.
LEMMA ConservedIs == LedgerTyped => (Conserved <=> Owed(sums) = Held(buf, hand) + Total(rows))
<1>. SUFFICES ASSUME LedgerTyped
              PROVE  Conserved <=> Owed(sums) = Held(buf, hand) + Total(rows)
  OBVIOUS
<1>1. SumFunction([p \in Procs |-> InMemory(p)]) = Held(buf, hand)
  BY DEF InMemory, Held, MemOf
<1>2. Held(buf, hand) \in Int /\ Total(rows) \in Int /\ sums \in [SumNames -> Int]
  BY TotalsAreInts DEF LedgerTyped
<1>. QED
  BY <1>1, <1>2, SumsAreInts DEF Conserved, Owed

LEMMA LedgerInit == Init => LedgerInv /\ Conserved /\ Books
<1>. SUFFICES ASSUME Init PROVE LedgerInv /\ Conserved /\ Books
  OBVIOUS
<1>0. <<>> \in Seq(Nat) /\ DOMAIN <<>> = {}
  OBVIOUS
<1>1. LedgerTyped
  <2>1. bk \in Buckets
    BY BucketsAssumption DEF Init, Buckets
  <2>2. sums \in [SumNames -> Int]
    BY DEF Init
  <2>3. pc \in [Flushers -> States]
    BY DEF Init, States
  <2>4. nextId \in Nat \ {0} /\ DOMAIN rows \subseteq 1 .. nextId - 1 /\ \A i \in DOMAIN rows : rows[i] \in Nat
    BY <1>0 DEF Init
  <2>5. /\ up \in [Procs -> {"up", "stopping", "down"}] /\ buf \in [Procs -> Seq(Nat)]
        /\ hand \in [Flushers -> Seq(Nat)] /\ DOMAIN mine = Flushers /\ DOMAIN seen = Flushers
        /\ due \in BOOLEAN
    BY <1>0 DEF Init
  <2>. QED
    BY <2>1, <2>2, <2>3, <2>4, <2>5 DEF LedgerTyped
<1>2. HandInv
  <2>1. \A p \in Stoppable : <<p, "main">> \in Flushers
    BY DEF Flushers
  <2>2. \A p \in Stoppable : pc[<<p, "main">>] = "off"
    BY <2>1 DEF Init
  <2>. QED
    BY <2>2 DEF HandInv, Init
<1>3. MineInv
  <2>1. \A f \in Flushers : DOMAIN mine[f] = {}
    BY <1>0 DEF Init
  <2>. QED
    BY <2>1 DEF MineInv
<1>4. SeenInv
  BY DEF SeenInv, Init
<1>5. Conserved
  <2>1. Owed(sums) = 0
    BY DEF Init, Owed, SumNames
  <2>2. Held(buf, hand) = 0
    <3>. DEFINE x == [p \in Procs |-> MemOf(buf, hand, p)]
    <3>1. ASSUME NEW p \in Procs PROVE MemOf(buf, hand, p) = 0
      <4>1. buf[p] = <<>> /\ \A f \in Flushers : hand[f] = <<>>
        BY DEF Init
      <4>2. hand \in [Flushers -> Seq(Nat)]
        BY <1>1 DEF LedgerTyped
      <4>3. BatchesOf(hand, p) = 0 /\ Total(buf[p]) = 0
        BY <4>1, <4>2, BatchFacts, TotalNone
      <4>4. MemOf(buf, hand, p) = Total(buf[p]) + BatchesOf(hand, p)
        BY DEF MemOf, BatchesOf
      <4>. QED
        BY <4>3, <4>4
    <3>2. DOMAIN x = Procs /\ \A p \in Procs : x[p] = MemOf(buf, hand, p)
      OBVIOUS
    <3>3. Held(buf, hand) = SumFunctionOnSet(x, Procs)
      BY <3>2 DEF Held, SumFunction
    <3>. HIDE DEF x
    <3>4. \A p \in Procs : x[p] = 0
      BY <3>1, <3>2
    <3>. QED
      BY <3>3, <3>4, ProcsAssumption, SumZero
  <2>3. Total(rows) = 0
    BY TotalNone DEF Init
  <2>. QED
    BY <1>1, <2>1, <2>2, <2>3, ConservedIs
<1>6. Books
  <2>1. /\ sums.monthly = 0 /\ sums.topped = 0 /\ sums.clawed = 0 /\ sums.balance = 0 /\ sums.months = 0
        /\ bk.bal = 0 /\ bk.used = 0 /\ due = FALSE
    BY DEF Init, SumNames
  <2>2. Quota * (1 + 0) = Quota /\ Quota \in Nat
    BY BucketsAssumption
  <2>. QED
    BY <2>1, <2>2 DEF Books, MonthInv
<1>. QED
  BY <1>1, <1>2, <1>3, <1>4, <1>5, <1>6 DEF LedgerInv

\* No token is charged twice or forgotten by usage_sink.go, token_billing.go and
\* referral.go together, whatever runs at the same time, fails or dies: what is
\* recorded, doubled by a failed insert or owed for a reward is in memory, in a
\* row, charged, or counted as dropped, lost or left at the shutdown.
THEOREM TokensAreConserved == Spec => []Conserved
<1>1. (LedgerTyped => Held(buf, hand) \in Int /\ Total(rows) \in Int /\ Owed(sums) \in Int)'
  <2>1. LedgerTyped => Held(buf, hand) \in Int /\ Total(rows) \in Int /\ Owed(sums) \in Int
    BY TotalsAreInts
  <2>. QED
    BY <2>1, PTL
<1>2. (LedgerTyped => (Conserved <=> Owed(sums) = Held(buf, hand) + Total(rows)))'
  BY ConservedIs, PTL
<1>3. LedgerInv /\ Conserved /\ [Next]_vars => LedgerInv' /\ Conserved'
  <2>. SUFFICES ASSUME LedgerInv, Conserved, [Next]_vars PROVE LedgerInv' /\ Conserved'
    OBVIOUS
  <2>1. LedgerInv' /\ Even
    BY StepKeeps DEF Kept
  <2>2. LedgerTyped /\ LedgerTyped'
    BY <2>1 DEF LedgerInv
  <2>3. Owed(sums) = Held(buf, hand) + Total(rows)
    BY <2>2, ConservedIs
  <2>4. Conserved' <=> Owed(sums') = Held(buf', hand') + Total(rows')
    BY <1>2, <2>2
  <2>5. Held(buf, hand) \in Int /\ Total(rows) \in Int /\ Owed(sums) \in Int
    BY <2>2, TotalsAreInts
  <2>6. Held(buf', hand') \in Int /\ Total(rows') \in Int /\ Owed(sums') \in Int
    BY <1>1, <2>2
  <2>. DEFINE o == Owed(sums)
              h == Held(buf, hand)
              r == Total(rows)
              oo == Owed(sums')
              hh == Held(buf', hand')
              rr == Total(rows')
  <2>7. oo - o = hh - h + rr - r
    BY <2>1 DEF Even
  <2>8. o = h + r /\ o \in Int /\ h \in Int /\ r \in Int /\ oo \in Int /\ hh \in Int /\ rr \in Int
    BY <2>3, <2>5, <2>6
  <2>. HIDE DEF o, h, r, oo, hh, rr
  <2>9. oo = hh + rr
    BY <2>7, <2>8
  <2>. QED
    BY <2>1, <2>4, <2>9 DEF oo, hh, rr
<1>. QED
  BY <1>3, LedgerInit, PTL DEF Spec

\* No write of the tenant's buckets undoes another: the balance is what was put in
\* less what was taken out, and a month gives its quota once, because the row lock
\* of deductTokensInTx keeps the buckets as they were read.
THEOREM BucketsAreNeverOverwritten == Spec => []BucketsAddUp
<1>1. LedgerInv /\ Books /\ [Next]_vars => LedgerInv' /\ Books'
  BY StepKeeps DEF Kept
<1>2. LedgerInv /\ Books => BucketsAddUp
  <2>. SUFFICES ASSUME LedgerInv, Books PROVE BucketsAddUp
    OBVIOUS
  <2>. DEFINE q == Quota * (1 + sums.months)
  <2>1. /\ bk \in Buckets /\ sums \in [SumNames -> Int] /\ Quota \in Nat /\ due \in BOOLEAN
    BY BucketsAssumption DEF LedgerInv, LedgerTyped
  <2>2. bk.used \in 0 .. Quota /\ sums.monthly \in Int /\ sums.months \in Int
    BY <2>1, SumsAreInts DEF Buckets
  <2>3. q \in Int
    BY <2>1, <2>2
  <2>4. sums.monthly + (Quota - bk.used) + (IF due THEN Quota ELSE 0) <= q
    BY DEF Books, MonthInv
  <2>. HIDE DEF q
  <2>5. sums.monthly <= q
    BY <2>1, <2>2, <2>3, <2>4
  <2>. QED
    BY <2>5 DEF BucketsAddUp, Books, q
<1>. QED
  BY <1>1, <1>2, LedgerInit, PTL DEF Spec

=============================================================================
