--------------------------------- MODULE Sums ---------------------------------
(***************************************************************************)
(* Facts about SumFunctionOnSet of the Functions module, which adds up the *)
(* values of a function in an order it chooses: the order does not matter. *)
(* Each fact is about one function and one finite set, so that a proof may *)
(* cite it for a sum over rows, over queue positions or over summary lines. *)
(***************************************************************************)
EXTENDS FiniteSetsExt, FiniteSetTheorems, TLAPS

\* g gives the sum of f for every part of S, whichever element is taken out first.
IsSum(f, S, g) ==
    /\ g \in [SUBSET S -> Int]
    /\ g[{}] = 0
    /\ \A s \in SUBSET S : \A x \in s : g[s] = g[s \ {x}] + f[x]

\* How SumFunctionOnSet computes: one element at a time, in the order chosen.
IsFold(f, S, g) ==
    g = [s \in SUBSET S |->
            IF s = {} THEN 0 ELSE LET x == CHOOSE y \in s : TRUE IN f[x] + g[s \ {x}]]

(* The sum is what the function computes that the definition chooses. *)
LEMMA SumIsFold ==
    ASSUME NEW f, NEW S
    PROVE  SumFunctionOnSet(f, S) = (CHOOSE g : IsFold(f, S, g))[S]
  BY DEF SumFunctionOnSet, FoldFunctionOnSet, MapThenFoldSet, IsFold

(* Of the parts of a finite set that are in B, one has no smaller part in B. *)
LEMMA SmallestPart ==
    ASSUME NEW S, IsFiniteSet(S), NEW B \in SUBSET SUBSET S, B # {}
    PROVE  \E s \in B : \A t \in B : t \subseteq s => t = s
  <1>1. IsWellFoundedOn(StrictSubsetOrdering(S), SUBSET S)
    BY FS_StrictSubsetOrderingWellFounded, FS_FiniteSubsetsOfFinite
  <1>2. PICK s \in B : \A t \in B : <<t, s>> \notin StrictSubsetOrdering(S)
    BY <1>1, WFMin
  <1>3. \A t \in B : t \subseteq s => t = s
    BY <1>2 DEF StrictSubsetOrdering
  <1> QED
    BY <1>3

(* Over a finite set there is a function that gives the sums of all parts. *)
LEMMA SumExists ==
    ASSUME NEW S, IsFiniteSet(S), NEW f, \A x \in S : f[x] \in Int
    PROVE  \E g : IsSum(f, S, g)
  <1> DEFINE B == {s \in SUBSET S : ~ \E g : IsSum(f, s, g)}
  <1>1. SUFFICES ASSUME B # {} PROVE FALSE
    <2>1. S \in SUBSET S
      OBVIOUS
    <2> QED
      BY <2>1
  <1>2. PICK s \in B : \A t \in B : t \subseteq s => t = s
    <2> HIDE DEF B
    <2>1. B \in SUBSET SUBSET S
      BY DEF B
    <2> QED
      BY <1>1, <2>1, SmallestPart
  <1>3. CASE s = {}
    <2>1. IsSum(f, s, [t \in SUBSET s |-> 0])
      BY <1>3 DEF IsSum
    <2> QED
      BY <2>1
  <1>4. CASE s # {}
    <2>1. PICK a \in s : TRUE
      BY <1>4
    <2>2. s \ {a} \in SUBSET S /\ s \ {a} # s /\ s \ {a} \subseteq s
      BY <2>1
    <2>3. s \ {a} \notin B
      BY <1>2, <2>2
    <2>4. PICK g : IsSum(f, s \ {a}, g)
      BY <2>2, <2>3
    <2> DEFINE h == [t \in SUBSET s |-> g[t \ {a}] + IF a \in t THEN f[a] ELSE 0]
    <2>5. f[a] \in Int /\ \A t \in SUBSET s : t \ {a} \in SUBSET (s \ {a}) /\ g[t \ {a}] \in Int
      BY <2>1, <2>4 DEF IsSum
    <2>6. h \in [SUBSET s -> Int]
      <3>1. \A t \in SUBSET s : g[t \ {a}] + (IF a \in t THEN f[a] ELSE 0) \in Int
        <4>1. \A t : (IF a \in t THEN f[a] ELSE 0) \in Int
          BY <2>5
        <4> QED
          BY <2>5, <4>1
      <3> QED
        BY <3>1
    <2>7. h[{}] = 0
      <3>1. {} \ {a} = {} /\ {} \in SUBSET s
        OBVIOUS
      <3>2. h[{}] = g[{} \ {a}] + 0
        BY <3>1
      <3> QED
        BY <2>4, <3>1, <3>2 DEF IsSum
    <2>8. ASSUME NEW t \in SUBSET s, NEW x \in t PROVE h[t] = h[t \ {x}] + f[x]
      <3>1. /\ h[t] = g[t \ {a}] + (IF a \in t THEN f[a] ELSE 0)
            /\ h[t \ {x}] = g[(t \ {x}) \ {a}] + (IF a \in t \ {x} THEN f[a] ELSE 0)
            /\ t \ {x} \in SUBSET s
        OBVIOUS
      <3> HIDE DEF h
      <3>2. CASE x = a
        <4>1. (t \ {x}) \ {a} = t \ {a} /\ a \in t /\ a \notin t \ {x}
          BY <3>2
        <4>2. h[t] = g[t \ {a}] + f[a]
          BY <3>1, <4>1
        <4>3. h[t \ {x}] = g[t \ {a}] + 0
          BY <3>1, <4>1
        <4>4. g[t \ {a}] \in Int /\ f[a] \in Int
          BY <2>5
        <4> QED
          BY <3>2, <4>2, <4>3, <4>4
      <3>3. CASE x # a
        <4>1. (t \ {x}) \ {a} = (t \ {a}) \ {x} /\ x \in t \ {a} /\ x \in s
          BY <3>3
        <4>2. g[t \ {a}] = g[(t \ {a}) \ {x}] + f[x]
          BY <2>4, <2>5, <4>1 DEF IsSum
        <4>3. f[x] \in Int /\ f[a] \in Int
          BY <2>5, <4>1
        <4>4. g[(t \ {a}) \ {x}] \in Int
          BY <2>5, <3>1, <4>1
        <4>5. CASE a \in t
          <5>1. h[t] = g[t \ {a}] + f[a] /\ h[t \ {x}] = g[(t \ {a}) \ {x}] + f[a]
            BY <3>1, <3>3, <4>1, <4>5
          <5> QED
            BY <4>2, <4>3, <4>4, <5>1
        <4>6. CASE a \notin t
          <5>1. h[t] = g[t \ {a}] + 0 /\ h[t \ {x}] = g[(t \ {a}) \ {x}] + 0
            BY <3>1, <4>1, <4>6
          <5> QED
            BY <4>2, <4>3, <4>4, <5>1
        <4> QED
          BY <4>5, <4>6
      <3> QED
        BY <3>2, <3>3
    <2>9. IsSum(f, s, h)
      <3> HIDE DEF h
      <3> QED
        BY <2>6, <2>7, <2>8 DEF IsSum
    <2> QED
      BY <2>9
  <1> QED
    BY <1>3, <1>4

(* Any function that satisfies IsSum is what SumFunctionOnSet computes. *)
LEMMA SumBy ==
    ASSUME NEW S, IsFiniteSet(S), NEW f, \A x \in S : f[x] \in Int, NEW g, IsSum(f, S, g)
    PROVE  SumFunctionOnSet(f, S) = g[S]
  <1>1. IsFold(f, S, g)
    <2>1. g = [s \in SUBSET S |-> g[s]]
      BY DEF IsSum
    <2>2. ASSUME NEW s \in SUBSET S
          PROVE  g[s] = IF s = {} THEN 0
                        ELSE LET x == CHOOSE y \in s : TRUE IN f[x] + g[s \ {x}]
      <3>1. CASE s = {}
        BY <3>1 DEF IsSum
      <3>2. CASE s # {}
        <4> DEFINE x == CHOOSE y \in s : TRUE
        <4>1. x \in s
          BY <3>2
        <4>2. g[s] = g[s \ {x}] + f[x] /\ g[s \ {x}] \in Int /\ f[x] \in Int
          BY <4>1 DEF IsSum
        <4>3. g[s] = f[x] + g[s \ {x}]
          BY <4>2
        <4> QED
          BY <3>2, <4>3
      <3> QED
        BY <3>1, <3>2
    <2> QED
      BY <2>1, <2>2 DEF IsFold
  <1> DEFINE c == CHOOSE h : IsFold(f, S, h)
  <1>2. IsFold(f, S, c)
    BY <1>1
  <1>3. SumFunctionOnSet(f, S) = c[S]
    BY SumIsFold
  <1> HIDE DEF c
  <1> DEFINE B == {s \in SUBSET S : c[s] # g[s]}
  <1>4. ASSUME B # {} PROVE FALSE
    <2>1. PICK s \in B : \A t \in B : t \subseteq s => t = s
      <3> HIDE DEF B
      <3>1. B \in SUBSET SUBSET S
        BY DEF B
      <3> QED
        BY <1>4, <3>1, SmallestPart
    <2> DEFINE x == CHOOSE y \in s : TRUE
    <2>2. CASE s = {}
      BY <1>1, <1>2, <2>2 DEF IsFold
    <2>3. CASE s # {}
      <3>1. x \in s
        BY <2>3
      <3>2. c[s \ {x}] = g[s \ {x}]
        BY <2>1, <3>1
      <3>3. c[s] = f[x] + c[s \ {x}] /\ g[s] = f[x] + g[s \ {x}]
        BY <1>1, <1>2, <2>3 DEF IsFold
      <3> QED
        BY <3>2, <3>3
    <2> QED
      BY <2>2, <2>3
  <1> QED
    BY <1>3, <1>4

(* No element, nothing. *)
LEMMA SumEmpty ==
    ASSUME NEW f
    PROVE  SumFunctionOnSet(f, {}) = 0
  <1>1. IsSum(f, {}, [s \in SUBSET {} |-> 0])
    BY DEF IsSum
  <1> QED
    BY <1>1, SumBy, FS_EmptySet

(* That function gives the sum over each part of the set. *)
LEMMA SumPart ==
    ASSUME NEW S, IsFiniteSet(S), NEW f, \A x \in S : f[x] \in Int, NEW g, IsSum(f, S, g),
           NEW T \in SUBSET S
    PROVE  SumFunctionOnSet(f, T) = g[T]
  <1>1. IsSum(f, T, [s \in SUBSET T |-> g[s]])
    <2>1. \A s \in SUBSET T : s \in SUBSET S /\ \A x \in s : s \ {x} \in SUBSET T
      OBVIOUS
    <2> QED
      BY <2>1 DEF IsSum
  <1>2. IsFiniteSet(T)
    BY FS_Subset
  <1> QED
    BY <1>1, <1>2, SumBy

(* Sums of integers are integers, and an element may be taken out of a sum. *)
LEMMA SumRemove ==
    ASSUME NEW S, IsFiniteSet(S), NEW f, \A x \in S : f[x] \in Int
    PROVE  /\ SumFunctionOnSet(f, S) \in Int
           /\ \A x \in S : SumFunctionOnSet(f, S) = SumFunctionOnSet(f, S \ {x}) + f[x]
  <1>1. PICK g : IsSum(f, S, g)
    BY SumExists
  <1>2. SumFunctionOnSet(f, S) = g[S] /\ \A x \in S : SumFunctionOnSet(f, S \ {x}) = g[S \ {x}]
    BY <1>1, SumPart
  <1> QED
    BY <1>1, <1>2 DEF IsSum

(* A sum looks at the function on the set only. *)
LEMMA SumAgree ==
    ASSUME NEW S, IsFiniteSet(S), NEW f, NEW h, \A x \in S : f[x] \in Int /\ f[x] = h[x]
    PROVE  SumFunctionOnSet(f, S) = SumFunctionOnSet(h, S)
  <1>1. PICK g : IsSum(f, S, g)
    BY SumExists
  <1>2. IsSum(h, S, g)
    BY <1>1 DEF IsSum
  <1> QED
    BY <1>1, <1>2, SumBy

(* Sums over parts that have nothing in common add up. *)
LEMMA SumUnion ==
    ASSUME NEW S, NEW T, IsFiniteSet(S), IsFiniteSet(T), S \cap T = {},
           NEW f, \A x \in S \cup T : f[x] \in Int
    PROVE  SumFunctionOnSet(f, S \cup T) = SumFunctionOnSet(f, S) + SumFunctionOnSet(f, T)
  <1>0. IsFiniteSet(S \cup T)
    BY FS_Union
  <1>1. PICK g : IsSum(f, S \cup T, g)
    BY <1>0, SumExists
  <1>2. SumFunctionOnSet(f, S \cup T) = g[S \cup T] /\ SumFunctionOnSet(f, S) = g[S]
    BY <1>0, <1>1, SumPart
  <1> DEFINE h == [s \in SUBSET T |-> g[S \cup s] - g[S]]
  <1>3. IsSum(f, T, h)
    <2>1. \A s \in SUBSET T : S \cup s \in SUBSET (S \cup T) /\ g[S \cup s] \in Int
      BY <1>1 DEF IsSum
    <2>2. g[S] \in Int /\ S \cup {} = S
      BY <1>1 DEF IsSum
    <2>3. ASSUME NEW s \in SUBSET T, NEW x \in s PROVE h[s] = h[s \ {x}] + f[x]
      <3>1. S \cup (s \ {x}) = (S \cup s) \ {x} /\ x \in S \cup s /\ s \ {x} \in SUBSET T
        OBVIOUS
      <3>2. g[S \cup s] = g[S \cup (s \ {x})] + f[x] /\ f[x] \in Int
        BY <1>1, <2>1, <3>1 DEF IsSum
      <3>3. g[S \cup (s \ {x})] \in Int
        BY <2>1, <3>1
      <3>4. h[s] = g[S \cup s] - g[S] /\ h[s \ {x}] = g[S \cup (s \ {x})] - g[S]
        BY <3>1
      <3> HIDE DEF h
      <3> QED
        BY <2>2, <3>2, <3>3, <3>4
    <2>4. h \in [SUBSET T -> Int]
      <3>1. \A s \in SUBSET T : g[S \cup s] - g[S] \in Int
        BY <2>1, <2>2
      <3> QED
        BY <3>1
    <2>5. h[{}] = 0
      <3>1. h[{}] = g[S] - g[S]
        BY <2>2
      <3> QED
        BY <2>2, <3>1
    <2> HIDE DEF h
    <2> QED
      BY <2>3, <2>4, <2>5 DEF IsSum
  <1>4. SumFunctionOnSet(f, T) = g[S \cup T] - g[S]
    BY <1>3, SumBy
  <1> QED
    BY <1>1, <1>2, <1>4 DEF IsSum

(* Sums of natural numbers are natural numbers. *)
LEMMA SumNat ==
    ASSUME NEW S, IsFiniteSet(S), NEW f, \A x \in S : f[x] \in Nat
    PROVE  SumFunctionOnSet(f, S) \in Nat
  <1> DEFINE B == {s \in SUBSET S : SumFunctionOnSet(f, s) \notin Nat}
  <1>1. ASSUME B # {} PROVE FALSE
    <2>1. PICK s \in B : \A t \in B : t \subseteq s => t = s
      <3> HIDE DEF B
      <3>1. B \in SUBSET SUBSET S
        BY DEF B
      <3> QED
        BY <1>1, <3>1, SmallestPart
    <2>2. s # {}
      BY SumEmpty
    <2>3. PICK x \in s : TRUE
      BY <2>2
    <2>4. SumFunctionOnSet(f, s \ {x}) \in Nat
      BY <2>1, <2>3
    <2>5. SumFunctionOnSet(f, s) = SumFunctionOnSet(f, s \ {x}) + f[x]
      <3>1. IsFiniteSet(s) /\ \A y \in s : f[y] \in Int
        BY FS_Subset
      <3> QED
        BY <3>1, SumRemove
    <2> QED
      BY <2>4, <2>5
  <1> QED
    BY <1>1

(* A part of a sum of natural numbers is no more than the whole. *)
LEMMA SumMonotone ==
    ASSUME NEW S, IsFiniteSet(S), NEW T \in SUBSET S, NEW f, \A x \in S : f[x] \in Nat
    PROVE  SumFunctionOnSet(f, T) <= SumFunctionOnSet(f, S)
  <1>1. IsFiniteSet(T) /\ IsFiniteSet(S \ T) /\ T \cap (S \ T) = {} /\ S = T \cup (S \ T)
    BY FS_Subset
  <1>2. SumFunctionOnSet(f, S) = SumFunctionOnSet(f, T) + SumFunctionOnSet(f, S \ T)
    BY <1>1, SumUnion
  <1>3. SumFunctionOnSet(f, T) \in Nat /\ SumFunctionOnSet(f, S \ T) \in Nat
    BY <1>1, SumNat
  <1> QED
    BY <1>2, <1>3

(* What adds nothing sums up to nothing. *)
LEMMA NoneAddsNothing ==
    ASSUME NEW S, IsFiniteSet(S), NEW f, \A x \in S : f[x] = 0
    PROVE  SumFunctionOnSet(f, S) = 0
  <1> DEFINE g == [s \in SUBSET S |-> 0]
  <1>1. IsSum(f, S, g)
    BY DEF IsSum
  <1>2. g[S] = 0 /\ \A x \in S : f[x] \in Int
    OBVIOUS
  <1> HIDE DEF g
  <1> QED
    BY <1>1, <1>2, SumBy

(* Counting is summing up ones. *)
LEMMA SumOfOnes ==
    ASSUME NEW S, IsFiniteSet(S), NEW f, \A x \in S : f[x] = 1
    PROVE  SumFunctionOnSet(f, S) = Cardinality(S)
  <1> DEFINE g == [s \in SUBSET S |-> Cardinality(s)]
  <1>1. ASSUME NEW s \in SUBSET S PROVE IsFiniteSet(s) /\ Cardinality(s) \in Nat
    BY FS_Subset, FS_CardinalityType
  <1>2. ASSUME NEW s \in SUBSET S, NEW x \in s PROVE g[s] = g[s \ {x}] + f[x]
    <2>1. Cardinality(s \ {x}) = Cardinality(s) - 1 /\ s \ {x} \in SUBSET S /\ f[x] = 1
      BY <1>1, FS_RemoveElement
    <2> QED
      BY <1>1, <2>1
  <1>3. g \in [SUBSET S -> Int] /\ g[{}] = 0
    BY <1>1, FS_EmptySet
  <1>4. g[S] = Cardinality(S) /\ \A x \in S : f[x] \in Int
    OBVIOUS
  <1> HIDE DEF g
  <1>5. IsSum(f, S, g)
    BY <1>2, <1>3 DEF IsSum
  <1> QED
    BY <1>4, <1>5, SumBy

\* The keys tell the elements of S apart, and c gives the sum of f for each key.
InParts(f, S, key, keys, c) ==
    /\ \A x \in S : f[x] \in Int /\ key[x] \in keys
    /\ \A k \in keys : \E x \in S : key[x] = k
    /\ \A k \in keys : c[k] = SumFunctionOnSet(f, {x \in S : key[x] = k})

(* A sum may be taken part by part. *)
LEMMA SumOfParts ==
    ASSUME NEW S, IsFiniteSet(S), NEW f, NEW key, NEW keys, NEW c, InParts(f, S, key, keys, c)
    PROVE  SumFunctionOnSet(c, keys) = SumFunctionOnSet(f, S)
  <1>0. /\ \A x \in S : f[x] \in Int /\ key[x] \in keys
        /\ \A k \in keys : \E x \in S : key[x] = k
        /\ \A k \in keys : c[k] = SumFunctionOnSet(f, {x \in S : key[x] = k})
    BY DEF InParts
  <1> DEFINE Part(K) == {x \in S : key[x] \in K}
             g == [K \in SUBSET keys |-> SumFunctionOnSet(f, Part(K))]
  <1>1. ASSUME NEW K \in SUBSET keys
        PROVE  IsFiniteSet(Part(K)) /\ SumFunctionOnSet(f, Part(K)) \in Int
    <2>1. IsFiniteSet(Part(K)) /\ \A x \in Part(K) : f[x] \in Int
      BY <1>0, FS_Subset
    <2> HIDE DEF Part
    <2> QED
      BY <2>1, SumRemove
  <1>2. ASSUME NEW k \in keys PROVE c[k] \in Int
    <2> DEFINE own == {x \in S : key[x] = k}
    <2>1. {k} \in SUBSET keys /\ Part({k}) = own
      OBVIOUS
    <2>2. c[k] = SumFunctionOnSet(f, own)
      BY <1>0
    <2>3. SumFunctionOnSet(f, Part({k})) \in Int
      BY <1>1, <2>1
    <2> HIDE DEF Part, own
    <2> QED
      BY <2>1, <2>2, <2>3
  <1>3. ASSUME NEW K \in SUBSET keys, NEW k \in K PROVE g[K] = g[K \ {k}] + c[k]
    <2> DEFINE A == Part(K \ {k})
               B == {x \in S : key[x] = k}
    <2>1. Part(K) = A \cup B /\ A \cap B = {} /\ A \subseteq S /\ B \subseteq S
      BY <1>0
    <2>2. IsFiniteSet(A) /\ IsFiniteSet(B) /\ \A x \in A \cup B : f[x] \in Int
      BY <1>0, <2>1, FS_Subset
    <2>3. K \ {k} \in SUBSET keys /\ c[k] = SumFunctionOnSet(f, B)
      BY <1>0
    <2>4. g[K] = SumFunctionOnSet(f, A \cup B) /\ g[K \ {k}] = SumFunctionOnSet(f, A)
      BY <2>1, <2>3
    <2> HIDE DEF A, B, g, Part
    <2>5. SumFunctionOnSet(f, A \cup B) = SumFunctionOnSet(f, A) + SumFunctionOnSet(f, B)
      BY <2>1, <2>2, SumUnion
    <2> QED
      BY <2>3, <2>4, <2>5
  <1>4. g \in [SUBSET keys -> Int]
    BY <1>1
  <1>5. g[{}] = 0
    <2>1. Part({}) = {}
      OBVIOUS
    <2> QED
      BY <2>1, SumEmpty
  <1>6. g[keys] = SumFunctionOnSet(f, S)
    <2>1. Part(keys) = S
      BY <1>0
    <2> QED
      BY <2>1
  <1> HIDE DEF g
  <1>7. IsSum(c, keys, g)
    BY <1>3, <1>4, <1>5 DEF IsSum
  <1>8. IsFiniteSet(keys)
    <2> DEFINE h == [x \in S |-> key[x]]
    <2>1. h \in [S -> keys] /\ \A k \in keys : \E x \in S : h[x] = k
      BY <1>0
    <2> HIDE DEF h
    <2>2. h \in Surjection(S, keys)
      BY <2>1 DEF Surjection
    <2> QED
      BY <2>2, FS_Surjection
  <1> QED
    BY <1>2, <1>6, <1>7, <1>8, SumBy

-----------------------------------------------------------------------------
(* The sums the models take: over rows, queue positions and summary lines. *)

(* MapThenSumSet of the bytes of rows is such a sum. *)
LEMMA SumOfBytes ==
    ASSUME NEW rows
    PROVE  MapThenSumSet(LAMBDA r : r.bytes, rows) = SumFunctionOnSet([r \in rows |-> r.bytes], rows)
  BY DEF MapThenSumSet, MapThenFoldSet, SumFunctionOnSet, FoldFunctionOnSet

(* So is that of the bytes at positions of a queue. *)
LEMMA SumAlong ==
    ASSUME NEW queue, NEW D
    PROVE  MapThenSumSet(LAMBDA i : queue[i].bytes, D)
              = SumFunctionOnSet([i \in D |-> queue[i].bytes], D)
  BY DEF MapThenSumSet, MapThenFoldSet, SumFunctionOnSet, FoldFunctionOnSet

(* So is that of the totals of summary lines. *)
LEMMA SumOfTotals ==
    ASSUME NEW lines, NEW D
    PROVE  MapThenSumSet(LAMBDA k : lines[k].total, D)
              = SumFunctionOnSet([k \in D |-> lines[k].total], D)
  BY DEF MapThenSumSet, MapThenFoldSet, SumFunctionOnSet, FoldFunctionOnSet

(* So is that of the counts of summary lines. *)
LEMMA SumOfCounts ==
    ASSUME NEW lines, NEW D
    PROVE  MapThenSumSet(LAMBDA k : lines[k].count, D)
              = SumFunctionOnSet([k \in D |-> lines[k].count], D)
  BY DEF MapThenSumSet, MapThenFoldSet, SumFunctionOnSet, FoldFunctionOnSet
===============================================================================
