------------------------- MODULE MeterHistoryProofs -------------------------
(***************************************************************************)
(* Theorems about MeterHistory, for histories of any length: what its      *)
(* sums, over sets of any size, add up to.                                 *)
(*                                                                         *)
(* The induction is over sets: instead of a property that holds of every   *)
(* size, the set of the sizes, or of the sets, that have it.               *)
(***************************************************************************)
EXTENDS MeterHistory, FiniteSetTheorems, WellFoundedInduction, TLAPS

----------------------------------------------------------------------------
(* Induction, with sets for predicates.                                    *)

Below == {p \in Nat \X Nat : p[1] < p[2]}

LEMMA LeastNat ==
  ASSUME NEW T, T \subseteq Nat, T # {}
  PROVE  \E n \in T : \A m \in T : n <= m
<1>1. IsWellFoundedOn(Below, Nat)
  <2>1. OpToRel(<, Nat) = Below
    BY DEF OpToRel, Below
  <2> QED
    BY <2>1, NatLessThanWellFounded
<1>2. PICK n \in T : \A m \in T : ~(<<m, n>> \in Below)
  BY <1>1, WFMin
<1>3. ASSUME NEW m \in T
      PROVE  n <= m
  <2>1. m \in Nat /\ n \in Nat /\ <<m, n>> \notin Below
    BY <1>2
  <2>2. m < n => <<m, n>> \in Below
    BY <2>1 DEF Below
  <2> QED
    BY <2>1, <2>2
<1> QED
  BY <1>3

(* Up to n, one at a time. *)
LEMMA CountingUp ==
  ASSUME NEW n \in Nat, NEW K, 0 \in K, \A k \in 0..(n - 1) : k \in K => k + 1 \in K
  PROVE  n \in K
<1> DEFINE Missing == {k \in 0..n : k \notin K}
<1>1. SUFFICES ASSUME n \notin K PROVE FALSE
  OBVIOUS
<1>2. Missing \subseteq Nat /\ Missing # {}
  BY <1>1
<1>3. PICK k \in Missing : \A m \in Missing : k <= m
  <2> HIDE DEF Missing
  <2> QED
    BY <1>2, LeastNat
<1>4. k \in 0..n /\ k # 0 /\ k \notin K
  OBVIOUS
<1>5. k - 1 \in 0..(n - 1) /\ k - 1 \notin Missing
  BY <1>3, <1>4
<1> QED
  BY <1>4, <1>5

(* From the empty set to S, one element at a time. *)
LEMMA AddingUp ==
  ASSUME NEW S, IsFiniteSet(S), NEW F, {} \in F,
         \A T \in SUBSET S : T \in F => \A x \in S \ T : T \cup {x} \in F
  PROVE  S \in F
<1> DEFINE Missing == {T \in SUBSET S : T \notin F}
           Sizes == {Cardinality(T) : T \in Missing}
<1>1. SUFFICES ASSUME S \notin F PROVE FALSE
  OBVIOUS
<1>2. \A T \in SUBSET S : IsFiniteSet(T) /\ Cardinality(T) \in Nat
  BY FS_Subset, FS_CardinalityType
<1>3. Sizes \subseteq Nat /\ Sizes # {}
  BY <1>1, <1>2
<1>4. PICK n \in Sizes : \A m \in Sizes : n <= m
  <2> HIDE DEF Sizes
  <2> QED
    BY <1>3, LeastNat
<1>5. PICK T \in Missing : n = Cardinality(T)
  OBVIOUS
<1>6. PICK x \in T : TRUE
  BY <1>5
<1>7. IsFiniteSet(T \ {x}) /\ Cardinality(T \ {x}) = Cardinality(T) - 1
  BY <1>2, <1>5, <1>6, FS_RemoveElement
<1>8. T \ {x} \notin Missing
  <2>1. SUFFICES ASSUME T \ {x} \in Missing PROVE FALSE
    OBVIOUS
  <2>2. Cardinality(T \ {x}) \in Sizes
    BY <2>1
  <2> HIDE DEF Sizes, Missing
  <2> QED
    BY <2>2, <1>4, <1>5, <1>7, <1>3
<1>9. (T \ {x}) \cup {x} = T
  BY <1>6
<1> QED
  BY <1>5, <1>6, <1>8, <1>9

----------------------------------------------------------------------------
(* A sum takes the elements of a set in an order it chooses.               *)

SumOf(f, S) == MapThenSumSet(LAMBDA i : f[i], S)

First(S) == CHOOSE x \in S : TRUE
Rest(S) == S \ {First(S)}

(* g is the sum of f over the subsets of S. *)
Adds(g, f, S) ==
  g = [T \in SUBSET S |-> IF T = {} THEN 0 ELSE f[First(T)] + g[Rest(T)]]

LEMMA FirstRest ==
  ASSUME NEW S, IsFiniteSet(S), S # {}
  PROVE  /\ First(S) \in S
         /\ Rest(S) \subseteq S
         /\ IsFiniteSet(Rest(S)) /\ Cardinality(Rest(S)) = Cardinality(S) - 1
<1>1. First(S) \in S
  BY DEF First
<1> QED
  BY <1>1, FS_RemoveElement DEF Rest

(* There is such a function: by the size of the sets it is right about. *)
LEMMA AddsExists ==
  ASSUME NEW S, IsFiniteSet(S), NEW f
  PROVE  \E g : Adds(g, f, S)
<1> DEFINE Step(g, T) == IF T = {} THEN 0 ELSE f[First(T)] + g[Rest(T)]
           Right(n) == {T \in SUBSET S : Cardinality(T) <= n}
           K == {n \in Nat : \E g : \A T \in Right(n) : g[T] = Step(g, T)}
<1>1. \A T \in SUBSET S : IsFiniteSet(T) /\ Cardinality(T) \in Nat
                          /\ Cardinality(T) <= Cardinality(S)
  BY FS_Subset, FS_CardinalityType
<1>2. Cardinality(S) \in Nat
  BY FS_CardinalityType
<1>3. 0 \in K
  <2>1. \A T \in Right(0) : T = {}
    BY <1>1, FS_EmptySet
  <2> DEFINE g == [T \in SUBSET S |-> 0]
  <2>2. \A T \in Right(0) : g[T] = Step(g, T)
    BY <2>1
  <2> QED
    BY <2>2
<1>4. ASSUME NEW n \in 0..(Cardinality(S) - 1), n \in K
      PROVE  n + 1 \in K
  <2>1. PICK g : \A T \in Right(n) : g[T] = Step(g, T)
    BY <1>4
  <2> DEFINE h == [T \in SUBSET S |-> Step(g, T)]
  <2>2. \A T \in Right(n) : h[T] = g[T]
    BY <2>1
  <2>3. ASSUME NEW T \in Right(n + 1)
        PROVE  h[T] = Step(h, T)
    <3>1. CASE T = {}
      BY <3>1
    <3>2. CASE T # {}
      <4>1. Rest(T) \in Right(n)
        <5>1. /\ Rest(T) \subseteq T
              /\ Cardinality(Rest(T)) = Cardinality(T) - 1
          BY <1>1, <3>2, FirstRest
        <5>2. Cardinality(T) \in Nat /\ Cardinality(T) <= n + 1
          BY <1>1
        <5> QED
          BY <5>1, <5>2
      <4>2. h[Rest(T)] = g[Rest(T)]
        BY <4>1, <2>2
      <4>3. h[T] = f[First(T)] + g[Rest(T)]
        BY <3>2
      <4> QED
        BY <4>2, <4>3, <3>2
    <3> QED
      BY <3>1, <3>2
  <2>4. n + 1 \in Nat
    OBVIOUS
  <2> HIDE DEF h, Step, Right
  <2> QED
    BY <2>3, <2>4
<1>5. Cardinality(S) \in K
  <2> HIDE DEF K
  <2> QED
    BY <1>2, <1>3, <1>4, CountingUp
<1>6. PICK g : \A T \in Right(Cardinality(S)) : g[T] = Step(g, T)
  BY <1>5
<1>7. Right(Cardinality(S)) = SUBSET S
  BY <1>1
<1> DEFINE h == [T \in SUBSET S |-> g[T]]
<1>8. ASSUME NEW T \in SUBSET S
      PROVE  h[T] = Step(h, T)
  <2>1. T # {} => Rest(T) \in SUBSET S
    BY <1>1, FirstRest
  <2>2. h[T] = Step(g, T)
    BY <1>6, <1>7
  <2>3. T # {} => h[Rest(T)] = g[Rest(T)]
    BY <2>1
  <2> QED
    BY <2>2, <2>3
<1>9. h = [T \in SUBSET S |-> Step(h, T)]
  <2>1. h = [T \in SUBSET S |-> h[T]]
    OBVIOUS
  <2> HIDE DEF h, Step
  <2> QED
    BY <1>8, <2>1
<1> QED
  BY <1>9 DEF Adds

(* There is one only. *)
LEMMA AddsUnique ==
  ASSUME NEW f, NEW A, NEW B, IsFiniteSet(A), NEW g, NEW h,
         Adds(g, f, A), Adds(h, f, B), A \subseteq B
  PROVE  g[A] = h[A]
<1> DEFINE Same(n) == \A T \in SUBSET A : Cardinality(T) <= n => g[T] = h[T]
           K == {n \in Nat : Same(n)}
<1>1. \A T \in SUBSET A : IsFiniteSet(T) /\ Cardinality(T) \in Nat
  BY FS_Subset, FS_CardinalityType
<1>2. /\ \A T \in SUBSET A : g[T] = IF T = {} THEN 0 ELSE f[First(T)] + g[Rest(T)]
      /\ \A T \in SUBSET A : h[T] = IF T = {} THEN 0 ELSE f[First(T)] + h[Rest(T)]
  BY DEF Adds
<1>3. 0 \in K
  BY <1>1, <1>2, FS_EmptySet
<1>4. ASSUME NEW n \in 0..(Cardinality(A) - 1), n \in K
      PROVE  n + 1 \in K
  <2>1. ASSUME NEW T \in SUBSET A, Cardinality(T) <= n + 1
        PROVE  g[T] = h[T]
    <3>1. CASE T = {}
      BY <3>1, <1>2
    <3>2. CASE T # {}
      <4>1. /\ Rest(T) \in SUBSET A
            /\ Cardinality(Rest(T)) = Cardinality(T) - 1
        BY <1>1, <3>2, FirstRest
      <4>2. Cardinality(Rest(T)) <= n
        BY <4>1, <1>1, <2>1
      <4>3. g[Rest(T)] = h[Rest(T)]
        BY <4>1, <4>2, <1>4
      <4> QED
        BY <4>3, <3>2, <1>2
    <3> QED
      BY <3>1, <3>2
  <2> QED
    BY <2>1
<1>5. Cardinality(A) \in K
  <2>1. Cardinality(A) \in Nat
    BY <1>1
  <2> HIDE DEF K
  <2> QED
    BY <2>1, <1>3, <1>4, CountingUp
<1> QED
  BY <1>5, <1>1

(* What the community modules' operator chooses is it. *)
LEMMA SumOfAdds ==
  ASSUME NEW f, NEW S, IsFiniteSet(S), NEW g, Adds(g, f, S)
  PROVE  SumOf(f, S) = g[S]
<1> DEFINE it == CHOOSE h : Adds(h, f, S)
<1>1. SumOf(f, S) = it[S]
  BY DEF SumOf, MapThenSumSet, MapThenFoldSet, Adds, First, Rest
<1>2. Adds(it, f, S)
  BY AddsExists
<1> HIDE DEF it
<1> QED
  BY <1>1, <1>2, AddsUnique

LEMMA SumOfEmpty ==
  ASSUME NEW f
  PROVE  SumOf(f, {}) = 0
<1>1. IsFiniteSet({})
  BY FS_EmptySet
<1>2. PICK g : Adds(g, f, {})
  BY <1>1, AddsExists
<1>3. g[{}] = 0
  BY <1>2 DEF Adds
<1> QED
  BY <1>1, <1>2, <1>3, SumOfAdds

LEMMA SumOfRest ==
  ASSUME NEW f, NEW S, IsFiniteSet(S), S # {}
  PROVE  SumOf(f, S) = f[First(S)] + SumOf(f, Rest(S))
<1>1. Rest(S) \subseteq S /\ IsFiniteSet(Rest(S))
  BY FirstRest
<1>2. PICK g : Adds(g, f, S)
  BY AddsExists
<1>3. PICK h : Adds(h, f, Rest(S))
  BY <1>1, AddsExists
<1>4. h[Rest(S)] = g[Rest(S)]
  BY <1>1, <1>2, <1>3, AddsUnique
<1>5. g[S] = f[First(S)] + g[Rest(S)]
  BY <1>2 DEF Adds
<1>6. SumOf(f, S) = g[S]
  BY <1>2, SumOfAdds
<1>7. SumOf(f, Rest(S)) = h[Rest(S)]
  BY <1>1, <1>3, SumOfAdds
<1> QED
  BY <1>4, <1>5, <1>6, <1>7

Summable(f, S) == \A i \in S : f[i] \in Int

LEMMA SumOfType ==
  ASSUME NEW S, IsFiniteSet(S), NEW f, Summable(f, S)
  PROVE  SumOf(f, S) \in Int
<1> DEFINE K == {n \in Nat : \A T \in SUBSET S : Cardinality(T) <= n => SumOf(f, T) \in Int}
<1>1. \A T \in SUBSET S : IsFiniteSet(T) /\ Cardinality(T) \in Nat
  BY FS_Subset, FS_CardinalityType
<1>2. 0 \in K
  BY <1>1, SumOfEmpty, FS_EmptySet
<1>3. ASSUME NEW n \in 0..(Cardinality(S) - 1), n \in K
      PROVE  n + 1 \in K
  <2>1. ASSUME NEW T \in SUBSET S, Cardinality(T) <= n + 1
        PROVE  SumOf(f, T) \in Int
    <3>1. CASE T = {}
      BY <3>1, SumOfEmpty
    <3>2. CASE T # {}
      <4>1. /\ First(T) \in S /\ Rest(T) \in SUBSET S
            /\ Cardinality(Rest(T)) = Cardinality(T) - 1
        BY <1>1, <3>2, FirstRest
      <4>2. Cardinality(Rest(T)) <= n
        BY <4>1, <1>1, <2>1
      <4>3. SumOf(f, Rest(T)) \in Int /\ f[First(T)] \in Int
        BY <4>1, <4>2, <1>3 DEF Summable
      <4> QED
        BY <4>3, <3>2, <1>1, SumOfRest
    <3> QED
      BY <3>1, <3>2
  <2> QED
    BY <2>1
<1>4. Cardinality(S) \in K
  <2>1. Cardinality(S) \in Nat
    BY <1>1
  <2> HIDE DEF K
  <2> QED
    BY <2>1, <1>2, <1>3, CountingUp
<1> QED
  BY <1>4, <1>1

(* The order does not matter. *)
LEMMA SumOfWithout ==
  ASSUME NEW S, IsFiniteSet(S), NEW f, Summable(f, S), NEW x \in S
  PROVE  SumOf(f, S) = f[x] + SumOf(f, S \ {x})
<1> DEFINE Good(T) == \A y \in T : SumOf(f, T) = f[y] + SumOf(f, T \ {y})
           K == {n \in Nat : \A T \in SUBSET S : Cardinality(T) <= n => Good(T)}
<1>1. \A T \in SUBSET S : IsFiniteSet(T) /\ Cardinality(T) \in Nat /\ Summable(f, T)
  BY FS_Subset, FS_CardinalityType DEF Summable
<1>2. 0 \in K
  BY <1>1, FS_EmptySet
<1>3. ASSUME NEW n \in 0..(Cardinality(S) - 1), n \in K
      PROVE  n + 1 \in K
  <2>1. ASSUME NEW T \in SUBSET S, Cardinality(T) <= n + 1, NEW y \in T
        PROVE  SumOf(f, T) = f[y] + SumOf(f, T \ {y})
    <3> DEFINE z == First(T)
    <3>1. /\ z \in T /\ Rest(T) \in SUBSET S /\ Rest(T) = T \ {z}
          /\ Cardinality(Rest(T)) = Cardinality(T) - 1
      BY <1>1, <2>1, FirstRest DEF Rest
    <3>2. SumOf(f, T) = f[z] + SumOf(f, T \ {z})
      BY <1>1, <2>1, <3>1, SumOfRest
    <3>3. CASE y = z
      BY <3>2, <3>3
    <3>4. CASE y # z
      <4>1. /\ T \ {z} \in SUBSET S /\ Cardinality(T \ {z}) <= n /\ y \in T \ {z}
            /\ T \ {y} \in SUBSET S /\ Cardinality(T \ {y}) <= n /\ z \in T \ {y}
        <5>1. Cardinality(T \ {y}) = Cardinality(T) - 1
          BY <1>1, <2>1, FS_RemoveElement
        <5>2. Cardinality(T) \in Nat /\ n \in Nat
          BY <1>1
        <5> QED
          BY <3>1, <3>4, <5>1, <5>2, <2>1
      <4>2. SumOf(f, T \ {z}) = f[y] + SumOf(f, (T \ {z}) \ {y})
        BY <4>1, <1>3
      <4>3. SumOf(f, T \ {y}) = f[z] + SumOf(f, (T \ {y}) \ {z})
        BY <4>1, <1>3
      <4>4. (T \ {y}) \ {z} = (T \ {z}) \ {y}
        OBVIOUS
      <4>5. f[y] \in Int /\ f[z] \in Int
        BY <2>1, <3>1 DEF Summable
      <4>6. SumOf(f, (T \ {z}) \ {y}) \in Int
        <5>1. (T \ {z}) \ {y} \in SUBSET S
          BY <2>1
        <5> QED
          BY <5>1, <1>1, SumOfType
      <4>7. SumOf(f, T) = f[z] + (f[y] + SumOf(f, (T \ {z}) \ {y}))
        BY <3>2, <4>2
      <4>8. SumOf(f, T \ {y}) = f[z] + SumOf(f, (T \ {z}) \ {y})
        BY <4>3, <4>4
      <4> DEFINE rest == SumOf(f, (T \ {z}) \ {y})
      <4> HIDE DEF z, rest
      <4> QED
        BY <4>5, <4>6, <4>7, <4>8 DEF rest
    <3> QED
      BY <3>3, <3>4
  <2> QED
    BY <2>1
<1>4. Cardinality(S) \in K
  <2>1. Cardinality(S) \in Nat
    BY <1>1
  <2> HIDE DEF K
  <2> QED
    BY <2>1, <1>2, <1>3, CountingUp
<1> QED
  BY <1>4, <1>1

LEMMA SumOfWith ==
  ASSUME NEW S, IsFiniteSet(S), NEW x, x \notin S, NEW f, Summable(f, S \cup {x})
  PROVE  SumOf(f, S \cup {x}) = f[x] + SumOf(f, S)
<1>1. IsFiniteSet(S \cup {x}) /\ (S \cup {x}) \ {x} = S
  BY FS_AddElement
<1> QED
  BY <1>1, SumOfWithout

(* Two sums of the same values. *)
LEMMA SumOfSame ==
  ASSUME NEW S, IsFiniteSet(S), NEW f, NEW g, \A i \in S : f[i] = g[i]
  PROVE  SumOf(f, S) = SumOf(g, S)
<1>1. PICK a : Adds(a, f, S)
  BY AddsExists
<1>2. ASSUME NEW T \in SUBSET S, T # {}
      PROVE  f[First(T)] = g[First(T)]
  <2>1. First(T) \in S
    BY <1>2, FS_Subset, FirstRest
  <2> QED
    BY <2>1
<1>3. Adds(a, g, S)
  BY <1>1, <1>2 DEF Adds
<1> QED
  BY <1>1, <1>3, SumOfAdds

LEMMA SumOfUnion ==
  ASSUME NEW A, IsFiniteSet(A), NEW B, IsFiniteSet(B), A \cap B = {},
         NEW f, Summable(f, A \cup B)
  PROVE  SumOf(f, A \cup B) = SumOf(f, A) + SumOf(f, B)
<1> DEFINE F == {T \in SUBSET B : SumOf(f, A \cup T) = SumOf(f, A) + SumOf(f, T)}
<1>1. \A T \in SUBSET B : /\ IsFiniteSet(T) /\ SumOf(f, T) \in Int
                          /\ IsFiniteSet(A \cup T) /\ Summable(f, A \cup T)
                          /\ Summable(f, T)
  <2>1. \A T \in SUBSET B : IsFiniteSet(T)
    BY FS_Subset
  <2>2. \A T \in SUBSET B : IsFiniteSet(A \cup T)
    BY <2>1, FS_Union
  <2>3. \A T \in SUBSET B : Summable(f, A \cup T) /\ Summable(f, T)
    BY DEF Summable
  <2> QED
    BY <2>1, <2>2, <2>3, SumOfType
<1>2. SumOf(f, A) \in Int
  BY SumOfType DEF Summable
<1>3. {} \in F
  <2>1. A \cup {} = A
    OBVIOUS
  <2> QED
    BY <1>2, <2>1, SumOfEmpty
<1>4. ASSUME NEW T \in SUBSET B, T \in F, NEW x \in B \ T
      PROVE  T \cup {x} \in F
  <2>1. T \cup {x} \in SUBSET B /\ x \notin A \cup T
    BY <1>4
  <2>2. A \cup (T \cup {x}) = (A \cup T) \cup {x}
    OBVIOUS
  <2>3. Summable(f, (A \cup T) \cup {x}) /\ Summable(f, T \cup {x})
    BY <2>1, <2>2, <1>1
  <2>4. SumOf(f, (A \cup T) \cup {x}) = f[x] + SumOf(f, A \cup T)
    BY <1>1, <2>1, <2>3, SumOfWith
  <2>5. SumOf(f, T \cup {x}) = f[x] + SumOf(f, T)
    BY <1>1, <2>3, <1>4, SumOfWith
  <2>6. f[x] \in Int /\ SumOf(f, T) \in Int
    BY <1>1, <1>4 DEF Summable
  <2>7. SumOf(f, A \cup T) = SumOf(f, A) + SumOf(f, T)
    BY <1>4
  <2>8. SumOf(f, A \cup (T \cup {x})) = f[x] + (SumOf(f, A) + SumOf(f, T))
    BY <2>2, <2>4, <2>7
  <2>9. f[x] + (SumOf(f, A) + SumOf(f, T)) = SumOf(f, A) + (f[x] + SumOf(f, T))
    BY <2>6, <1>2
  <2>10. SumOf(f, A \cup (T \cup {x})) = SumOf(f, A) + SumOf(f, T \cup {x})
    BY <2>5, <2>8, <2>9
  <2> QED
    BY <2>1, <2>10
<1>5. B \in F
  <2> HIDE DEF F
  <2> QED
    BY <1>3, <1>4, AddingUp
<1> QED
  BY <1>5

(* The sum over disjoint parts, part by part. *)
LEMMA SumOfParts ==
  ASSUME NEW N, IsFiniteSet(N), NEW part, \A t \in N : IsFiniteSet(part[t]),
         \A t, u \in N : t # u => part[t] \cap part[u] = {},
         NEW f, Summable(f, UNION {part[t] : t \in N}),
         NEW sums, \A t \in N : sums[t] = SumOf(f, part[t])
  PROVE  SumOf(sums, N) = SumOf(f, UNION {part[t] : t \in N})
<1> DEFINE All(T) == UNION {part[t] : t \in T}
           F == {T \in SUBSET N : /\ IsFiniteSet(All(T))
                                  /\ SumOf(sums, T) = SumOf(f, All(T))}
<1>1. \A T \in SUBSET N : IsFiniteSet(T) /\ Summable(f, All(T))
  BY FS_Subset DEF Summable
<1>2. \A t \in N : sums[t] \in Int
  <2>1. \A t \in N : Summable(f, part[t])
    BY DEF Summable
  <2> QED
    BY <2>1, SumOfType
<1>3. {} \in F
  <2>1. All({}) = {}
    OBVIOUS
  <2>2. IsFiniteSet({})
    BY FS_EmptySet
  <2>3. IsFiniteSet(All({})) /\ SumOf(sums, {}) = SumOf(f, All({}))
    <3> HIDE DEF All
    <3> QED
      BY <2>1, <2>2, SumOfEmpty
  <2> QED
    BY <2>3
<1>4. ASSUME NEW T \in SUBSET N, T \in F, NEW x \in N \ T
      PROVE  T \cup {x} \in F
  <2>1. All(T \cup {x}) = All(T) \cup part[x]
    OBVIOUS
  <2>2. All(T) \cap part[x] = {}
    OBVIOUS
  <2>3. IsFiniteSet(All(T)) /\ IsFiniteSet(part[x]) /\ SumOf(sums, T) = SumOf(f, All(T))
    BY <1>4
  <2>4. Summable(f, All(T) \cup part[x])
    <3>1. T \cup {x} \in SUBSET N
      OBVIOUS
    <3> HIDE DEF All
    <3> QED
      BY <3>1, <2>1, <1>1
  <2>5. Summable(sums, T \cup {x}) /\ IsFiniteSet(T)
    BY <1>1, <1>2 DEF Summable
  <2>6. SumOf(sums, T \cup {x}) = sums[x] + SumOf(sums, T)
    BY <2>5, <1>4, SumOfWith
  <2>7. sums[x] = SumOf(f, part[x])
    OBVIOUS
  <2> HIDE DEF All
  <2>8. IsFiniteSet(All(T) \cup part[x])
    BY <2>3, FS_Union
  <2>9. SumOf(f, All(T) \cup part[x]) = SumOf(f, All(T)) + SumOf(f, part[x])
    BY <2>2, <2>3, <2>4, SumOfUnion
  <2>10. SumOf(f, All(T)) \in Int /\ sums[x] \in Int
    BY <1>1, <1>2, <2>3, SumOfType
  <2>11. SumOf(sums, T \cup {x}) = SumOf(f, All(T \cup {x}))
    <3>1. SumOf(sums, T \cup {x}) = sums[x] + SumOf(f, All(T))
      BY <2>3, <2>6
    <3>2. SumOf(f, All(T \cup {x})) = SumOf(f, All(T)) + sums[x]
      BY <2>1, <2>7, <2>9
    <3> QED
      BY <3>1, <3>2, <2>10
  <2>12. IsFiniteSet(All(T \cup {x}))
    BY <2>1, <2>8
  <2>13. T \cup {x} \in SUBSET N
    OBVIOUS
  <2> QED
    BY <2>11, <2>12, <2>13
<1>5. N \in F
  <2> HIDE DEF F
  <2> QED
    BY <1>3, <1>4, AddingUp
<1> QED
  BY <1>5

(* Ones add up to the size. *)
LEMMA SumOfOnes ==
  ASSUME NEW S, IsFiniteSet(S), NEW f, \A i \in S : f[i] = 1
  PROVE  SumOf(f, S) = Cardinality(S)
<1> DEFINE F == {T \in SUBSET S : SumOf(f, T) = Cardinality(T)}
<1>1. {} \in F
  BY SumOfEmpty, FS_EmptySet
<1>2. ASSUME NEW T \in SUBSET S, T \in F, NEW x \in S \ T
      PROVE  T \cup {x} \in F
  <2>1. IsFiniteSet(T) /\ Cardinality(T) \in Nat
    BY FS_Subset, FS_CardinalityType
  <2>2. Summable(f, T \cup {x})
    BY DEF Summable
  <2>3. SumOf(f, T \cup {x}) = 1 + SumOf(f, T)
    BY <1>2, <2>1, <2>2, SumOfWith
  <2>4. Cardinality(T \cup {x}) = Cardinality(T) + 1
    BY <1>2, <2>1, FS_AddElement
  <2> QED
    BY <1>2, <2>1, <2>3, <2>4
<1>3. S \in F
  <2> HIDE DEF F
  <2> QED
    BY <1>1, <1>2, AddingUp
<1> QED
  BY <1>3

----------------------------------------------------------------------------
(* The greatest and the least of finitely many numbers.                    *)

LEMMA Greatest ==
  ASSUME NEW I, IsFiniteSet(I), I # {}, NEW f, Summable(f, I)
  PROVE  \E i \in I : \A j \in I : f[j] <= f[i]
<1> DEFINE F == {T \in SUBSET I : T = {} \/ \E i \in T : \A j \in T : f[j] <= f[i]}
<1>1. ASSUME NEW T \in SUBSET I, T \in F, NEW x \in I \ T
      PROVE  T \cup {x} \in F
  <2>1. CASE T = {}
    <3>1. T \cup {x} = {x} /\ f[x] <= f[x]
      BY <2>1 DEF Summable
    <3> QED
      BY <3>1
  <2>2. CASE \E i \in T : \A j \in T : f[j] <= f[i]
    <3>1. PICK i \in T : \A j \in T : f[j] <= f[i]
      BY <2>2
    <3>2. \A j \in I : f[j] \in Int
      BY DEF Summable
    <3>3. CASE f[x] <= f[i]
      <4>1. \A j \in T \cup {x} : f[j] <= f[i]
        BY <3>1, <3>3
      <4> QED
        BY <4>1
    <3>4. CASE ~(f[x] <= f[i])
      <4>1. \A j \in T \cup {x} : f[j] <= f[x]
        BY <3>1, <3>2, <3>4
      <4> QED
        BY <4>1
    <3> QED
      BY <3>3, <3>4
  <2> QED
    BY <1>1, <2>1, <2>2
<1>2. I \in F
  <2>1. {} \in F
    OBVIOUS
  <2> HIDE DEF F
  <2> QED
    BY <2>1, <1>1, AddingUp
<1> QED
  BY <1>2

LEMMA MaxOf ==
  ASSUME NEW I, IsFiniteSet(I), I # {}, NEW f, Summable(f, I)
  PROVE  /\ Max({f[i] : i \in I}) \in Int
         /\ \A i \in I : f[i] <= Max({f[j] : j \in I})
         /\ \E i \in I : Max({f[j] : j \in I}) = f[i]
<1> DEFINE S == {f[i] : i \in I}
<1>1. \E x \in S : \A y \in S : x >= y
  <2>1. PICK i \in I : \A j \in I : f[j] <= f[i]
    BY Greatest
  <2> QED
    BY <2>1 DEF Summable
<1>2. Max(S) \in S /\ \A y \in S : Max(S) >= y
  <2> HIDE DEF S
  <2> QED
    BY <1>1 DEF Max
<1>3. S \subseteq Int
  BY DEF Summable
<1> QED
  BY <1>2, <1>3

LEMMA MinOf ==
  ASSUME NEW I, IsFiniteSet(I), I # {}, NEW f, Summable(f, I)
  PROVE  /\ Min({f[i] : i \in I}) \in Int
         /\ \A i \in I : Min({f[j] : j \in I}) <= f[i]
         /\ \E i \in I : Min({f[j] : j \in I}) = f[i]
<1> DEFINE S == {f[i] : i \in I}
           g == [i \in I |-> -f[i]]
<1>1. \E x \in S : \A y \in S : x <= y
  <2>1. Summable(g, I)
    BY DEF Summable
  <2>2. PICK i \in I : \A j \in I : g[j] <= g[i]
    <3> HIDE DEF g
    <3> QED
      BY <2>1, Greatest
  <2>3. \A j \in I : f[i] <= f[j]
    BY <2>2 DEF Summable
  <2> QED
    BY <2>3
<1>2. Min(S) \in S /\ \A y \in S : Min(S) <= y
  <2> HIDE DEF S
  <2> QED
    BY <1>1 DEF Min
<1>3. S \subseteq Int
  BY DEF Summable
<1> QED
  BY <1>2, <1>3

----------------------------------------------------------------------------
(* Histories.                                                              *)

(* What each session that ended took. *)
Took(s) == [i \in Ended(s) |-> s[i].end - s[i].start]

LEMMA SessionTypes ==
  ASSUME NEW s, SessionsOK(s)
  PROVE  /\ Len(s) \in Nat /\ DOMAIN s = 1..Len(s) /\ IsFiniteSet(DOMAIN s)
         /\ Ended(s) \subseteq DOMAIN s /\ IsFiniteSet(Ended(s))
         /\ \A i \in DOMAIN s : s[i].start \in Int
         /\ \A i \in Ended(s) : s[i].end \in Int
         /\ Summable(Took(s), Ended(s))
<1> DEFINE Session == [token : Tokens(s), start : Int, end : Int \cup {None}]
<1>1. Len(s) \in Nat /\ DOMAIN s = 1..Len(s)
  BY DEF SessionsOK
<1>2. \A i \in DOMAIN s : s[i] \in Session
  <2>1. s \in Seq(Session)
    BY DEF SessionsOK
  <2> HIDE DEF Session
  <2> QED
    BY <2>1
<1>3. /\ \A i \in DOMAIN s : s[i].start \in Int
      /\ \A i \in Ended(s) : s[i].end \in Int
  BY <1>2 DEF Ended
<1>4. IsFiniteSet(DOMAIN s)
  BY <1>1, FS_Interval
<1>5. Ended(s) \subseteq DOMAIN s
  BY DEF Ended
<1>6. IsFiniteSet(Ended(s))
  BY <1>4, <1>5, FS_Subset
<1>7. Summable(Took(s), Ended(s))
  BY <1>3, <1>5 DEF Summable, Took
<1> QED
  BY <1>1, <1>3, <1>4, <1>5, <1>6, <1>7

(* The sums of MeterHistory are sums of Took.                              *)
LEMMA TookAdds ==
  ASSUME NEW s, NEW S, IsFiniteSet(S), S \subseteq Ended(s)
  PROVE  MapThenSumSet(LAMBDA i : s[i].end - s[i].start, S) = SumOf(Took(s), S)
<1> DEFINE Same(g) ==
             g = [T \in SUBSET S |->
                    IF T = {} THEN 0
                      ELSE (s[First(T)].end - s[First(T)].start) + g[Rest(T)]]
           it == CHOOSE g : Same(g)
<1>1. MapThenSumSet(LAMBDA i : s[i].end - s[i].start, S) = it[S]
  BY DEF MapThenSumSet, MapThenFoldSet, First, Rest
<1>2. ASSUME NEW T \in SUBSET S, T # {}
      PROVE  s[First(T)].end - s[First(T)].start = Took(s)[First(T)]
  <2>1. First(T) \in Ended(s)
    BY <1>2, FS_Subset, FirstRest
  <2> QED
    BY <2>1 DEF Took
<1>3. ASSUME NEW g
      PROVE  Same(g) <=> Adds(g, Took(s), S)
  BY <1>2 DEF Adds
<1>4. \E g : Same(g)
  <2>1. PICK g : Adds(g, Took(s), S)
    BY AddsExists
  <2>2. Same(g)
    BY <2>1, <1>3
  <2> HIDE DEF Same
  <2> QED
    BY <2>2
<1>5. Same(it)
  <2> HIDE DEF Same
  <2> QED
    BY <1>4
<1>6. Adds(it, Took(s), S)
  <2> HIDE DEF it, Same
  <2> QED
    BY <1>3, <1>5
<1> HIDE DEF it
<1> QED
  BY <1>1, <1>6, SumOfAdds

LEMMA SumIsTook ==
  ASSUME NEW s, SessionsOK(s)
  PROVE  Sum(s) = SumOf(Took(s), Ended(s)) /\ Sum(s) \in Int
<1>1. IsFiniteSet(Ended(s)) /\ Summable(Took(s), Ended(s))
  BY SessionTypes
<1>2. Sum(s) = SumOf(Took(s), Ended(s))
  BY <1>1, TookAdds DEF Sum
<1> QED
  BY <1>1, <1>2, SumOfType

(* The sessions up to the k-th. *)
Upto(s, k) == Ended(s) \cap 1..k
TookUpto(s, k) == SumOf(Took(s), Upto(s, k))

LEMMA UptoNext ==
  ASSUME NEW s, SessionsOK(s), NEW k \in 0..(Len(s) - 1)
  PROVE  /\ k + 1 \in DOMAIN s
         /\ TookUpto(s, k) \in Int
         /\ k + 1 \in Ended(s) =>
              /\ Upto(s, k + 1) = Upto(s, k) \cup {k + 1}
              /\ TookUpto(s, k + 1) = (s[k + 1].end - s[k + 1].start) + TookUpto(s, k)
         /\ k + 1 \notin Ended(s) =>
              /\ Upto(s, k + 1) = Upto(s, k)
              /\ TookUpto(s, k + 1) = TookUpto(s, k)
<1>1. Len(s) \in Nat /\ DOMAIN s = 1..Len(s) /\ Ended(s) \subseteq DOMAIN s
  BY SessionTypes
<1>2. k + 1 \in DOMAIN s
  BY <1>1
<1>3. 1..(k + 1) = (1..k) \cup {k + 1} /\ k + 1 \notin 1..k
  OBVIOUS
<1>4. IsFiniteSet(Upto(s, k)) /\ Summable(Took(s), Upto(s, k))
  BY SessionTypes, FS_Subset DEF Upto, Summable
<1>5. TookUpto(s, k) \in Int
  BY <1>4, SumOfType DEF TookUpto
<1>6. ASSUME k + 1 \in Ended(s)
      PROVE  /\ Upto(s, k + 1) = Upto(s, k) \cup {k + 1}
             /\ TookUpto(s, k + 1) = (s[k + 1].end - s[k + 1].start) + TookUpto(s, k)
  <2>1. Upto(s, k + 1) = Upto(s, k) \cup {k + 1} /\ k + 1 \notin Upto(s, k)
    BY <1>3, <1>6 DEF Upto
  <2>2. Summable(Took(s), Upto(s, k) \cup {k + 1})
    BY <1>6, SessionTypes DEF Upto, Summable
  <2>3. SumOf(Took(s), Upto(s, k) \cup {k + 1})
          = Took(s)[k + 1] + SumOf(Took(s), Upto(s, k))
    BY <1>4, <2>1, <2>2, SumOfWith
  <2>4. Took(s)[k + 1] = s[k + 1].end - s[k + 1].start
    BY <1>6 DEF Took
  <2> QED
    BY <2>1, <2>3, <2>4 DEF TookUpto
<1>7. ASSUME k + 1 \notin Ended(s)
      PROVE  /\ Upto(s, k + 1) = Upto(s, k)
             /\ TookUpto(s, k + 1) = TookUpto(s, k)
  <2>1. Upto(s, k + 1) = Upto(s, k)
    BY <1>3, <1>7 DEF Upto
  <2> QED
    BY <2>1 DEF TookUpto
<1> QED
  BY <1>2, <1>5, <1>6, <1>7

----------------------------------------------------------------------------
(* The total.                                                              *)

LastEnd(s) == Max({s[i].end : i \in Ended(s)})
FirstStart(s) == Min({s[i].start : i \in DOMAIN s})
Span(s) == LastEnd(s) - FirstStart(s)

LEMMA StartsAndEnds ==
  ASSUME NEW s, SessionsOK(s), Ended(s) # {}
  PROVE  /\ LastEnd(s) \in Int /\ FirstStart(s) \in Int
         /\ \A i \in Ended(s) : s[i].end <= LastEnd(s)
         /\ \E i \in Ended(s) : LastEnd(s) = s[i].end
         /\ \A i \in DOMAIN s : FirstStart(s) <= s[i].start
         /\ \E i \in DOMAIN s : FirstStart(s) = s[i].start
<1> DEFINE ends == [i \in Ended(s) |-> s[i].end]
           starts == [i \in DOMAIN s |-> s[i].start]
<1>1. /\ IsFiniteSet(Ended(s)) /\ IsFiniteSet(DOMAIN s) /\ DOMAIN s # {}
      /\ Summable(ends, Ended(s)) /\ Summable(starts, DOMAIN s)
  BY SessionTypes DEF Summable
<1>2. /\ {s[i].end : i \in Ended(s)} = {ends[i] : i \in Ended(s)}
      /\ {s[i].start : i \in DOMAIN s} = {starts[i] : i \in DOMAIN s}
  OBVIOUS
<1>3. /\ \A i \in Ended(s) : ends[i] = s[i].end
      /\ \A i \in DOMAIN s : starts[i] = s[i].start
  OBVIOUS
<1> HIDE DEF ends, starts
<1>4. LET top == Max({ends[i] : i \in Ended(s)}) IN
      /\ top \in Int
      /\ \A i \in Ended(s) : ends[i] <= top
      /\ \E i \in Ended(s) : top = ends[i]
  BY <1>1, MaxOf
<1>5. LET bottom == Min({starts[i] : i \in DOMAIN s}) IN
      /\ bottom \in Int
      /\ \A i \in DOMAIN s : bottom <= starts[i]
      /\ \E i \in DOMAIN s : bottom = starts[i]
  BY <1>1, MinOf
<1> QED
  BY <1>2, <1>3, <1>4, <1>5 DEF LastEnd, FirstStart

(* The greater of zero and a number. *)
LEMMA NeverBelowZero ==
  ASSUME NEW n \in Int
  PROVE  Max({0, n}) = IF n >= 0 THEN n ELSE 0
<1>1. \E x \in {0, n} : \A y \in {0, n} : x >= y
  OBVIOUS
<1>2. Max({0, n}) \in {0, n} /\ \A y \in {0, n} : Max({0, n}) >= y
  BY <1>1 DEF Max
<1> QED
  BY <1>2

LEMMA TotalIsSpan ==
  ASSUME NEW s, SessionsOK(s), Ended(s) # {}
  PROVE  /\ Span(s) \in Int
         /\ Total(s) = IF Span(s) >= 0 THEN Span(s) ELSE 0
<1>1. Span(s) \in Int
  BY StartsAndEnds DEF Span
<1>2. Total(s) = Max({0, Span(s)})
  BY DEF Total, Span, LastEnd, FirstStart
<1> QED
  BY <1>1, <1>2, NeverBelowZero

(* What a set of ended sessions took fits between any two readings around  *)
(* them all.                                                               *)
FitBetween(s, T) ==
  \A lo, hi \in Int :
    lo <= hi /\ (\A i \in T : lo <= s[i].start /\ s[i].end <= hi)
    => SumOf(Took(s), T) <= hi - lo

(* Any session of the set parts the others in those before and after it.   *)
LEMMA PartsFit ==
  ASSUME NEW s, SessionsOK(s), OneAtATime(s), NEW T \in SUBSET Ended(s), NEW x \in T,
         \A U \in SUBSET (T \ {x}) : FitBetween(s, U)
  PROVE  FitBetween(s, T)
<1> DEFINE before == {i \in T \ {x} : s[i].end <= s[x].start}
           after == (T \ {x}) \ before
<1>1. /\ \A i \in T : s[i].start \in Int /\ s[i].end \in Int
      /\ Took(s)[x] = s[x].end - s[x].start
      /\ s[x].start <= s[x].end
      /\ \A i \in after : s[x].end <= s[i].start
  BY SessionTypes DEF OneAtATime, Took
<1>2. /\ IsFiniteSet(T) /\ IsFiniteSet(before) /\ IsFiniteSet(after)
      /\ Summable(Took(s), T) /\ Summable(Took(s), before \cup after)
      /\ Summable(Took(s), before) /\ Summable(Took(s), after)
  BY SessionTypes, FS_Subset DEF Summable
<1>3. before \cup after = T \ {x} /\ before \cap after = {}
  OBVIOUS
<1>4. before \in SUBSET (T \ {x}) /\ after \in SUBSET (T \ {x})
  OBVIOUS
<1>5. \A i \in before : i \in T /\ s[i].end <= s[x].start
  OBVIOUS
<1>6. \A i \in after : i \in T
  OBVIOUS
<1> HIDE DEF before, after
<1>7. SumOf(Took(s), before) \in Int /\ SumOf(Took(s), after) \in Int
  BY <1>2, SumOfType
<1>8. SumOf(Took(s), T)
        = (s[x].end - s[x].start) + (SumOf(Took(s), before) + SumOf(Took(s), after))
  <2>1. SumOf(Took(s), T) = Took(s)[x] + SumOf(Took(s), T \ {x})
    BY <1>2, SumOfWithout
  <2>2. SumOf(Took(s), before \cup after) = SumOf(Took(s), before) + SumOf(Took(s), after)
    BY <1>2, <1>3, SumOfUnion
  <2> QED
    BY <1>1, <1>3, <2>1, <2>2
<1>9. ASSUME NEW lo \in Int, NEW hi \in Int,
             \A i \in T : lo <= s[i].start /\ s[i].end <= hi
      PROVE  SumOf(Took(s), T) <= hi - lo
  <2>1. s[x].start \in Int /\ s[x].end \in Int /\ lo <= s[x].start /\ s[x].end <= hi
    BY <1>1, <1>9
  <2>2. SumOf(Took(s), before) <= s[x].start - lo
    BY <1>4, <1>5, <1>9, <2>1 DEF FitBetween
  <2>3. SumOf(Took(s), after) <= hi - s[x].end
    BY <1>1, <1>4, <1>6, <1>9, <2>1 DEF FitBetween
  <2> QED
    BY <1>7, <1>8, <2>1, <2>2, <2>3
<1> QED
  BY <1>9 DEF FitBetween

LEMMA AllFit ==
  ASSUME NEW s, SessionsOK(s), OneAtATime(s)
  PROVE  FitBetween(s, Ended(s))
<1> DEFINE K == {n \in Nat : \A T \in SUBSET Ended(s) : Cardinality(T) <= n => FitBetween(s, T)}
<1>1. /\ IsFiniteSet(Ended(s)) /\ Cardinality(Ended(s)) \in Nat
      /\ \A T \in SUBSET Ended(s) : IsFiniteSet(T) /\ Cardinality(T) \in Nat
  BY SessionTypes, FS_Subset, FS_CardinalityType
<1>2. FitBetween(s, {})
  BY SumOfEmpty DEF FitBetween
<1>3. 0 \in K
  <2>1. \A T \in SUBSET Ended(s) : Cardinality(T) <= 0 => T = {}
    BY <1>1, FS_EmptySet
  <2> QED
    BY <1>2, <2>1
<1>4. ASSUME NEW n \in 0..(Cardinality(Ended(s)) - 1), n \in K
      PROVE  n + 1 \in K
  <2>1. ASSUME NEW T \in SUBSET Ended(s), Cardinality(T) <= n + 1
        PROVE  FitBetween(s, T)
    <3>1. CASE T = {}
      BY <1>2, <3>1
    <3>2. CASE T # {}
      <4>1. PICK x \in T : TRUE
        BY <3>2
      <4>2. Cardinality(T \ {x}) = Cardinality(T) - 1
        BY <1>1, FS_RemoveElement
      <4>3. ASSUME NEW U \in SUBSET (T \ {x})
            PROVE  FitBetween(s, U)
        <5>1. IsFiniteSet(T \ {x}) /\ U \subseteq T \ {x}
          BY <1>1, FS_Subset
        <5>2. Cardinality(U) <= Cardinality(T \ {x})
          BY <5>1, FS_Subset
        <5>3. U \in SUBSET Ended(s) /\ Cardinality(U) <= n
          BY <1>1, <2>1, <4>2, <5>2
        <5> QED
          BY <1>4, <5>3
      <4> QED
        BY <4>1, <4>3, PartsFit
    <3> QED
      BY <3>1, <3>2
  <2> QED
    BY <1>4, <2>1
<1>5. Cardinality(Ended(s)) \in K
  <2> HIDE DEF K
  <2> QED
    BY <1>1, <1>3, <1>4, CountingUp
<1> QED
  BY <1>1, <1>5

LEMMA AllOfThem ==
  ASSUME NEW s, SessionsOK(s)
  PROVE  Upto(s, Len(s)) = Ended(s) /\ TookUpto(s, Len(s)) = Sum(s)
<1>1. Upto(s, Len(s)) = Ended(s)
  BY SessionTypes DEF Upto
<1> QED
  BY <1>1, SumIsTook DEF TookUpto

(* The total of meterhistory_total_energy_mwh, of any number of sessions   *)
(* of which no two ran at once, in any order, is at least what those took  *)
(* that ended.                                                             *)
THEOREM TotalIsEnough ==
  ASSUME NEW s, SessionsOK(s), OneAtATime(s)
  PROVE  Total(s) >= Sum(s)
<1>1. CASE Ended(s) = {}
  <2>1. Sum(s) = 0
    BY <1>1, SumIsTook, SumOfEmpty
  <2>2. Total(s) = 0
    BY <1>1 DEF Total
  <2> QED
    BY <2>1, <2>2
<1>2. CASE Ended(s) # {}
  <2>1. /\ LastEnd(s) \in Int /\ FirstStart(s) \in Int
        /\ \A i \in Ended(s) : FirstStart(s) <= s[i].start /\ s[i].end <= LastEnd(s)
    BY <1>2, StartsAndEnds, SessionTypes
  <2>2. FirstStart(s) <= LastEnd(s)
    <3>1. PICK i \in Ended(s) : TRUE
      BY <1>2
    <3>2. s[i].start \in Int /\ s[i].end \in Int /\ s[i].start <= s[i].end
      BY SessionTypes DEF OneAtATime
    <3> QED
      BY <2>1, <3>1, <3>2
  <2>3. SumOf(Took(s), Ended(s)) <= LastEnd(s) - FirstStart(s)
    BY <2>1, <2>2, AllFit DEF FitBetween
  <2>4. Sum(s) \in Int /\ Sum(s) <= Span(s)
    BY <2>3, SumIsTook DEF Span
  <2>5. Span(s) \in Int /\ Total(s) = IF Span(s) >= 0 THEN Span(s) ELSE 0
    BY <1>2, TotalIsSpan
  <2> HIDE DEF Span
  <2> QED
    BY <2>4, <2>5
<1> QED
  BY <1>1, <1>2

(* Without gaps it is just what they took: the meter goes up from the      *)
(* first start to the last end.                                            *)
Telescoped(s, k) ==
  /\ TookUpto(s, k) = s[k].end - s[1].start
  /\ \A i \in 1..k : s[i].end <= s[k].end /\ s[1].start <= s[i].start

LEMMA NextTelescoped ==
  ASSUME NEW s, SessionsOK(s), OneAtATime(s), Gapless(s),
         NEW k \in 1..(Len(s) - 1), Telescoped(s, k)
  PROVE  Telescoped(s, k + 1)
<1>1. /\ Len(s) \in Nat /\ DOMAIN s = 1..Len(s) /\ Ended(s) = DOMAIN s
      /\ \A i \in DOMAIN s : s[i].start \in Int /\ s[i].end \in Int
  BY SessionTypes DEF Gapless
<1>2. /\ 1 \in DOMAIN s /\ k \in DOMAIN s /\ k + 1 \in DOMAIN s
      /\ k \in 0..(Len(s) - 1) /\ 1..k \subseteq DOMAIN s
  BY <1>1
<1>3. s[k].end = s[k + 1].start
  <2>1. k + 1 \in DOMAIN s \ {1} /\ (k + 1) - 1 = k
    BY <1>2
  <2> QED
    BY <2>1 DEF Gapless
<1>4. s[k + 1].start <= s[k + 1].end
  BY <1>1, <1>2 DEF OneAtATime
<1>5. TookUpto(s, k + 1) = (s[k + 1].end - s[k + 1].start) + TookUpto(s, k)
  BY <1>1, <1>2, UptoNext
<1>6. TookUpto(s, k) = s[k].end - s[1].start
  BY DEF Telescoped
<1>7. /\ s[1].start \in Int /\ s[k].end \in Int
      /\ s[k + 1].start \in Int /\ s[k + 1].end \in Int
  BY <1>1, <1>2
<1>8. TookUpto(s, k + 1) = s[k + 1].end - s[1].start
  BY <1>3, <1>5, <1>6, <1>7
<1>9. s[k].end <= s[k + 1].end
  BY <1>3, <1>4
<1>10. s[1].start <= s[k + 1].start
  <2>1. k \in 1..k
    OBVIOUS
  <2>2. s[1].start <= s[k].start /\ s[k].start \in Int
    BY <1>1, <1>2, <2>1 DEF Telescoped
  <2>3. s[k].start <= s[k].end
    BY <1>1, <1>2 DEF OneAtATime
  <2> QED
    BY <2>2, <2>3, <1>3, <1>7
<1>11. ASSUME NEW i \in 1..(k + 1)
       PROVE  s[i].end <= s[k + 1].end /\ s[1].start <= s[i].start
  <2>1. CASE i = k + 1
    <3>1. s[k + 1].end <= s[k + 1].end
      BY <1>7
    <3> QED
      BY <3>1, <2>1, <1>10
  <2>2. CASE i # k + 1
    <3>1. i \in 1..k
      BY <2>2
    <3>2. s[i].end <= s[k].end /\ s[1].start <= s[i].start
      BY <3>1 DEF Telescoped
    <3>3. s[i].end \in Int
      BY <3>1, <1>1, <1>2
    <3>4. s[i].end <= s[k + 1].end
      BY <3>2, <3>3, <1>7, <1>9
    <3> QED
      BY <3>2, <3>4
  <2> QED
    BY <2>1, <2>2
<1> QED
  BY <1>8, <1>11 DEF Telescoped

LEMMA AllTelescoped ==
  ASSUME NEW s, SessionsOK(s), OneAtATime(s), Gapless(s), Len(s) # 0
  PROVE  Telescoped(s, Len(s))
<1> DEFINE K == {k \in 0..Len(s) : k = 0 \/ Telescoped(s, k)}
<1>1. Len(s) \in Nat /\ 1 \in DOMAIN s
  BY SessionTypes
<1>2. Telescoped(s, 1)
  <2>1. TookUpto(s, 1) = s[1].end - s[1].start
    <3>1. Upto(s, 0) = {} /\ TookUpto(s, 0) = 0
      BY SumOfEmpty DEF Upto, TookUpto
    <3>2. 0 \in 0..(Len(s) - 1) /\ 0 + 1 = 1 /\ 1 \in Ended(s)
      BY <1>1 DEF Gapless
    <3>3. TookUpto(s, 1) = (s[1].end - s[1].start) + TookUpto(s, 0)
      BY <3>2, UptoNext
    <3>4. s[1].end \in Int /\ s[1].start \in Int
      BY <1>1, <3>2, SessionTypes
    <3> QED
      BY <3>1, <3>3, <3>4
  <2>2. s[1].end \in Int /\ s[1].start \in Int
    BY <1>1, SessionTypes DEF Gapless
  <2>3. \A i \in 1..1 : i = 1
    OBVIOUS
  <2> QED
    BY <2>1, <2>2, <2>3 DEF Telescoped
<1>3. ASSUME NEW k \in 0..(Len(s) - 1), k \in K
      PROVE  k + 1 \in K
  <2>1. CASE k = 0
    BY <2>1, <1>1, <1>2
  <2>2. CASE k # 0
    <3>1. k \in 1..(Len(s) - 1) /\ Telescoped(s, k)
      BY <1>3, <2>2
    <3>2. Telescoped(s, k + 1)
      BY <3>1, NextTelescoped
    <3> QED
      BY <3>2, <1>1
  <2> QED
    BY <2>1, <2>2
<1>4. Len(s) \in K
  <2>1. 0 \in K
    BY <1>1
  <2> HIDE DEF K
  <2> QED
    BY <1>1, <1>3, <2>1, CountingUp
<1> QED
  BY <1>4

(* Of sessions one after the other that all ended, with nothing drawn in   *)
(* between, the total of meterhistory_total_energy_mwh is what they took.  *)
THEOREM TotalIsExact ==
  ASSUME NEW s, SessionsOK(s), OneAtATime(s), Gapless(s), s # <<>>
  PROVE  Total(s) = Sum(s)
<1> DEFINE n == Len(s)
<1>1. /\ n \in Nat /\ DOMAIN s = 1..n /\ Ended(s) = DOMAIN s
      /\ \A i \in DOMAIN s : s[i].start \in Int /\ s[i].end \in Int
  BY SessionTypes DEF Gapless
<1>2. n # 0
  BY DEF SessionsOK
<1>3. 1 \in DOMAIN s /\ n \in DOMAIN s /\ Ended(s) # {}
  BY <1>1, <1>2
<1>4. /\ TookUpto(s, n) = s[n].end - s[1].start
      /\ \A i \in DOMAIN s : s[i].end <= s[n].end /\ s[1].start <= s[i].start
  BY <1>1, <1>2, AllTelescoped DEF Telescoped
<1>5. Sum(s) = s[n].end - s[1].start
  BY <1>4, AllOfThem
<1>6. LastEnd(s) = s[n].end
  <2>1. PICK i \in Ended(s) : LastEnd(s) = s[i].end
    BY <1>3, StartsAndEnds
  <2>2. s[n].end <= LastEnd(s)
    BY <1>1, <1>3, StartsAndEnds
  <2>3. LastEnd(s) <= s[n].end
    BY <1>1, <1>4, <2>1
  <2>4. LastEnd(s) \in Int /\ s[n].end \in Int
    BY <1>1, <1>3, StartsAndEnds
  <2> QED
    BY <2>2, <2>3, <2>4
<1>7. FirstStart(s) = s[1].start
  <2>1. PICK i \in DOMAIN s : FirstStart(s) = s[i].start
    BY <1>3, StartsAndEnds
  <2>2. FirstStart(s) <= s[1].start
    BY <1>3, StartsAndEnds
  <2>3. s[1].start <= FirstStart(s)
    BY <1>4, <2>1
  <2>4. FirstStart(s) \in Int /\ s[1].start \in Int
    BY <1>1, <1>3, StartsAndEnds
  <2> QED
    BY <2>2, <2>3, <2>4
<1>8. s[1].start <= s[n].end
  <2>1. s[1].start <= s[n].start /\ s[n].start <= s[n].end
    BY <1>1, <1>3, <1>4 DEF OneAtATime
  <2> QED
    BY <2>1, <1>1, <1>3
<1>9. Span(s) = s[n].end - s[1].start
  BY <1>6, <1>7 DEF Span
<1>10. s[1].start \in Int /\ s[n].end \in Int
  BY <1>1, <1>3
<1>11. Span(s) >= 0
  BY <1>8, <1>9, <1>10
<1> QED
  BY <1>3, <1>5, <1>9, <1>11, TotalIsSpan

----------------------------------------------------------------------------
(* The rows.                                                               *)

(* The sums of ReportAddsUp are sums of the rows' columns.                 *)
LEMMA CountColumn ==
  ASSUME NEW rows, NEW S, IsFiniteSet(S)
  PROVE  MapThenSumSet(LAMBDA t : rows[t].count, S)
           = SumOf([t \in S |-> rows[t].count], S)
<1> DEFINE column == [t \in S |-> rows[t].count]
           Same(g) ==
             g = [T \in SUBSET S |->
                    IF T = {} THEN 0 ELSE rows[First(T)].count + g[Rest(T)]]
           it == CHOOSE g : Same(g)
<1>1. MapThenSumSet(LAMBDA t : rows[t].count, S) = it[S]
  BY DEF MapThenSumSet, MapThenFoldSet, First, Rest
<1>2. ASSUME NEW T \in SUBSET S, T # {}
      PROVE  rows[First(T)].count = column[First(T)]
  <2>1. First(T) \in S
    BY <1>2, FS_Subset, FirstRest
  <2> QED
    BY <2>1
<1>3. ASSUME NEW g
      PROVE  Same(g) <=> Adds(g, column, S)
  <2> HIDE DEF column
  <2> QED
    BY <1>2 DEF Adds
<1>4. \E g : Same(g)
  <2>1. PICK g : Adds(g, column, S)
    BY AddsExists
  <2>2. Same(g)
    BY <2>1, <1>3
  <2> HIDE DEF Same
  <2> QED
    BY <2>2
<1>5. Same(it)
  <2> HIDE DEF Same
  <2> QED
    BY <1>4
<1>6. Adds(it, column, S)
  <2> HIDE DEF it, Same, column
  <2> QED
    BY <1>3, <1>5
<1> HIDE DEF it
<1> QED
  BY <1>1, <1>6, SumOfAdds

LEMMA EnergyColumn ==
  ASSUME NEW rows, NEW S, IsFiniteSet(S)
  PROVE  MapThenSumSet(LAMBDA t : rows[t].energy, S)
           = SumOf([t \in S |-> rows[t].energy], S)
<1> DEFINE column == [t \in S |-> rows[t].energy]
           Same(g) ==
             g = [T \in SUBSET S |->
                    IF T = {} THEN 0 ELSE rows[First(T)].energy + g[Rest(T)]]
           it == CHOOSE g : Same(g)
<1>1. MapThenSumSet(LAMBDA t : rows[t].energy, S) = it[S]
  BY DEF MapThenSumSet, MapThenFoldSet, First, Rest
<1>2. ASSUME NEW T \in SUBSET S, T # {}
      PROVE  rows[First(T)].energy = column[First(T)]
  <2>1. First(T) \in S
    BY <1>2, FS_Subset, FirstRest
  <2> QED
    BY <2>1
<1>3. ASSUME NEW g
      PROVE  Same(g) <=> Adds(g, column, S)
  <2> HIDE DEF column
  <2> QED
    BY <1>2 DEF Adds
<1>4. \E g : Same(g)
  <2>1. PICK g : Adds(g, column, S)
    BY AddsExists
  <2>2. Same(g)
    BY <2>1, <1>3
  <2> HIDE DEF Same
  <2> QED
    BY <2>2
<1>5. Same(it)
  <2> HIDE DEF Same
  <2> QED
    BY <1>4
<1>6. Adds(it, column, S)
  <2> HIDE DEF it, Same, column
  <2> QED
    BY <1>3, <1>5
<1> HIDE DEF it
<1> QED
  BY <1>1, <1>6, SumOfAdds

(* The sessions of each token. *)
Own(s) == [t \in Tokens(s) |-> {i \in DOMAIN s : s[i].token = t}]

LEMMA OwnSessions ==
  ASSUME NEW s, SessionsOK(s)
  PROVE  /\ IsFiniteSet(Tokens(s))
         /\ \A t \in Tokens(s) : Own(s)[t] \subseteq DOMAIN s /\ IsFiniteSet(Own(s)[t])
         /\ \A t, u \in Tokens(s) : t # u => Own(s)[t] \cap Own(s)[u] = {}
         /\ UNION {Own(s)[t] : t \in Tokens(s)} = DOMAIN s
<1>1. IsFiniteSet(Tokens(s))
  <2> DEFINE f == [i \in DOMAIN s |-> s[i].token]
  <2>1. f \in Surjection(DOMAIN s, Tokens(s))
    BY DEF Surjection, Tokens
  <2> HIDE DEF f
  <2> QED
    BY <2>1, SessionTypes, FS_Surjection
<1>2. \A t \in Tokens(s) : Own(s)[t] = {i \in DOMAIN s : s[i].token = t}
  BY DEF Own
<1>3. \A t \in Tokens(s) : Own(s)[t] \subseteq DOMAIN s
  BY <1>2
<1>4. \A t \in Tokens(s) : IsFiniteSet(Own(s)[t])
  BY <1>3, SessionTypes, FS_Subset
<1>5. \A i \in DOMAIN s : i \in Own(s)[s[i].token] /\ s[i].token \in Tokens(s)
  BY <1>2 DEF Tokens
<1>6. UNION {Own(s)[t] : t \in Tokens(s)} = DOMAIN s
  BY <1>3, <1>5
<1>7. \A t, u \in Tokens(s) : t # u => Own(s)[t] \cap Own(s)[u] = {}
  BY <1>2
<1> QED
  BY <1>1, <1>3, <1>4, <1>6, <1>7

(* What ReportAddsUp says of the rows of the table, and of the file.       *)
TableRight(rows, s) ==
  /\ MapThenSumSet(LAMBDA t : rows[t].count, DOMAIN rows) = Len(s)
  /\ MapThenSumSet(LAMBDA t : rows[t].energy, DOMAIN rows) = Sum(s)

FileRight(rows, h) ==
  /\ DOMAIN rows = DOMAIN h.sessions
  /\ MapThenSumSet(LAMBDA i : rows[i].energy, Ended(h.sessions)) = Sum(h.sessions)
  /\ {i \in DOMAIN rows : rows[i].fail} =
       {i \in DOMAIN h.sessions \cap DOMAIN h.corrupted : h.corrupted[i]}

(* The table by token (meterhistory_aggregate_by_auth_token) counts every  *)
(* session once, and every energy.                                         *)
THEOREM TableAddsUp ==
  ASSUME NEW s, SessionsOK(s)
  PROVE  TableRight(Aggregate(s), s)
<1> DEFINE rows == Aggregate(s)
           N == Tokens(s)
           ended == [t \in N |-> Own(s)[t] \cap Ended(s)]
           counts == [t \in N |-> rows[t].count]
           energies == [t \in N |-> rows[t].energy]
           ones == [i \in DOMAIN s |-> 1]
<1>1. /\ DOMAIN rows = N
      /\ \A t \in N : /\ rows[t].count = Cardinality(Own(s)[t])
                      /\ rows[t].energy =
                           MapThenSumSet(LAMBDA i : s[i].end - s[i].start,
                                         Own(s)[t] \cap Ended(s))
  BY DEF Aggregate, Own
<1>2. /\ IsFiniteSet(N) /\ IsFiniteSet(DOMAIN s) /\ IsFiniteSet(Ended(s))
      /\ Summable(Took(s), Ended(s)) /\ Ended(s) \subseteq DOMAIN s
  BY SessionTypes, OwnSessions
<1>3. \A t \in N : IsFiniteSet(ended[t]) /\ ended[t] \subseteq Ended(s)
  BY <1>2, FS_Subset
<1>4. \A t, u \in N : t # u => ended[t] \cap ended[u] = {}
  BY OwnSessions
<1>5. UNION {ended[t] : t \in N} = Ended(s)
  <2>1. UNION {Own(s)[t] : t \in N} = DOMAIN s
    BY OwnSessions
  <2> QED
    BY <2>1, <1>2
<1>6. \A t \in N : energies[t] = SumOf(Took(s), ended[t])
  <2>1. \A t \in N : MapThenSumSet(LAMBDA i : s[i].end - s[i].start, ended[t])
                       = SumOf(Took(s), ended[t])
    BY <1>3, TookAdds
  <2> QED
    BY <1>1, <2>1
<1>7. SumOf(energies, N) = SumOf(Took(s), Ended(s))
  <2> HIDE DEF ended, energies, N
  <2> QED
    BY <1>2, <1>3, <1>4, <1>5, <1>6, SumOfParts
<1>8. \A t \in N : counts[t] = SumOf(ones, Own(s)[t])
  <2>1. \A t \in N : SumOf(ones, Own(s)[t]) = Cardinality(Own(s)[t])
    BY OwnSessions, SumOfOnes
  <2> QED
    BY <1>1, <2>1
<1>9. Summable(ones, DOMAIN s)
  BY DEF Summable
<1>10. SumOf(counts, N) = SumOf(ones, DOMAIN s)
  <2> DEFINE own == Own(s)
  <2>1. /\ \A t \in N : IsFiniteSet(own[t])
        /\ \A t, u \in N : t # u => own[t] \cap own[u] = {}
        /\ UNION {own[t] : t \in N} = DOMAIN s
    BY OwnSessions
  <2>2. \A t \in N : counts[t] = SumOf(ones, own[t])
    BY <1>8
  <2> HIDE DEF ones, counts, N, own
  <2> QED
    BY <1>2, <1>9, <2>1, <2>2, SumOfParts
<1>11. SumOf(ones, DOMAIN s) = Len(s)
  <2>1. SumOf(ones, DOMAIN s) = Cardinality(DOMAIN s)
    BY <1>2, SumOfOnes
  <2>2. Len(s) \in Nat /\ DOMAIN s = 1..Len(s)
    BY SessionTypes
  <2>3. Cardinality(1..Len(s)) = IF 1 > Len(s) THEN 0 ELSE Len(s) - 1 + 1
    BY <2>2, FS_Interval
  <2> QED
    BY <2>1, <2>2, <2>3
<1>12. MapThenSumSet(LAMBDA t : rows[t].count, N) = SumOf(counts, N)
  <2> HIDE DEF rows, N
  <2> QED
    BY <1>2, CountColumn
<1>13. MapThenSumSet(LAMBDA t : rows[t].energy, N) = SumOf(energies, N)
  <2> HIDE DEF rows, N
  <2> QED
    BY <1>2, EnergyColumn
<1>14. Sum(s) = SumOf(Took(s), Ended(s))
  BY SumIsTook
<1>15. /\ MapThenSumSet(LAMBDA t : rows[t].count, DOMAIN rows) = Len(s)
       /\ MapThenSumSet(LAMBDA t : rows[t].energy, DOMAIN rows) = Sum(s)
  <2> HIDE DEF N, counts, energies, ones, rows
  <2> QED
    BY <1>1, <1>7, <1>10, <1>11, <1>12, <1>13, <1>14
<1> QED
  BY <1>15 DEF TableRight

(* So does the file (meterhistory_session_row), and it marks the sessions  *)
(* that were flagged.                                                      *)
THEOREM FileAddsUp ==
  ASSUME NEW h, HistoryOK(h)
  PROVE  FileRight(Csv(h).rows, h)
<1> DEFINE rows == Csv(h).rows
           s == h.sessions
           S == Ended(h.sessions)
           energies == [i \in S |-> rows[i].energy]
<1>1. rows = [i \in DOMAIN s |-> Row(h, i)]
  BY DEF Csv
<1>2. SessionsOK(s) /\ h.corrupted \in Seq(BOOLEAN)
  BY DEF HistoryOK
<1>3. /\ IsFiniteSet(S) /\ S \subseteq DOMAIN s
      /\ Len(s) \in Nat /\ DOMAIN s = 1..Len(s)
  BY <1>2, SessionTypes
<1>4. \A i \in S : energies[i] = Took(s)[i]
  BY <1>1, <1>3 DEF Row, Took, Ended
<1>5. SumOf(energies, S) = SumOf(Took(s), S)
  <2> HIDE DEF energies, S
  <2> QED
    BY <1>3, <1>4, SumOfSame
<1>6. MapThenSumSet(LAMBDA i : rows[i].energy, S) = SumOf(energies, S)
  <2> HIDE DEF rows, S
  <2> QED
    BY <1>3, EnergyColumn
<1>7. Sum(s) = SumOf(Took(s), S)
  BY <1>2, SumIsTook
<1>8. Len(h.corrupted) \in Nat /\ DOMAIN h.corrupted = 1..Len(h.corrupted)
  BY <1>2
<1>9. \A i \in DOMAIN s : rows[i].fail = (i <= Len(h.corrupted) /\ h.corrupted[i])
  BY <1>1 DEF Row
<1>10. {i \in DOMAIN rows : rows[i].fail} =
         {i \in DOMAIN s \cap DOMAIN h.corrupted : h.corrupted[i]}
  <2>1. \A i \in DOMAIN s : i <= Len(h.corrupted) <=> i \in DOMAIN h.corrupted
    BY <1>3, <1>8
  <2>2. DOMAIN rows = DOMAIN s
    BY <1>1
  <2> HIDE DEF rows
  <2> QED
    BY <1>9, <2>1, <2>2
<1>11. DOMAIN rows = DOMAIN s
  BY <1>1
<1> HIDE DEF rows
<1>12. FileRight(rows, h)
  BY <1>5, <1>6, <1>7, <1>10, <1>11 DEF FileRight
<1> QED
  BY <1>12 DEF rows
=============================================================================
