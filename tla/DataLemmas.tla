----------------------------- MODULE DataLemmas -----------------------------
(***************************************************************************)
(* Facts about the data the models are made of: least numbers and least    *)
(* sets, which stand in for induction, sums over finite sets               *)
(* (SumFunctionOnSet of module Functions) and Selected.                    *)
(***************************************************************************)
EXTENDS Selection, Functions, FiniteSetTheorems, SequenceTheorems, WellFoundedInduction, TLAPS

(* A set of numbers that is not empty has a least one.                     *)
LEMMA LeastNumber ==
    ASSUME NEW T \in SUBSET Nat, T # {}
    PROVE  \E m \in T : \A n \in T : m <= n
<1> DEFINE R == OpToRel(<, Nat)
<1>1. PICK m \in T : \A n \in T : ~(<<n, m>> \in R)
  <2>1. IsWellFoundedOn(R, Nat)
    BY NatLessThanWellFounded
  <2> HIDE DEF R
  <2> QED
    BY <2>1, WFMin
<1>2. ASSUME NEW n \in T, n < m
      PROVE  <<n, m>> \in R
  BY <1>2 DEF OpToRel
<1> HIDE DEF R
<1>3. \A n \in T : ~(n < m)
  BY <1>1, <1>2
<1>4. \A n \in T : m <= n
  BY <1>3
<1> QED
  BY <1>4

(* A collection of finite sets that is not empty has one with no proper    *)
(* subset in it.                                                           *)
LEMMA LeastSet ==
    ASSUME NEW S, IsFiniteSet(S), NEW B \in SUBSET (SUBSET S), B # {}
    PROVE  \E T \in B : IsFiniteSet(T) /\ \A U \in SUBSET T : U # T => U \notin B
<1> DEFINE Sizes == {Cardinality(T) : T \in B}
<1>1. \A T \in B : IsFiniteSet(T) /\ Cardinality(T) \in Nat
  BY FS_Subset, FS_CardinalityType
<1>2. Sizes \in SUBSET Nat /\ Sizes # {}
  BY <1>1
<1>3. PICK n \in Sizes : \A k \in Sizes : n <= k
  <2> HIDE DEF Sizes
  <2> QED
    BY <1>2, LeastNumber
<1>4. PICK T \in B : n = Cardinality(T)
  OBVIOUS
<1>5. ASSUME NEW U \in SUBSET T, U # T, U \in B
      PROVE  FALSE
  <2>1. Cardinality(U) < Cardinality(T)
    BY <1>1, <1>5, FS_Subset
  <2>2. Cardinality(T) <= Cardinality(U)
    BY <1>3, <1>4, <1>5
  <2> QED
    BY <1>1, <1>5, <2>1, <2>2
<1> QED
  BY <1>1, <1>5
-----------------------------------------------------------------------------
(* SumFunctionOnSet takes the element to add next with CHOOSE; IsSum is    *)
(* the equation of its local function.                                     *)
NextOf(s) == CHOOSE x \in s : TRUE

IsSum(f, S, g) ==
    g = [s \in SUBSET S |-> IF s = {} THEN 0 ELSE f[NextOf(s)] + g[s \ {NextOf(s)}]]

(* The sum is the value of the function the fold chooses.                  *)
LEMMA SumIsChosen ==
    ASSUME NEW f, NEW S
    PROVE  SumFunctionOnSet(f, S) = (CHOOSE g : IsSum(f, S, g))[S]
BY DEF SumFunctionOnSet, FoldFunctionOnSet, MapThenFoldSet, IsSum, NextOf

(* The element a sum takes next is one of the set.                         *)
LEMMA NextIn ==
    ASSUME NEW s, s # {}
    PROVE  NextOf(s) \in s
BY DEF NextOf

(* The fold's equation has at most one solution: of two, look at a least   *)
(* set on which they differ.                                               *)
LEMMA SumUnique ==
    ASSUME NEW f, NEW S, IsFiniteSet(S), NEW g, NEW h, IsSum(f, S, g), IsSum(f, S, h)
    PROVE  g = h
<1> DEFINE B == {s \in SUBSET S : g[s] # h[s]}
<1>1. g = [s \in SUBSET S |-> g[s]] /\ h = [s \in SUBSET S |-> h[s]]
  BY DEF IsSum
<1>2. \A s \in SUBSET S :
          /\ g[s] = IF s = {} THEN 0 ELSE f[NextOf(s)] + g[s \ {NextOf(s)}]
          /\ h[s] = IF s = {} THEN 0 ELSE f[NextOf(s)] + h[s \ {NextOf(s)}]
  <2>1. ASSUME NEW s \in SUBSET S
        PROVE g[s] = IF s = {} THEN 0 ELSE f[NextOf(s)] + g[s \ {NextOf(s)}]
    BY Zenon DEF IsSum
  <2>2. ASSUME NEW s \in SUBSET S
        PROVE h[s] = IF s = {} THEN 0 ELSE f[NextOf(s)] + h[s \ {NextOf(s)}]
    BY Zenon DEF IsSum
  <2> QED BY <2>1, <2>2
<1>3. ASSUME B # {}
      PROVE  FALSE
  <2>1. PICK T \in B : \A U \in SUBSET T : U # T => U \notin B
    <3> HIDE DEF B
    <3>1. B \in SUBSET (SUBSET S)
      BY DEF B
    <3> QED
      BY <1>3, <3>1, LeastSet
  <2>2. T # {}
    BY <1>2
  <2>3. T \ {NextOf(T)} \in SUBSET T /\ T \ {NextOf(T)} # T
    BY <2>2, NextIn
  <2>4. g[T \ {NextOf(T)}] = h[T \ {NextOf(T)}]
    BY <2>1, <2>3
  <2> QED
    BY <1>2, <2>4
<1> QED
  BY <1>1, <1>3

(* The fold's equation has a solution: built up by the size of the sets.   *)
LEMMA SumExists ==
    ASSUME NEW f, NEW S, IsFiniteSet(S)
    PROVE  \E g : IsSum(f, S, g)
<1> DEFINE Eq(g, s) == g[s] = IF s = {} THEN 0 ELSE f[NextOf(s)] + g[s \ {NextOf(s)}]
           UpTo(n) == \E g : \A s \in SUBSET S : Cardinality(s) <= n => Eq(g, s)
           Bad == {n \in Nat : ~UpTo(n)}
<1>1. \A s \in SUBSET S : IsFiniteSet(s) /\ Cardinality(s) \in Nat
  BY FS_Subset, FS_CardinalityType
<1>2. ASSUME Bad # {}
      PROVE  FALSE
  <2>1. PICK n \in Bad : \A k \in Bad : n <= k
    <3> HIDE DEF UpTo
    <3>1. Bad \in SUBSET Nat
      OBVIOUS
    <3> HIDE DEF Bad
    <3> QED
      BY <1>2, <3>1, LeastNumber
  <2>2. n # 0
    <3>1. SUFFICES ASSUME n = 0
                   PROVE  UpTo(n)
      OBVIOUS
    <3> DEFINE zero == [s \in SUBSET S |-> 0]
    <3>2. \A s \in SUBSET S : Cardinality(s) <= n => Eq(zero, s)
      <4>1. \A s \in SUBSET S : Cardinality(s) <= n => s = {}
        BY <1>1, <3>1, FS_EmptySet
      <4> QED
        BY <4>1
    <3> QED
      BY <3>2
  <2>3. UpTo(n - 1)
    <3> HIDE DEF UpTo
    <3>1. n - 1 \in Nat /\ ~(n <= n - 1)
      BY <2>2
    <3> QED
      BY <2>1, <3>1
  <2>4. PICK g : \A s \in SUBSET S : Cardinality(s) <= n - 1 => Eq(g, s)
    BY <2>3
  <2> DEFINE h == [s \in SUBSET S |-> IF Cardinality(s) = n
                                      THEN f[NextOf(s)] + g[s \ {NextOf(s)}] ELSE g[s]]
  <2>5. ASSUME NEW s \in SUBSET S, Cardinality(s) <= n
        PROVE  Eq(h, s)
    <3> DEFINE r == s \ {NextOf(s)}
    <3>1. CASE s = {}
      <4>1. Cardinality(s) = 0
        BY <3>1, FS_EmptySet
      <4>2. h[s] = g[s] /\ Eq(g, s)
        BY <2>2, <2>4, <4>1
      <4> QED
        BY <3>1, <4>2
    <3>2. CASE s # {}
      <4>1. r \in SUBSET S /\ Cardinality(r) = Cardinality(s) - 1
        BY <1>1, <3>2, NextIn, FS_RemoveElement
      <4>2. Cardinality(r) # n /\ Cardinality(s) \in Nat
        BY <1>1, <2>5, <4>1
      <4>3. h[r] = g[r]
        BY <4>1, <4>2
      <4>4. h[s] = f[NextOf(s)] + g[r]
        <5>1. CASE Cardinality(s) = n
          BY <5>1
        <5>2. CASE Cardinality(s) # n
          <6>1. Eq(g, s)
            BY <2>4, <2>5, <4>2, <5>2
          <6> QED
            BY <3>2, <5>2, <6>1
        <5> QED
          BY <5>1, <5>2
      <4> HIDE DEF h
      <4> QED
        BY <3>2, <4>3, <4>4
    <3> QED
      BY <3>1, <3>2
  <2>6. UpTo(n)
    <3> HIDE DEF h, Eq
    <3> QED
      BY <2>5
  <2> HIDE DEF UpTo
  <2> QED
    BY <2>6
<1>3. PICK g : \A s \in SUBSET S : Eq(g, s)
  <2>1. Cardinality(S) \in Nat /\ UpTo(Cardinality(S))
    <3> HIDE DEF UpTo
    <3> QED
      BY <1>1, <1>2
  <2>2. \A s \in SUBSET S : Cardinality(s) <= Cardinality(S)
    BY FS_Subset
  <2> QED
    BY <2>1, <2>2
<1> DEFINE h == [s \in SUBSET S |-> g[s]]
<1>4. ASSUME NEW s \in SUBSET S
      PROVE  h[s] = IF s = {} THEN 0 ELSE f[NextOf(s)] + h[s \ {NextOf(s)}]
  BY <1>3
<1>5. IsSum(f, S, h)
  <2>1. h = [s \in SUBSET S |-> h[s]]
    OBVIOUS
  <2> HIDE DEF h
  <2> QED
    BY <1>4, <2>1 DEF IsSum
<1> QED
  BY <1>5

(* A sum unfolds once.                                                     *)
LEMMA SumStep ==
    ASSUME NEW f, NEW S, IsFiniteSet(S), S # {}
    PROVE  SumFunctionOnSet(f, S) =
               f[NextOf(S)] + SumFunctionOnSet(f, S \ {NextOf(S)})
<1> DEFINE T == S \ {NextOf(S)}
           g == CHOOSE x : IsSum(f, S, x)
           h == CHOOSE x : IsSum(f, T, x)
           r == [s \in SUBSET T |-> g[s]]
<1>1. IsFiniteSet(T) /\ T \in SUBSET S
  BY FS_Subset
<1>2. IsSum(f, S, g) /\ IsSum(f, T, h)
  BY <1>1, SumExists
<1>3. \A s \in SUBSET S : g[s] = IF s = {} THEN 0 ELSE f[NextOf(s)] + g[s \ {NextOf(s)}]
  <2> HIDE DEF g
  <2> QED
    BY <1>2, Zenon DEF IsSum
<1>4. IsSum(f, T, r)
  <2> HIDE DEF g
  <2>1. ASSUME NEW s \in SUBSET T
        PROVE  r[s] = IF s = {} THEN 0 ELSE f[NextOf(s)] + r[s \ {NextOf(s)}]
    BY <1>1, <1>3
  <2>2. r = [s \in SUBSET T |-> r[s]]
    OBVIOUS
  <2> HIDE DEF r
  <2> QED
    BY <2>1, <2>2 DEF IsSum
<1>5. h = r
  <2> HIDE DEF h, r, T
  <2> QED
    BY <1>1, <1>2, <1>4, SumUnique
<1>6. SumFunctionOnSet(f, S) = g[S] /\ SumFunctionOnSet(f, T) = h[T]
  BY SumIsChosen
<1> HIDE DEF h, g
<1>7. h[T] = g[T]
  BY <1>5
<1> QED
  BY <1>3, <1>6, <1>7

(* The sum over no element.                                                *)
LEMMA SumEmpty == \A f : SumFunctionOnSet(f, {}) = 0
<1> SUFFICES ASSUME NEW f
             PROVE  SumFunctionOnSet(f, {}) = 0
  OBVIOUS
<1> DEFINE g == CHOOSE x : IsSum(f, {}, x)
<1>1. IsSum(f, {}, g)
  BY SumExists, FS_EmptySet
<1>2. SumFunctionOnSet(f, {}) = g[{}]
  BY SumIsChosen
<1> HIDE DEF g
<1> QED
  BY <1>1, <1>2 DEF IsSum

(* A sum of integers is an integer.                                        *)
LEMMA SumInt ==
    ASSUME NEW f, NEW S, IsFiniteSet(S), \A x \in S : f[x] \in Int
    PROVE  SumFunctionOnSet(f, S) \in Int
<1> DEFINE B == {T \in SUBSET S : SumFunctionOnSet(f, T) \notin Int}
<1> SUFFICES ASSUME B # {}
             PROVE  FALSE
  OBVIOUS
<1>1. PICK T \in B : IsFiniteSet(T) /\ \A U \in SUBSET T : U # T => U \notin B
  <2>1. B \in SUBSET (SUBSET S)
    OBVIOUS
  <2> HIDE DEF B
  <2> QED
    BY <2>1, LeastSet
<1> DEFINE x == NextOf(T)
<1>2. T # {} /\ x \in T /\ x \in S
  BY SumEmpty, NextIn
<1>3. SumFunctionOnSet(f, T) = f[x] + SumFunctionOnSet(f, T \ {x})
  BY <1>1, <1>2, SumStep
<1>4. T \ {x} \notin B
  BY <1>1, <1>2
<1>5. SumFunctionOnSet(f, T \ {x}) \in Int
  BY <1>4
<1> QED
  BY <1>2, <1>3, <1>5

(* Any element may be taken out of a sum first.                            *)
LEMMA SumRemove ==
    ASSUME NEW f, NEW S, IsFiniteSet(S), \A y \in S : f[y] \in Int, NEW x \in S
    PROVE  SumFunctionOnSet(f, S) = f[x] + SumFunctionOnSet(f, S \ {x})
<1> DEFINE Sum(T) == SumFunctionOnSet(f, T)
           B == {T \in SUBSET S : \E y \in T : Sum(T) # f[y] + Sum(T \ {y})}
<1> SUFFICES ASSUME B # {}
             PROVE  FALSE
  OBVIOUS
<1>1. PICK T \in B : IsFiniteSet(T) /\ \A U \in SUBSET T : U # T => U \notin B
  <2>1. B \in SUBSET (SUBSET S)
    OBVIOUS
  <2> HIDE DEF B
  <2> QED
    BY <2>1, LeastSet
<1>2. PICK y \in T : Sum(T) # f[y] + Sum(T \ {y})
  OBVIOUS
<1> DEFINE c == NextOf(T)
<1>3. T \in SUBSET S /\ c \in T /\ c # y
  <2>1. c \in T
    BY NextIn
  <2>2. Sum(T) = f[c] + Sum(T \ {c})
    BY <1>1, SumStep
  <2> QED
    BY <1>2, <2>1, <2>2
<1>4. Sum(T \ {c}) = f[y] + Sum((T \ {c}) \ {y})
  <2>1. T \ {c} \notin B
    BY <1>1, <1>3
  <2> QED
    BY <1>2, <1>3, <2>1
<1>5. Sum(T \ {y}) = f[c] + Sum((T \ {y}) \ {c})
  <2>1. T \ {y} \notin B
    BY <1>1, <1>2
  <2> QED
    BY <1>2, <1>3, <2>1
<1>6. (T \ {c}) \ {y} = (T \ {y}) \ {c}
  OBVIOUS
<1>7. Sum(T) = f[c] + Sum(T \ {c})
  BY <1>1, <1>3, SumStep
<1>8. f[c] \in Int /\ f[y] \in Int /\ Sum((T \ {y}) \ {c}) \in Int
  <2>1. IsFiniteSet((T \ {y}) \ {c})
    BY <1>1, FS_Subset
  <2> QED
    BY <1>2, <1>3, <2>1, SumInt
<1>9. Sum(T \ {c}) = f[y] + Sum((T \ {y}) \ {c})
  BY <1>4, <1>6, Zenon
<1> QED
  <2> DEFINE r == Sum((T \ {y}) \ {c})
             p == Sum(T \ {c})
             q == Sum(T \ {y})
  <2>1. /\ Sum(T) # f[y] + q /\ Sum(T) = f[c] + p
        /\ p = f[y] + r /\ q = f[c] + r
        /\ f[c] \in Int /\ f[y] \in Int /\ r \in Int
    BY <1>2, <1>5, <1>7, <1>8, <1>9
  <2> HIDE DEF r, p, q, Sum, c
  <2> QED
    BY <2>1

(* One element more adds its value.                                        *)
LEMMA SumAdd ==
    ASSUME NEW f, NEW S, IsFiniteSet(S), NEW x, x \notin S, \A y \in S \cup {x} : f[y] \in Int
    PROVE  SumFunctionOnSet(f, S \cup {x}) = f[x] + SumFunctionOnSet(f, S)
<1>1. IsFiniteSet(S \cup {x}) /\ (S \cup {x}) \ {x} = S
  BY FS_AddElement
<1> QED
  BY <1>1, SumRemove

(* Functions that agree on a set have the same sum over it.                *)
LEMMA SumSame ==
    ASSUME NEW f, NEW g, NEW S, IsFiniteSet(S), \A x \in S : f[x] = g[x]
    PROVE  SumFunctionOnSet(f, S) = SumFunctionOnSet(g, S)
<1> DEFINE B == {T \in SUBSET S : SumFunctionOnSet(f, T) # SumFunctionOnSet(g, T)}
<1> SUFFICES ASSUME B # {}
             PROVE  FALSE
  OBVIOUS
<1>1. PICK T \in B : IsFiniteSet(T) /\ \A U \in SUBSET T : U # T => U \notin B
  <2>1. B \in SUBSET (SUBSET S)
    OBVIOUS
  <2> HIDE DEF B
  <2> QED
    BY <2>1, LeastSet
<1> DEFINE x == NextOf(T)
<1>2. T # {} /\ x \in T /\ x \in S
  BY SumEmpty, NextIn
<1>3. /\ SumFunctionOnSet(f, T) = f[x] + SumFunctionOnSet(f, T \ {x})
      /\ SumFunctionOnSet(g, T) = g[x] + SumFunctionOnSet(g, T \ {x})
  BY <1>1, <1>2, SumStep
<1>4. T \ {x} \notin B
  BY <1>1, <1>2
<1>5. SumFunctionOnSet(f, T \ {x}) = SumFunctionOnSet(g, T \ {x})
  BY <1>4
<1> QED
  BY <1>2, <1>3, <1>5

(* One value of the function changes: so does the sum, by as much.         *)
LEMMA SumChanged ==
    ASSUME NEW f, NEW g, NEW S, IsFiniteSet(S), NEW x \in S,
           \A y \in S : f[y] \in Int, g[x] \in Int,
           \A y \in S \ {x} : g[y] = f[y]
    PROVE  SumFunctionOnSet(g, S) = SumFunctionOnSet(f, S) + g[x] - f[x]
<1>1. IsFiniteSet(S \ {x})
  BY FS_Subset
<1>2. SumFunctionOnSet(f, S) = f[x] + SumFunctionOnSet(f, S \ {x})
  BY SumRemove
<1>3. SumFunctionOnSet(g, S) = g[x] + SumFunctionOnSet(g, S \ {x})
  <2>1. \A y \in S : g[y] \in Int
    OBVIOUS
  <2> QED
    BY <2>1, SumRemove
<1>4. SumFunctionOnSet(f, S \ {x}) = SumFunctionOnSet(g, S \ {x})
  BY <1>1, SumSame
<1>5. SumFunctionOnSet(f, S \ {x}) \in Int
  BY <1>1, SumInt
<1> QED
  BY <1>2, <1>3, <1>4, <1>5

(* A sum of zeros.                                                         *)
LEMMA SumZero ==
    ASSUME NEW f, NEW S, IsFiniteSet(S), \A x \in S : f[x] = 0
    PROVE  SumFunctionOnSet(f, S) = 0
<1> DEFINE B == {T \in SUBSET S : SumFunctionOnSet(f, T) # 0}
<1> SUFFICES ASSUME B # {}
             PROVE  FALSE
  OBVIOUS
<1>1. PICK T \in B : IsFiniteSet(T) /\ \A U \in SUBSET T : U # T => U \notin B
  <2>1. B \in SUBSET (SUBSET S)
    OBVIOUS
  <2> HIDE DEF B
  <2> QED
    BY <2>1, LeastSet
<1> DEFINE x == NextOf(T)
<1>2. T # {} /\ x \in T /\ x \in S
  BY SumEmpty, NextIn
<1>3. SumFunctionOnSet(f, T) = f[x] + SumFunctionOnSet(f, T \ {x})
  BY <1>1, <1>2, SumStep
<1>4. T \ {x} \notin B
  BY <1>1, <1>2
<1> QED
  BY <1>2, <1>3, <1>4

(* A sum of numbers none of which is above m.                              *)
LEMMA SumAtMost ==
    ASSUME NEW f, NEW S, IsFiniteSet(S), NEW m \in Nat,
           \A x \in S : f[x] \in Int /\ f[x] <= m
    PROVE  SumFunctionOnSet(f, S) <= Cardinality(S) * m
<1> DEFINE B == {T \in SUBSET S : ~(SumFunctionOnSet(f, T) <= Cardinality(T) * m)}
<1> SUFFICES ASSUME B # {}
             PROVE  FALSE
  OBVIOUS
<1>1. PICK T \in B : IsFiniteSet(T) /\ \A U \in SUBSET T : U # T => U \notin B
  <2>1. B \in SUBSET (SUBSET S)
    OBVIOUS
  <2> HIDE DEF B
  <2> QED
    BY <2>1, LeastSet
<1> DEFINE x == NextOf(T)
           U == T \ {x}
<1>2. T # {} /\ x \in T /\ x \in S
  BY SumEmpty, NextIn, FS_EmptySet
<1>3. SumFunctionOnSet(f, T) = f[x] + SumFunctionOnSet(f, U)
  BY <1>1, <1>2, SumStep
<1>4. SumFunctionOnSet(f, U) <= Cardinality(U) * m
  <2>1. U \notin B /\ U \in SUBSET S
    BY <1>1, <1>2
  <2> QED
    BY <2>1
<1>5. IsFiniteSet(U) /\ SumFunctionOnSet(f, U) \in Int
  BY <1>1, FS_Subset, SumInt
<1>6. Cardinality(U) = Cardinality(T) - 1 /\ Cardinality(U) \in Nat
  BY <1>1, <1>2, <1>5, FS_RemoveElement, FS_CardinalityType
<1>7. Cardinality(T) * m = Cardinality(U) * m + m
  <2>1. Cardinality(T) = Cardinality(U) + 1
    BY <1>1, <1>6, FS_CardinalityType
  <2>2. \A n \in Nat : (n + 1) * m = n * m + m
    OBVIOUS
  <2> QED
    BY <1>6, <2>1, <2>2
<1>8. ~(SumFunctionOnSet(f, T) <= Cardinality(T) * m)
  OBVIOUS
<1>9. f[x] \in Int /\ f[x] <= m /\ Cardinality(U) * m \in Int
  <2>1. \A n \in Nat : n * m \in Int
    OBVIOUS
  <2> QED
    BY <1>2, <1>6, <2>1
<1> HIDE DEF U, x
<1> QED
  BY <1>3, <1>4, <1>5, <1>7, <1>8, <1>9

(* The sum of all values of a function, one argument added.                *)
LEMMA SumMore ==
    ASSUME NEW f, NEW g, NEW x, IsFiniteSet(DOMAIN f), x \notin DOMAIN f,
           DOMAIN g = DOMAIN f \cup {x}, \A y \in DOMAIN f : f[y] \in Int /\ g[y] = f[y],
           g[x] \in Int
    PROVE  /\ SumFunction(f) \in Int /\ SumFunction(g) \in Int
           /\ SumFunction(g) = SumFunction(f) + g[x]
<1>1. \A y \in DOMAIN f \cup {x} : g[y] \in Int
  OBVIOUS
<1>2. SumFunctionOnSet(g, DOMAIN f \cup {x}) = g[x] + SumFunctionOnSet(g, DOMAIN f)
  BY <1>1, SumAdd
<1>3. SumFunctionOnSet(g, DOMAIN f) = SumFunctionOnSet(f, DOMAIN f)
  BY SumSame
<1>4. SumFunctionOnSet(f, DOMAIN f) \in Int
  BY SumInt
<1> QED
  BY <1>2, <1>3, <1>4 DEF SumFunction

(* One value changed.                                                      *)
LEMMA SumOther ==
    ASSUME NEW f, NEW g, NEW x \in DOMAIN f, IsFiniteSet(DOMAIN f), DOMAIN g = DOMAIN f,
           \A y \in DOMAIN f : f[y] \in Int, g[x] \in Int,
           \A y \in DOMAIN f \ {x} : g[y] = f[y]
    PROVE  /\ SumFunction(f) \in Int /\ SumFunction(g) \in Int
           /\ SumFunction(g) = SumFunction(f) + g[x] - f[x]
<1>1. SumFunctionOnSet(g, DOMAIN f) = SumFunctionOnSet(f, DOMAIN f) + g[x] - f[x]
  BY SumChanged
<1>2. SumFunctionOnSet(f, DOMAIN f) \in Int
  BY SumInt
<1> QED
  BY <1>1, <1>2 DEF SumFunction

(* None of the values is above m.                                          *)
LEMMA SumBounded ==
    ASSUME NEW f, NEW m \in Nat, IsFiniteSet(DOMAIN f),
           \A y \in DOMAIN f : f[y] \in Int /\ f[y] <= m
    PROVE  SumFunction(f) \in Int /\ SumFunction(f) <= Cardinality(DOMAIN f) * m
BY SumInt, SumAtMost DEF SumFunction

(* A sum of natural numbers is one.                                        *)
LEMMA SumNatural ==
    ASSUME NEW f, IsFiniteSet(DOMAIN f), \A y \in DOMAIN f : f[y] \in Nat
    PROVE  SumFunction(f) \in Nat
<1> DEFINE S == DOMAIN f
           B == {T \in SUBSET S : SumFunctionOnSet(f, T) \notin Nat}
<1> SUFFICES ASSUME B # {}
             PROVE  FALSE
  BY DEF SumFunction
<1>1. PICK T \in B : IsFiniteSet(T) /\ \A U \in SUBSET T : U # T => U \notin B
  <2>1. B \in SUBSET (SUBSET S)
    OBVIOUS
  <2> HIDE DEF B
  <2> QED
    BY <2>1, LeastSet
<1> DEFINE x == NextOf(T)
<1>2. T # {} /\ x \in T /\ x \in S
  <2>1. T = {} => SumFunctionOnSet(f, T) = 0
    BY SumEmpty
  <2>2. T # {}
    BY <2>1
  <2> QED
    BY <2>2, NextIn
<1>3. SumFunctionOnSet(f, T) = f[x] + SumFunctionOnSet(f, T \ {x})
  BY <1>1, <1>2, SumStep
<1>4. SumFunctionOnSet(f, T \ {x}) \in Nat
  BY <1>1, <1>2
<1> QED
  BY <1>2, <1>3, <1>4

(* Elements that count for nothing may be left out of a sum.               *)
LEMMA SumPadded ==
    ASSUME NEW f, NEW g, IsFiniteSet(DOMAIN g), DOMAIN f \subseteq DOMAIN g,
           \A y \in DOMAIN g : g[y] \in Int,
           \A y \in DOMAIN g : g[y] = IF y \in DOMAIN f THEN f[y] ELSE 0
    PROVE  SumFunction(g) = SumFunction(f)
<1> DEFINE S == DOMAIN g
           D == DOMAIN f
           B == {T \in SUBSET S : SumFunctionOnSet(g, T) # SumFunctionOnSet(f, T \cap D)}
<1> SUFFICES ASSUME B # {}
             PROVE  FALSE
  <2>1. S \cap D = D
    OBVIOUS
  <2> QED
    BY <2>1 DEF SumFunction
<1>1. PICK T \in B : IsFiniteSet(T) /\ \A U \in SUBSET T : U # T => U \notin B
  <2>1. B \in SUBSET (SUBSET S)
    OBVIOUS
  <2> HIDE DEF B
  <2> QED
    BY <2>1, LeastSet
<1> DEFINE x == NextOf(T)
<1>2. T # {} /\ x \in T /\ x \in S
  <2>1. T \cap D = {} => SumFunctionOnSet(f, T \cap D) = 0
    BY SumEmpty
  <2> QED
    BY <2>1, SumEmpty, NextIn
<1>3. SumFunctionOnSet(g, T) = g[x] + SumFunctionOnSet(g, T \ {x})
  BY <1>1, <1>2, SumStep
<1>4. SumFunctionOnSet(g, T \ {x}) = SumFunctionOnSet(f, (T \ {x}) \cap D)
  BY <1>1, <1>2
<1>5. SumFunctionOnSet(g, T) = SumFunctionOnSet(f, T \cap D)
  <2>1. CASE x \in D
    <3>1. IsFiniteSet(T \cap D) /\ x \in T \cap D /\ \A y \in T \cap D : f[y] \in Int
      BY <1>1, <1>2, <2>1, FS_Subset
    <3>2. SumFunctionOnSet(f, T \cap D) = f[x] + SumFunctionOnSet(f, (T \cap D) \ {x})
      BY <3>1, SumRemove
    <3>3. (T \cap D) \ {x} = (T \ {x}) \cap D
      OBVIOUS
    <3>4. g[x] = f[x]
      BY <1>2, <2>1
    <3> QED
      BY <1>3, <1>4, <3>2, <3>3, <3>4
  <2>2. CASE x \notin D
    <3>1. (T \ {x}) \cap D = T \cap D /\ g[x] = 0
      BY <1>2, <2>2
    <3>2. SumFunctionOnSet(g, T \ {x}) \in Int
      BY <1>1, FS_Subset, SumInt
    <3>3. SumFunctionOnSet(g, T) = SumFunctionOnSet(g, T \ {x})
      BY <1>3, <3>1, <3>2
    <3> QED
      BY <1>4, <3>1, <3>3
  <2> QED
    BY <2>1, <2>2
<1> QED
  BY <1>5
-----------------------------------------------------------------------------
(* The equation of the local function of Selected.                         *)
IsSelection(s, S, g) ==
    g = [i \in 0..Len(s) |->
            IF i = 0 THEN <<>>
            ELSE IF s[i] \in S THEN Append(g[i - 1], s[i]) ELSE g[i - 1]]

(* The equation of a selection has a solution, found for one length after  *)
(* another.                                                                *)
LEMMA SelectionExists ==
    ASSUME NEW S, NEW s, Len(s) \in Nat
    PROVE  \E g : IsSelection(s, S, g)
<1> DEFINE Eq(g, i) == g[i] = IF i = 0 THEN <<>>
                              ELSE IF s[i] \in S THEN Append(g[i - 1], s[i]) ELSE g[i - 1]
           UpTo(n) == \E g : \A i \in 0..n : Eq(g, i)
           Bad == {n \in Nat : ~UpTo(n)}
<1>1. ASSUME Bad # {}
      PROVE  FALSE
  <2>1. PICK n \in Bad : \A k \in Bad : n <= k
    <3> HIDE DEF UpTo
    <3>1. Bad \in SUBSET Nat
      OBVIOUS
    <3> HIDE DEF Bad
    <3> QED
      BY <1>1, <3>1, LeastNumber
  <2>2. n # 0
    <3>1. Eq([i \in {0} |-> <<>>], 0)
      OBVIOUS
    <3>2. UpTo(0)
      <4> HIDE DEF Eq
      <4>1. \A i \in 0..0 : i = 0
        OBVIOUS
      <4> QED
        BY <3>1, <4>1
    <3> HIDE DEF UpTo
    <3> QED
      BY <3>2
  <2>3. UpTo(n - 1)
    <3> HIDE DEF UpTo
    <3>1. n - 1 \in Nat /\ ~(n <= n - 1)
      BY <2>2
    <3> QED
      BY <2>1, <3>1
  <2>4. PICK g : \A i \in 0..n - 1 : Eq(g, i)
    BY <2>3
  <2> DEFINE h == [i \in 0..n |-> IF i < n THEN g[i]
                                  ELSE IF s[i] \in S THEN Append(g[i - 1], s[i]) ELSE g[i - 1]]
  <2>5. ASSUME NEW i \in 0..n
        PROVE  Eq(h, i)
    <3>1. CASE i < n
      <4>1. Eq(g, i) /\ h[i] = g[i]
        BY <2>4, <3>1
      <4>2. i = 0 \/ h[i - 1] = g[i - 1]
        BY <3>1
      <4> HIDE DEF h
      <4> QED
        BY <4>1, <4>2
    <3>2. CASE i = n
      <4>1. h[i] = IF s[i] \in S THEN Append(g[i - 1], s[i]) ELSE g[i - 1]
        BY <3>2
      <4>2. h[i - 1] = g[i - 1]
        BY <2>2, <3>2
      <4> HIDE DEF h
      <4> QED
        BY <2>2, <3>2, <4>1, <4>2
    <3> QED
      BY <3>1, <3>2
  <2>6. UpTo(n)
    <3> HIDE DEF h, Eq
    <3> QED
      BY <2>5
  <2> HIDE DEF UpTo
  <2> QED
    BY <2>6
<1>2. PICK g : \A i \in 0..Len(s) : Eq(g, i)
  <2>1. UpTo(Len(s))
    <3> HIDE DEF UpTo
    <3> QED
      BY <1>1
  <2> QED
    BY <2>1
<1> DEFINE h == [i \in 0..Len(s) |-> g[i]]
<1>3. ASSUME NEW i \in 0..Len(s)
      PROVE  Eq(h, i)
  <2>1. Eq(g, i) /\ h[i] = g[i]
    BY <1>2
  <2>2. i = 0 \/ h[i - 1] = g[i - 1]
    OBVIOUS
  <2> HIDE DEF h
  <2> QED
    BY <2>1, <2>2
<1>4. h = [i \in 0..Len(s) |-> h[i]]
  OBVIOUS
<1> HIDE DEF h
<1>5. IsSelection(s, S, h)
  BY <1>3, <1>4 DEF IsSelection
<1> QED
  BY <1>5

(* r is what is left of the first n elements of s: at says where each      *)
(* element of r was.                                                       *)
LeftOf(s, S, n, r, at) ==
    /\ at \in [1..Len(r) -> 1..n]
    /\ \A j, k \in 1..Len(r) : j < k => at[j] < at[k]
    /\ \A k \in 1..Len(r) : r[k] = s[at[k]] /\ s[at[k]] \in S
    /\ \A i \in 1..n : s[i] \in S => \E k \in 1..Len(r) : at[k] = i

(* An element that is not selected changes nothing.                        *)
LEMMA LeftSkips ==
    ASSUME NEW s, NEW S, NEW n \in Nat, NEW r, NEW at, LeftOf(s, S, n, r, at), Len(r) \in Nat,
           s[n + 1] \notin S
    PROVE  LeftOf(s, S, n + 1, r, at)
<1>1. at \in [1..Len(r) -> 1..n + 1]
  BY DEF LeftOf
<1>2. ASSUME NEW i \in 1..n + 1, s[i] \in S
      PROVE  \E k \in 1..Len(r) : at[k] = i
  <2>1. i \in 1..n
    BY <1>2
  <2> QED
    BY <1>2, <2>1 DEF LeftOf
<1> QED
  BY <1>1, <1>2 DEF LeftOf

(* An element that is selected comes last.                                 *)
LEMMA LeftTakes ==
    ASSUME NEW T, NEW s, NEW S, NEW n \in Nat, NEW r \in Seq(T), NEW at,
           LeftOf(s, S, n, r, at), s[n + 1] \in S, s[n + 1] \in T
    PROVE  \E new : LeftOf(s, S, n + 1, Append(r, s[n + 1]), new)
<1> DEFINE q == Append(r, s[n + 1])
           m == Len(r)
           new == [k \in 1..m + 1 |-> IF k = m + 1 THEN n + 1 ELSE at[k]]
<1>1. m \in Nat /\ Len(q) = m + 1 /\ q[m + 1] = s[n + 1] /\ \A k \in 1..m : q[k] = r[k]
  BY AppendProperties, LenProperties
<1>2. at \in [1..m -> 1..n]
  BY DEF LeftOf
<1>3. new[m + 1] = n + 1 /\ \A k \in 1..m : new[k] = at[k]
  BY <1>1
<1>4. new \in [1..m + 1 -> 1..n + 1]
  BY <1>1, <1>2
<1> HIDE DEF new
<1>5. ASSUME NEW j \in 1..m + 1, NEW k \in 1..m + 1, j < k
      PROVE  new[j] < new[k]
  <2>1. j \in 1..m /\ new[j] = at[j] /\ at[j] \in 1..n
    BY <1>1, <1>2, <1>3, <1>5
  <2>2. CASE k = m + 1
    BY <1>3, <2>1, <2>2
  <2>3. CASE k # m + 1
    <3>1. k \in 1..m
      BY <1>1, <2>3
    <3> QED
      BY <1>3, <1>5, <2>1, <3>1 DEF LeftOf
  <2> QED
    BY <2>2, <2>3
<1>6. ASSUME NEW k \in 1..m + 1
      PROVE  q[k] = s[new[k]] /\ s[new[k]] \in S
  <2>1. CASE k = m + 1
    BY <1>1, <1>3, <2>1
  <2>2. CASE k # m + 1
    <3>1. k \in 1..m
      BY <1>1, <2>2
    <3> QED
      BY <1>1, <1>3, <3>1 DEF LeftOf
  <2> QED
    BY <2>1, <2>2
<1>7. ASSUME NEW i \in 1..n + 1, s[i] \in S
      PROVE  \E k \in 1..m + 1 : new[k] = i
  <2>1. CASE i = n + 1
    BY <1>1, <1>3, <2>1
  <2>2. CASE i # n + 1
    <3>1. i \in 1..n
      BY <2>2
    <3>2. PICK k \in 1..m : at[k] = i
      BY <1>7, <3>1 DEF LeftOf
    <3> QED
      BY <1>1, <1>3, <3>2
  <2> QED
    BY <2>1, <2>2
<1> HIDE DEF q
<1>8. LeftOf(s, S, n + 1, q, new)
  BY <1>1, <1>4, <1>5, <1>6, <1>7 DEF LeftOf
<1> QED
  BY <1>8 DEF q

(* What Selected leaves: the elements in S, all of them, in their order.   *)
LEMMA SelectedLeaves ==
    ASSUME NEW T, NEW s \in Seq(T), NEW S
    PROVE  /\ Selected(s, S) \in Seq(T)
           /\ \E at : LeftOf(s, S, Len(s), Selected(s, S), at)
<1> DEFINE g == CHOOSE x : IsSelection(s, S, x)
           Part(i) == g[i] \in Seq(T) /\ \E at : LeftOf(s, S, i, g[i], at)
           Bad == {i \in 0..Len(s) : ~Part(i)}
<1>0. Len(s) \in Nat
  OBVIOUS
<1>1. IsSelection(s, S, g)
  BY <1>0, SelectionExists
<1>2. Selected(s, S) = g[Len(s)]
  BY DEF Selected, IsSelection
<1>3. \A i \in 0..Len(s) : g[i] = IF i = 0 THEN <<>>
                                  ELSE IF s[i] \in S THEN Append(g[i - 1], s[i]) ELSE g[i - 1]
  <2> HIDE DEF g
  <2> QED
    BY <1>1, Zenon DEF IsSelection
<1> HIDE DEF g
<1>4. ASSUME Bad # {}
      PROVE  FALSE
  <2>1. PICK n \in Bad : \A k \in Bad : n <= k
    <3>1. Bad \in SUBSET Nat
      BY <1>0
    <3> HIDE DEF Bad
    <3> QED
      BY <1>4, <3>1, LeastNumber
  <2>2. n # 0
    <3>1. Part(0)
      <4>0. 0 \in 0..Len(s)
        BY <1>0
      <4>1. g[0] = <<>> /\ <<>> \in Seq(T) /\ Len(<<>>) = 0
        BY <1>3, <4>0, EmptySeq
      <4>2. LeftOf(s, S, 0, g[0], <<>>)
        BY <4>1 DEF LeftOf
      <4> QED
        BY <4>1, <4>2
    <3> HIDE DEF Part
    <3> QED
      BY <3>1
  <2>3. n \in 1..Len(s) /\ n - 1 \in Nat
    BY <1>0, <2>2
  <2>4. Part(n - 1)
    <3> HIDE DEF Part
    <3>1. n - 1 \in 0..Len(s) /\ ~(n <= n - 1)
      BY <1>0, <2>3
    <3> QED
      BY <2>1, <3>1
  <2>5. PICK at : LeftOf(s, S, n - 1, g[n - 1], at)
    BY <2>4
  <2>6. /\ g[n - 1] \in Seq(T) /\ Len(g[n - 1]) \in Nat /\ s[n] \in T /\ (n - 1) + 1 = n
        /\ g[n] = IF s[n] \in S THEN Append(g[n - 1], s[n]) ELSE g[n - 1]
    BY <1>0, <1>3, <2>3, <2>4, LenProperties, ElementOfSeq
  <2>7. CASE s[n] \in S
    <3>1. \E new : LeftOf(s, S, n, Append(g[n - 1], s[n]), new)
      <4> DEFINE m == n - 1
                 r == g[m]
      <4>1. /\ m \in Nat /\ r \in Seq(T) /\ LeftOf(s, S, m, r, at)
            /\ s[m + 1] \in S /\ s[m + 1] \in T /\ m + 1 = n
        BY <2>3, <2>5, <2>6, <2>7
      <4> HIDE DEF m, r
      <4>2. \E new : LeftOf(s, S, m + 1, Append(r, s[m + 1]), new)
        BY <4>1, LeftTakes
      <4>3. \E new : LeftOf(s, S, n, Append(r, s[n]), new)
        BY <4>1, <4>2
      <4> QED
        BY <4>3 DEF m, r
    <3>2. Append(g[n - 1], s[n]) \in Seq(T)
      BY <2>6, AppendProperties
    <3> QED
      BY <2>6, <2>7, <3>1, <3>2
  <2>8. CASE s[n] \notin S
    <3>1. LeftOf(s, S, n, g[n], at)
      BY <2>3, <2>5, <2>6, <2>8, LeftSkips
    <3> QED
      BY <2>6, <2>8, <3>1
  <2> QED
    BY <2>7, <2>8
<1>5. Part(Len(s))
  <2> HIDE DEF Part
  <2> QED
    BY <1>0, <1>4
<1> QED
  BY <1>2, <1>5

(* The first n numbers are n.                                              *)
LEMMA FirstNumbers ==
    ASSUME NEW n \in Nat
    PROVE  IsFiniteSet(1..n) /\ Cardinality(1..n) = n
<1>1. IsFiniteSet(1..n) /\ Cardinality(1..n) = IF 1 > n THEN 0 ELSE n - 1 + 1
  BY FS_Interval
<1> QED
  BY <1>1

(* How many elements of the sequence s are in P.                           *)
CountOf(s, P) == Cardinality({i \in 1..Len(s) : s[i] \in P})

(* What is counted is a number between zero and the length.                *)
LEMMA CountOfNat ==
    ASSUME NEW T, NEW s \in Seq(T), NEW P
    PROVE  /\ IsFiniteSet({i \in 1..Len(s) : s[i] \in P})
           /\ CountOf(s, P) \in Nat /\ CountOf(s, P) <= Len(s)
<1> DEFINE I == {i \in 1..Len(s) : s[i] \in P}
<1>1. Len(s) \in Nat /\ I \in SUBSET (1..Len(s))
  BY LenProperties
<1> HIDE DEF I
<1>2. IsFiniteSet(1..Len(s)) /\ Cardinality(1..Len(s)) = Len(s)
  BY <1>1, FirstNumbers
<1>3. IsFiniteSet(I) /\ Cardinality(I) <= Cardinality(1..Len(s))
  BY <1>1, <1>2, FS_Subset
<1>4. Cardinality(I) \in Nat
  BY <1>3, FS_CardinalityType
<1> QED
  BY <1>2, <1>3, <1>4 DEF CountOf, I

(* One element more counts for itself only.                                *)
LEMMA CountOfAppend ==
    ASSUME NEW T, NEW s \in Seq(T), NEW x \in T, NEW P
    PROVE  CountOf(Append(s, x), P) = CountOf(s, P) + IF x \in P THEN 1 ELSE 0
<1> DEFINE new == Append(s, x)
           n == Len(s)
           I == {i \in 1..n : s[i] \in P}
           J == {i \in 1..n + 1 : new[i] \in P}
<1>1. n \in Nat /\ Len(new) = n + 1 /\ new[n + 1] = x /\ \A i \in 1..n : new[i] = s[i]
  BY AppendProperties, LenProperties
<1> HIDE DEF new
<1>2. J = IF x \in P THEN I \cup {n + 1} ELSE I
  BY <1>1
<1>3. IsFiniteSet(I) /\ n + 1 \notin I
  <2>1. IsFiniteSet(1..n)
    BY <1>1, FirstNumbers
  <2> QED
    BY <1>1, <2>1, FS_Subset
<1>4. Cardinality(J) = Cardinality(I) + IF x \in P THEN 1 ELSE 0
  <2> HIDE DEF I, J
  <2>1. CASE x \in P
    BY <1>2, <1>3, <2>1, FS_AddElement
  <2>2. CASE x \notin P
    <3>1. Cardinality(I) \in Nat
      BY <1>3, FS_CardinalityType
    <3> QED
      BY <1>2, <2>2, <3>1
  <2> QED
    BY <2>1, <2>2
<1> QED
  BY <1>1, <1>4 DEF CountOf, new

(* A sequence all of whose elements are in P.                              *)
LEMMA CountOfAll ==
    ASSUME NEW T, NEW s \in Seq(T), NEW P, \A i \in 1..Len(s) : s[i] \in P
    PROVE  CountOf(s, P) = Len(s)
<1>1. Len(s) \in Nat /\ {i \in 1..Len(s) : s[i] \in P} = 1..Len(s)
  BY LenProperties
<1> QED
  BY <1>1, FirstNumbers DEF CountOf

(* What meets a weaker condition is not fewer.                             *)
LEMMA CountOfSubset ==
    ASSUME NEW T, NEW s \in Seq(T), NEW P, NEW Q,
           \A i \in 1..Len(s) : s[i] \in P => s[i] \in Q
    PROVE  CountOf(s, P) <= CountOf(s, Q)
<1> DEFINE I == {i \in 1..Len(s) : s[i] \in P}
           J == {i \in 1..Len(s) : s[i] \in Q}
<1>1. I \in SUBSET J /\ IsFiniteSet(J)
  BY CountOfNat
<1> HIDE DEF I, J
<1>2. Cardinality(I) <= Cardinality(J)
  BY <1>1, FS_Subset
<1> QED
  BY <1>2 DEF CountOf, I, J

(* Selected leaves as many elements of a kind as s has of them in S.       *)
LEMMA SelectedCounts ==
    ASSUME NEW T, NEW s \in Seq(T), NEW S, NEW P
    PROVE  CountOf(Selected(s, S), P) = CountOf(s, S \cap P)
<1> DEFINE r == Selected(s, S)
           K == {k \in 1..Len(r) : r[k] \in P}
           I == {i \in 1..Len(s) : s[i] \in S \cap P}
<1>1. Len(s) \in Nat /\ Len(r) \in Nat
  BY SelectedLeaves, LenProperties
<1>2. PICK at : LeftOf(s, S, Len(s), r, at)
  BY SelectedLeaves
<1> HIDE DEF r
<1> DEFINE f == [k \in K |-> at[k]]
<1>3. f \in Bijection(K, I)
  <2>1. f \in [K -> I]
    BY <1>2 DEF LeftOf
  <2>2. \A j, k \in K : f[j] = f[k] => j = k
    BY <1>1, <1>2 DEF LeftOf
  <2>3. \A i \in I : \E k \in K : f[k] = i
    BY <1>2 DEF LeftOf
  <2> HIDE DEF f, K, I
  <2> QED
    BY <2>1, <2>2, <2>3 DEF Bijection, Injection, Surjection, IsInjective
<1>4. IsFiniteSet(K)
  <2>1. IsFiniteSet(1..Len(r))
    BY <1>1, FirstNumbers
  <2> QED
    BY <2>1, FS_Subset
<1>5. Cardinality(I) = Cardinality(K)
  <2> HIDE DEF K, I, f
  <2> QED
    BY <1>3, <1>4, FS_Bijection DEF ExistsBijection
<1> QED
  BY <1>5 DEF CountOf, r

(* Selected has the elements of s that are in S.                           *)
LEMMA SelectedRange ==
    ASSUME NEW T, NEW s \in Seq(T), NEW S
    PROVE  \A x : (\E k \in 1..Len(Selected(s, S)) : Selected(s, S)[k] = x)
                      <=> (x \in S /\ \E i \in 1..Len(s) : s[i] = x)
<1> DEFINE r == Selected(s, S)
<1>1. PICK at : LeftOf(s, S, Len(s), r, at)
  BY SelectedLeaves
<1> HIDE DEF r
<1>2. ASSUME NEW k \in 1..Len(r)
      PROVE  r[k] \in S /\ \E i \in 1..Len(s) : s[i] = r[k]
  BY <1>1 DEF LeftOf
<1>3. ASSUME NEW i \in 1..Len(s), s[i] \in S
      PROVE  \E k \in 1..Len(r) : r[k] = s[i]
  BY <1>1, <1>3 DEF LeftOf
<1> QED
  BY <1>2, <1>3 DEF r
=============================================================================
