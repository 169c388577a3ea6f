----------------------------- MODULE TallyProofs -----------------------------
(***************************************************************************)
(* What Total computes, for every n and every function.  Induction on n is *)
(* stated with a set of numbers (an operator argument cannot be            *)
(* instantiated by the first-order provers) and rests on the fact that     *)
(* every nonempty set of naturals has a least element.                     *)
(***************************************************************************)
EXTENDS Tally, Functions, TLAPS, WellFoundedInduction, FiniteSetTheorems

IsPrefix(p, f, n) == p = [i \in 0..n |-> IF i = 0 THEN 0 ELSE p[i-1] + f[i]]

\* Every nonempty set of natural numbers has a least element.
LEMMA LeastNat ==
  ASSUME NEW T \in SUBSET Nat, T # {}
  PROVE  \E m \in T : \A k \in T : m <= k
<1> DEFINE R == {ss \in Nat \X Nat : ss[1] < ss[2]}
<1>1. OpToRel(<, Nat) = R
  BY Zenon DEF OpToRel
<1>2. IsWellFoundedOn(R, Nat)
  BY <1>1, NatLessThanWellFounded, Zenon
<1> HIDE DEF R
<1>3. PICK m \in T : \A k \in T : ~(<<k, m>> \in R)
  BY <1>2, WFMin, Zenon
<1>4. \A k \in T : ~(k < m)
  BY <1>3 DEF R
<1>5. QED
  BY <1>4

\* Induction up to n, on a set that contains 0 and is closed under successor.
LEMMA SetInduction ==
  ASSUME NEW n \in Nat, NEW T, 0 \in T,
         \A m \in 0..(n-1) : m \in T => m+1 \in T
  PROVE  \A m \in 0..n : m \in T
<1> DEFINE C == {m \in 0..n : m \notin T}
<1>1. SUFFICES ASSUME C # {} PROVE FALSE
  OBVIOUS
<1>0. C \in SUBSET Nat
  OBVIOUS
<1>2. PICK m \in C : \A k \in C : m <= k
  <2> HIDE DEF C
  <2> QED BY <1>0, <1>1, LeastNat
<1>3. m # 0
  OBVIOUS
<1>4. m-1 \in 0..(n-1) /\ m-1 \in T
  BY <1>2, <1>3
<1>5. QED
  BY <1>4

\* The recursive function inside Total exists, so Total unfolds as written.
LEMMA PrefixExists ==
  ASSUME NEW n \in Nat, NEW f
  PROVE  \E p : IsPrefix(p, f, n)
<1> DEFINE T == {m \in 0..n : \E p : IsPrefix(p, f, m)}
<1>1. 0 \in T
  <2>1. IsPrefix([i \in 0..0 |-> 0], f, 0)
    BY DEF IsPrefix
  <2>2. QED BY <2>1
<1>2. ASSUME NEW m \in 0..(n-1), m \in T PROVE m+1 \in T
  <2>1. PICK p : IsPrefix(p, f, m)
    BY <1>2
  <2> DEFINE q == [i \in 0..(m+1) |-> IF i = m+1 THEN p[m] + f[m+1] ELSE p[i]]
  <2>2. \A i \in 0..m : p[i] = IF i = 0 THEN 0 ELSE p[i-1] + f[i]
    BY <2>1 DEF IsPrefix
  <2>3. \A i \in 0..(m+1) : q[i] = IF i = 0 THEN 0 ELSE q[i-1] + f[i]
    BY <2>2
  <2>4. IsPrefix(q, f, m+1)
    BY <2>3 DEF IsPrefix
  <2>5. QED BY <2>4
<1> HIDE DEF T
<1>3. n \in T
  <2>1. \A m \in 0..n : m \in T
    BY <1>1, <1>2, SetInduction, Zenon
  <2>2. QED BY <2>1
<1>4. QED BY <1>3 DEF T

LEMMA TotalIsPrefix ==
  ASSUME NEW n \in Nat, NEW f
  PROVE  \E p : IsPrefix(p, f, n) /\ Total(f, n) = p[n]
<1> DEFINE P == CHOOSE p : p = [i \in 0..n |-> IF i = 0 THEN 0 ELSE p[i-1] + f[i]]
<1>1. IsPrefix(P, f, n)
  BY PrefixExists DEF IsPrefix
<1>2. Total(f, n) = P[n]
  BY DEF Total
<1>3. QED BY <1>1, <1>2

\* A sum of integers is an integer, of naturals a natural.
LEMMA TotalInt ==
  ASSUME NEW n \in Nat, NEW f \in [1..n -> Int]
  PROVE  Total(f, n) \in Int
<1>1. PICK p : IsPrefix(p, f, n) /\ Total(f, n) = p[n]
  BY TotalIsPrefix
<1> DEFINE T == {m \in 0..n : p[m] \in Int}
<1>2. \A m \in 0..n : p[m] = IF m = 0 THEN 0 ELSE p[m-1] + f[m]
  BY <1>1 DEF IsPrefix
<1>3. 0 \in T
  BY <1>2
<1>4. \A m \in 0..(n-1) : m \in T => m+1 \in T
  BY <1>2
<1> HIDE DEF T
<1>5. n \in T
  <2>1. \A m \in 0..n : m \in T
    BY <1>3, <1>4, SetInduction, Zenon
  <2>2. QED BY <2>1
<1>6. QED BY <1>1, <1>5 DEF T

\* No value of a function into Nat exceeds the sum.
LEMMA TotalBounds ==
  ASSUME NEW n \in Nat, NEW f \in [1..n -> Nat]
  PROVE  Total(f, n) \in Nat /\ \A k \in 1..n : f[k] <= Total(f, n)
<1>1. PICK p : IsPrefix(p, f, n) /\ Total(f, n) = p[n]
  BY TotalIsPrefix
<1> DEFINE T == {m \in 0..n : p[m] \in Nat /\ \A k \in 1..m : f[k] <= p[m]}
<1>2. \A m \in 0..n : p[m] = IF m = 0 THEN 0 ELSE p[m-1] + f[m]
  BY <1>1 DEF IsPrefix
<1>3. 0 \in T
  BY <1>2
<1>4. ASSUME NEW m \in 0..(n-1), m \in T PROVE m+1 \in T
  <2>1. p[m+1] = p[m] + f[m+1] /\ p[m] \in Nat /\ f[m+1] \in Nat
    BY <1>2, <1>4
  <2>2. \A k \in 1..(m+1) : f[k] <= p[m+1]
    BY <2>1, <1>4
  <2>3. QED BY <2>1, <2>2
<1> HIDE DEF T
<1>5. n \in T
  <2>1. \A m \in 0..n : m \in T
    BY <1>3, <1>4, SetInduction, Zenon
  <2>2. QED BY <2>1
<1>6. QED BY <1>1, <1>5 DEF T

\* Sums add pointwise.
LEMMA TotalAdds ==
  ASSUME NEW n \in Nat, NEW f \in [1..n -> Int], NEW g \in [1..n -> Int],
         NEW h \in [1..n -> Int], \A i \in 1..n : h[i] = f[i] + g[i]
  PROVE  Total(h, n) = Total(f, n) + Total(g, n)
<1>1. PICK p : IsPrefix(p, f, n) /\ Total(f, n) = p[n]
  BY TotalIsPrefix
<1>2. PICK q : IsPrefix(q, g, n) /\ Total(g, n) = q[n]
  BY TotalIsPrefix
<1>3. PICK r : IsPrefix(r, h, n) /\ Total(h, n) = r[n]
  BY TotalIsPrefix
<1> DEFINE T == {m \in 0..n : p[m] \in Int /\ q[m] \in Int /\ r[m] = p[m] + q[m]}
<1>4. \A m \in 0..n : /\ p[m] = IF m = 0 THEN 0 ELSE p[m-1] + f[m]
                      /\ q[m] = IF m = 0 THEN 0 ELSE q[m-1] + g[m]
                      /\ r[m] = IF m = 0 THEN 0 ELSE r[m-1] + h[m]
  BY <1>1, <1>2, <1>3 DEF IsPrefix
<1>5. 0 \in T
  <2>1. 0 \in 0..n
    OBVIOUS
  <2> HIDE DEF T
  <2>2. p[0] = 0 /\ q[0] = 0 /\ r[0] = 0
    BY <1>4, <2>1, Zenon
  <2>3. QED BY <2>1, <2>2 DEF T
<1>6. ASSUME NEW m \in 0..(n-1), m \in T PROVE m+1 \in T
  <2>1. /\ p[m+1] = p[m] + f[m+1] /\ q[m+1] = q[m] + g[m+1]
        /\ r[m+1] = r[m] + h[m+1]
    BY <1>4
  <2>2. f[m+1] \in Int /\ g[m+1] \in Int /\ h[m+1] = f[m+1] + g[m+1]
    OBVIOUS
  <2>3. QED BY <2>1, <2>2, <1>6
<1> HIDE DEF T
<1>7. n \in T
  <2>1. \A m \in 0..n : m \in T
    BY <1>5, <1>6, SetInduction, Zenon
  <2>2. QED BY <2>1
<1>8. QED BY <1>1, <1>2, <1>3, <1>7 DEF T

\* A function that is zero but at k sums to its value there.
LEMMA TotalPoint ==
  ASSUME NEW n \in Nat, NEW k \in 1..n, NEW v \in Int,
         NEW f, \A i \in 1..n : f[i] = IF i = k THEN v ELSE 0
  PROVE  Total(f, n) = v
<1>1. PICK p : IsPrefix(p, f, n) /\ Total(f, n) = p[n]
  BY TotalIsPrefix
<1> DEFINE T == {m \in 0..n : p[m] = IF m >= k THEN v ELSE 0}
<1>2. \A m \in 0..n : p[m] = IF m = 0 THEN 0 ELSE p[m-1] + f[m]
  BY <1>1 DEF IsPrefix
<1>3. 0 \in T
  BY <1>2
<1>4. ASSUME NEW m \in 0..(n-1), m \in T PROVE m+1 \in T
  BY <1>2, <1>4
<1> HIDE DEF T
<1>5. n \in T
  <2>1. \A m \in 0..n : m \in T
    BY <1>3, <1>4, SetInduction, Zenon
  <2>2. QED BY <2>1
<1>6. QED BY <1>1, <1>5 DEF T

\* Changing a function at one point changes its sum by the same amount.
LEMMA TotalChange ==
  ASSUME NEW n \in Nat, NEW f \in [1..n -> Int], NEW g \in [1..n -> Int],
         NEW k \in 1..n, \A i \in 1..n : i # k => g[i] = f[i]
  PROVE  Total(g, n) = Total(f, n) + (g[k] - f[k])
<1> DEFINE d == [i \in 1..n |-> IF i = k THEN g[k] - f[k] ELSE 0]
<1>1. d \in [1..n -> Int] /\ g[k] - f[k] \in Int
  OBVIOUS
<1>2. Total(d, n) = g[k] - f[k]
  BY <1>1, TotalPoint
<1>3. \A i \in 1..n : g[i] = f[i] + d[i]
  OBVIOUS
<1> HIDE DEF d
<1>4. Total(g, n) = Total(f, n) + Total(d, n)
  BY <1>1, <1>3, TotalAdds
<1>5. QED BY <1>2, <1>4

\* Functions that agree on 1..n have the same sum.
LEMMA TotalSame ==
  ASSUME NEW n \in Nat, NEW f \in [1..n -> Int], NEW g \in [1..n -> Int],
         \A i \in 1..n : g[i] = f[i]
  PROVE  Total(g, n) = Total(f, n)
<1>1. f = g
  OBVIOUS
<1>2. QED BY <1>1

\* The sum of zeros is zero.
LEMMA TotalZero ==
  ASSUME NEW n \in Nat, NEW f \in [1..n -> Int], \A i \in 1..n : f[i] = 0
  PROVE  Total(f, n) = 0
<1>1. Total(f, n) = Total(f, n) + Total(f, n)
  BY TotalAdds
<1>2. QED BY <1>1, TotalInt

-----------------------------------------------------------------------------
(***************************************************************************)
(* The sum of a function over a finite set (SumFunctionOnSet of Functions),*)
(* whatever the order in which CHOOSE visits the set.                      *)
(***************************************************************************)

\* What holds of the empty set, and of a set if of all that miss one element.
LEMMA FiniteSetInduction ==
  ASSUME NEW S, IsFiniteSet(S), NEW T, {} \in T,
         \A B \in SUBSET S : B # {} /\ (\A x \in B : B \ {x} \in T) => B \in T
  PROVE  \A B \in SUBSET S : B \in T
<1> DEFINE n == Cardinality(S)
           N == {m \in 0..n : \A B \in SUBSET S : Cardinality(B) = m => B \in T}
<1>1. n \in Nat /\ \A B \in SUBSET S : IsFiniteSet(B) /\ Cardinality(B) \in 0..n
  <2>1. n \in Nat
    BY FS_CardinalityType
  <2>2. ASSUME NEW B \in SUBSET S
        PROVE  IsFiniteSet(B) /\ Cardinality(B) \in Nat /\ Cardinality(B) <= n
    BY FS_Subset, FS_CardinalityType
  <2>3. QED BY <2>1, <2>2
<1>2. 0 \in N
  <2>1. \A B \in SUBSET S : Cardinality(B) = 0 => B = {}
    BY <1>1, FS_EmptySet
  <2>2. 0 \in 0..n
    BY <1>1
  <2> HIDE DEF n
  <2>3. QED BY <2>1, <2>2
<1>3. ASSUME NEW m \in 0..(n-1), m \in N PROVE m+1 \in N
  <2>1. ASSUME NEW B \in SUBSET S, Cardinality(B) = m+1 PROVE B \in T
    <3>1. B # {}
      <4>1. m+1 # 0
        BY <1>1
      <4>2. QED BY <2>1, <4>1, FS_EmptySet
    <3>2. ASSUME NEW x \in B PROVE B \ {x} \in T
      <4>1. Cardinality(B \ {x}) = m
        BY <1>1, <2>1, FS_RemoveElement
      <4>2. QED BY <1>3, <4>1
    <3>3. QED BY <3>1, <3>2
  <2>2. m+1 \in 0..n
    BY <1>1
  <2>3. QED BY <2>1, <2>2
<1> HIDE DEF n
<1>4. \A m \in 0..n : m \in N
  <2> HIDE DEF N
  <2> QED BY <1>1, <1>2, <1>3, SetInduction, Zenon
<1>5. QED BY <1>1, <1>4

Chosen(T) == CHOOSE x \in T : TRUE

IsSum(s, f, S) ==
  s = [T \in SUBSET S |-> IF T = {} THEN 0
                          ELSE f[Chosen(T)] + s[T \ {Chosen(T)}]]

\* The recursive function inside the sum exists.
LEMMA SumExists ==
  ASSUME NEW f, NEW S, IsFiniteSet(S)
  PROVE  \E s : IsSum(s, f, S)
<1> DEFINE n == Cardinality(S)
           Below(m) == {T \in SUBSET S : Cardinality(T) <= m}
           Part(s, m) ==
             s = [T \in Below(m) |-> IF T = {} THEN 0
                                     ELSE f[Chosen(T)] + s[T \ {Chosen(T)}]]
           N == {m \in 0..n : \E s : Part(s, m)}
<1>1. n \in Nat /\ \A T \in SUBSET S : IsFiniteSet(T) /\ Cardinality(T) \in 0..n
  <2>1. n \in Nat
    BY FS_CardinalityType
  <2>2. ASSUME NEW T \in SUBSET S
        PROVE  IsFiniteSet(T) /\ Cardinality(T) \in Nat /\ Cardinality(T) <= n
    BY FS_Subset, FS_CardinalityType
  <2>3. QED BY <2>1, <2>2
<1>2. \A T \in SUBSET S : T # {} => /\ Chosen(T) \in T
                                    /\ T \ {Chosen(T)} \in SUBSET S
                                    /\ Cardinality(T) # 0
                                    /\ Cardinality(T \ {Chosen(T)}) = Cardinality(T) - 1
  BY <1>1, FS_RemoveElement, FS_EmptySet DEF Chosen
<1> HIDE DEF n
<1>3. 0 \in N
  <2>1. \A T \in Below(0) : T = {}
    <3> SUFFICES ASSUME NEW T \in SUBSET S, Cardinality(T) <= 0 PROVE T = {}
      OBVIOUS
    <3>1. Cardinality(T) \in Nat
      BY <1>1
    <3>2. Cardinality(T) = 0
      BY <3>1
    <3>3. QED BY <1>2, <3>2
  <2>2. Part([T \in Below(0) |-> 0], 0)
    <3> HIDE DEF Below
    <3> QED BY <2>1
  <2>3. 0 \in 0..n
    BY <1>1
  <2>4. QED BY <2>2, <2>3
<1>4. ASSUME NEW m \in 0..(n-1), m \in N PROVE m+1 \in N
  <2>1. PICK s : Part(s, m)
    BY <1>4
  <2> DEFINE r == [T \in Below(m+1) |-> IF T = {} THEN 0
                                        ELSE f[Chosen(T)] + s[T \ {Chosen(T)}]]
  <2>2. \A T \in Below(m) : T \in Below(m+1) /\ r[T] = s[T]
    <3> TAKE T \in Below(m)
    <3>1. T \in Below(m+1)
      BY <1>1
    <3>2. s[T] = IF T = {} THEN 0 ELSE f[Chosen(T)] + s[T \ {Chosen(T)}]
      BY <2>1
    <3>3. QED BY <3>1, <3>2
  <2>3. \A T \in Below(m+1) : T # {} => T \ {Chosen(T)} \in Below(m)
    BY <1>1, <1>2
  <2>4. \A T \in Below(m+1) : T # {} => r[T \ {Chosen(T)}] = s[T \ {Chosen(T)}]
    <3> HIDE DEF r, Below
    <3> QED BY <2>2, <2>3
  <2>5. Part(r, m+1)
    <3> HIDE DEF Below
    <3> QED BY <2>4
  <2>6. m+1 \in 0..n
    BY <1>1
  <2>7. QED BY <2>5, <2>6
<1>5. n \in N
  <2> HIDE DEF N
  <2>1. \A m \in 0..n : m \in N
    BY <1>1, <1>3, <1>4, SetInduction, Zenon
  <2>2. QED BY <1>1, <2>1
<1>6. Below(n) = SUBSET S
  BY <1>1
<1>7. PICK s : Part(s, n)
  BY <1>5
<1>8. IsSum(s, f, S)
  <2> HIDE DEF Below
  <2> QED BY <1>6, <1>7 DEF IsSum
<1>9. QED BY <1>8

LEMMA SumIsSum ==
  ASSUME NEW f, NEW S, IsFiniteSet(S)
  PROVE  \E s : IsSum(s, f, S) /\ SumFunctionOnSet(f, S) = s[S]
<1> DEFINE P == CHOOSE s :
     s = [T \in SUBSET S |-> IF T = {} THEN 0
            ELSE f[CHOOSE x \in T : TRUE] + s[T \ {CHOOSE x \in T : TRUE}]]
<1>0. \E s : IsSum(s, f, S)
  BY SumExists
<1>1. IsSum(P, f, S)
  BY <1>0 DEF IsSum, Chosen
<1>2. SumFunctionOnSet(f, S) = P[S]
  BY DEF SumFunctionOnSet, FoldFunctionOnSet, MapThenFoldSet
<1>3. QED BY <1>1, <1>2

\* The sums over the subsets of a set are the values of one such function.
LEMMA SumOfSubset ==
  ASSUME NEW f, NEW S, IsFiniteSet(S), NEW s, IsSum(s, f, S), NEW B \in SUBSET S
  PROVE  SumFunctionOnSet(f, B) = s[B]
<1>1. IsFiniteSet(B)
  BY FS_Subset
<1>2. PICK t : IsSum(t, f, B) /\ SumFunctionOnSet(f, B) = t[B]
  BY <1>1, SumIsSum
<1> DEFINE T == {A \in SUBSET B : t[A] = s[A]}
<1>3. \A A \in SUBSET B :
        /\ t[A] = IF A = {} THEN 0 ELSE f[Chosen(A)] + t[A \ {Chosen(A)}]
        /\ s[A] = IF A = {} THEN 0 ELSE f[Chosen(A)] + s[A \ {Chosen(A)}]
  BY <1>2 DEF IsSum
<1>4. {} \in T
  <2>1. {} \in SUBSET B
    OBVIOUS
  <2>2. t[{}] = 0 /\ s[{}] = 0
    BY <1>3, <2>1
  <2>3. QED BY <2>2
<1>5. ASSUME NEW A \in SUBSET B, A # {}, \A x \in A : A \ {x} \in T
      PROVE  A \in T
  <2>1. Chosen(A) \in A
    BY <1>5 DEF Chosen
  <2>2. t[A \ {Chosen(A)}] = s[A \ {Chosen(A)}]
    BY <1>5, <2>1
  <2>3. QED BY <1>3, <1>5, <2>2
<1>6. B \in T
  <2> HIDE DEF T
  <2>1. \A A \in SUBSET B : A \in T
    BY <1>1, <1>4, <1>5, FiniteSetInduction, Zenon
  <2>2. QED BY <2>1
<1>7. QED BY <1>2, <1>6

\* The two cases of the definition.
LEMMA SumOfNone ==
  ASSUME NEW f
  PROVE  SumFunctionOnSet(f, {}) = 0
<1>1. IsFiniteSet({})
  BY FS_EmptySet
<1>2. PICK s : IsSum(s, f, {}) /\ SumFunctionOnSet(f, {}) = s[{}]
  BY <1>1, SumIsSum
<1>3. QED BY <1>2 DEF IsSum

LEMMA SumOfSome ==
  ASSUME NEW f, NEW S, IsFiniteSet(S), S # {}
  PROVE  /\ Chosen(S) \in S
         /\ SumFunctionOnSet(f, S) =
              f[Chosen(S)] + SumFunctionOnSet(f, S \ {Chosen(S)})
<1>1. PICK s : IsSum(s, f, S) /\ SumFunctionOnSet(f, S) = s[S]
  BY SumIsSum
<1>2. Chosen(S) \in S
  BY DEF Chosen
<1>3. SumFunctionOnSet(f, S \ {Chosen(S)}) = s[S \ {Chosen(S)}]
  BY <1>1, SumOfSubset
<1>4. s[S] = f[Chosen(S)] + s[S \ {Chosen(S)}]
  BY <1>1 DEF IsSum
<1>5. QED BY <1>1, <1>2, <1>3, <1>4

LEMMA SumInt ==
  ASSUME NEW S, IsFiniteSet(S), NEW f, \A x \in S : f[x] \in Int
  PROVE  \A B \in SUBSET S : SumFunctionOnSet(f, B) \in Int
<1> DEFINE T == {B \in SUBSET S : SumFunctionOnSet(f, B) \in Int}
<1>1. {} \in T
  BY SumOfNone
<1>2. ASSUME NEW B \in SUBSET S, B # {}, \A x \in B : B \ {x} \in T
      PROVE  B \in T
  <2>1. IsFiniteSet(B)
    BY FS_Subset
  <2>2. /\ Chosen(B) \in B
        /\ SumFunctionOnSet(f, B) = f[Chosen(B)] + SumFunctionOnSet(f, B \ {Chosen(B)})
    BY <1>2, <2>1, SumOfSome
  <2>3. f[Chosen(B)] \in Int /\ SumFunctionOnSet(f, B \ {Chosen(B)}) \in Int
    BY <1>2, <2>2
  <2>4. QED BY <2>2, <2>3
<1>3. \A B \in SUBSET S : B \in T
  <2> HIDE DEF T
  <2> QED BY <1>1, <1>2, FiniteSetInduction, Zenon
<1>4. QED BY <1>3

LEMMA SumNat ==
  ASSUME NEW S, IsFiniteSet(S), NEW f, \A x \in S : f[x] \in Nat
  PROVE  \A B \in SUBSET S : SumFunctionOnSet(f, B) \in Nat
<1> DEFINE T == {B \in SUBSET S : SumFunctionOnSet(f, B) \in Nat}
<1>1. {} \in T
  BY SumOfNone
<1>2. ASSUME NEW B \in SUBSET S, B # {}, \A x \in B : B \ {x} \in T
      PROVE  B \in T
  <2>1. IsFiniteSet(B)
    BY FS_Subset
  <2>2. /\ Chosen(B) \in B
        /\ SumFunctionOnSet(f, B) = f[Chosen(B)] + SumFunctionOnSet(f, B \ {Chosen(B)})
    BY <1>2, <2>1, SumOfSome
  <2>3. f[Chosen(B)] \in Nat /\ SumFunctionOnSet(f, B \ {Chosen(B)}) \in Nat
    BY <1>2, <2>2
  <2>4. QED BY <2>2, <2>3
<1>3. \A B \in SUBSET S : B \in T
  <2> HIDE DEF T
  <2> QED BY <1>1, <1>2, FiniteSetInduction, Zenon
<1>4. QED BY <1>3

\* Any element may be counted first ...
LEMMA SumTakesOut ==
  ASSUME NEW S, IsFiniteSet(S), NEW f, \A x \in S : f[x] \in Int, NEW x \in S
  PROVE  SumFunctionOnSet(f, S) = f[x] + SumFunctionOnSet(f, S \ {x})
<1> DEFINE Sum(B) == SumFunctionOnSet(f, B)
           T == {B \in SUBSET S : \A y \in B : Sum(B) = f[y] + Sum(B \ {y})}
<1>1. {} \in T
  OBVIOUS
<1>2. ASSUME NEW B \in SUBSET S, B # {}, \A y \in B : B \ {y} \in T
      PROVE  B \in T
  <2> SUFFICES ASSUME NEW y \in B PROVE Sum(B) = f[y] + Sum(B \ {y})
    OBVIOUS
  <2> DEFINE c == Chosen(B)
  <2>1. c \in B /\ Sum(B) = f[c] + Sum(B \ {c})
    <3>1. IsFiniteSet(B)
      BY FS_Subset
    <3>2. QED BY <1>2, <3>1, SumOfSome
  <2> HIDE DEF c
  <2>2. CASE y = c
    BY <2>1, <2>2
  <2>3. CASE y # c
    <3>1. Sum(B \ {c}) = f[y] + Sum((B \ {c}) \ {y})
      BY <1>2, <2>1, <2>3
    <3>2. Sum(B \ {y}) = f[c] + Sum((B \ {y}) \ {c})
      BY <1>2, <2>1, <2>3
    <3>3. (B \ {c}) \ {y} = (B \ {y}) \ {c}
      OBVIOUS
    <3>4. f[c] \in Int /\ f[y] \in Int
      BY <2>1
    <3>5. Sum((B \ {y}) \ {c}) \in Int
      BY SumInt
    <3>6. PICK rest \in Int : rest = Sum((B \ {y}) \ {c})
      BY <3>5
    <3>7. Sum(B) = f[c] + (f[y] + rest) /\ Sum(B \ {y}) = f[c] + rest
      BY <2>1, <3>1, <3>2, <3>3, <3>6
    <3>8. QED BY <3>4, <3>7
  <2>4. QED BY <2>2, <2>3
<1>3. \A B \in SUBSET S : B \in T
  <2> HIDE DEF T
  <2> QED BY <1>1, <1>2, FiniteSetInduction, Zenon
<1>4. QED BY <1>3

\* ... and a new one adds its value.
LEMMA SumAdds ==
  ASSUME NEW S, IsFiniteSet(S), NEW x, x \notin S, NEW f,
         \A y \in S \cup {x} : f[y] \in Int
  PROVE  SumFunctionOnSet(f, S \cup {x}) = SumFunctionOnSet(f, S) + f[x]
<1>1. IsFiniteSet(S \cup {x})
  BY FS_AddElement
<1>2. (S \cup {x}) \ {x} = S
  OBVIOUS
<1>3. SumFunctionOnSet(f, S \cup {x}) = f[x] + SumFunctionOnSet(f, S)
  BY <1>1, <1>2, SumTakesOut
<1>4. f[x] \in Int /\ SumFunctionOnSet(f, S) \in Int
  BY SumInt
<1>5. QED BY <1>3, <1>4

\* Functions that agree on the set have the same sum over it.
LEMMA SumSame ==
  ASSUME NEW S, IsFiniteSet(S), NEW f, NEW g, \A x \in S : f[x] = g[x]
  PROVE  SumFunctionOnSet(f, S) = SumFunctionOnSet(g, S)
<1> DEFINE T == {B \in SUBSET S : SumFunctionOnSet(f, B) = SumFunctionOnSet(g, B)}
<1>1. {} \in T
  BY SumOfNone
<1>2. ASSUME NEW B \in SUBSET S, B # {}, \A x \in B : B \ {x} \in T
      PROVE  B \in T
  <2>1. IsFiniteSet(B)
    BY FS_Subset
  <2>2. /\ Chosen(B) \in B
        /\ SumFunctionOnSet(f, B) = f[Chosen(B)] + SumFunctionOnSet(f, B \ {Chosen(B)})
        /\ SumFunctionOnSet(g, B) = g[Chosen(B)] + SumFunctionOnSet(g, B \ {Chosen(B)})
    BY <1>2, <2>1, SumOfSome
  <2>3. f[Chosen(B)] = g[Chosen(B)]
        /\ SumFunctionOnSet(f, B \ {Chosen(B)}) = SumFunctionOnSet(g, B \ {Chosen(B)})
    BY <1>2, <2>2
  <2>4. QED BY <2>2, <2>3
<1>3. \A B \in SUBSET S : B \in T
  <2> HIDE DEF T
  <2> QED BY <1>1, <1>2, FiniteSetInduction, Zenon
<1>4. QED BY <1>3

\* Changing a function at one point changes its sum by the same amount.
LEMMA SumChange ==
  ASSUME NEW S, IsFiniteSet(S), NEW k \in S,
         NEW f, \A x \in S : f[x] \in Int, NEW g, \A x \in S : g[x] \in Int,
         \A x \in S : x # k => g[x] = f[x]
  PROVE  SumFunctionOnSet(g, S) = SumFunctionOnSet(f, S) + (g[k] - f[k])
<1>1. IsFiniteSet(S \ {k})
  BY FS_RemoveElement
<1>2. SumFunctionOnSet(f, S \ {k}) = SumFunctionOnSet(g, S \ {k})
  BY <1>1, SumSame
<1>3. /\ SumFunctionOnSet(f, S) = f[k] + SumFunctionOnSet(f, S \ {k})
      /\ SumFunctionOnSet(g, S) = g[k] + SumFunctionOnSet(g, S \ {k})
  BY SumTakesOut
<1>4. f[k] \in Int /\ g[k] \in Int /\ SumFunctionOnSet(f, S \ {k}) \in Int
  BY SumInt
<1>5. QED BY <1>2, <1>3, <1>4

\* The sum over more of the elements is no smaller.
LEMMA SumGrows ==
  ASSUME NEW S, IsFiniteSet(S), NEW f, \A x \in S : f[x] \in Nat
  PROVE  \A B \in SUBSET S : SumFunctionOnSet(f, B) <= SumFunctionOnSet(f, S)
<1> DEFINE Sum(B) == SumFunctionOnSet(f, B)
           T == {C \in SUBSET S : \A B \in SUBSET C : Sum(B) <= Sum(C)}
<1>1. {} \in T
  BY SumOfNone
<1>2. ASSUME NEW C \in SUBSET S, C # {}, \A x \in C : C \ {x} \in T
      PROVE  C \in T
  <2>1. SUFFICES ASSUME NEW B \in SUBSET C PROVE Sum(B) <= Sum(C)
    OBVIOUS
  <2>2. Sum(B) \in Nat /\ Sum(C) \in Nat
    BY SumNat
  <2>3. CASE B = {}
    BY <2>2, <2>3, SumOfNone
  <2>4. ASSUME NEW x \in B PROVE Sum(B) <= Sum(C)
    <3>1. IsFiniteSet(B) /\ IsFiniteSet(C)
      BY FS_Subset
    <3>2. Sum(B) = f[x] + Sum(B \ {x}) /\ Sum(C) = f[x] + Sum(C \ {x})
      BY <3>1, SumTakesOut
    <3>3. Sum(B \ {x}) <= Sum(C \ {x})
      BY <1>2
    <3>4. f[x] \in Nat /\ Sum(B \ {x}) \in Nat /\ Sum(C \ {x}) \in Nat
      BY SumNat
    <3> HIDE DEF Sum
    <3>5. QED BY <3>2, <3>3, <3>4
  <2>5. QED BY <2>3, <2>4
<1> HIDE DEF T
<1>3. \A B \in SUBSET S : B \in T
  BY <1>1, <1>2, FiniteSetInduction
<1>4. QED
  BY <1>3 DEF T


\* A sum falls with the function.
LEMMA SumFalls ==
  ASSUME NEW S, IsFiniteSet(S), NEW f, \A x \in S : f[x] \in Int,
         NEW g, \A x \in S : g[x] \in Int /\ g[x] <= f[x]
  PROVE  SumFunctionOnSet(g, S) <= SumFunctionOnSet(f, S)
<1> DEFINE T == {B \in SUBSET S : SumFunctionOnSet(g, B) <= SumFunctionOnSet(f, B)}
<1>1. {} \in T
  BY SumOfNone
<1>2. ASSUME NEW B \in SUBSET S, B # {}, \A x \in B : B \ {x} \in T
      PROVE  B \in T
  <2>1. IsFiniteSet(B)
    BY FS_Subset
  <2>2. PICK x \in B : TRUE
    BY <1>2
  <2>3. /\ SumFunctionOnSet(f, B) = f[x] + SumFunctionOnSet(f, B \ {x})
        /\ SumFunctionOnSet(g, B) = g[x] + SumFunctionOnSet(g, B \ {x})
    BY <2>1, SumTakesOut
  <2>4. SumFunctionOnSet(g, B \ {x}) <= SumFunctionOnSet(f, B \ {x})
    BY <1>2
  <2>5. /\ f[x] \in Int /\ g[x] \in Int /\ g[x] <= f[x]
        /\ SumFunctionOnSet(f, B \ {x}) \in Int /\ SumFunctionOnSet(g, B \ {x}) \in Int
    BY SumInt
  <2>6. QED BY <2>3, <2>4, <2>5
<1>3. \A B \in SUBSET S : B \in T
  <2> HIDE DEF T
  <2> QED BY <1>1, <1>2, FiniteSetInduction, Zenon
<1>4. QED BY <1>3

LEMMA SumOfZeros ==
  ASSUME NEW S, IsFiniteSet(S)
  PROVE  SumFunctionOnSet([x \in S |-> 0], S) = 0
<1> DEFINE f == [x \in S |-> 0]
           T == {B \in SUBSET S : SumFunctionOnSet(f, B) = 0}
<1>1. {} \in T
  BY SumOfNone
<1>2. ASSUME NEW B \in SUBSET S, B # {}, \A x \in B : B \ {x} \in T
      PROVE  B \in T
  <2>1. IsFiniteSet(B)
    BY FS_Subset
  <2>2. /\ Chosen(B) \in B
        /\ SumFunctionOnSet(f, B) = f[Chosen(B)] + SumFunctionOnSet(f, B \ {Chosen(B)})
    BY <1>2, <2>1, SumOfSome
  <2>3. f[Chosen(B)] = 0 /\ SumFunctionOnSet(f, B \ {Chosen(B)}) = 0
    BY <1>2, <2>2
  <2>4. QED BY <2>2, <2>3
<1>3. \A B \in SUBSET S : B \in T
  <2> HIDE DEF T
  <2> QED BY <1>1, <1>2, FiniteSetInduction, Zenon
<1>4. QED BY <1>3
=============================================================================
