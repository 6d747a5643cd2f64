----------------------------- MODULE SumTheorems -----------------------------
(***************************************************************************)
(* Sums over finite sets.                                                  *)
(*                                                                         *)
(* MapThenSumSet is a fold, defined by recursion over sets.  A predicate   *)
(* cannot be given to the library's induction theorems here, so that each  *)
(* induction is by a smallest counterexample (LeastNumber, SmallestBad).   *)
(* What the other modules cite follows the section on the recursion.       *)
(***************************************************************************)
EXTENDS Integers, FiniteSetsExt, FiniteSetTheorems, WellFoundedInduction, TLAPS

\* The sum of the numbers f[i], i \in S.
SumOf(f, S) == MapThenSumSet(LAMBDA i : f[i], S)

-----------------------------------------------------------------------------
(* Induction                                                               *)

\* A nonempty set of numbers has a least element.
LEMMA LeastNumber ==
  ASSUME NEW T \in SUBSET Nat, T # {}
  PROVE  \E n \in T : \A m \in T : n <= m
<1> DEFINE R == {p \in Nat \X Nat : p[1] < p[2]}
<1>1. IsWellFoundedOn(R, Nat)
  BY NatLessThanWellFounded DEF OpToRel
<1>2. \E n \in T : \A m \in T : ~ (<<m, n>> \in R)
  <2> HIDE DEF R
  <2> QED BY <1>1, WFMin
<1>3. \A m, n \in Nat : ~ (<<m, n>> \in R) => n <= m
  OBVIOUS
<1> QED
  BY <1>2, <1>3

\* Induction over the subsets of a finite set: if some of them are bad, there
\* is a bad one that is good as soon as an element is taken away.
LEMMA SmallestBad ==
  ASSUME NEW S, IsFiniteSet(S), NEW Bad \in SUBSET SUBSET S, Bad # {}
  PROVE  \E s \in Bad :
            /\ IsFiniteSet(s)
            /\ \A t \in Bad : Cardinality(s) <= Cardinality(t)
            /\ \A x \in s : s \ {x} \notin Bad
<1> DEFINE Sizes == {Cardinality(s) : s \in Bad}
<1>1. \A s \in SUBSET S : IsFiniteSet(s) /\ Cardinality(s) \in Nat
  BY FS_Subset, FS_CardinalityType
<1>2. Sizes \in SUBSET Nat /\ Sizes # {}
  BY <1>1
<1>3. PICK n \in Sizes : \A m \in Sizes : n <= m
  <2> HIDE DEF Sizes
  <2> QED BY <1>2, LeastNumber
<1>4. PICK s \in Bad : n = Cardinality(s)
  OBVIOUS
<1>5. \A t \in Bad : Cardinality(s) <= Cardinality(t)
  BY <1>3, <1>4
<1>6. ASSUME NEW x \in s
      PROVE  s \ {x} \notin Bad
  <2>1. Cardinality(s \ {x}) = Cardinality(s) - 1
    BY <1>1, FS_RemoveElement
  <2> QED
    BY <1>1, <1>5, <2>1
<1> QED
  BY <1>1, <1>5, <1>6

-----------------------------------------------------------------------------
(* The recursion                                                           *)

\* The function it holds the sums of the sets of D, one element after the other.
Computes(it, f, D) ==
    it = [s \in D |-> IF s = {} THEN 0
                      ELSE f[CHOOSE x \in s : TRUE] + it[s \ {CHOOSE x \in s : TRUE}]]

\* There is a function that satisfies the equation of the sum, however large
\* the set: the definition of the fold by recursion is sound.
LEMMA ComputesExists ==
  ASSUME NEW f, NEW S, IsFiniteSet(S)
  PROVE  \E it : Computes(it, f, SUBSET S)
<1> DEFINE Upto(n) == {s \in SUBSET S : Cardinality(s) <= n}
           Good(n) == \E it : Computes(it, f, Upto(n))
           Bad == {n \in Nat : ~Good(n)}
<1>1. \A s \in SUBSET S : IsFiniteSet(s) /\ Cardinality(s) \in Nat
  BY FS_Subset, FS_CardinalityType
<1>2. Good(0)
  <2>1. Upto(0) = {{}}
    BY <1>1, FS_EmptySet
  <2>2. Computes([s \in Upto(0) |-> 0], f, Upto(0))
    BY <2>1 DEF Computes
  <2> QED
    BY <2>2
<1>3. ASSUME NEW n \in Nat, Good(n)
      PROVE  Good(n + 1)
  <2>1. PICK it : Computes(it, f, Upto(n))
    BY <1>3
  <2> DEFINE next == [s \in Upto(n + 1) |->
                        IF s = {} THEN 0
                        ELSE f[CHOOSE x \in s : TRUE] + it[s \ {CHOOSE x \in s : TRUE}]]
  <2>2. \A s \in Upto(n) : s \in Upto(n + 1) /\ next[s] = it[s]
    <3>1. \A s \in Upto(n) : s \in Upto(n + 1)
      BY <1>1
    <3>2. \A s \in Upto(n + 1) :
             next[s] = IF s = {} THEN 0
                       ELSE f[CHOOSE x \in s : TRUE] + it[s \ {CHOOSE x \in s : TRUE}]
      <4> HIDE DEF Upto
      <4> QED OBVIOUS
    <3> HIDE DEF next, Upto
    <3>3. \A s \in Upto(n) :
             it[s] = IF s = {} THEN 0
                     ELSE f[CHOOSE x \in s : TRUE] + it[s \ {CHOOSE x \in s : TRUE}]
      BY <2>1 DEF Computes
    <3> QED
      BY <3>1, <3>2, <3>3
  <2>3. \A s \in Upto(n + 1) : s # {} => s \ {CHOOSE x \in s : TRUE} \in Upto(n)
    <3> SUFFICES ASSUME NEW s \in Upto(n + 1), s # {}
                 PROVE  s \ {CHOOSE x \in s : TRUE} \in Upto(n)
      OBVIOUS
    <3> DEFINE x == CHOOSE x \in s : TRUE
    <3>1. x \in s
      OBVIOUS
    <3> HIDE DEF x
    <3>2. Cardinality(s \ {x}) = Cardinality(s) - 1
      BY <1>1, <3>1, FS_RemoveElement
    <3>3. s \ {x} \in Upto(n)
      BY <1>1, <3>2
    <3> QED
      BY <3>3 DEF x
  <2>4. Computes(next, f, Upto(n + 1))
    <3>1. \A s \in Upto(n + 1) : s # {} =>
             next[s \ {CHOOSE x \in s : TRUE}] = it[s \ {CHOOSE x \in s : TRUE}]
      <4> HIDE DEF next, Upto
      <4> QED BY <2>2, <2>3
    <3>2. next = [s \in Upto(n + 1) |->
                    IF s = {} THEN 0
                    ELSE f[CHOOSE x \in s : TRUE] + it[s \ {CHOOSE x \in s : TRUE}]]
      OBVIOUS
    <3> HIDE DEF next, Upto
    <3>3. next = [s \in Upto(n + 1) |->
                    IF s = {} THEN 0
                    ELSE f[CHOOSE x \in s : TRUE] + next[s \ {CHOOSE x \in s : TRUE}]]
      <4> DEFINE here(s) == IF s = {} THEN 0 ELSE f[CHOOSE x \in s : TRUE]
                                   + it[s \ {CHOOSE x \in s : TRUE}]
                 there(s) == IF s = {} THEN 0 ELSE f[CHOOSE x \in s : TRUE]
                                   + next[s \ {CHOOSE x \in s : TRUE}]
      <4>1. \A s \in Upto(n + 1) : here(s) = there(s)
        BY <3>1
      <4>2. next = [s \in Upto(n + 1) |-> here(s)]
        BY <3>2
      <4> HIDE DEF here, there
      <4>3. next = [s \in Upto(n + 1) |-> there(s)]
        BY <4>1, <4>2
      <4> QED
        BY <4>3 DEF there
    <3> QED
      BY <3>3 DEF Computes
  <2> QED
    BY <2>4
<1>4. \A n \in Nat : Good(n)
  <2> SUFFICES ASSUME Bad # {} PROVE FALSE
    OBVIOUS
  <2> HIDE DEF Good
  <2>1. PICK n \in Bad : \A m \in Bad : n <= m
    BY LeastNumber
  <2>2. n # 0
    BY <1>2
  <2>3. n - 1 \in Nat /\ n - 1 \notin Bad
    BY <2>1, <2>2
  <2> QED
    BY <1>3, <2>3
<1>5. Upto(Cardinality(S)) = SUBSET S
  BY <1>1, FS_Subset
<1> QED
  BY <1>1, <1>4, <1>5

\* The sum is what such a function computes.
LEMMA SumComputed ==
  ASSUME NEW f, NEW S, IsFiniteSet(S)
  PROVE  \E it : Computes(it, f, SUBSET S) /\ SumOf(f, S) = it[S]
<1> DEFINE fold == CHOOSE it : Computes(it, f, SUBSET S)
<1>1. Computes(fold, f, SUBSET S)
  BY ComputesExists
<1>2. SumOf(f, S) = fold[S]
  BY DEF SumOf, MapThenSumSet, MapThenFoldSet, Computes
<1> QED
  BY <1>1, <1>2

\* f and g agree on the set S.
Agree(f, g, S) == \A i \in S : f[i] = g[i]

\* Functions that agree on a finite set have computations that agree on it.
LEMMA ComputesAgree ==
  \A f, g, D, E, S, it, jt :
     /\ S \in SUBSET D /\ S \in SUBSET E
     /\ IsFiniteSet(S) /\ Agree(f, g, S)
     /\ Computes(it, f, SUBSET D) /\ Computes(jt, g, SUBSET E)
     => it[S] = jt[S]
<1> SUFFICES ASSUME NEW f, NEW g, NEW D, NEW E, NEW S, NEW it, NEW jt,
                    S \in SUBSET D, S \in SUBSET E, IsFiniteSet(S), Agree(f, g, S),
                    Computes(it, f, SUBSET D), Computes(jt, g, SUBSET E)
             PROVE  it[S] = jt[S]
  OBVIOUS
<1> DEFINE Bad == {s \in SUBSET S : it[s] # jt[s]}
<1> SUFFICES ASSUME Bad # {} PROVE FALSE
  OBVIOUS
<1>1. PICK s \in Bad : \A x \in s : s \ {x} \notin Bad
  <2> HIDE DEF Bad
  <2>1. Bad \in SUBSET SUBSET S
    BY DEF Bad
  <2> QED
    BY <2>1, SmallestBad
<1>2. /\ it[s] = IF s = {} THEN 0
                 ELSE f[CHOOSE x \in s : TRUE] + it[s \ {CHOOSE x \in s : TRUE}]
      /\ jt[s] = IF s = {} THEN 0
                 ELSE g[CHOOSE x \in s : TRUE] + jt[s \ {CHOOSE x \in s : TRUE}]
  <2>1. s \in SUBSET D /\ s \in SUBSET E
    OBVIOUS
  <2> QED
    BY <2>1 DEF Computes
<1>3. s # {}
  BY <1>2
<1> DEFINE y == CHOOSE x \in s : TRUE
<1>4. y \in s
  BY <1>3
<1>5. it[s] = f[y] + it[s \ {y}] /\ jt[s] = g[y] + jt[s \ {y}]
  BY <1>2, <1>3
<1> HIDE DEF y
<1>6. it[s \ {y}] = jt[s \ {y}]
  BY <1>1, <1>4
<1>7. f[y] = g[y]
  BY <1>4 DEF Agree
<1> QED
  BY <1>5, <1>6, <1>7

-----------------------------------------------------------------------------
(* What a sum is                                                           *)

\* Nothing adds up to nothing.
LEMMA SumEmpty ==
  ASSUME NEW f
  PROVE  SumOf(f, {}) = 0
<1>1. PICK it : Computes(it, f, SUBSET {}) /\ SumOf(f, {}) = it[{}]
  BY SumComputed, FS_EmptySet
<1> QED
  BY <1>1 DEF Computes

\* A sum depends on the numbers it adds up only.
LEMMA SumEqual ==
  ASSUME NEW S, IsFiniteSet(S), NEW f, NEW g, \A i \in S : f[i] = g[i]
  PROVE  SumOf(f, S) = SumOf(g, S)
<1>1. PICK it : Computes(it, f, SUBSET S) /\ SumOf(f, S) = it[S]
  BY SumComputed
<1>2. PICK jt : Computes(jt, g, SUBSET S) /\ SumOf(g, S) = jt[S]
  BY SumComputed
<1>3. it[S] = jt[S]
  <2>1. Computes(it, f, SUBSET S) /\ Computes(jt, g, SUBSET S) /\ S \in SUBSET S
    BY <1>1, <1>2
  <2>2. Agree(f, g, S)
    BY DEF Agree
  <2> QED
    BY <2>1, <2>2, ComputesAgree
<1> QED
  BY <1>1, <1>2, <1>3

\* The sum begins with the element that CHOOSE picks.
LEMMA SumBegins ==
  ASSUME NEW S, IsFiniteSet(S), S # {}, NEW f
  PROVE  \E y \in S : SumOf(f, S) = f[y] + SumOf(f, S \ {y})
<1> DEFINE y == CHOOSE x \in S : TRUE
<1>1. y \in S
  OBVIOUS
<1>2. PICK it : Computes(it, f, SUBSET S) /\ SumOf(f, S) = it[S]
  BY SumComputed
<1>3. it[S] = f[y] + it[S \ {y}]
  BY <1>2 DEF Computes
<1> HIDE DEF y
<1>4. IsFiniteSet(S \ {y})
  BY FS_Subset
<1>5. PICK jt : Computes(jt, f, SUBSET (S \ {y})) /\ SumOf(f, S \ {y}) = jt[S \ {y}]
  BY <1>4, SumComputed
<1>6. it[S \ {y}] = jt[S \ {y}]
  <2> DEFINE R == S \ {y}
  <2>1. R \in SUBSET S /\ R \in SUBSET R /\ Agree(f, f, R)
    BY DEF Agree
  <2>2. Computes(it, f, SUBSET S) /\ Computes(jt, f, SUBSET R) /\ IsFiniteSet(R)
    BY <1>2, <1>4, <1>5
  <2>3. it[R] = jt[R]
    <3> HIDE DEF R
    <3> QED BY <2>1, <2>2, ComputesAgree
  <2> QED
    BY <2>3
<1> QED
  BY <1>1, <1>2, <1>3, <1>5, <1>6

\* Integers add up to an integer.
LEMMA SumInt ==
  ASSUME NEW S, IsFiniteSet(S), NEW f, \A i \in S : f[i] \in Int
  PROVE  SumOf(f, S) \in Int
<1> DEFINE Bad == {s \in SUBSET S : SumOf(f, s) \notin Int}
<1> SUFFICES ASSUME Bad # {} PROVE FALSE
  BY FS_Subset
<1>1. PICK s \in Bad : IsFiniteSet(s) /\ \A x \in s : s \ {x} \notin Bad
  <2>1. Bad \in SUBSET SUBSET S
    OBVIOUS
  <2> HIDE DEF Bad
  <2> QED
    BY <2>1, SmallestBad
<1>2. s # {}
  BY SumEmpty
<1>3. PICK y \in s : SumOf(f, s) = f[y] + SumOf(f, s \ {y})
  BY <1>1, <1>2, SumBegins
<1>4. SumOf(f, s \ {y}) \in Int
  BY <1>1
<1> QED
  BY <1>3, <1>4

\* Any element may be taken out first: the order does not matter.
LEMMA SumRemove ==
  ASSUME NEW S, IsFiniteSet(S), NEW f, \A i \in S : f[i] \in Int, NEW x \in S
  PROVE  SumOf(f, S) = f[x] + SumOf(f, S \ {x})
<1> DEFINE Bad == {s \in SUBSET S :
                     \E z \in s : SumOf(f, s) # f[z] + SumOf(f, s \ {z})}
<1> SUFFICES ASSUME Bad # {} PROVE FALSE
  OBVIOUS
<1>1. PICK s \in Bad : IsFiniteSet(s) /\ \A z \in s : s \ {z} \notin Bad
  <2>1. Bad \in SUBSET SUBSET S
    OBVIOUS
  <2> HIDE DEF Bad
  <2> QED
    BY <2>1, SmallestBad
<1>2. PICK z \in s : SumOf(f, s) # f[z] + SumOf(f, s \ {z})
  OBVIOUS
<1>3. PICK y \in s : SumOf(f, s) = f[y] + SumOf(f, s \ {y})
  BY <1>1, <1>2, SumBegins
<1>4. y # z
  BY <1>2, <1>3
<1>5. SumOf(f, s \ {y}) = f[z] + SumOf(f, (s \ {y}) \ {z})
  BY <1>1, <1>4
<1>6. SumOf(f, s \ {z}) = f[y] + SumOf(f, (s \ {z}) \ {y})
  BY <1>1, <1>4
<1>7. (s \ {y}) \ {z} = (s \ {z}) \ {y}
  OBVIOUS
<1>8. SumOf(f, (s \ {z}) \ {y}) \in Int
  <2>1. IsFiniteSet((s \ {z}) \ {y})
    BY <1>1, FS_Subset
  <2>2. \A i \in (s \ {z}) \ {y} : f[i] \in Int
    OBVIOUS
  <2> QED
    BY <2>1, <2>2, SumInt
<1>9. f[y] \in Int /\ f[z] \in Int
  OBVIOUS
<1> DEFINE r == SumOf(f, (s \ {z}) \ {y})
           fy == f[y]
           fz == f[z]
<1>10. SumOf(f, s) = fy + (fz + r) /\ SumOf(f, s) # fz + (fy + r)
  BY <1>2, <1>3, <1>5, <1>6, <1>7
<1>11. r \in Int /\ fy \in Int /\ fz \in Int
  BY <1>8, <1>9
<1> HIDE DEF Bad, r, fy, fz
<1>12. fy + (fz + r) = fz + (fy + r)
  BY <1>11
<1> QED
  BY <1>10, <1>12

-----------------------------------------------------------------------------
(* How a sum moves                                                         *)

\* A new element adds its number.
LEMMA SumAdd ==
  ASSUME NEW S, IsFiniteSet(S), NEW x, x \notin S,
         NEW f, \A i \in S \cup {x} : f[i] \in Int
  PROVE  SumOf(f, S \cup {x}) = SumOf(f, S) + f[x]
<1>1. IsFiniteSet(S \cup {x})
  BY FS_AddElement
<1>2. SumOf(f, S \cup {x}) = f[x] + SumOf(f, (S \cup {x}) \ {x})
  BY <1>1, SumRemove
<1>3. (S \cup {x}) \ {x} = S
  OBVIOUS
<1>4. SumOf(f, S) \in Int /\ f[x] \in Int
  BY SumInt
<1>5. SumOf(f, S \cup {x}) = f[x] + SumOf(f, S)
  BY <1>2, <1>3
<1> QED
  BY <1>4, <1>5

\* When one number changes, the sum changes by the difference.
LEMMA SumChange ==
  ASSUME NEW S, IsFiniteSet(S), NEW x \in S,
         NEW f, \A i \in S : f[i] \in Int, NEW g, g[x] \in Int,
         \A i \in S \ {x} : g[i] = f[i]
  PROVE  SumOf(g, S) = SumOf(f, S) - f[x] + g[x]
<1>1. \A i \in S : g[i] \in Int
  OBVIOUS
<1>2. SumOf(f, S) = f[x] + SumOf(f, S \ {x})
  BY SumRemove
<1>3. SumOf(g, S) = g[x] + SumOf(g, S \ {x})
  BY <1>1, SumRemove
<1>4. IsFiniteSet(S \ {x})
  BY FS_Subset
<1>5. SumOf(g, S \ {x}) = SumOf(f, S \ {x})
  BY <1>4, SumEqual
<1>6. SumOf(f, S \ {x}) \in Int
  BY <1>4, SumInt
<1>7. f[x] \in Int
  OBVIOUS
<1> QED
  BY <1>2, <1>3, <1>5, <1>6, <1>7

\* Smaller numbers have a smaller sum.
LEMMA SumAtMost ==
  ASSUME NEW S, IsFiniteSet(S), NEW f, NEW g,
         \A i \in S : f[i] \in Int /\ g[i] \in Int /\ f[i] <= g[i]
  PROVE  SumOf(f, S) <= SumOf(g, S)
<1> DEFINE Bad == {s \in SUBSET S : ~(SumOf(f, s) <= SumOf(g, s))}
<1> SUFFICES ASSUME Bad # {} PROVE FALSE
  OBVIOUS
<1>1. PICK s \in Bad : IsFiniteSet(s) /\ \A z \in s : s \ {z} \notin Bad
  <2>1. Bad \in SUBSET SUBSET S
    OBVIOUS
  <2> HIDE DEF Bad
  <2> QED
    BY <2>1, SmallestBad
<1>2. s # {}
  BY SumEmpty
<1>3. PICK y \in s : SumOf(f, s) = f[y] + SumOf(f, s \ {y})
  BY <1>1, <1>2, SumBegins
<1>4. SumOf(g, s) = g[y] + SumOf(g, s \ {y})
  <2>1. \A i \in s : g[i] \in Int
    OBVIOUS
  <2> HIDE DEF Bad
  <2> QED BY <1>1, <2>1, SumRemove
<1>5. SumOf(f, s \ {y}) <= SumOf(g, s \ {y})
  BY <1>1
<1>6. SumOf(f, s \ {y}) \in Int /\ SumOf(g, s \ {y}) \in Int
  <2>1. IsFiniteSet(s \ {y})
    BY <1>1, FS_Subset
  <2>2. \A i \in s \ {y} : f[i] \in Int /\ g[i] \in Int
    OBVIOUS
  <2> HIDE DEF Bad
  <2> QED
    BY <2>1, <2>2, SumInt
<1>7. f[y] \in Int /\ g[y] \in Int /\ f[y] <= g[y]
  OBVIOUS
<1> QED
  BY <1>3, <1>4, <1>5, <1>6, <1>7

\* Nothing but zeros adds up to zero.
LEMMA SumZero ==
  ASSUME NEW S, IsFiniteSet(S), NEW f, \A i \in S : f[i] = 0
  PROVE  SumOf(f, S) = 0
<1> DEFINE Bad == {s \in SUBSET S : SumOf(f, s) # 0}
<1> SUFFICES ASSUME Bad # {} PROVE FALSE
  OBVIOUS
<1>1. PICK s \in Bad : IsFiniteSet(s) /\ \A z \in s : s \ {z} \notin Bad
  <2>1. Bad \in SUBSET SUBSET S
    OBVIOUS
  <2> HIDE DEF Bad
  <2> QED
    BY <2>1, SmallestBad
<1>2. s # {}
  BY SumEmpty
<1>3. PICK y \in s : SumOf(f, s) = f[y] + SumOf(f, s \ {y})
  BY <1>1, <1>2, SumBegins
<1>4. SumOf(f, s \ {y}) = 0 /\ f[y] = 0
  BY <1>1
<1> QED
  BY <1>3, <1>4

\* Numbers that are not negative do not add up to less than zero.
LEMMA SumNat ==
  ASSUME NEW S, IsFiniteSet(S), NEW f, \A i \in S : f[i] \in Int /\ f[i] >= 0
  PROVE  SumOf(f, S) \in Nat
<1> DEFINE g == [i \in S |-> 0]
<1>1. SumOf(g, S) = 0
  BY SumZero
<1>2. SumOf(g, S) <= SumOf(f, S)
  <2>1. \A i \in S : g[i] \in Int /\ f[i] \in Int /\ g[i] <= f[i]
    OBVIOUS
  <2> HIDE DEF g
  <2> QED
    BY <2>1, SumAtMost
<1>3. SumOf(f, S) \in Int
  BY SumInt
<1> QED
  BY <1>1, <1>2, <1>3

\* Sums add up termwise.
LEMMA SumPlus ==
  ASSUME NEW S, IsFiniteSet(S), NEW f, NEW g, NEW h,
         \A i \in S : f[i] \in Int /\ g[i] \in Int /\ h[i] = f[i] + g[i]
  PROVE  SumOf(h, S) = SumOf(f, S) + SumOf(g, S)
<1> DEFINE Bad == {s \in SUBSET S : SumOf(h, s) # SumOf(f, s) + SumOf(g, s)}
<1> SUFFICES ASSUME Bad # {} PROVE FALSE
  OBVIOUS
<1>1. PICK s \in Bad : IsFiniteSet(s) /\ \A z \in s : s \ {z} \notin Bad
  <2>1. Bad \in SUBSET SUBSET S
    OBVIOUS
  <2> HIDE DEF Bad
  <2> QED
    BY <2>1, SmallestBad
<1>2. s # {}
  <2> SUFFICES ASSUME s = {} PROVE FALSE
    OBVIOUS
  <2>1. SumOf(f, {}) = 0 /\ SumOf(g, {}) = 0 /\ SumOf(h, {}) = 0
    BY SumEmpty
  <2> QED
    BY <2>1
<1>3. PICK y \in s : SumOf(h, s) = h[y] + SumOf(h, s \ {y})
  BY <1>1, <1>2, SumBegins
<1>4. SumOf(f, s) = f[y] + SumOf(f, s \ {y})
  <2>1. \A i \in s : f[i] \in Int
    OBVIOUS
  <2> HIDE DEF Bad
  <2> QED BY <1>1, <2>1, SumRemove
<1>5. SumOf(g, s) = g[y] + SumOf(g, s \ {y})
  <2>1. \A i \in s : g[i] \in Int
    OBVIOUS
  <2> HIDE DEF Bad
  <2> QED BY <1>1, <2>1, SumRemove
<1>6. SumOf(f, s \ {y}) \in Int /\ SumOf(g, s \ {y}) \in Int
  <2>1. IsFiniteSet(s \ {y})
    BY <1>1, FS_Subset
  <2>2. \A i \in s \ {y} : f[i] \in Int
    OBVIOUS
  <2>3. \A i \in s \ {y} : g[i] \in Int
    OBVIOUS
  <2> HIDE DEF Bad
  <2>4. SumOf(f, s \ {y}) \in Int
    BY <2>1, <2>2, SumInt
  <2>5. SumOf(g, s \ {y}) \in Int
    BY <2>1, <2>3, SumInt
  <2> QED
    BY <2>4, <2>5
<1>7. SumOf(h, s \ {y}) = SumOf(f, s \ {y}) + SumOf(g, s \ {y})
  BY <1>1
<1>8. f[y] \in Int /\ g[y] \in Int /\ h[y] = f[y] + g[y]
  OBVIOUS
<1> QED
  BY <1>3, <1>4, <1>5, <1>6, <1>7, <1>8

\* Disjoint sets add up.
LEMMA SumUnion ==
  ASSUME NEW S, IsFiniteSet(S), NEW T, IsFiniteSet(T), S \cap T = {},
         NEW f, \A i \in S \cup T : f[i] \in Int
  PROVE  SumOf(f, S \cup T) = SumOf(f, S) + SumOf(f, T)
<1> DEFINE Bad == {s \in SUBSET S : SumOf(f, s \cup T) # SumOf(f, s) + SumOf(f, T)}
<1> SUFFICES ASSUME Bad # {} PROVE FALSE
  OBVIOUS
<1>1. PICK s \in Bad : IsFiniteSet(s) /\ \A z \in s : s \ {z} \notin Bad
  <2>1. Bad \in SUBSET SUBSET S
    OBVIOUS
  <2> HIDE DEF Bad
  <2> QED
    BY <2>1, SmallestBad
<1>2. SumOf(f, T) \in Int
  <2>1. \A i \in T : f[i] \in Int
    OBVIOUS
  <2> HIDE DEF Bad
  <2> QED BY <2>1, SumInt
<1>3. s # {}
  <2> SUFFICES ASSUME s = {} PROVE FALSE
    OBVIOUS
  <2>1. s \cup T = T
    OBVIOUS
  <2>2. SumOf(f, {}) = 0
    BY SumEmpty
  <2>3. SumOf(f, s \cup T) # SumOf(f, s) + SumOf(f, T)
    OBVIOUS
  <2>4. SumOf(f, s) = 0
    BY <2>2
  <2> HIDE DEF Bad
  <2>5. SumOf(f, T) # SumOf(f, s) + SumOf(f, T)
    BY <2>1, <2>3
  <2> QED
    BY <1>2, <2>4, <2>5
<1>4. PICK y \in s : TRUE
  BY <1>3
<1>5. SumOf(f, s) = f[y] + SumOf(f, s \ {y})
  <2>1. \A i \in s : f[i] \in Int
    OBVIOUS
  <2> HIDE DEF Bad
  <2> QED BY <1>1, <2>1, SumRemove
<1>6. SumOf(f, s \cup T) = f[y] + SumOf(f, (s \cup T) \ {y})
  <2>1. \A i \in s \cup T : f[i] \in Int
    OBVIOUS
  <2>2. y \in s \cup T
    OBVIOUS
  <2> HIDE DEF Bad
  <2>3. IsFiniteSet(s \cup T)
    BY <1>1, FS_Union
  <2> QED BY <2>1, <2>2, <2>3, SumRemove
<1>7. (s \cup T) \ {y} = (s \ {y}) \cup T
  OBVIOUS
<1>8. SumOf(f, (s \ {y}) \cup T) = SumOf(f, s \ {y}) + SumOf(f, T)
  BY <1>1
<1>9. SumOf(f, s \ {y}) \in Int
  <2>1. IsFiniteSet(s \ {y})
    BY <1>1, FS_Subset
  <2>2. \A i \in s \ {y} : f[i] \in Int
    OBVIOUS
  <2> HIDE DEF Bad
  <2> QED
    BY <2>1, <2>2, SumInt
<1>10. f[y] \in Int
  OBVIOUS
<1>11. SumOf(f, s \cup T) # SumOf(f, s) + SumOf(f, T)
  OBVIOUS
<1> HIDE DEF Bad
<1>12. SumOf(f, s \cup T) = f[y] + (SumOf(f, s \ {y}) + SumOf(f, T))
  BY <1>6, <1>7, <1>8
<1> QED
  BY <1>2, <1>5, <1>9, <1>10, <1>11, <1>12

\* A sum over part of a set is the sum of a function that vanishes elsewhere.
LEMMA SumPart ==
  ASSUME NEW S, IsFiniteSet(S), NEW T \in SUBSET S,
         NEW f, \A i \in T : f[i] \in Int,
         NEW g, \A i \in T : g[i] = f[i], \A i \in S \ T : g[i] = 0
  PROVE  SumOf(g, S) = SumOf(f, T)
<1>1. IsFiniteSet(T) /\ IsFiniteSet(S \ T)
  BY FS_Subset
<1>2. SumOf(g, S \ T) = 0
  BY <1>1, SumZero
<1>3. SumOf(g, T) = SumOf(f, T)
  BY <1>1, SumEqual
<1>4. SumOf(f, T) \in Int
  BY <1>1, SumInt
<1>5. SumOf(g, T \cup (S \ T)) = SumOf(g, T) + SumOf(g, S \ T)
  <2>1. T \cap (S \ T) = {} /\ \A i \in T \cup (S \ T) : g[i] \in Int
    OBVIOUS
  <2> QED
    BY <1>1, <2>1, SumUnion
<1>6. T \cup (S \ T) = S
  OBVIOUS
<1> QED
  BY <1>2, <1>3, <1>4, <1>5, <1>6

\* A sum of terms that are not larger, one of them smaller, is smaller.
LEMMA SumLess ==
  ASSUME NEW S, IsFiniteSet(S), NEW f, NEW g,
         \A i \in S : f[i] \in Int /\ g[i] \in Int /\ f[i] <= g[i],
         NEW x \in S, f[x] < g[x]
  PROVE  SumOf(f, S) < SumOf(g, S)
<1> DEFINE T == S \ {x}
<1>1. IsFiniteSet(T) /\ x \notin T /\ T \cup {x} = S
  BY FS_Subset
<1> HIDE DEF T
<1>2. SumOf(f, S) = SumOf(f, T) + f[x]
  <2>1. \A i \in T \cup {x} : f[i] \in Int
    BY <1>1
  <2> QED
    BY <1>1, <2>1, SumAdd
<1>3. SumOf(g, S) = SumOf(g, T) + g[x]
  <2>1. \A i \in T \cup {x} : g[i] \in Int
    BY <1>1
  <2> QED
    BY <1>1, <2>1, SumAdd
<1>4. SumOf(f, T) <= SumOf(g, T)
  <2>1. \A i \in T : f[i] \in Int /\ g[i] \in Int /\ f[i] <= g[i]
    BY <1>1
  <2> QED
    BY <1>1, <2>1, SumAtMost
<1>5. SumOf(f, T) \in Int
  <2>1. \A i \in T : f[i] \in Int
    BY <1>1
  <2> QED
    BY <1>1, <2>1, SumInt
<1>6. SumOf(g, T) \in Int
  <2>1. \A i \in T : g[i] \in Int
    BY <1>1
  <2> QED
    BY <1>1, <2>1, SumInt
<1>7. f[x] \in Int /\ g[x] \in Int
  OBVIOUS
<1> QED
  BY <1>2, <1>3, <1>4, <1>5, <1>6, <1>7

=============================================================================
