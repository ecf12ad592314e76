--------------------------- MODULE Rankings_proofs -------------------------
(***************************************************************************)
(* Facts about sums over finite sets, and what Kendall's W says of the     *)
(* rankings it is computed from, for any number of answers and judges.     *)
(***************************************************************************)
EXTENDS Rankings, FiniteSetTheorems, TLAPS

---------------------------------------------------------------------------
(* Induction, over sets instead of predicates.                             *)

\* A set of subsets of a finite set has a smallest one.
LEMMA SmallestSubset ==
  ASSUME NEW S, IsFiniteSet(S), NEW Q \in SUBSET SUBSET S, Q # {}
  PROVE  \E s \in Q : \A x \in s : s \ {x} \notin Q
<1>1. Q \subseteq FiniteSubsetsOf(S)
  BY FS_FiniteSubsetsOfFinite
<1>2. PICK s \in Q : \A t \in Q : ~(<<t, s>> \in StrictSubsetOrdering(S))
  BY <1>1, FS_StrictSubsetOrderingWellFounded, WFMin
<1>3. ASSUME NEW x \in s PROVE s \ {x} \notin Q
  <2>1. <<s \ {x}, s>> \in StrictSubsetOrdering(S)
    BY DEF StrictSubsetOrdering
  <2>2. QED
    BY <2>1, <1>2
<1>4. QED
  BY <1>3

\* What the empty set has, and what no element adds takes away, a finite set has.
LEMMA SubsetInduction ==
  ASSUME NEW S, IsFiniteSet(S), NEW Q, {} \in Q,
         \A s \in SUBSET S : \A x \in s : s \ {x} \in Q => s \in Q
  PROVE  \A s \in SUBSET S : s \in Q
<1>1. SUFFICES ASSUME {s \in SUBSET S : s \notin Q} # {} PROVE FALSE
  OBVIOUS
<1>2. PICK s \in {t \in SUBSET S : t \notin Q} :
        \A x \in s : s \ {x} \notin {t \in SUBSET S : t \notin Q}
  BY <1>1, SmallestSubset
<1>3. PICK x \in s : TRUE
  BY <1>2
<1>4. QED
  BY <1>2, <1>3

\* Induction up to n.
LEMMA UpTo ==
  ASSUME NEW Q, NEW n \in Nat, 0 \in Q, \A m \in 0 .. n - 1 : m \in Q => m + 1 \in Q
  PROVE  \A m \in 0 .. n : m \in Q
<1> DEFINE Bad == {m \in 0 .. n : m \notin Q}
<1>1. SUFFICES ASSUME Bad # {} PROVE FALSE
  OBVIOUS
<1>2. Bad \subseteq Nat
  OBVIOUS
<1>3. PICK m \in Bad : \A y \in Bad : ~(<<y, m>> \in OpToRel(<, Nat))
  <2> HIDE DEF Bad
  <2>1. QED
    BY <1>1, <1>2, NatLessThanWellFounded, WFMin
<1>4. m - 1 \in 0 .. n - 1 /\ m - 1 \notin Q
  <2>1. m # 0 /\ m \in 0 .. n /\ m = (m - 1) + 1
    <3>1. m \in 0 .. n /\ m \notin Q
      BY <1>3
    <3>2. QED
      BY <3>1
  <2>2. m - 1 \in 0 .. n - 1
    BY <2>1
  <2>3. QED
    BY <2>1, <2>2, <1>3
<1>5. <<m - 1, m>> \in OpToRel(<, Nat) /\ m - 1 \in Bad
  BY <1>4, <1>3 DEF OpToRel
<1>6. QED
  BY <1>5, <1>3

---------------------------------------------------------------------------
(* Sums.                                                                   *)

Pick(s) == CHOOSE x \in s : TRUE

\* iter adds up f, the element that is picked first.
AddsUp(iter, f, S) ==
  iter = [s \in SUBSET S |-> IF s = {} THEN 0 ELSE f[Pick(s)] + iter[s \ {Pick(s)}]]

\* The equation SumFunction is defined by.
LEMMA SumFunctionIs ==
  ASSUME NEW f
  PROVE  SumFunction(f) = (CHOOSE iter : AddsUp(iter, f, DOMAIN f))[DOMAIN f]
BY DEF SumFunction, SumFunctionOnSet, FoldFunctionOnSet, MapThenFoldSet, Pick, AddsUp

\* There is such an iter: begin with the empty set, and go on by size.
LEMMA AddsUpExists ==
  ASSUME NEW S, IsFiniteSet(S), NEW f \in [S -> Int]
  PROVE  \E iter \in [SUBSET S -> Int] : AddsUp(iter, f, S)
<1> DEFINE Small(m) == {s \in SUBSET S : Cardinality(s) <= m}
           Adds(iter, m) ==
             \A s \in Small(m) :
               iter[s] = IF s = {} THEN 0 ELSE f[Pick(s)] + iter[s \ {Pick(s)}]
           Q == {m \in Nat : \E iter \in [Small(m) -> Int] : Adds(iter, m)}
<1>1. \A s \in SUBSET S : IsFiniteSet(s) /\ Cardinality(s) \in 0 .. Cardinality(S)
  BY FS_Subset, FS_CardinalityType
<1>2. \A s \in SUBSET S : s # {} => Pick(s) \in s
  BY DEF Pick
<1>3. ASSUME NEW m \in Nat, NEW s \in Small(m + 1), s # {}
      PROVE  s \ {Pick(s)} \in Small(m)
  BY <1>1, <1>2, <1>3, FS_RemoveElement
<1>4. 0 \in Q
  <2>1. Small(0) \subseteq {{}}
    BY <1>1, FS_EmptySet
  <2>2. [s \in Small(0) |-> 0] \in [Small(0) -> Int] /\ Adds([s \in Small(0) |-> 0], 0)
    BY <2>1
  <2>3. QED
    BY <2>2
<1>5. ASSUME NEW m \in Nat, m \in Q PROVE m + 1 \in Q
  <2>1. PICK iter \in [Small(m) -> Int] : Adds(iter, m)
    BY <1>5
  <2> DEFINE next == [s \in Small(m + 1) |-> IF s = {} THEN 0 ELSE f[Pick(s)] + iter[s \ {Pick(s)}]]
  <2>2. next \in [Small(m + 1) -> Int]
    <3>1. ASSUME NEW s \in Small(m + 1), s # {} PROVE f[Pick(s)] + iter[s \ {Pick(s)}] \in Int
      <4>1. s \ {Pick(s)} \in Small(m)
        BY <1>3, <3>1
      <4>2. f[Pick(s)] \in Int
        BY <1>2, <3>1
      <4>3. iter[s \ {Pick(s)}] \in Int
        BY <4>1
      <4>4. QED
        BY <4>2, <4>3
    <3>2. QED
      BY <3>1
  <2>3. ASSUME NEW s \in Small(m) PROVE s \in Small(m + 1) /\ next[s] = iter[s]
    <3>1. s \in Small(m + 1)
      BY <1>1
    <3>2. QED
      BY <3>1, <2>1
  <2>4. Adds(next, m + 1)
    <3>1. ASSUME NEW s \in Small(m + 1), s # {}
          PROVE  next[s] = f[Pick(s)] + next[s \ {Pick(s)}]
      <4>1. s \ {Pick(s)} \in Small(m)
        BY <1>3, <3>1
      <4>2. next[s \ {Pick(s)}] = iter[s \ {Pick(s)}]
        BY <4>1, <2>3
      <4>3. next[s] = f[Pick(s)] + iter[s \ {Pick(s)}]
        BY <3>1
      <4>4. QED
        BY <4>2, <4>3
    <3>2. QED
      BY <3>1
  <2> HIDE DEF next, Adds, Small
  <2>5. QED
    BY <2>2, <2>4
<1>6. Cardinality(S) \in Q
  <2> HIDE DEF Q
  <2>1. Cardinality(S) \in Nat
    BY FS_CardinalityType
  <2>2. QED
    BY <2>1, <1>4, <1>5, UpTo
<1>7. PICK iter \in [Small(Cardinality(S)) -> Int] : Adds(iter, Cardinality(S))
  BY <1>6
<1>8. Small(Cardinality(S)) = SUBSET S
  BY <1>1
<1>9. QED
  BY <1>7, <1>8 DEF AddsUp

\* No other function adds up f.
LEMMA AddsUpUnique ==
  ASSUME NEW S, IsFiniteSet(S), NEW T \in SUBSET S, NEW f, NEW g,
         \A x \in T : f[x] = g[x],
         NEW one, AddsUp(one, f, S), NEW other, AddsUp(other, g, T)
  PROVE  other[T] = one[T]
<1> DEFINE Q == {s \in SUBSET T : other[s] = one[s]}
<1>1. {} \in Q
  BY DEF AddsUp
<1>2. ASSUME NEW s \in SUBSET T, NEW x0 \in s, \A x \in s : s \ {x} \in Q PROVE s \in Q
  <2>1. Pick(s) \in s
    BY DEF Pick
  <2>2. other[s] = g[Pick(s)] + other[s \ {Pick(s)}]
    BY <2>1 DEF AddsUp
  <2>3. one[s] = f[Pick(s)] + one[s \ {Pick(s)}]
    BY <2>1 DEF AddsUp
  <2>4. QED
    BY <2>1, <2>2, <2>3, <1>2
<1>3. SUFFICES ASSUME {s \in SUBSET T : s \notin Q} # {} PROVE FALSE
  OBVIOUS
<1>4. PICK s \in {t \in SUBSET T : t \notin Q} :
        \A x \in s : s \ {x} \notin {t \in SUBSET T : t \notin Q}
  <2> HIDE DEF Q
  <2>1. IsFiniteSet(T)
    BY FS_Subset
  <2>2. QED
    BY <2>1, <1>3, SmallestSubset
<1>5. QED
  BY <1>1, <1>2, <1>4

\* A sum is what any element adds, and the sum of the others.
LEMMA SumOf ==
  ASSUME NEW S, IsFiniteSet(S), NEW f \in [S -> Int]
  PROVE  /\ SumFunction(f) \in Int
         /\ S = {} => SumFunction(f) = 0
         /\ \A x \in S : SumFunction(f) = f[x] + SumFunction([y \in S \ {x} |-> f[y]])
<1>1. ASSUME NEW T \in SUBSET S, NEW g, \A x \in T : g[x] = f[x], DOMAIN g = T
      PROVE  \E iter \in [SUBSET T -> Int] : AddsUp(iter, g, T) /\ SumFunction(g) = iter[T]
  <2>1. IsFiniteSet(T) /\ [x \in T |-> f[x]] \in [T -> Int]
    BY FS_Subset
  <2>2. PICK iter \in [SUBSET T -> Int] : AddsUp(iter, [x \in T |-> f[x]], T)
    BY <2>1, AddsUpExists
  <2>3. AddsUp(iter, g, T)
    <3>1. ASSUME NEW s \in SUBSET T, s # {} PROVE [x \in T |-> f[x]][Pick(s)] = g[Pick(s)]
      BY <3>1, <1>1 DEF Pick
    <3>2. QED
      BY <2>2, <3>1 DEF AddsUp
  <2>4. AddsUp(CHOOSE it : AddsUp(it, g, T), g, T)
    BY <2>3
  <2>5. (CHOOSE it : AddsUp(it, g, T))[T] = iter[T]
    <3> DEFINE it == CHOOSE it : AddsUp(it, g, T)
    <3>1. AddsUp(it, g, T)
      BY <2>4
    <3> HIDE DEF it
    <3>2. it[T] = iter[T]
      BY <3>1, <2>3, <2>1, AddsUpUnique
    <3>3. QED
      BY <3>2 DEF it
  <2>6. QED
    BY <2>3, <2>5, <1>1, SumFunctionIs
<1>2. PICK iter \in [SUBSET S -> Int] : AddsUp(iter, f, S) /\ SumFunction(f) = iter[S]
  BY <1>1
<1>3. ASSUME NEW T \in SUBSET S PROVE SumFunction([y \in T |-> f[y]]) = iter[T]
  <2>1. PICK it \in [SUBSET T -> Int] :
          AddsUp(it, [y \in T |-> f[y]], T) /\ SumFunction([y \in T |-> f[y]]) = it[T]
    BY <1>1
  <2>2. \A x \in T : f[x] = [y \in T |-> f[y]][x]
    OBVIOUS
  <2>3. it[T] = iter[T]
    BY <2>1, <2>2, <1>2, AddsUpUnique
  <2>4. QED
    BY <2>1, <2>3
<1> DEFINE Bad == {s \in SUBSET S : \E x \in s : iter[s] # f[x] + iter[s \ {x}]}
<1>4. ASSUME NEW s \in SUBSET S, s # {}
      PROVE  Pick(s) \in s /\ iter[s] = f[Pick(s)] + iter[s \ {Pick(s)}]
  BY <1>2, <1>4 DEF AddsUp, Pick
<1>5. ASSUME NEW s \in SUBSET S, \A x \in s : s \ {x} \notin Bad PROVE s \notin Bad
  <2>1. SUFFICES ASSUME NEW x \in s PROVE iter[s] = f[x] + iter[s \ {x}]
    OBVIOUS
  <2>2. Pick(s) \in s /\ iter[s] = f[Pick(s)] + iter[s \ {Pick(s)}]
    BY <1>4
  <2>3. CASE x = Pick(s)
    BY <2>2, <2>3
  <2>4. CASE x # Pick(s)
    <3>0. PICK p : p = Pick(s)
      OBVIOUS
    <3>1. iter[s \ {p}] = f[x] + iter[(s \ {p}) \ {x}]
      BY <2>2, <2>4, <3>0, <1>5
    <3>2. iter[s \ {x}] = f[p] + iter[(s \ {x}) \ {p}]
      BY <2>2, <2>4, <3>0, <1>5
    <3>3. (s \ {p}) \ {x} = (s \ {x}) \ {p}
      OBVIOUS
    <3>4. iter[s \ {p}] = f[x] + iter[(s \ {x}) \ {p}]
      BY <3>1, <3>3
    <3>5. iter[s] = f[p] + iter[s \ {p}]
      BY <2>2, <3>0
    <3>6. f[x] \in Int /\ f[p] \in Int /\ iter[(s \ {x}) \ {p}] \in Int
      BY <2>2, <3>0
    <3>7. QED
      BY <3>2, <3>4, <3>5, <3>6
  <2>5. QED
    BY <2>3, <2>4
<1>6. Bad = {}
  <2>1. Bad \in SUBSET SUBSET S
    OBVIOUS
  <2> HIDE DEF Bad
  <2>2. QED
    BY <2>1, <1>5, SmallestSubset
<1>7. iter[{}] = 0
  BY <1>2 DEF AddsUp
<1>8. ASSUME NEW x \in S PROVE SumFunction(f) = f[x] + SumFunction([y \in S \ {x} |-> f[y]])
  <2>1. iter[S] = f[x] + iter[S \ {x}]
    BY <1>6
  <2>2. QED
    BY <2>1, <1>2, <1>3
<1>9. QED
  BY <1>2, <1>7, <1>8

\* The sum over some of the arguments.
Part(f, s) == SumFunction([x \in s |-> f[x]])

\* A partial sum is what any element adds, and the sum of the others.
LEMMA PartOf ==
  ASSUME NEW S, IsFiniteSet(S), NEW f \in [S -> Int]
  PROVE  /\ Part(f, S) = SumFunction(f)
         /\ Part(f, {}) = 0
         /\ \A s \in SUBSET S :
              /\ Part(f, s) \in Int
              /\ \A x \in s : Part(f, s) = f[x] + Part(f, s \ {x})
<1>1. [x \in S |-> f[x]] = f
  OBVIOUS
<1>2. ASSUME NEW s \in SUBSET S
      PROVE  /\ Part(f, s) \in Int
             /\ s = {} => Part(f, s) = 0
             /\ \A x \in s : Part(f, s) = f[x] + Part(f, s \ {x})
  <2>1. IsFiniteSet(s) /\ [x \in s |-> f[x]] \in [s -> Int]
    BY FS_Subset
  <2>2. PICK g \in [s -> Int] : g = [x \in s |-> f[x]]
    BY <2>1
  <2>3. /\ SumFunction(g) \in Int
        /\ s = {} => SumFunction(g) = 0
        /\ \A x \in s : SumFunction(g) = g[x] + SumFunction([y \in s \ {x} |-> g[y]])
    BY <2>1, <2>2, SumOf
  <2>4. ASSUME NEW x \in s PROVE [y \in s \ {x} |-> g[y]] = [y \in s \ {x} |-> f[y]] /\ g[x] = f[x]
    BY <2>2
  <2>5. /\ Part(f, s) = SumFunction(g)
        /\ \A x \in s : Part(f, s \ {x}) = SumFunction([y \in s \ {x} |-> g[y]])
    BY <2>2, <2>4 DEF Part
  <2>6. QED
    BY <2>3, <2>4, <2>5
<1>3. QED
  BY <1>1, <1>2 DEF Part

\* The part of a sum over s is that over all but one of s, and that one.
LEMMA PartWithout ==
  ASSUME NEW S, IsFiniteSet(S), NEW f \in [S -> Int], NEW s \in SUBSET S, NEW x \in s
  PROVE  Part(f, s) = f[x] + Part(f, s \ {x})
BY PartOf

\* A sum grows with what is summed.
LEMMA SumMonotonic ==
  ASSUME NEW S, IsFiniteSet(S), NEW f \in [S -> Int], NEW g \in [S -> Int],
         \A x \in S : f[x] <= g[x]
  PROVE  SumFunction(f) <= SumFunction(g)
<1> DEFINE Q == {s \in SUBSET S : Part(f, s) <= Part(g, s)}
<1>1. {} \in Q
  BY PartOf
<1>2. ASSUME NEW s \in SUBSET S, NEW x \in s, s \ {x} \in Q PROVE s \in Q
  <2>1. Part(f, s) = f[x] + Part(f, s \ {x}) /\ Part(g, s) = g[x] + Part(g, s \ {x})
    BY PartOf
  <2>2. /\ f[x] \in Int /\ g[x] \in Int /\ f[x] <= g[x]
        /\ Part(f, s \ {x}) \in Int /\ Part(g, s \ {x}) \in Int
    BY PartOf
  <2>3. Part(f, s \ {x}) <= Part(g, s \ {x})
    BY <1>2
  <2>4. QED
    BY <2>1, <2>2, <2>3
<1> HIDE DEF Q
<1>3. S \in Q
  BY <1>1, <1>2, SubsetInduction
<1>4. QED
  BY <1>3, PartOf DEF Q

\* It grows strictly where one of the summands does.
LEMMA SumStrictlyMonotonic ==
  ASSUME NEW S, IsFiniteSet(S), NEW f \in [S -> Int], NEW g \in [S -> Int],
         \A x \in S : f[x] <= g[x], NEW x \in S, f[x] < g[x]
  PROVE  SumFunction(f) < SumFunction(g)
<1> DEFINE T == S \ {x}
<1>1. Part(f, S) = f[x] + Part(f, T) /\ Part(g, S) = g[x] + Part(g, T)
  BY PartOf
<1>2. Part(f, T) \in Int /\ Part(g, T) \in Int
  BY PartOf
<1>3. Part(f, T) <= Part(g, T)
  <2>1. /\ IsFiniteSet(T)
        /\ [y \in T |-> f[y]] \in [T -> Int] /\ [y \in T |-> g[y]] \in [T -> Int]
    BY FS_Subset
  <2>2. QED
    BY <2>1, SumMonotonic DEF Part
<1> HIDE DEF T
<1>4. f[x] \in Int /\ g[x] \in Int
  OBVIOUS
<1>5. QED
  BY <1>1, <1>2, <1>3, <1>4, PartOf

\* Where the sum is as great, so is every summand.
LEMMA SumAttained ==
  ASSUME NEW S, IsFiniteSet(S), NEW f \in [S -> Int], NEW g \in [S -> Int],
         \A x \in S : f[x] <= g[x], SumFunction(g) <= SumFunction(f)
  PROVE  SumFunction(f) = SumFunction(g) /\ \A x \in S : f[x] = g[x]
<1>1. SumFunction(f) \in Int /\ SumFunction(g) \in Int
  BY SumOf
<1>2. SumFunction(f) <= SumFunction(g)
  BY SumMonotonic
<1>3. ASSUME NEW x \in S PROVE f[x] = g[x]
  <2>1. f[x] \in Int /\ g[x] \in Int /\ f[x] <= g[x]
    OBVIOUS
  <2>2. ~(f[x] < g[x])
    <3>1. f[x] < g[x] => SumFunction(f) < SumFunction(g)
      BY SumStrictlyMonotonic
    <3>2. QED
      BY <3>1, <1>1
  <2>3. QED
    BY <2>1, <2>2
<1>4. QED
  BY <1>1, <1>2, <1>3

\* A sum of linear combinations is the linear combination of the sums.
LEMMA SumLinear ==
  ASSUME NEW S, IsFiniteSet(S), NEW f \in [S -> Int], NEW g \in [S -> Int], NEW a \in Int,
         NEW h, h = [x \in S |-> a * f[x] + g[x]]
  PROVE  SumFunction(h) = a * SumFunction(f) + SumFunction(g)
<1>0. h \in [S -> Int]
  <2>1. ASSUME NEW x \in S PROVE a * f[x] + g[x] \in Int
    <3>1. f[x] \in Int /\ g[x] \in Int
      OBVIOUS
    <3>2. QED
      BY <3>1
  <2>2. QED
    BY <2>1
<1> DEFINE Q == {s \in SUBSET S : Part(h, s) = a * Part(f, s) + Part(g, s)}
<1>1. {} \in Q
  BY <1>0, PartOf
<1>2. ASSUME NEW s \in SUBSET S, NEW x \in s, s \ {x} \in Q PROVE s \in Q
  <2>1. /\ Part(f, s) = f[x] + Part(f, s \ {x})
        /\ Part(g, s) = g[x] + Part(g, s \ {x})
        /\ Part(h, s) = h[x] + Part(h, s \ {x})
    BY <1>0, PartWithout
  <2>2. /\ f[x] \in Int /\ g[x] \in Int /\ h[x] = a * f[x] + g[x]
        /\ Part(f, s \ {x}) \in Int /\ Part(g, s \ {x}) \in Int
    BY PartOf
  <2>3. Part(h, s \ {x}) = a * Part(f, s \ {x}) + Part(g, s \ {x})
    BY <1>2
  <2>4. \A u, v, w, z \in Int : (a * u + v) + (a * w + z) = a * (u + w) + (v + z)
    OBVIOUS
  <2>5. Part(h, s) = a * (f[x] + Part(f, s \ {x})) + (g[x] + Part(g, s \ {x}))
    BY <2>1, <2>2, <2>3, <2>4
  <2>6. QED
    BY <2>1, <2>5
<1> HIDE DEF Q
<1>3. S \in Q
  BY <1>1, <1>2, SubsetInduction
<1>4. QED
  BY <1>0, <1>3, PartOf DEF Q

Plus(f, g) == [x \in DOMAIN f |-> f[x] + g[x]]
Times(a, f) == [x \in DOMAIN f |-> a * f[x]]

\* The sum of the sums of two functions.
LEMMA SumPlus ==
  ASSUME NEW S, IsFiniteSet(S), NEW f \in [S -> Int], NEW g \in [S -> Int]
  PROVE  /\ Plus(f, g) \in [S -> Int]
         /\ \A x \in S : Plus(f, g)[x] = f[x] + g[x]
         /\ SumFunction(Plus(f, g)) = SumFunction(f) + SumFunction(g)
<1>1. \A x \in S : f[x] \in Int /\ g[x] \in Int
  OBVIOUS
<1>2. Plus(f, g) \in [S -> Int] /\ \A x \in S : Plus(f, g)[x] = f[x] + g[x]
  BY <1>1 DEF Plus
<1>3. PICK h : h = [x \in S |-> 1 * f[x] + g[x]]
  OBVIOUS
<1>4. h = Plus(f, g)
  BY <1>1, <1>3 DEF Plus
<1>5. SumFunction(h) = 1 * SumFunction(f) + SumFunction(g)
  <2>1. 1 \in Int
    OBVIOUS
  <2>2. QED
    BY <1>3, <2>1, SumLinear
<1>6. SumFunction(f) \in Int
  BY SumOf
<1>7. QED
  BY <1>2, <1>4, <1>5, <1>6

\* The sum of a constant.
LEMMA SumConstant ==
  ASSUME NEW S, IsFiniteSet(S), NEW b \in Int, NEW f, f = [x \in S |-> b]
  PROVE  SumFunction(f) = b * Cardinality(S)
<1>0. f \in [S -> Int]
  OBVIOUS
<1> DEFINE Q == {s \in SUBSET S : Part(f, s) = b * Cardinality(s)}
<1>1. {} \in Q
  BY <1>0, PartOf, FS_EmptySet
<1>2. ASSUME NEW s \in SUBSET S, NEW x \in s, s \ {x} \in Q PROVE s \in Q
  <2>1. Part(f, s) = b + Part(f, s \ {x})
    BY <1>0, PartOf
  <2>2. IsFiniteSet(s) /\ Cardinality(s) \in Nat
    BY FS_Subset, FS_CardinalityType
  <2>3. Cardinality(s \ {x}) = Cardinality(s) - 1
    BY <2>2, FS_RemoveElement
  <2>4. \A n \in Nat : b + b * (n - 1) = b * n
    OBVIOUS
  <2>5. QED
    BY <2>1, <2>2, <2>3, <2>4, <1>2
<1> HIDE DEF Q
<1>3. S \in Q
  BY <1>1, <1>2, SubsetInduction
<1>4. QED
  BY <1>0, <1>3, PartOf DEF Q

\* The sum of the multiples of a function.
LEMMA SumTimes ==
  ASSUME NEW S, IsFiniteSet(S), NEW f \in [S -> Int], NEW a \in Int
  PROVE  /\ Times(a, f) \in [S -> Int]
         /\ \A x \in S : Times(a, f)[x] = a * f[x]
         /\ SumFunction(Times(a, f)) = a * SumFunction(f)
<1>1. \A x \in S : f[x] \in Int /\ a * f[x] \in Int
  OBVIOUS
<1>2. Times(a, f) \in [S -> Int] /\ \A x \in S : Times(a, f)[x] = a * f[x]
  BY <1>1 DEF Times
<1>3. PICK zero \in [S -> Int] : zero = [x \in S |-> 0]
  <2>1. [x \in S |-> 0] \in [S -> Int]
    OBVIOUS
  <2>2. QED
    BY <2>1
<1>4. SumFunction(zero) = 0
  <2>1. SumFunction(zero) = 0 * Cardinality(S)
    BY <1>3, SumConstant
  <2>2. Cardinality(S) \in Nat
    BY FS_CardinalityType
  <2>3. QED
    BY <2>1, <2>2
<1>5. PICK h : h = [x \in S |-> a * f[x] + zero[x]]
  OBVIOUS
<1>6. h = Times(a, f)
  BY <1>1, <1>3, <1>5 DEF Times
<1>7. SumFunction(h) = a * SumFunction(f) + SumFunction(zero)
  BY <1>5, SumLinear
<1>8. a * SumFunction(f) \in Int
  BY SumOf
<1>9. QED
  BY <1>2, <1>4, <1>6, <1>7, <1>8

\* Where f is at most a times g, so is its sum; and it is less unless f is a
\* times g throughout.
LEMMA SumAtMostTimes ==
  ASSUME NEW S, IsFiniteSet(S), NEW f \in [S -> Int], NEW g \in [S -> Int], NEW a \in Int,
         \A x \in S : f[x] <= a * g[x]
  PROVE  /\ SumFunction(f) <= a * SumFunction(g)
         /\ SumFunction(f) = a * SumFunction(g) => \A x \in S : f[x] = a * g[x]
<1>1. PICK h \in [S -> Int] :
        (\A x \in S : h[x] = a * g[x]) /\ SumFunction(h) = a * SumFunction(g)
  BY SumTimes
<1>2. \A x \in S : f[x] <= h[x]
  BY <1>1
<1>3. SumFunction(f) <= SumFunction(h)
  BY <1>2, SumMonotonic
<1>4. ASSUME SumFunction(f) = SumFunction(h) PROVE \A x \in S : f[x] = h[x]
  <2>1. SumFunction(h) <= SumFunction(f)
    BY <1>4, SumOf
  <2>2. QED
    BY <2>1, <1>2, SumAttained
<1>5. QED
  BY <1>1, <1>3, <1>4

Matrices(S, T) == [S -> [T -> Int]]
RowSums(h) == [x \in DOMAIN h |-> SumFunction(h[x])]
Transposed(h, S, T) == [y \in T |-> [x \in S |-> h[x][y]]]

\* The rows of a matrix have sums.
LEMMA RowSumsAreIntegers ==
  ASSUME NEW S, NEW T, IsFiniteSet(T), NEW h \in Matrices(S, T)
  PROVE  RowSums(h) \in [S -> Int]
<1>1. h \in [S -> [T -> Int]]
  BY DEF Matrices
<1>2. ASSUME NEW x \in S PROVE SumFunction(h[x]) \in Int
  <2>1. h[x] \in [T -> Int]
    BY <1>1
  <2>2. QED
    BY <2>1, SumOf
<1>3. QED
  BY <1>1, <1>2 DEF RowSums

\* The sum of one row.
LEMMA SumOfRow ==
  ASSUME NEW S, NEW T, NEW h \in Matrices(S, T), NEW x \in S
  PROVE  h[x] \in [T -> Int] /\ RowSums(h)[x] = SumFunction(h[x])
BY DEF Matrices, RowSums

\* Rows and columns change places.
LEMMA TransposedIsMatrix ==
  ASSUME NEW S, NEW T, NEW h \in Matrices(S, T)
  PROVE  Transposed(h, S, T) \in Matrices(T, S)
BY DEF Matrices, Transposed

\* An entry of the transposed matrix.
LEMMA TransposedAt ==
  ASSUME NEW S, NEW T, NEW h \in Matrices(S, T), NEW x \in S, NEW y \in T
  PROVE  Transposed(h, S, T)[y][x] = h[x][y]
BY DEF Matrices, Transposed

\* The partial sums of the columns.
Partial(columns, s) == [y \in DOMAIN columns |-> Part(columns[y], s)]

\* They are integers.
LEMMA PartialIsInteger ==
  ASSUME NEW S, IsFiniteSet(S), NEW T, NEW columns \in Matrices(T, S), NEW s \in SUBSET S
  PROVE  /\ Partial(columns, s) \in [T -> Int]
         /\ \A y \in T : Partial(columns, s)[y] = Part(columns[y], s)
<1>1. ASSUME NEW y \in T PROVE Part(columns[y], s) \in Int
  <2>1. columns[y] \in [S -> Int]
    BY SumOfRow
  <2>2. QED
    BY <2>1, PartOf
<1>2. DOMAIN columns = T
  BY DEF Matrices
<1>3. QED
  BY <1>1, <1>2 DEF Partial

\* They grow by one row at a time.
LEMMA OneRowMore ==
  ASSUME NEW S, IsFiniteSet(S), NEW T, NEW columns \in Matrices(T, S),
         NEW s \in SUBSET S, NEW x \in s, NEW y \in T
  PROVE  Partial(columns, s)[y] = columns[y][x] + Partial(columns, s \ {x})[y]
<1>1. columns[y] \in [S -> Int]
  BY SumOfRow
<1>2. Part(columns[y], s) = columns[y][x] + Part(columns[y], s \ {x})
  BY <1>1, PartWithout
<1>3. s \ {x} \in SUBSET S
  OBVIOUS
<1>4. Partial(columns, s)[y] = Part(columns[y], s)
  BY PartialIsInteger
<1>5. Partial(columns, s \ {x})[y] = Part(columns[y], s \ {x})
  BY <1>3, PartialIsInteger
<1>6. QED
  BY <1>2, <1>4, <1>5

\* The sum of the sums of the rows of a matrix is that of the columns.
LEMMA SumOfSums ==
  ASSUME NEW S, IsFiniteSet(S), NEW T, IsFiniteSet(T), NEW h \in Matrices(S, T)
  PROVE  SumFunction(RowSums(h)) = SumFunction(RowSums(Transposed(h, S, T)))
<1>1. PICK rows \in [S -> Int] : rows = RowSums(h)
  BY RowSumsAreIntegers
<1>2. PICK columns \in Matrices(T, S) : columns = Transposed(h, S, T)
  BY TransposedIsMatrix
<1> DEFINE Q == {s \in SUBSET S : Part(rows, s) = SumFunction(Partial(columns, s))}
<1>3. {} \in Q
  <2>1. ASSUME NEW y \in T PROVE Partial(columns, {})[y] = 0
    <3>1. columns[y] \in [S -> Int]
      BY SumOfRow
    <3>2. Part(columns[y], {}) = 0 /\ {} \in SUBSET S
      BY <3>1, PartOf
    <3>3. QED
      BY <3>2, PartialIsInteger
  <2>2. {} \in SUBSET S
    OBVIOUS
  <2>3. Partial(columns, {}) \in [T -> Int]
    BY <2>2, PartialIsInteger
  <2>4. Partial(columns, {}) = [y \in T |-> 0]
    BY <2>1, <2>3
  <2>5. SumFunction([y \in T |-> 0]) = 0 * Cardinality(T)
    BY SumConstant
  <2>6. Cardinality(T) \in Nat
    BY FS_CardinalityType
  <2>7. Part(rows, {}) = 0
    BY PartOf
  <2>8. QED
    BY <2>4, <2>5, <2>6, <2>7
<1>4. ASSUME NEW s \in SUBSET S, NEW x \in s, s \ {x} \in Q PROVE s \in Q
  <2>1. PICK new \in [T -> Int] : new = h[x]
    <3>1. x \in S
      OBVIOUS
    <3>2. h[x] \in [T -> Int]
      BY <3>1, SumOfRow
    <3>3. QED
      BY <3>2
  <2>2. PICK less \in SUBSET S : less = s \ {x}
    OBVIOUS
  <2>3. PICK rest \in [T -> Int] : rest = Partial(columns, less)
    BY PartialIsInteger
  <2>4. PICK all \in [T -> Int] : all = Partial(columns, s)
    BY PartialIsInteger
  <2>5. ASSUME NEW y \in T PROVE all[y] = new[y] + rest[y]
    <3>1. Partial(columns, s)[y] = columns[y][x] + Partial(columns, s \ {x})[y]
      BY OneRowMore
    <3>2. x \in S
      OBVIOUS
    <3>3. Transposed(h, S, T)[y][x] = h[x][y]
      BY <3>2, TransposedAt
    <3>4. QED
      BY <3>1, <3>3, <1>2, <2>1, <2>2, <2>3, <2>4
  <2>6. SumFunction(all) = SumFunction(new) + SumFunction(rest)
    <3>1. Plus(new, rest) \in [T -> Int] /\ \A y \in T : Plus(new, rest)[y] = new[y] + rest[y]
      BY SumPlus
    <3>2. SumFunction(Plus(new, rest)) = SumFunction(new) + SumFunction(rest)
      BY SumPlus
    <3>3. all = Plus(new, rest)
      BY <3>1, <2>5
    <3>4. QED
      BY <3>2, <3>3
  <2>7. Part(rows, s) = rows[x] + Part(rows, s \ {x})
    BY PartWithout
  <2>8. rows[x] = SumFunction(new)
    <3>1. x \in S
      OBVIOUS
    <3>2. RowSums(h)[x] = SumFunction(h[x])
      BY <3>1, SumOfRow
    <3>3. QED
      BY <3>2, <1>1, <2>1
  <2>9. Part(rows, s \ {x}) = SumFunction(rest)
    BY <1>4, <2>2, <2>3
  <2>10. QED
    BY <2>4, <2>6, <2>7, <2>8, <2>9
<1>5. S \in Q
  <2> HIDE DEF Q
  <2>1. \A s \in SUBSET S : \A x \in s : s \ {x} \in Q => s \in Q
    BY <1>4
  <2>2. \A s \in SUBSET S : s \in Q
    BY <1>3, <2>1, SubsetInduction
  <2>3. QED
    BY <2>2
<1>6. Part(rows, S) = SumFunction(rows)
  BY PartOf
<1>7. Partial(columns, S) = RowSums(columns)
  <2>1. ASSUME NEW y \in T PROVE Partial(columns, S)[y] = RowSums(columns)[y]
    <3>1. columns[y] \in [S -> Int]
      BY SumOfRow
    <3>2. RowSums(columns)[y] = SumFunction(columns[y])
      BY SumOfRow
    <3>3. Part(columns[y], S) = SumFunction(columns[y])
      BY <3>1, PartOf
    <3>4. Partial(columns, S)[y] = Part(columns[y], S)
      BY PartialIsInteger
    <3>5. QED
      BY <3>2, <3>3, <3>4
  <2>2. Partial(columns, S) \in [T -> Int]
    BY PartialIsInteger
  <2>3. RowSums(columns) \in [T -> Int]
    BY RowSumsAreIntegers
  <2>4. QED
    BY <2>1, <2>2, <2>3
<1>8. QED
  BY <1>1, <1>2, <1>5, <1>6, <1>7

---------------------------------------------------------------------------
(* Squares.                                                                *)

\* The square of a difference.
LEMMA SquareOfDifference ==
  ASSUME NEW k \in Int, NEW a \in Int, NEW c \in Int
  PROVE  (k * a - c) * (k * a - c) = (k * k) * (a * a) + ((0 - 2 * k * c) * a + c * c)
OBVIOUS

\* Squares are not negative.
LEMMA SquareNotNegative ==
  ASSUME NEW a \in Int
  PROVE  a * a \in Nat /\ (a * a = 0 => a = 0)
OBVIOUS

\* The inequality of Cauchy and Schwarz, for the sum of k numbers, and when it
\* is an equation.
LEMMA SquareOfSum ==
  ASSUME NEW S, IsFiniteSet(S), S # {}, NEW f \in [S -> Int],
         NEW q, q = [x \in S |-> f[x] * f[x]]
  PROVE  LET k == Cardinality(S)
             A == SumFunction(f)
         IN  /\ A * A <= k * SumFunction(q)
             /\ A * A = k * SumFunction(q) => \A x \in S : k * f[x] = A
<1>1. PICK k : k = Cardinality(S)
  OBVIOUS
<1>2. PICK A : A = SumFunction(f)
  OBVIOUS
<1>3. k \in Nat /\ k > 0 /\ A \in Int
  BY <1>1, <1>2, FS_CardinalityType, FS_EmptySet, SumOf
<1>4. PICK B : B = SumFunction(q)
  OBVIOUS
<1>5. q \in [S -> Int]
  <2>1. ASSUME NEW x \in S PROVE f[x] * f[x] \in Int
    <3>1. f[x] \in Int
      OBVIOUS
    <3>2. QED
      BY <3>1, SquareNotNegative
  <2>2. QED
    BY <2>1
<1>6. B \in Int
  BY <1>4, <1>5, SumOf
<1>7. PICK c : c = 0 - 2 * k * A
  OBVIOUS
<1>8. PICK kk : kk = k * k
  OBVIOUS
<1>8a. c \in Int /\ kk \in Int /\ A * A \in Int
  BY <1>3, <1>7, <1>8
<1> DEFINE one == [x \in S |-> A * A]
           v == [x \in S |-> c * f[x] + one[x]]
           d == [x \in S |-> kk * q[x] + v[x]]
<1>9. one \in [S -> Int] /\ SumFunction(one) = (A * A) * k
  BY <1>8a, <1>1, SumConstant
<1>10. v \in [S -> Int] /\ SumFunction(v) = c * A + (A * A) * k
  <2> HIDE DEF one
  <2>1. ASSUME NEW x \in S PROVE c * f[x] + one[x] \in Int
    <3>1. f[x] \in Int /\ one[x] \in Int
      BY <1>9
    <3>2. QED
      BY <3>1, <1>8a
  <2>2. v \in [S -> Int]
    BY <2>1
  <2>3. SumFunction(v) = c * SumFunction(f) + SumFunction(one)
    BY <1>8a, <1>9, SumLinear
  <2>4. QED
    BY <2>2, <2>3, <1>2, <1>9
<1>11. \A x \in S : d[x] = (k * f[x] - A) * (k * f[x] - A)
  <2>1. ASSUME NEW x \in S PROVE d[x] = (k * f[x] - A) * (k * f[x] - A)
    <3>1. PICK a \in Int : a = f[x]
      OBVIOUS
    <3>2. d[x] = (k * k) * (a * a) + (c * a + A * A)
      BY <3>1, <1>8
    <3>3. (k * a - A) * (k * a - A) = (k * k) * (a * a) + (c * a + A * A)
      BY <1>3, <1>7, SquareOfDifference
    <3>4. QED
      BY <3>1, <3>2, <3>3
  <2>2. QED
    BY <2>1
<1>12. d \in [S -> Nat] /\ d \in [S -> Int]
  <2>1. ASSUME NEW x \in S PROVE d[x] \in Nat
    <3>1. PICK e \in Int : e = k * f[x] - A
      <4>1. f[x] \in Int
        OBVIOUS
      <4>2. k * f[x] - A \in Int
        BY <4>1, <1>3
      <4>3. QED
        BY <4>2
    <3>2. QED
      BY <3>1, <1>11, SquareNotNegative
  <2>2. QED
    BY <2>1
<1>13. SumFunction(d) = (k * k) * B + (c * A + (A * A) * k)
  <2> HIDE DEF v
  <2>1. SumFunction(d) = kk * SumFunction(q) + SumFunction(v)
    BY <1>5, <1>8a, <1>10, SumLinear
  <2>2. QED
    BY <2>1, <1>10, <1>4, <1>8
<1>14. (k * k) * B + (c * A + (A * A) * k) = k * (k * B - A * A)
  BY <1>3, <1>6, <1>7
<1> HIDE DEF one, v, d
<1>15. SumFunction(d) = k * (k * B - A * A)
  BY <1>13, <1>14
<1> DEFINE zero == [x \in S |-> 0]
<1>16. zero \in [S -> Int] /\ SumFunction(zero) = 0
  <2>1. SumFunction(zero) = 0 * Cardinality(S)
    BY SumConstant
  <2>2. QED
    BY <2>1, <1>1, <1>3
<1>17. 0 <= SumFunction(d)
  BY <1>12, <1>16, SumMonotonic
<1>18. PICK e \in Int : e = k * B - A * A
  BY <1>3, <1>6, <1>8a
<1>19. 0 <= k * e
  BY <1>15, <1>17, <1>18
<1>20. 0 <= e
  BY <1>19, <1>3
<1>21. A * A <= k * B
  BY <1>20, <1>18, <1>3, <1>6, <1>8a
<1>22. ASSUME A * A = k * B, NEW x \in S PROVE k * f[x] = A
  <2>1. SumFunction(d) = 0
    BY <1>22, <1>15, <1>3, <1>6, <1>8a
  <2>2. d[x] = 0
    <3>1. SUFFICES ASSUME zero[x] < d[x] PROVE FALSE
      BY <1>12
    <3>2. \A y \in S : zero[y] <= d[y]
      BY <1>12
    <3>3. SumFunction(zero) < SumFunction(d)
      BY <3>1, <3>2, <1>12, <1>16, SumStrictlyMonotonic
    <3>4. QED
      BY <3>3, <2>1, <1>16
  <2>3. PICK b \in Int : b = k * f[x] - A
    <3>1. f[x] \in Int
      OBVIOUS
    <3>2. k * f[x] - A \in Int
      BY <3>1, <1>3
    <3>3. QED
      BY <3>2
  <2>4. b = 0
    BY <2>2, <2>3, <1>11, SquareNotNegative
  <2>5. QED
    BY <2>3, <2>4, <1>3
<1>23. QED
  BY <1>21, <1>22, <1>1, <1>2, <1>4

\* Where nothing is added does not matter.
LEMMA SumWithoutZeros ==
  ASSUME NEW S, IsFiniteSet(S), NEW f \in [S -> Int], NEW T \in SUBSET S,
         \A x \in S \ T : f[x] = 0
  PROVE  SumFunction(f) = Part(f, T)
<1> DEFINE Q == {s \in SUBSET S : Part(f, s) = Part(f, s \cap T)}
<1>1. {} \in Q
  OBVIOUS
<1>2. ASSUME NEW s \in SUBSET S, NEW x \in s, s \ {x} \in Q PROVE s \in Q
  <2>1. Part(f, s) = f[x] + Part(f, s \ {x})
    BY PartWithout
  <2>2. Part(f, s \ {x}) = Part(f, (s \ {x}) \cap T)
    BY <1>2
  <2>3. CASE x \in T
    <3>1. Part(f, s \cap T) = f[x] + Part(f, (s \cap T) \ {x})
      BY <2>3, PartWithout
    <3>2. (s \cap T) \ {x} = (s \ {x}) \cap T
      OBVIOUS
    <3>3. QED
      BY <2>1, <2>2, <3>1, <3>2
  <2>4. CASE x \notin T
    <3>1. (s \ {x}) \cap T = s \cap T /\ f[x] = 0
      BY <2>4
    <3>2. Part(f, s \cap T) \in Int
      BY PartOf
    <3>3. QED
      BY <2>1, <2>2, <3>1, <3>2
  <2>5. QED
    BY <2>3, <2>4
<1> HIDE DEF Q
<1>3. S \in Q
  <2>1. \A s \in SUBSET S : \A x \in s : s \ {x} \in Q => s \in Q
    BY <1>2
  <2>2. \A s \in SUBSET S : s \in Q
    BY <1>1, <2>1, SubsetInduction
  <2>3. QED
    BY <2>2
<1>4. S \cap T = T
  OBVIOUS
<1>5. QED
  BY <1>3, <1>4, PartOf DEF Q

---------------------------------------------------------------------------
(* Numbers.                                                                *)

\* Max of a set of numbers up to n is the greatest of them.
LEMMA GreatestElement ==
  ASSUME NEW n \in Int, NEW S \in SUBSET (1 .. n), S # {}
  PROVE  /\ Max(S) \in S
         /\ \A x \in S : Max(S) >= x
<1> DEFINE Above == {n - x : x \in S}
<1>1. PICK m \in Above : \A y \in Above : ~(<<y, m>> \in OpToRel(<, Nat))
  <2>1. Above \subseteq Nat
    <3>1. ASSUME NEW x \in S PROVE n - x \in Nat
      OBVIOUS
    <3>2. QED
      BY <3>1
  <2>2. Above # {}
    OBVIOUS
  <2> HIDE DEF Above
  <2>3. QED
    BY <2>1, <2>2, NatLessThanWellFounded, WFMin
<1>2. PICK x \in S : m = n - x
  BY <1>1
<1>3. ASSUME NEW y \in S PROVE x >= y
  <2>1. n - y \in Above /\ n - y \in Nat /\ m \in Nat
    BY <1>2
  <2>2. ~(n - y < m)
    BY <2>1, <1>1 DEF OpToRel
  <2>3. QED
    BY <2>2, <1>2
<1>4. QED
  BY <1>2, <1>3 DEF Max

\* The maximum of two integers is one of them, and not below the other.
LEMMA GreaterOfTwo ==
  ASSUME NEW a \in Int, NEW b \in Int
  PROVE  Max({a, b}) \in {a, b} /\ Max({a, b}) >= a /\ Max({a, b}) >= b
<1>1. \E x \in {a, b} : \A y \in {a, b} : x >= y
  OBVIOUS
<1>2. QED
  BY <1>1 DEF Max

---------------------------------------------------------------------------
(* Ranks.                                                                  *)

\* A label has the rank of the one place it is listed at, and the midrank if
\* there is none.
LEMMA RankOfLabel ==
  ASSUME NEW L, NEW r \in Seq(L), IsInjective(r), NEW n
  PROVE  /\ \A p \in DOMAIN r : TwiceRank(r, r[p], n) = 2 * p
         /\ \A l : l \notin ToSet(r) => TwiceRank(r, l, n) = n + 1
<1>1. ASSUME NEW p \in DOMAIN r PROVE TwiceRank(r, r[p], n) = 2 * p
  <2>1. {q \in DOMAIN r : r[q] = r[p]} = {p} /\ p \in Int
    BY DEF IsInjective
  <2>2. Max({p}) = p
    BY <2>1 DEF Max
  <2>3. QED
    BY <2>1, <2>2 DEF TwiceRank
<1>2. ASSUME NEW l, l \notin ToSet(r) PROVE TwiceRank(r, l, n) = n + 1
  BY <1>2 DEF TwiceRank, ToSet
<1>3. QED
  BY <1>1, <1>2

\* Twice the deviation of a rank from the midrank.
Deviation(r, l, n) == TwiceRank(r, l, n) - (n + 1)

\* Ranks and their deviations are integers.
LEMMA DeviationIsInteger ==
  ASSUME NEW L, NEW r \in Seq(L), IsInjective(r), NEW n \in Nat, NEW l
  PROVE  TwiceRank(r, l, n) \in Int /\ Deviation(r, l, n) \in Int
<1>1. TwiceRank(r, l, n) \in Int
  <2>1. CASE l \in ToSet(r)
    <3>1. PICK p \in DOMAIN r : r[p] = l
      BY <2>1 DEF ToSet
    <3>2. TwiceRank(r, r[p], n) = 2 * p
      BY RankOfLabel
    <3>3. p \in Int
      OBVIOUS
    <3>4. QED
      BY <3>1, <3>2, <3>3
  <2>2. CASE l \notin ToSet(r)
    <3>1. TwiceRank(r, l, n) = n + 1
      BY <2>2, RankOfLabel
    <3>2. QED
      BY <3>1
  <2>3. QED
    BY <2>1, <2>2
<1>2. QED
  BY <1>1 DEF Deviation

\* A ranking without repetitions is not longer than the list of labels, and
\* lists all of them if it is as long.
LEMMA LengthOfRanking ==
  ASSUME NEW L, IsFiniteSet(L), NEW r \in Seq(L), IsInjective(r)
  PROVE  /\ Len(r) \in 0 .. Cardinality(L)
         /\ Len(r) = Cardinality(L) => ToSet(r) = L
<1>1. PICK m \in Nat : m = Len(r)
  OBVIOUS
<1>2. r \in Injection(1 .. m, L)
  BY <1>1 DEF Injection
<1>3. Cardinality(1 .. m) = m
  <2>1. 1 \in Int /\ m \in Int
    OBVIOUS
  <2>2. Cardinality(1 .. m) = IF 1 > m THEN 0 ELSE m - 1 + 1
    BY <2>1, FS_Interval
  <2>3. QED
    BY <2>2
<1>4. m <= Cardinality(L) /\ (m = Cardinality(L) <=> r \in Surjection(1 .. m, L))
  BY <1>2, <1>3, FS_Injection
<1>5. Cardinality(L) \in Nat
  BY FS_CardinalityType
<1>6. ASSUME r \in Surjection(1 .. m, L) PROVE ToSet(r) = L
  BY <1>6, <1>1 DEF Surjection, ToSet
<1>7. QED
  BY <1>1, <1>4, <1>5, <1>6

\* Three times the sum of the squared deviations of the first q ranks.
Cubic(n, q) == q * (4 * q * q - 6 * n * q + 3 * n * n - 1)

\* It grows by three times the next squared deviation.
LEMMA CubicGrows ==
  ASSUME NEW n \in Int, NEW q \in Int
  PROVE  Cubic(n, q + 1) = 3 * ((2 * (q + 1) - (n + 1)) * (2 * (q + 1) - (n + 1))) + Cubic(n, q)
BY DEF Cubic

\* A list of less than n ranks falls short of n^3 - n.
LEMMA CubicBound ==
  ASSUME NEW n \in Nat, NEW m \in 0 .. n
  PROVE  /\ Cubic(n, m) <= n * n * n - n
         /\ n >= 2 /\ Cubic(n, m) = n * n * n - n => m = n
<1>1. PICK e \in Nat : n = m + e
  <2>1. n - m \in Nat /\ n = m + (n - m)
    OBVIOUS
  <2>2. QED
    BY <2>1
<1>2. m \in Nat
  OBVIOUS
<1>3. n * n * n - n - Cubic(n, m) = e * (3 * (m * m) + (e * e - 1))
  BY <1>1, <1>2 DEF Cubic
<1>4. PICK w \in Int : w = 3 * (m * m) + (e * e - 1)
  <2>1. 3 * (m * m) + (e * e - 1) \in Int
    BY <1>2
  <2>2. QED
    BY <2>1
<1>5. e > 0 => w >= 0 /\ (n >= 2 => w > 0)
  <2>1. ASSUME e > 0 PROVE e * e >= 1 /\ m * m >= 0
    BY <2>1, <1>2
  <2>2. ASSUME e > 0, n >= 2 PROVE w > 0
    <3>1. CASE m = 0
      <4>1. e >= 2
        BY <3>1, <2>2, <1>1
      <4>2. e * e >= 4
        BY <4>1
      <4>3. m * m \in Nat
        BY <1>2
      <4>4. QED
        BY <4>2, <4>3, <1>4
    <3>2. CASE m > 0
      <4>1. m * m >= 1 /\ m * m \in Int /\ e * e \in Int
        BY <3>2, <1>2
      <4>2. QED
        BY <4>1, <2>1, <2>2, <1>4
    <3>3. QED
      BY <3>1, <3>2, <1>2
  <2>3. ASSUME e > 0 PROVE w >= 0
    <3>1. m * m \in Int /\ e * e \in Int
      BY <1>2
    <3>2. QED
      BY <3>1, <2>1, <2>3, <1>4
  <2>4. QED
    BY <2>2, <2>3
<1>6. e * w >= 0
  BY <1>5, <1>4
<1>7. e > 0 /\ w > 0 => e * w > 0
  BY <1>4
<1>8. Cubic(n, m) \in Int /\ n * n * n - n \in Int
  BY <1>2 DEF Cubic
<1>9. n * n * n - n - Cubic(n, m) = e * w
  BY <1>3, <1>4
<1>10. QED
  BY <1>1, <1>2, <1>5, <1>6, <1>7, <1>8, <1>9

Squares(r, L, n) == [l \in L |-> Deviation(r, l, n) * Deviation(r, l, n)]

\* How far the ranks of one judge are from the midrank, all in all.
LEMMA SumOfSquares ==
  ASSUME NEW L, IsFiniteSet(L), NEW r \in Seq(L), IsInjective(r), NEW n \in Nat
  PROVE  /\ Squares(r, L, n) \in [L -> Int]
         /\ 3 * SumFunction(Squares(r, L, n)) = Cubic(n, Len(r))
<1>1. PICK f : f = Squares(r, L, n)
  OBVIOUS
<1>2. f \in [L -> Int] /\ \A l \in L : f[l] = Deviation(r, l, n) * Deviation(r, l, n)
  <2>1. ASSUME NEW l \in L PROVE Deviation(r, l, n) * Deviation(r, l, n) \in Int
    <3>1. Deviation(r, l, n) \in Int
      BY DeviationIsInteger
    <3>2. QED
      BY <3>1
  <2>2. QED
    BY <2>1, <1>1 DEF Squares
<1>3. PICK m \in Nat : m = Len(r) /\ DOMAIN r = 1 .. m
  OBVIOUS
<1> DEFINE heard(q) == {r[p] : p \in 1 .. q}
           Q == {q \in 0 .. m : 3 * Part(f, heard(q)) = Cubic(n, q)}
<1>4. ASSUME NEW q \in 0 .. m PROVE heard(q) \in SUBSET L
  <2>1. 1 .. q \subseteq DOMAIN r
    BY <1>3
  <2>2. QED
    BY <2>1
<1>5. 0 \in Q
  <2>1. heard(0) = {}
    OBVIOUS
  <2>2. Part(f, {}) = 0
    BY <1>2, PartOf
  <2>3. Cubic(n, 0) = 0
    BY DEF Cubic
  <2>4. Part(f, heard(0)) = 0 /\ 0 \in 0 .. m
    BY <2>1, <2>2
  <2> HIDE DEF heard
  <2>5. 3 * Part(f, heard(0)) = Cubic(n, 0)
    BY <2>3, <2>4
  <2>6. QED
    BY <2>4, <2>5
<1>6. ASSUME NEW q \in 0 .. m - 1, q \in Q PROVE q + 1 \in Q
  <2>1. q + 1 \in DOMAIN r /\ q \in 0 .. m /\ q + 1 \in 0 .. m /\ q + 1 \in 1 .. q + 1
    BY <1>3
  <2>2. PICK x : x = r[q + 1]
    OBVIOUS
  <2>3. x \in heard(q + 1) /\ x \in L
    BY <2>1, <2>2
  <2>4. heard(q + 1) \ {x} = heard(q)
    <3>1. ASSUME NEW p \in 1 .. q + 1 PROVE r[p] = x <=> p = q + 1
      BY <2>1, <2>2, <1>3 DEF IsInjective
    <3>2. 1 .. q + 1 = 1 .. q \cup {q + 1} /\ q + 1 \notin 1 .. q
      BY <2>1
    <3>3. QED
      BY <3>1, <3>2
  <2>5. Part(f, heard(q + 1)) = f[x] + Part(f, heard(q + 1) \ {x})
    <3> HIDE DEF heard, Q
    <3>1. heard(q + 1) \in SUBSET L
      BY <1>4, <2>1
    <3>2. QED
      BY <3>1, <2>3, <1>2, PartWithout
  <2>6. Deviation(r, x, n) = 2 * (q + 1) - (n + 1)
    <3>1. TwiceRank(r, r[q + 1], n) = 2 * (q + 1)
      BY <2>1, RankOfLabel
    <3>2. QED
      BY <3>1, <2>2 DEF Deviation
  <2>7. f[x] = (2 * (q + 1) - (n + 1)) * (2 * (q + 1) - (n + 1))
    BY <2>6, <2>3, <1>2
  <2>8. Part(f, heard(q)) \in Int /\ 3 * Part(f, heard(q)) = Cubic(n, q)
    <3>1. heard(q) \in SUBSET L
      BY <1>4, <2>1
    <3>2. QED
      BY <3>1, <1>2, <1>6, PartOf
  <2>9. q \in Int /\ n \in Int
    OBVIOUS
  <2>10. Cubic(n, q + 1) = 3 * f[x] + Cubic(n, q)
    BY <2>7, <2>9, CubicGrows
  <2>11. Part(f, heard(q + 1)) = f[x] + Part(f, heard(q))
    BY <2>4, <2>5
  <2>12. f[x] \in Int
    BY <2>3, <1>2
  <2>13. 3 * Part(f, heard(q + 1)) = Cubic(n, q + 1)
    <3> HIDE DEF heard, Q
    <3>1. QED
      BY <2>8, <2>10, <2>11, <2>12
  <2>14. QED
    BY <2>1, <2>13
<1>7. m \in Q
  <2> HIDE DEF Q
  <2>1. \A q \in 0 .. m - 1 : q \in Q => q + 1 \in Q
    BY <1>6
  <2>2. \A q \in 0 .. m : q \in Q
    BY <1>5, <2>1, UpTo
  <2>3. QED
    BY <2>2
<1>8. heard(m) = ToSet(r)
  BY <1>3 DEF ToSet
<1>9. \A l \in L \ ToSet(r) : f[l] = 0
  <2>1. ASSUME NEW l \in L \ ToSet(r) PROVE f[l] = 0
    <3>1. Deviation(r, l, n) = 0
      <4>1. TwiceRank(r, l, n) = n + 1
        BY RankOfLabel
      <4>2. QED
        BY <4>1 DEF Deviation
    <3>2. QED
      BY <3>1, <1>2
  <2>2. QED
    BY <2>1
<1>10. SumFunction(f) = Part(f, ToSet(r))
  <2>1. ToSet(r) \in SUBSET L
    BY <1>8, <1>4
  <2>2. QED
    BY <2>1, <1>2, <1>9, SumWithoutZeros
<1>11. QED
  BY <1>1, <1>2, <1>3, <1>7, <1>8, <1>10

---------------------------------------------------------------------------
(* The aggregate.                                                          *)

\* No judge lists a label twice.
Ballots(judges, L) ==
  /\ judges \in Seq(Seq(L))
  /\ \A j \in DOMAIN judges : IsInjective(judges[j])

\* The judges are finitely many, and their ranks of a label are integers.
LEMMA RanksAdded ==
  ASSUME NEW L, NEW judges, Ballots(judges, L),
         NEW n \in Nat, NEW l
  PROVE  /\ IsFiniteSet(DOMAIN judges) /\ Cardinality(DOMAIN judges) = Len(judges)
         /\ [j \in DOMAIN judges |-> TwiceRank(judges[j], l, n)] \in [DOMAIN judges -> Int]
         /\ [j \in DOMAIN judges |-> Deviation(judges[j], l, n)] \in [DOMAIN judges -> Int]
<1>1. IsFiniteSet(DOMAIN judges) /\ Cardinality(DOMAIN judges) = Len(judges)
  <2>1. PICK k \in Nat : k = Len(judges) /\ DOMAIN judges = 1 .. k
    BY DEF Ballots
  <2>2. 1 \in Int /\ k \in Int
    OBVIOUS
  <2>3. IsFiniteSet(1 .. k) /\ Cardinality(1 .. k) = IF 1 > k THEN 0 ELSE k - 1 + 1
    BY <2>2, FS_Interval
  <2>4. QED
    BY <2>1, <2>3
<1>2. ASSUME NEW j \in DOMAIN judges
      PROVE  TwiceRank(judges[j], l, n) \in Int /\ Deviation(judges[j], l, n) \in Int
  <2>1. judges[j] \in Seq(L) /\ IsInjective(judges[j])
    BY DEF Ballots
  <2>2. QED
    BY <2>1, DeviationIsInteger
<1>3. QED
  BY <1>1, <1>2

\* A label that every judge with an opinion ranks above another has the lower
\* sum of ranks (CalculateAggregateRankings): the judges without one rank them
\* alike.
THEOREM UnanimityIsKept ==
  ASSUME NEW L, NEW judges, Ballots(judges, L),
         NEW n \in Nat, NEW a, NEW b,
         \A j \in DOMAIN judges : judges[j] # <<>> =>
           \E p, q \in DOMAIN judges[j] : p < q /\ judges[j][p] = a /\ judges[j][q] = b,
         NEW k \in DOMAIN judges, judges[k] # <<>>
  PROVE  ~RankedBefore(judges, b, a, n)
<1> DEFINE f == [j \in DOMAIN judges |-> TwiceRank(judges[j], a, n)]
           g == [j \in DOMAIN judges |-> TwiceRank(judges[j], b, n)]
<1>1. f \in [DOMAIN judges -> Int] /\ g \in [DOMAIN judges -> Int] /\ IsFiniteSet(DOMAIN judges)
  <2>1. f \in [DOMAIN judges -> Int]
    BY RanksAdded
  <2>2. g \in [DOMAIN judges -> Int]
    BY RanksAdded
  <2>3. IsFiniteSet(DOMAIN judges)
    BY RanksAdded
  <2>4. QED
    BY <2>1, <2>2, <2>3
<1>2. ASSUME NEW j \in DOMAIN judges PROVE f[j] <= g[j] /\ (judges[j] # <<>> => f[j] < g[j])
  <2>0. judges[j] \in Seq(L) /\ IsInjective(judges[j])
    BY DEF Ballots
  <2>1. CASE judges[j] = <<>>
    <3>1. ToSet(judges[j]) = {}
      BY <2>1 DEF ToSet
    <3>2. TwiceRank(judges[j], a, n) = n + 1 /\ TwiceRank(judges[j], b, n) = n + 1
      BY <2>0, <3>1, RankOfLabel
    <3>3. QED
      BY <3>2, <2>1
  <2>2. CASE judges[j] # <<>>
    <3>1. PICK p \in DOMAIN judges[j] :
            \E q \in DOMAIN judges[j] : p < q /\ judges[j][p] = a /\ judges[j][q] = b
      BY <2>2
    <3>2. PICK q \in DOMAIN judges[j] : p < q /\ judges[j][p] = a /\ judges[j][q] = b
      BY <3>1
    <3>3. TwiceRank(judges[j], judges[j][p], n) = 2 * p
      BY <2>0, RankOfLabel
    <3>4. TwiceRank(judges[j], judges[j][q], n) = 2 * q
      BY <2>0, RankOfLabel
    <3>5. f[j] = 2 * p /\ g[j] = 2 * q
      BY <3>2, <3>3, <3>4
    <3>6. p \in Int /\ q \in Int
      BY <2>0
    <3>7. QED
      BY <3>2, <3>5, <3>6
  <2>3. QED
    BY <2>1, <2>2
<1> HIDE DEF f, g
<1>3. SumFunction(f) < SumFunction(g)
  BY <1>1, <1>2, SumStrictlyMonotonic
<1>4. SumFunction(f) \in Int /\ SumFunction(g) \in Int
  BY <1>1, SumOf
<1>5. QED
  BY <1>3, <1>4 DEF f, g, RankedBefore, TwiceRankSum

\* The deviation of a label from the mean rank sum is the sum of its deviations.
LEMMA DeviationsAdded ==
  ASSUME NEW L, NEW judges, Ballots(judges, L),
         NEW n \in Nat, NEW l
  PROVE  /\ TwiceDeviation(judges, l, n) \in Int
         /\ TwiceDeviation(judges, l, n)
              = SumFunction([j \in DOMAIN judges |-> Deviation(judges[j], l, n)])
<1>1. PICK D : D = DOMAIN judges
  OBVIOUS
<1>2. PICK f : f = [j \in D |-> TwiceRank(judges[j], l, n)]
  OBVIOUS
<1>3. PICK g : g = [j \in D |-> Deviation(judges[j], l, n)]
  OBVIOUS
<1>4. f \in [D -> Int] /\ g \in [D -> Int] /\ IsFiniteSet(D) /\ Cardinality(D) = Len(judges)
  BY <1>1, <1>2, <1>3, RanksAdded
<1>5. PICK mid \in [D -> Int] : mid = [j \in D |-> n + 1]
  <2>1. n + 1 \in Int
    OBVIOUS
  <2>2. [j \in D |-> n + 1] \in [D -> Int]
    BY <2>1
  <2>3. QED
    BY <2>2
<1>6. f = Plus(g, mid)
  <2>1. Plus(g, mid) \in [D -> Int] /\ \A j \in D : Plus(g, mid)[j] = g[j] + mid[j]
    BY <1>4, SumPlus
  <2>2. ASSUME NEW j \in D PROVE f[j] = g[j] + mid[j]
    <3>1. f[j] \in Int
      BY <1>4
    <3>2. QED
      BY <3>1, <1>2, <1>3, <1>5 DEF Deviation
  <2>3. QED
    BY <2>1, <2>2, <1>4
<1>7. SumFunction(f) = SumFunction(g) + SumFunction(mid)
  BY <1>4, <1>6, SumPlus
<1>8. SumFunction(mid) = (n + 1) * Len(judges)
  <2>1. n + 1 \in Int
    OBVIOUS
  <2>2. QED
    BY <2>1, <1>4, <1>5, SumConstant
<1>9. SumFunction(f) \in Int /\ SumFunction(g) \in Int /\ Len(judges) \in Nat
  BY <1>4, SumOf
<1>10. TwiceDeviation(judges, l, n) = SumFunction(f) - Len(judges) * (n + 1)
  BY <1>1, <1>2 DEF TwiceDeviation, TwiceRankSum, JudgeCount
<1>11. Len(judges) * (n + 1) = (n + 1) * Len(judges) /\ (n + 1) * Len(judges) \in Int
  BY <1>9
<1>12. TwiceDeviation(judges, l, n) = SumFunction(g)
  BY <1>7, <1>8, <1>9, <1>10, <1>11
<1>13. QED
  BY <1>1, <1>3, <1>9, <1>12

\* Two bounds that are met exactly where the product of the two is.
LEMMA BothBoundsMet ==
  ASSUME NEW k \in Nat, k > 0, NEW M \in Int, NEW C \in Int, NEW F \in Int,
         F <= k * C, 3 * C <= M * k, (k * k) * M <= 3 * F
  PROVE  3 * C = M * k /\ F = k * C
<1>1. PICK u \in Int : u = M * k
  OBVIOUS
<1>2. PICK v \in Int : v = k * C
  OBVIOUS
<1>3. (k * k) * M = k * u /\ k * (3 * C) = 3 * v
  BY <1>1, <1>2
<1>4. k * u <= k * (3 * C)
  BY <1>2, <1>3
<1>5. PICK w \in Int : w = 3 * C
  OBVIOUS
<1>6. k * u <= k * w
  BY <1>4, <1>5
<1>7. u <= w
  <2>1. SUFFICES ASSUME w + 1 <= u PROVE FALSE
    OBVIOUS
  <2>2. k * (w + 1) <= k * u
    BY <2>1
  <2>3. k * (w + 1) = k * w + k
    OBVIOUS
  <2>4. QED
    BY <2>2, <2>3, <1>6
<1>8. u = w
  BY <1>1, <1>5, <1>7
<1>9. k * u = 3 * v
  BY <1>3, <1>5, <1>8
<1>10. QED
  BY <1>1, <1>2, <1>3, <1>5, <1>8, <1>9

\* What W = 1 comes to, W being 3 FourS / (k^2 (n^3 - n)).
WIsOne(judges, L, n) == (Len(judges) * Len(judges)) * (n * n * n - n) <= 3 * FourS(judges, L, n)

\* The squared deviations, judge by judge and label by label.
Spread(judges, L, n) == [j \in DOMAIN judges |-> Squares(judges[j], L, n)]

\* They are integers.
LEMMA SpreadIsMatrix ==
  ASSUME NEW L, IsFiniteSet(L), NEW judges, Ballots(judges, L), NEW n \in Nat
  PROVE  Spread(judges, L, n) \in Matrices(DOMAIN judges, L)
<1>1. ASSUME NEW j \in DOMAIN judges PROVE Squares(judges[j], L, n) \in [L -> Int]
  <2>1. judges[j] \in Seq(L) /\ IsInjective(judges[j])
    BY DEF Ballots
  <2>2. QED
    BY <2>1, SumOfSquares
<1>2. QED
  BY <1>1 DEF Spread, Matrices

\* What one judge adds to the spread: at most n^3 - n, which is reached only by
\* ranking all the labels.
LEMMA SpreadOfJudge ==
  ASSUME NEW L, IsFiniteSet(L), NEW judges, Ballots(judges, L), NEW n \in Nat,
         n = Cardinality(L), NEW j \in DOMAIN judges
  PROVE  /\ 3 * RowSums(Spread(judges, L, n))[j] <= n * n * n - n
         /\ n >= 2 /\ 3 * RowSums(Spread(judges, L, n))[j] = n * n * n - n => ToSet(judges[j]) = L
<1>1. PICK r \in Seq(L) : r = judges[j] /\ IsInjective(r)
  BY DEF Ballots
<1>2. RowSums(Spread(judges, L, n))[j] = SumFunction(Squares(r, L, n))
  BY <1>1 DEF RowSums, Spread
<1>3. 3 * SumFunction(Squares(r, L, n)) = Cubic(n, Len(r))
  BY <1>1, SumOfSquares
<1>4. Len(r) \in 0 .. n /\ (Len(r) = n => ToSet(r) = L)
  BY <1>1, LengthOfRanking
<1>5. Cubic(n, Len(r)) <= n * n * n - n
  BY <1>4, CubicBound
<1>6. n >= 2 /\ Cubic(n, Len(r)) = n * n * n - n => Len(r) = n
  BY <1>4, CubicBound
<1>7. QED
  BY <1>1, <1>2, <1>3, <1>4, <1>5, <1>6

\* Each judge adds M / 3 to it.
AddsThirdOf(judges, L, n, M) ==
  \A j \in DOMAIN judges : 3 * RowSums(Spread(judges, L, n))[j] = M

\* The whole spread, over the judges.
LEMMA SpreadByJudge ==
  ASSUME NEW L, IsFiniteSet(L), NEW judges, Ballots(judges, L), NEW n \in Nat, NEW M \in Int,
         \A j \in DOMAIN judges : 3 * RowSums(Spread(judges, L, n))[j] <= M
  PROVE  LET C == SumFunction(RowSums(Spread(judges, L, n)))
         IN  /\ C \in Int
             /\ 3 * C <= M * Len(judges)
             /\ 3 * C = M * Len(judges) => AddsThirdOf(judges, L, n, M)
<1>1. PICK D : D = DOMAIN judges
  OBVIOUS
<1>2. IsFiniteSet(D) /\ Cardinality(D) = Len(judges)
  <2>1. 0 \in Nat
    OBVIOUS
  <2>2. QED
    BY <1>1, <2>1, RanksAdded
<1>3. PICK rows \in [D -> Int] : rows = RowSums(Spread(judges, L, n))
  <2>1. Spread(judges, L, n) \in Matrices(D, L)
    BY <1>1, SpreadIsMatrix
  <2>2. QED
    BY <2>1, RowSumsAreIntegers
<1>4. PICK thrice \in [D -> Int] :
        (\A j \in D : thrice[j] = 3 * rows[j]) /\ SumFunction(thrice) = 3 * SumFunction(rows)
  <2>1. 3 \in Int
    OBVIOUS
  <2>2. QED
    BY <2>1, <1>2, SumTimes
<1>5. PICK ones \in [D -> Int] : ones = [j \in D |-> 1]
  <2>1. [j \in D |-> 1] \in [D -> Int]
    OBVIOUS
  <2>2. QED
    BY <2>1
<1>6. SumFunction(ones) = Len(judges)
  <2>1. SumFunction(ones) = 1 * Cardinality(D)
    BY <1>2, <1>5, SumConstant
  <2>2. Cardinality(D) \in Nat
    BY <1>2, FS_CardinalityType
  <2>3. QED
    BY <2>1, <2>2, <1>2
<1>7. \A j \in D : thrice[j] <= M * ones[j] /\ M * ones[j] = M
  <2>1. ASSUME NEW j \in D PROVE thrice[j] <= M * ones[j] /\ M * ones[j] = M
    <3>1. 3 * RowSums(Spread(judges, L, n))[j] <= M
      BY <1>1
    <3>2. thrice[j] <= M
      BY <3>1, <1>3, <1>4
    <3>3. M * ones[j] = M
      BY <1>5
    <3>4. QED
      BY <3>2, <3>3
  <2>2. QED
    BY <2>1
<1>8. /\ SumFunction(thrice) <= M * SumFunction(ones)
      /\ SumFunction(thrice) = M * SumFunction(ones) => \A j \in D : thrice[j] = M * ones[j]
  <2>1. \A j \in D : thrice[j] <= M * ones[j]
    BY <1>7
  <2>2. QED
    BY <2>1, <1>2, SumAtMostTimes
<1>9. SumFunction(rows) \in Int
  BY <1>2, SumOf
<1>10. ASSUME 3 * SumFunction(rows) = M * Len(judges), NEW j \in D PROVE 3 * rows[j] = M
  <2>1. thrice[j] = M * ones[j]
    BY <1>10, <1>4, <1>6, <1>8
  <2>2. QED
    BY <2>1, <1>4, <1>7
<1>11. QED
  BY <1>1, <1>3, <1>4, <1>6, <1>8, <1>9, <1>10 DEF AddsThirdOf

\* What one label adds to it, against its deviation from the mean rank sum.
LEMMA SpreadOfLabel ==
  ASSUME NEW L, IsFiniteSet(L), NEW judges, Ballots(judges, L), Len(judges) > 0,
         NEW n \in Nat, NEW l \in L
  PROVE  LET k == Len(judges)
             d == TwiceDeviation(judges, l, n)
             c == RowSums(Transposed(Spread(judges, L, n), DOMAIN judges, L))[l]
         IN  /\ d \in Int
             /\ d * d <= k * c
             /\ d * d = k * c => \A j \in DOMAIN judges : k * Deviation(judges[j], l, n) = d
<1>1. PICK D : D = DOMAIN judges
  OBVIOUS
<1>2. PICK k : k = Len(judges)
  OBVIOUS
<1>3. PICK f : f = [j \in D |-> Deviation(judges[j], l, n)]
  OBVIOUS
<1>4. f \in [D -> Int] /\ IsFiniteSet(D) /\ Cardinality(D) = k
  <2>1. [j \in DOMAIN judges |-> Deviation(judges[j], l, n)] \in [DOMAIN judges -> Int]
    BY RanksAdded
  <2>2. IsFiniteSet(DOMAIN judges) /\ Cardinality(DOMAIN judges) = Len(judges)
    BY RanksAdded
  <2>3. QED
    BY <2>1, <2>2, <1>1, <1>2, <1>3
<1>5. D # {}
  BY <1>1 DEF Ballots
<1>6. TwiceDeviation(judges, l, n) \in Int /\ TwiceDeviation(judges, l, n) = SumFunction(f)
  BY <1>1, <1>3, DeviationsAdded
<1>7. PICK q : q = [j \in D |-> f[j] * f[j]]
  OBVIOUS
<1>8. PICK column : column = Transposed(Spread(judges, L, n), D, L)[l]
  OBVIOUS
<1>9. column = q
  <2>1. column = [j \in D |-> Spread(judges, L, n)[j][l]]
    BY <1>8 DEF Transposed
  <2>2. ASSUME NEW j \in D PROVE Spread(judges, L, n)[j][l] = f[j] * f[j]
    BY <1>1, <1>3 DEF Spread, Squares
  <2>3. QED
    BY <2>1, <2>2, <1>7
<1>10. RowSums(Transposed(Spread(judges, L, n), DOMAIN judges, L))[l] = SumFunction(q)
  BY <1>1, <1>8, <1>9 DEF RowSums, Transposed
<1>11. /\ SumFunction(f) * SumFunction(f) <= Cardinality(D) * SumFunction(q)
       /\ SumFunction(f) * SumFunction(f) = Cardinality(D) * SumFunction(q) =>
            \A j \in D : Cardinality(D) * f[j] = SumFunction(f)
  BY <1>4, <1>5, <1>7, SquareOfSum
<1>12. QED
  BY <1>1, <1>2, <1>3, <1>4, <1>6, <1>10, <1>11

\* The whole spread, over the labels.
LEMMA SpreadByLabel ==
  ASSUME NEW L, IsFiniteSet(L), NEW judges, Ballots(judges, L), Len(judges) > 0,
         NEW n \in Nat
  PROVE  LET k == Len(judges)
             C == SumFunction(RowSums(Transposed(Spread(judges, L, n), DOMAIN judges, L)))
         IN  /\ FourS(judges, L, n) \in Int
             /\ FourS(judges, L, n) <= k * C
             /\ FourS(judges, L, n) = k * C =>
                  \A l \in L : \A j \in DOMAIN judges :
                    k * Deviation(judges[j], l, n) = TwiceDeviation(judges, l, n)
<1>1. PICK columns \in [L -> Int] :
        columns = RowSums(Transposed(Spread(judges, L, n), DOMAIN judges, L))
  <2>1. Spread(judges, L, n) \in Matrices(DOMAIN judges, L)
    BY SpreadIsMatrix
  <2>2. Transposed(Spread(judges, L, n), DOMAIN judges, L) \in Matrices(L, DOMAIN judges)
    BY <2>1, TransposedIsMatrix
  <2>3. IsFiniteSet(DOMAIN judges)
    BY RanksAdded
  <2>4. QED
    BY <2>2, <2>3, RowSumsAreIntegers
<1>2. PICK k \in Int : k = Len(judges)
  <2>1. Len(judges) \in Int
    BY DEF Ballots
  <2>2. QED
    BY <2>1
<1>3. PICK squared :
        squared = [l \in L |-> TwiceDeviation(judges, l, n) * TwiceDeviation(judges, l, n)]
  OBVIOUS
<1>4. squared \in [L -> Int] /\ \A l \in L : squared[l] <= k * columns[l]
  <2>1. ASSUME NEW l \in L PROVE squared[l] \in Int /\ squared[l] <= k * columns[l]
    <3>1. TwiceDeviation(judges, l, n) \in Int
      BY SpreadOfLabel
    <3>2. TwiceDeviation(judges, l, n) * TwiceDeviation(judges, l, n) <= k * columns[l]
      BY <1>1, <1>2, SpreadOfLabel
    <3>3. QED
      BY <3>1, <3>2, <1>3
  <2>2. QED
    BY <2>1, <1>3
<1>5. FourS(judges, L, n) = SumFunction(squared)
  BY <1>3 DEF FourS
<1>6. /\ SumFunction(squared) <= k * SumFunction(columns)
      /\ SumFunction(squared) = k * SumFunction(columns) =>
           \A l \in L : squared[l] = k * columns[l]
  BY <1>4, SumAtMostTimes
<1>7. SumFunction(squared) \in Int
  BY <1>4, SumOf
<1>8. ASSUME SumFunction(squared) = k * SumFunction(columns),
             NEW l \in L, NEW j \in DOMAIN judges
      PROVE  k * Deviation(judges[j], l, n) = TwiceDeviation(judges, l, n)
  <2>1. TwiceDeviation(judges, l, n) * TwiceDeviation(judges, l, n) = k * columns[l]
    BY <1>8, <1>3, <1>6
  <2>2. QED
    BY <2>1, <1>1, <1>2, SpreadOfLabel
<1>9. QED
  BY <1>1, <1>2, <1>5, <1>6, <1>7, <1>8

\* Rankings that give all labels the same ranks are the same.
LEMMA SameRanks ==
  ASSUME NEW L, NEW r \in Seq(L), NEW s \in Seq(L), IsInjective(r), IsInjective(s),
         ToSet(r) = L, ToSet(s) = L, NEW n \in Nat,
         \A l \in L : Deviation(r, l, n) = Deviation(s, l, n)
  PROVE  r = s
<1>1. ASSUME NEW p \in DOMAIN r, NEW q \in DOMAIN s, r[p] = s[q] PROVE p = q
  <2>1. PICK l \in L : l = r[p]
    BY DEF ToSet
  <2>2. TwiceRank(r, r[p], n) = 2 * p
    BY RankOfLabel
  <2>3. TwiceRank(s, s[q], n) = 2 * q
    BY RankOfLabel
  <2>4. Deviation(r, l, n) = 2 * p - (n + 1) /\ Deviation(s, l, n) = 2 * q - (n + 1)
    BY <1>1, <2>1, <2>2, <2>3 DEF Deviation
  <2>5. p \in Int /\ q \in Int
    OBVIOUS
  <2>6. Deviation(r, l, n) = Deviation(s, l, n)
    BY <2>1
  <2>7. QED
    BY <2>4, <2>5, <2>6
<1>2. ASSUME NEW p \in DOMAIN r PROVE p \in DOMAIN s /\ s[p] = r[p]
  <2>1. PICK q \in DOMAIN s : s[q] = r[p]
    BY DEF ToSet
  <2>2. QED
    BY <2>1, <1>1
<1>3. ASSUME NEW q \in DOMAIN s PROVE q \in DOMAIN r
  <2>1. PICK p \in DOMAIN r : s[q] = r[p]
    BY DEF ToSet
  <2>2. QED
    BY <2>1, <1>1
<1>4. QED
  BY <1>2, <1>3

\* W is 1 only if every judge ranks all the labels, and all of them alike: by
\* SquareOfSum a label deviates most where the judges agree on it, and by
\* CubicBound a judge's ranks deviate most where all labels are ranked.
THEOREM PerfectAgreement ==
  ASSUME NEW L, IsFiniteSet(L), NEW judges, Ballots(judges, L), Len(judges) > 0,
         Cardinality(L) >= 2, WIsOne(judges, L, Cardinality(L))
  PROVE  \A j \in DOMAIN judges : ToSet(judges[j]) = L /\ judges[j] = judges[1]
<1>1. PICK n \in Nat : n = Cardinality(L)
  BY FS_CardinalityType
<1>2. PICK k \in Nat : k = Len(judges) /\ k > 0
  BY DEF Ballots
<1>3. PICK M \in Int : M = n * n * n - n
  OBVIOUS
<1>4. PICK C : C = SumFunction(RowSums(Spread(judges, L, n)))
  OBVIOUS
<1>5. C = SumFunction(RowSums(Transposed(Spread(judges, L, n), DOMAIN judges, L)))
  <2>1. Spread(judges, L, n) \in Matrices(DOMAIN judges, L)
    BY SpreadIsMatrix
  <2>2. IsFiniteSet(DOMAIN judges)
    BY RanksAdded
  <2>3. QED
    BY <2>1, <2>2, <1>4, SumOfSums
<1>6. \A j \in DOMAIN judges : 3 * RowSums(Spread(judges, L, n))[j] <= M
  BY <1>1, <1>3, SpreadOfJudge
<1>7. /\ C \in Int
      /\ 3 * C <= M * k
      /\ 3 * C = M * k => AddsThirdOf(judges, L, n, M)
  <2>1. C \in Int
    BY <1>4, <1>6, SpreadByJudge
  <2>2. 3 * C <= M * Len(judges)
    BY <1>4, <1>6, SpreadByJudge
  <2>3. 3 * C = M * Len(judges) => AddsThirdOf(judges, L, n, M)
    BY <1>4, <1>6, SpreadByJudge
  <2>4. QED
    BY <2>1, <2>2, <2>3, <1>2
<1>8. PICK F \in Int : F = FourS(judges, L, n)
  BY SpreadByLabel
<1>9. /\ F <= k * C
      /\ F = k * C => \A l \in L : \A j \in DOMAIN judges :
           k * Deviation(judges[j], l, n) = TwiceDeviation(judges, l, n)
  BY <1>2, <1>5, <1>8, SpreadByLabel
<1>10. (k * k) * M <= 3 * F
  BY <1>1, <1>2, <1>3, <1>8 DEF WIsOne
<1>11. 3 * C = M * k /\ F = k * C
  BY <1>2, <1>7, <1>9, <1>10, BothBoundsMet
<1>12. \A j \in DOMAIN judges : ToSet(judges[j]) = L
  <2>1. ASSUME NEW j \in DOMAIN judges PROVE ToSet(judges[j]) = L
    <3>1. 3 * RowSums(Spread(judges, L, n))[j] = n * n * n - n
      BY <1>3, <1>7, <1>11 DEF AddsThirdOf
    <3>2. QED
      BY <3>1, <1>1, SpreadOfJudge
  <2>2. QED
    BY <2>1
<1>13. ASSUME NEW j \in DOMAIN judges PROVE judges[j] = judges[1]
  <2>1. PICK r \in Seq(L) : r = judges[j] /\ IsInjective(r) /\ ToSet(r) = L
    BY <1>12 DEF Ballots
  <2>2. 1 \in DOMAIN judges
    BY DEF Ballots
  <2>3. PICK s \in Seq(L) : s = judges[1] /\ IsInjective(s) /\ ToSet(s) = L
    BY <2>2, <1>12 DEF Ballots
  <2>4. ASSUME NEW l \in L PROVE Deviation(r, l, n) = Deviation(s, l, n)
    <3>1. k * Deviation(r, l, n) = k * Deviation(s, l, n)
      BY <2>1, <2>2, <2>3, <1>9, <1>11
    <3>2. Deviation(r, l, n) \in Int
      BY <2>1, DeviationIsInteger
    <3>3. Deviation(s, l, n) \in Int
      BY <2>3, DeviationIsInteger
    <3>4. QED
      BY <3>1, <3>2, <3>3, <1>2
  <2>5. r = s
    BY <2>1, <2>3, <2>4, SameRanks
  <2>6. QED
    BY <2>1, <2>3, <2>5
<1>14. QED
  BY <1>12, <1>13

---------------------------------------------------------------------------
(* Rankings with repetitions.                                              *)

\* Ranks and deviations are integers, however often a judge lists a label, and
\* S is not negative.
LEMMA SIsNatural ==
  ASSUME NEW L, IsFiniteSet(L), NEW judges \in Seq(Seq(L)), NEW n \in Nat
  PROVE  FourS(judges, L, n) \in Nat
<1>1. ASSUME NEW r \in Seq(L), NEW l PROVE TwiceRank(r, l, n) \in Int
  <2>1. PICK m \in Nat : m = Len(r) /\ DOMAIN r = 1 .. m
    OBVIOUS
  <2>2. PICK at \in SUBSET (1 .. m) : at = {p \in DOMAIN r : r[p] = l}
    BY <2>1
  <2>3. at # {} => Max(at) \in at
    <3>1. m \in Int
      OBVIOUS
    <3>2. QED
      BY <3>1, GreatestElement
  <2>4. at # {} => 2 * Max(at) \in Int
    <3>1. \A p \in at : 2 * p \in Int
      OBVIOUS
    <3>2. QED
      BY <3>1, <2>3
  <2>5. QED
    BY <2>2, <2>4 DEF TwiceRank
<1>2. PICK D : D = DOMAIN judges /\ IsFiniteSet(D)
  <2>1. PICK k \in Nat : k = Len(judges) /\ DOMAIN judges = 1 .. k
    OBVIOUS
  <2>2. 1 \in Int /\ k \in Int
    OBVIOUS
  <2>3. IsFiniteSet(1 .. k)
    BY <2>2, FS_Interval
  <2>4. QED
    BY <2>1, <2>3
<1>3. ASSUME NEW l \in L PROVE TwiceDeviation(judges, l, n) \in Int
  <2>1. ASSUME NEW j \in D PROVE TwiceRank(judges[j], l, n) \in Int
    <3>1. judges[j] \in Seq(L)
      BY <1>2
    <3>2. QED
      BY <3>1, <1>1
  <2>2. [j \in D |-> TwiceRank(judges[j], l, n)] \in [D -> Int]
    BY <2>1
  <2>3. TwiceRankSum(judges, l, n) \in Int
    BY <2>2, <1>2, SumOf DEF TwiceRankSum
  <2>4. Len(judges) \in Int
    OBVIOUS
  <2>5. QED
    BY <2>3, <2>4 DEF TwiceDeviation, JudgeCount
<1>4. PICK squared :
        squared = [l \in L |-> TwiceDeviation(judges, l, n) * TwiceDeviation(judges, l, n)]
  OBVIOUS
<1>5. squared \in [L -> Int] /\ \A l \in L : 0 <= squared[l]
  <2>1. ASSUME NEW l \in L PROVE squared[l] \in Nat
    BY <1>3, <1>4, SquareNotNegative
  <2>2. QED
    BY <2>1, <1>4
<1>6. PICK zero \in [L -> Int] : zero = [l \in L |-> 0]
  <2>1. [l \in L |-> 0] \in [L -> Int]
    OBVIOUS
  <2>2. QED
    BY <2>1
<1>7. SumFunction(zero) = 0
  <2>1. SumFunction(zero) = 0 * Cardinality(L)
    BY <1>6, SumConstant
  <2>2. Cardinality(L) \in Nat
    BY FS_CardinalityType
  <2>3. QED
    BY <2>1, <2>2
<1>8. SumFunction(zero) <= SumFunction(squared)
  <2>1. \A l \in L : zero[l] <= squared[l]
    BY <1>5, <1>6
  <2>2. QED
    BY <2>1, <1>5, SumMonotonic
<1>9. SumFunction(squared) \in Int
  BY <1>5, SumOf
<1>10. FourS(judges, L, n) = SumFunction(squared)
  BY <1>4 DEF FourS
<1>11. QED
  BY <1>7, <1>8, <1>9, <1>10

\* W is a fraction between 0 and 1.
LEMMA WIsFraction ==
  ASSUME NEW L, IsFiniteSet(L), NEW judges \in Seq(Seq(L)),
         NEW a \in CalculateAggregateRankings(judges, L)
  PROVE  a.w[1] \in 0 .. a.w[2]
<1>1. PICK n \in Nat : n = Cardinality(L)
  BY FS_CardinalityType
<1>2. PICK s \in Nat : s = FourS(judges, L, n)
  BY SIsNatural
<1>3. PICK d : d = Len(judges) * Len(judges) * (n * n * n - n)
  OBVIOUS
<1>4. d \in Int
  <2>1. Len(judges) \in Int
    OBVIOUS
  <2>2. QED
    BY <2>1, <1>3
<1>5. \/ a = NoRankings
      \/ \E order : a = [order |-> order,
                         w |-> IF 3 * s > d THEN <<1, 1>> ELSE <<3 * s, d>>]
  BY <1>1, <1>2, <1>3 DEF CalculateAggregateRankings, JudgeCount
<1>6. CASE a = NoRankings
  BY <1>6 DEF NoRankings
<1>7. CASE 3 * s > d /\ a.w = <<1, 1>>
  BY <1>7
<1>8. CASE ~(3 * s > d) /\ a.w = <<3 * s, d>>
  BY <1>4, <1>8
<1>9. QED
  BY <1>5, <1>6, <1>7, <1>8

\* What CalculateAggregateRankings promises of an order and W: ConsensusIsSound,
\* of any rankings and any labels.
LEMMA AggregateIsSound ==
  ASSUME NEW L, IsFiniteSet(L), NEW judges, Ballots(judges, L),
         NEW a \in CalculateAggregateRankings(judges, L), a # NoRankings
  PROVE  /\ \A i, j \in DOMAIN a.order :
              i < j => ~(\A k \in {h \in DOMAIN judges : judges[h] # <<>>} :
                           \E p, q \in DOMAIN judges[k] :
                             /\ p < q
                             /\ judges[k][p] = a.order[j]
                             /\ judges[k][q] = a.order[i])
         /\ a.w[1] = a.w[2] =>
              \A k \in DOMAIN judges : judges[k] = judges[1] /\ ToSet(judges[k]) = L
<1>1. PICK n \in Nat : n = Cardinality(L)
  BY FS_CardinalityType
<1>2. judges \in Seq(Seq(L))
  BY DEF Ballots
<1>3. PICK k \in Nat : k = Len(judges) /\ DOMAIN judges = 1 .. k
  BY <1>2
<1>4. PICK s \in Nat : s = FourS(judges, L, n)
  BY <1>2, SIsNatural
<1>5. PICK d : d = k * k * (n * n * n - n)
  OBVIOUS
<1>6. /\ d # 0
      /\ \E h \in DOMAIN judges : judges[h] # <<>>
      /\ a.w = IF 3 * s > d THEN <<1, 1>> ELSE <<3 * s, d>>
      /\ \A i, j \in DOMAIN a.order : i < j => RankedBefore(judges, a.order[i], a.order[j], n)
  <2>1. CalculateAggregateRankings(judges, L)
          = IF d = 0 \/ \A h \in DOMAIN judges : judges[h] = <<>>
            THEN {NoRankings}
            ELSE {[order |-> order, w |-> IF 3 * s > d THEN <<1, 1>> ELSE <<3 * s, d>>] :
                    order \in {o \in SetToSeqs(L) :
                      \A i, j \in DOMAIN o : i < j => RankedBefore(judges, o[i], o[j], n)}}
    BY <1>1, <1>3, <1>4, <1>5 DEF CalculateAggregateRankings, JudgeCount
  <2>2. d # 0 /\ \E h \in DOMAIN judges : judges[h] # <<>>
    BY <2>1
  <2>3. PICK order \in {o \in SetToSeqs(L) :
                       \A i, j \in DOMAIN o : i < j => RankedBefore(judges, o[i], o[j], n)} :
          a = [order |-> order, w |-> IF 3 * s > d THEN <<1, 1>> ELSE <<3 * s, d>>]
    BY <2>1, <2>2
  <2>4. QED
    BY <2>2, <2>3
<1>7. ASSUME NEW i \in DOMAIN a.order, NEW j \in DOMAIN a.order, i < j,
             \A h \in {g \in DOMAIN judges : judges[g] # <<>>} :
               \E p, q \in DOMAIN judges[h] :
                 p < q /\ judges[h][p] = a.order[j] /\ judges[h][q] = a.order[i]
      PROVE  FALSE
  <2>1. PICK h \in DOMAIN judges : judges[h] # <<>>
    BY <1>6
  <2>2. PICK x, y : x = a.order[j] /\ y = a.order[i]
    OBVIOUS
  <2>3. \A g \in DOMAIN judges : judges[g] # <<>> =>
          \E p, q \in DOMAIN judges[g] : p < q /\ judges[g][p] = x /\ judges[g][q] = y
    BY <1>7, <2>2
  <2>4. ~RankedBefore(judges, y, x, n)
    BY <2>1, <2>3, UnanimityIsKept
  <2>5. QED
    BY <2>2, <2>4, <1>6, <1>7
<1>8. ASSUME a.w[1] = a.w[2]
      PROVE  \A h \in DOMAIN judges : judges[h] = judges[1] /\ ToSet(judges[h]) = L
  <2>1. d \in Int
    BY <1>5
  <2>2. 3 * s >= d
    BY <1>6, <1>8, <2>1
  <2>3. k > 0 /\ n >= 2
    <3>1. n # 0 /\ n # 1 /\ k # 0
      BY <1>5, <1>6
    <3>2. QED
      BY <3>1
  <2>4. d = (k * k) * (n * n * n - n)
    BY <1>5
  <2>5. WIsOne(judges, L, Cardinality(L))
    BY <1>1, <1>3, <1>4, <2>1, <2>2, <2>4 DEF WIsOne
  <2>6. Len(judges) > 0 /\ Cardinality(L) >= 2
    BY <1>1, <1>3, <2>3
  <2>7. QED
    BY <2>5, <2>6, PerfectAgreement
<1>9. QED
  BY <1>7, <1>8

===========================================================================
