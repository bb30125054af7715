----------------------------- MODULE SumProofs ------------------------------
(* Sums over finite sets: what SumFunction returns when one entry of the   *)
(* function changes.  The rule of induction is that of sets of numbers.    *)
EXTENDS Functions, Integers, FiniteSetTheorems, TLAPS

LEMMA SetInduction ==
    ASSUME NEW T \in SUBSET Nat, 0 \in T, \A n \in T : n + 1 \in T
    PROVE  T = Nat
<1> SUFFICES ASSUME Nat \ T # {}
             PROVE  FALSE
  OBVIOUS
<1>1. PICK R : R = {ss \in Nat \X Nat : ss[1] < ss[2]}
  OBVIOUS
<1>2. IsWellFoundedOn(R, Nat)
  BY <1>1, NatLessThanWellFounded, Zenon DEF OpToRel
<1>3. PICK x \in Nat \ T : \A y \in Nat \ T : ~(<<y, x>> \in R)
  BY <1>2, WFMin
<1>4. x \in Nat /\ x # 0 /\ x - 1 \in Nat
  OBVIOUS
<1>5. <<x - 1, x>> \in R
  BY <1>1, <1>4
<1>6. x - 1 \in T
  BY <1>3, <1>4, <1>5
<1> QED BY <1>4, <1>6

Picked(s) == CHOOSE x \in s : TRUE

\* g adds up f over the subsets of D.
Adds(g, f, D) ==
    g = [s \in SUBSET D |-> IF s = {} THEN 0 ELSE f[Picked(s)] + g[s \ {Picked(s)}]]

LEMMA SumIsAdds ==
    ASSUME NEW f
    PROVE  SumFunction(f) = (CHOOSE g : Adds(g, f, DOMAIN f))[DOMAIN f]
BY DEF SumFunction, SumFunctionOnSet, FoldFunctionOnSet, MapThenFoldSet, Adds, Picked

LEMMA PickedIn == \A s : s # {} => Picked(s) \in s
BY DEF Picked

\* What is left of a finite set without one of its elements.
LEMMA OneLess ==
    ASSUME NEW D, IsFiniteSet(D), NEW s \in SUBSET D, NEW x \in s
    PROVE  /\ s \ {x} \in SUBSET D
           /\ Cardinality(s) \in Nat /\ Cardinality(s \ {x}) \in Nat
           /\ Cardinality(s) = Cardinality(s \ {x}) + 1
<1>1. IsFiniteSet(s)
  BY FS_Subset
<1>2. Cardinality(s) \in Nat /\ Cardinality(s \ {x}) = Cardinality(s) - 1 /\ IsFiniteSet(s \ {x})
  BY <1>1, FS_CardinalityType, FS_RemoveElement
<1>3. Cardinality(s \ {x}) \in Nat
  BY <1>2, FS_CardinalityType
<1> QED BY <1>2, <1>3

LEMMA AddsExists ==
    ASSUME NEW D, IsFiniteSet(D), NEW f \in [D -> Int]
    PROVE  \E g \in [SUBSET D -> Int] : Adds(g, f, D)
<1> DEFINE Step(g, s) == IF s = {} THEN 0 ELSE f[Picked(s)] + g[s \ {Picked(s)}]
           Upto(n) == \E g \in [SUBSET D -> Int] :
                        \A s \in SUBSET D : Cardinality(s) <= n => g[s] = Step(g, s)
           T == {n \in Nat : Upto(n)}
<1>1. \A s \in SUBSET D : IsFiniteSet(s) /\ Cardinality(s) \in Nat /\ Cardinality(s) <= Cardinality(D)
  BY FS_Subset, FS_CardinalityType
<1>2. 0 \in T
  <2>1. PICK g : g = [s \in SUBSET D |-> 0]
    OBVIOUS
  <2>2. g \in [SUBSET D -> Int] /\ \A s \in SUBSET D : g[s] = 0
    BY <2>1
  <2>3. \A s \in SUBSET D : Cardinality(s) <= 0 => s = {}
    BY <1>1, FS_EmptySet
  <2>4. \A s \in SUBSET D : Cardinality(s) <= 0 => g[s] = Step(g, s)
    BY <2>2, <2>3
  <2> HIDE DEF Step
  <2> QED BY <2>2, <2>4
<1>3. ASSUME NEW n \in T
      PROVE  n + 1 \in T
  <2> HIDE DEF Step
  <2>1. PICK g \in [SUBSET D -> Int] :
           \A s \in SUBSET D : Cardinality(s) <= n => g[s] = Step(g, s)
    OBVIOUS
  <2>2. PICK h : h = [s \in SUBSET D |-> IF Cardinality(s) = n + 1 THEN Step(g, s) ELSE g[s]]
    OBVIOUS
  <2>3. \A s \in SUBSET D : Step(g, s) \in Int
    <3> SUFFICES ASSUME NEW s \in SUBSET D, s # {}
                 PROVE  f[Picked(s)] + g[s \ {Picked(s)}] \in Int
      BY DEF Step
    <3>1. Picked(s) \in D /\ s \ {Picked(s)} \in SUBSET D
      BY PickedIn
    <3> QED BY <3>1
  <2>4. h \in [SUBSET D -> Int]
    BY <2>2, <2>3
  <2>5. ASSUME NEW s \in SUBSET D, Cardinality(s) <= n + 1
        PROVE  Step(h, s) = Step(g, s)
    <3>1. CASE s = {}
      BY <3>1 DEF Step
    <3>2. CASE s # {}
      <4>1. /\ s \ {Picked(s)} \in SUBSET D
            /\ Cardinality(s \ {Picked(s)}) # n + 1
        BY <2>5, <3>2, PickedIn, OneLess, n \in Nat
      <4>2. h[s \ {Picked(s)}] = g[s \ {Picked(s)}]
        BY <2>2, <4>1
      <4> QED BY <4>2 DEF Step
    <3> QED BY <3>1, <3>2
  <2>6. ASSUME NEW s \in SUBSET D, Cardinality(s) <= n + 1
        PROVE  h[s] = Step(h, s)
    <3>1. Cardinality(s) = n + 1 \/ Cardinality(s) <= n
      BY <1>1, <2>6, n \in Nat
    <3>2. h[s] = Step(g, s)
      BY <2>1, <2>2, <3>1
    <3> QED BY <2>5, <2>6, <3>2
  <2> QED BY <2>4, <2>6
<1>4. Cardinality(D) \in T
  <2> HIDE DEF T
  <2>1. T \in SUBSET Nat
    BY DEF T
  <2>2. T = Nat
    BY <1>2, <1>3, <2>1, SetInduction
  <2> QED BY <1>1, <2>2, FS_CardinalityType
<1>5. PICK g \in [SUBSET D -> Int] :
         \A s \in SUBSET D : Cardinality(s) <= Cardinality(D) => g[s] = Step(g, s)
  BY <1>4
<1>6. \A s \in SUBSET D : g[s] = Step(g, s)
  BY <1>1, <1>5
<1>7. g = [s \in SUBSET D |-> Step(g, s)]
  BY <1>6
<1> QED BY <1>7 DEF Adds

\* Induction on the size of a subset of a finite set.
LEMMA SubsetInduction ==
    ASSUME NEW D, IsFiniteSet(D), NEW T \in SUBSET SUBSET D, {} \in T,
           \A s \in SUBSET D :
               s # {} /\ (\A x \in s : s \ {x} \in T) => s \in T
    PROVE  T = SUBSET D
<1> DEFINE N == {n \in Nat : \A s \in SUBSET D : Cardinality(s) = n => s \in T}
<1>1. \A s \in SUBSET D : IsFiniteSet(s) /\ Cardinality(s) \in Nat
  BY FS_Subset, FS_CardinalityType
<1>2. 0 \in N
  BY <1>1, FS_EmptySet
<1>3. ASSUME NEW n \in N
      PROVE  n + 1 \in N
  <2> SUFFICES ASSUME NEW s \in SUBSET D, Cardinality(s) = n + 1
               PROVE  s \in T
    OBVIOUS
  <2>1. n \in Nat /\ s # {}
    <3>1. n \in Nat /\ n + 1 # 0 /\ Cardinality({}) = 0
      BY FS_EmptySet
    <3> QED BY <3>1
  <2>2. ASSUME NEW x \in s
        PROVE  s \ {x} \in T
    <3>1. Cardinality(s \ {x}) = n /\ s \ {x} \in SUBSET D
      BY <2>1, OneLess
    <3> QED BY <3>1
  <2> QED BY <2>1, <2>2
<1>4. N = Nat
  <2> HIDE DEF N
  <2>1. N \in SUBSET Nat
    BY DEF N
  <2> QED BY <1>2, <1>3, <2>1, SetInduction
<1> QED BY <1>1, <1>4

Plus(a, b) == a + b

\* g is the sum of f over each subset of D.
Sums(g, f, D) ==
    IsFiniteSet(D) /\ f \in [D -> Int] /\ g \in [SUBSET D -> Int] /\ Adds(g, f, D)

AnyOrder(g, f, D) == \A s \in SUBSET D : \A x \in s : g[s] = Plus(f[x], g[s \ {x}])

\* The order in which the elements are picked is of no account.
LEMMA AddsAnyOrder ==
    ASSUME NEW D, NEW f, NEW g, Sums(g, f, D)
    PROVE  AnyOrder(g, f, D)
<1>0. IsFiniteSet(D) /\ f \in [D -> Int] /\ g \in [SUBSET D -> Int] /\ Adds(g, f, D)
  BY DEF Sums
<1> DEFINE T == {t \in SUBSET D : \A y \in t : g[t] = f[y] + g[t \ {y}]}
<1>1. ASSUME NEW t \in SUBSET D, t # {}, \A y \in t : t \ {y} \in T
      PROVE  t \in T
  <2> SUFFICES ASSUME NEW y \in t
               PROVE  g[t] = f[y] + g[t \ {y}]
    OBVIOUS
  <2>1. PICK p \in t : g[t] = f[p] + g[t \ {p}]
    BY <1>0, <1>1, PickedIn DEF Adds
  <2>2. CASE p = y
    BY <2>1, <2>2
  <2>3. CASE p # y
    <3>1. y \in t \ {p} /\ p \in t \ {y} /\ (t \ {p}) \ {y} = (t \ {y}) \ {p}
      BY <2>3
    <3>2. /\ g[t \ {p}] = f[y] + g[(t \ {p}) \ {y}]
          /\ g[t \ {y}] = f[p] + g[(t \ {y}) \ {p}]
      BY <1>1, <3>1
    <3>3. f[p] \in Int /\ f[y] \in Int /\ (t \ {p}) \ {y} \in SUBSET D
      BY <1>0
    <3>4. g[(t \ {p}) \ {y}] \in Int
      BY <1>0, <3>3
    <3>5. PICK a \in Int, b \in Int, r \in Int :
             a = f[p] /\ b = f[y] /\ r = g[(t \ {p}) \ {y}]
      BY <3>3, <3>4
    <3>6. g[t \ {p}] = b + r /\ g[t \ {y}] = a + r
      BY <3>1, <3>2, <3>5
    <3>7. g[t] = a + (b + r)
      BY <2>1, <3>5, <3>6
    <3>8. a + (b + r) = b + (a + r)
      BY <3>5
    <3> QED BY <3>5, <3>6, <3>7, <3>8
  <2> QED BY <2>2, <2>3
<1>2. T = SUBSET D
  <2> HIDE DEF T
  <2>1. T \in SUBSET SUBSET D /\ {} \in T
    BY DEF T
  <2> QED BY <1>0, <1>1, <2>1, SubsetInduction
<1> QED BY <1>2 DEF Plus, AnyOrder

\* Functions that agree on a set have the same sum over it.
LEMMA AddsAgree ==
    ASSUME NEW D, NEW f, NEW h, NEW gf, NEW gh, Sums(gf, f, D), Sums(gh, h, D),
           NEW E \in SUBSET D, \A d \in E : f[d] = h[d]
    PROVE  gf[E] = gh[E]
<1> DEFINE T == {t \in SUBSET E : gf[t] = gh[t]}
<1>0. Adds(gf, f, D) /\ Adds(gh, h, D) /\ IsFiniteSet(D)
  BY DEF Sums
<1>1. {} \in T
  BY <1>0 DEF Adds
<1>2. ASSUME NEW t \in SUBSET E, t # {}, \A x \in t : t \ {x} \in T
      PROVE  t \in T
  <2>1. PICK x : x = Picked(t)
    OBVIOUS
  <2>2. x \in t /\ f[x] = h[x] /\ gf[t \ {x}] = gh[t \ {x}]
    BY <1>2, <2>1, PickedIn
  <2>3. gf[t] = f[x] + gf[t \ {x}] /\ gh[t] = h[x] + gh[t \ {x}]
    BY <1>0, <1>2, <2>1 DEF Adds
  <2> QED BY <2>2, <2>3
<1>3. T = SUBSET E
  <2> HIDE DEF T
  <2>1. T \in SUBSET SUBSET E /\ IsFiniteSet(E)
    BY <1>0, FS_Subset DEF T
  <2> QED BY <1>1, <1>2, <2>1, SubsetInduction
<1> QED BY <1>3

\* SumFunction is such a sum.
LEMMA SumAdds ==
    ASSUME NEW D, IsFiniteSet(D), NEW f \in [D -> Int]
    PROVE  \E g : Sums(g, f, D) /\ SumFunction(f) = g[D]
<1>1. PICK g : g = CHOOSE h : Adds(h, f, D)
  OBVIOUS
<1>2. Adds(g, f, D)
  BY <1>1, AddsExists
<1>3. SumFunction(f) = g[D]
  BY <1>1, SumIsAdds
<1>4. PICK h \in [SUBSET D -> Int] : Adds(h, f, D)
  BY AddsExists
<1>5. \A s \in SUBSET D : g[s] = h[s]
  <2> DEFINE T == {t \in SUBSET D : g[t] = h[t]}
  <2>1. {} \in T
    BY <1>2, <1>4 DEF Adds
  <2>2. ASSUME NEW t \in SUBSET D, t # {}, \A x \in t : t \ {x} \in T
        PROVE  t \in T
    BY <1>2, <1>4, <2>2, PickedIn DEF Adds
  <2>3. T = SUBSET D
    <3> HIDE DEF T
    <3>1. T \in SUBSET SUBSET D
      BY DEF T
    <3> QED BY <2>1, <2>2, <3>1, SubsetInduction
  <2> QED BY <2>3
<1>6. g = [s \in SUBSET D |-> g[s]]
  BY <1>2 DEF Adds
<1>7. g \in [SUBSET D -> Int]
  BY <1>4, <1>5, <1>6
<1> QED BY <1>2, <1>3, <1>7 DEF Sums

LEMMA SumIsInt ==
    ASSUME NEW D, IsFiniteSet(D), NEW f \in [D -> Int]
    PROVE  SumFunction(f) \in Int
<1>1. PICK g : Sums(g, f, D) /\ SumFunction(f) = g[D]
  BY SumAdds
<1>2. D \in SUBSET D /\ g \in [SUBSET D -> Int]
  BY <1>1 DEF Sums
<1> QED BY <1>1, <1>2

\* A sum, one element apart.
LEMMA SumWithout ==
    ASSUME NEW D, NEW f, NEW g, Sums(g, f, D), NEW x \in D
    PROVE  /\ f[x] \in Int /\ g[D \ {x}] \in Int
           /\ g[D] = Plus(f[x], g[D \ {x}])
<1>1. D \in SUBSET D /\ D \ {x} \in SUBSET D
  OBVIOUS
<1>2. f[x] \in Int /\ g[D \ {x}] \in Int
  BY <1>1 DEF Sums
<1>3. AnyOrder(g, f, D)
  BY AddsAnyOrder
<1> QED BY <1>1, <1>2, <1>3 DEF AnyOrder

\* When one entry changes, the sum changes by as much.
LEMMA SumChange ==
    ASSUME NEW D, IsFiniteSet(D), NEW f \in [D -> Int], NEW h \in [D -> Int], NEW x \in D,
           \A d \in D \ {x} : h[d] = f[d]
    PROVE  SumFunction(h) = SumFunction(f) - f[x] + h[x]
<1>1. PICK gf : Sums(gf, f, D) /\ SumFunction(f) = gf[D]
  BY SumAdds
<1>2. PICK gh : Sums(gh, h, D) /\ SumFunction(h) = gh[D]
  BY SumAdds
<1>3. PICK E \in SUBSET D : E = D \ {x}
  OBVIOUS
<1>4. gf[E] = gh[E]
  <2>1. \A d \in E : f[d] = h[d]
    BY <1>3
  <2> QED BY <1>1, <1>2, <2>1, AddsAgree
<1>5. f[x] \in Int /\ gf[E] \in Int /\ gf[D] = Plus(f[x], gf[E])
  BY <1>1, <1>3, SumWithout
<1>6. h[x] \in Int /\ gh[D] = Plus(h[x], gh[E])
  BY <1>2, <1>3, SumWithout
<1> QED BY <1>1, <1>2, <1>4, <1>5, <1>6 DEF Plus

\* Nothing adds up to nothing.
LEMMA SumOfZeros ==
    ASSUME NEW D, IsFiniteSet(D), NEW f \in [D -> Int], \A d \in D : f[d] = 0
    PROVE  SumFunction(f) = 0
<1>1. PICK g : Sums(g, f, D) /\ SumFunction(f) = g[D]
  BY SumAdds
<1> DEFINE T == {t \in SUBSET D : g[t] = 0}
<1>2. Adds(g, f, D)
  BY <1>1 DEF Sums
<1>3. ASSUME NEW t \in SUBSET D, t # {}, \A x \in t : t \ {x} \in T
      PROVE  t \in T
  <2>1. PICK x : x = Picked(t)
    OBVIOUS
  <2>2. x \in t /\ f[x] = 0 /\ g[t \ {x}] = 0
    BY <1>3, <2>1, PickedIn
  <2>3. g[t] = f[x] + g[t \ {x}]
    BY <1>2, <1>3, <2>1 DEF Adds
  <2> QED BY <2>2, <2>3
<1>4. T = SUBSET D
  <2>1. T \in SUBSET SUBSET D /\ {} \in T
    BY <1>2 DEF Adds
  <2> HIDE DEF T
  <2> QED BY <1>3, <2>1, SubsetInduction
<1> QED BY <1>1, <1>4

\* A sum of naturals is at least each of them.
LEMMA SumOfNats ==
    ASSUME NEW D, IsFiniteSet(D), NEW f \in [D -> Nat]
    PROVE  SumFunction(f) \in Nat /\ \A d \in D : f[d] <= SumFunction(f)
<1>0. f \in [D -> Int] /\ D \in SUBSET D
  OBVIOUS
<1>1. PICK g : Sums(g, f, D) /\ SumFunction(f) = g[D]
  BY <1>0, SumAdds
<1> DEFINE T == {t \in SUBSET D : g[t] \in Nat}
<1>2. Adds(g, f, D)
  BY <1>1 DEF Sums
<1>3. ASSUME NEW t \in SUBSET D, t # {}, \A x \in t : t \ {x} \in T
      PROVE  t \in T
  <2>1. PICK x : x = Picked(t)
    OBVIOUS
  <2>2. x \in t /\ f[x] \in Nat /\ g[t \ {x}] \in Nat
    BY <1>3, <2>1, PickedIn
  <2>3. g[t] = f[x] + g[t \ {x}]
    BY <1>2, <1>3, <2>1 DEF Adds
  <2> QED BY <2>2, <2>3
<1>4. T = SUBSET D
  <2>1. T \in SUBSET SUBSET D /\ {} \in T
    BY <1>2 DEF Adds
  <2> HIDE DEF T
  <2> QED BY <1>3, <2>1, SubsetInduction
<1>5. ASSUME NEW d \in D
      PROVE  f[d] <= SumFunction(f)
  <2>1. g[D] = Plus(f[d], g[D \ {d}])
    BY <1>1, SumWithout
  <2>2. f[d] \in Nat /\ g[D \ {d}] \in Nat
    BY <1>4
  <2> QED BY <1>1, <2>1, <2>2 DEF Plus
<1> QED BY <1>0, <1>1, <1>4, <1>5

=============================================================================
