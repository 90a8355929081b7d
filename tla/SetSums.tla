------------------------------ MODULE SetSums ------------------------------
(* What the sums of amounts in this project's modules satisfy: MapThenSumSet *)
(* of a function is additive over a finite set.  Induction is over the set  *)
(* of subsets that have the property, by their strict inclusion.            *)
EXTENDS Naturals, FiniteSetsExt, FiniteSetTheorems, TLAPS

SumOver(f, T) == MapThenSumSet(LAMBDA x : f[x], T)

(* The element MapThenSumSet takes out of a set next. *)
FirstOf(s) == CHOOSE x \in s : TRUE

(* g sums f over every subset of T the way MapThenSumSet does. *)
Sums(g, f, T) ==
    g = [s \in SUBSET T |->
            IF s = {} THEN 0 ELSE f[FirstOf(s)] + g[s \ {FirstOf(s)}]]

(* Induction over a finite set: a property of a subset that follows from    *)
(* that of its strict subsets holds for all of them.                        *)
LEMMA SubsetInduction ==
    ASSUME NEW S, IsFiniteSet(S), NEW Good,
           \A T \in SUBSET S :
              (\A U \in SUBSET T : U # T => U \in Good) => T \in Good
    PROVE  (SUBSET S) \subseteq Good
  <1> DEFINE Bad == (SUBSET S) \ Good
  <1>1. SUFFICES ASSUME Bad # {} PROVE FALSE
    OBVIOUS
  <1>2. IsWellFoundedOn(StrictSubsetOrdering(S), SUBSET S)
    BY FS_StrictSubsetOrderingWellFounded, FS_FiniteSubsetsOfFinite
  <1>3. Bad \subseteq SUBSET S
    OBVIOUS
  <1> HIDE DEF Bad
  <1>4. PICK T \in Bad : \A U \in Bad : <<U, T>> \notin StrictSubsetOrdering(S)
    BY <1>1, <1>2, <1>3, WFMin
  <1>5. ASSUME NEW U \in SUBSET T, U # T
        PROVE  U \in Good
    <2>1. <<U, T>> \in StrictSubsetOrdering(S)
      BY <1>3, <1>5 DEF StrictSubsetOrdering
    <2>2. QED
      BY <1>3, <1>4, <2>1 DEF Bad
  <1>6. T \in SUBSET S /\ T \notin Good
    BY DEF Bad
  <1>7. QED
    BY <1>5, <1>6

(* What it takes out of a set is an element of it. *)
LEMMA FirstOfIn == \A s : s # {} => FirstOf(s) \in s
  BY DEF FirstOf

(* Two functions that sum f over the subsets of two sets agree on a common  *)
(* subset.                                                                  *)
LEMMA SumsAgree ==
    ASSUME NEW f, NEW S, NEW T, NEW g, NEW h, NEW U, IsFiniteSet(U),
           Sums(g, f, S), Sums(h, f, T), U \subseteq S, U \subseteq T
    PROVE  g[U] = h[U]
  <1> DEFINE Good == {V \in SUBSET U : g[V] = h[V]}
  <1>1. ASSUME NEW V \in SUBSET U, \A W \in SUBSET V : W # V => W \in Good
        PROVE  V \in Good
    <2>1. CASE V = {}
      BY <2>1 DEF Sums
    <2>2. CASE V # {}
      <3>1. FirstOf(V) \in V
        BY <2>2, FirstOfIn
      <3>2. g[V \ {FirstOf(V)}] = h[V \ {FirstOf(V)}]
        BY <1>1, <3>1
      <3>3. /\ g[V] = f[FirstOf(V)] + g[V \ {FirstOf(V)}]
            /\ h[V] = f[FirstOf(V)] + h[V \ {FirstOf(V)}]
        BY <2>2 DEF Sums
      <3>4. QED
        BY <3>2, <3>3
    <2>3. QED
      BY <2>1, <2>2
  <1>2. (SUBSET U) \subseteq Good
    <2> HIDE DEF Good
    <2>1. QED
      BY <1>1, SubsetInduction
  <1>3. QED
    BY <1>2

(* There is a function that sums f over the subsets of a finite set. *)
LEMMA SumsExist ==
    ASSUME NEW f, NEW S, IsFiniteSet(S)
    PROVE  \E g : Sums(g, f, S)
  <1> DEFINE Good == {T \in SUBSET S : \E g : Sums(g, f, T)}
  <1>1. ASSUME NEW T \in SUBSET S, \A U \in SUBSET T : U # T => U \in Good
        PROVE  T \in Good
    <2> DEFINE sub(U) == CHOOSE g : Sums(g, f, U)
               rest(s) == s \ {FirstOf(s)}
               g == [s \in SUBSET T |->
                       IF s = {} THEN 0 ELSE f[FirstOf(s)] + sub(rest(s))[rest(s)]]
    <2>1. ASSUME NEW U \in SUBSET T, U # T
          PROVE  Sums(sub(U), f, U)
      <3>1. \E h : Sums(h, f, U)
        BY <1>1, <2>1
      <3>2. QED
        BY <3>1
    <2> HIDE DEF sub
    <2>2. ASSUME NEW s \in SUBSET T, s # T
          PROVE  g[s] = sub(s)[s]
      <3>1. CASE s = {}
        <4>1. sub(s)[s] = 0
          BY <2>1, <2>2, <3>1 DEF Sums
        <4>2. QED
          BY <3>1, <4>1
      <3>2. CASE s # {}
        <4>1. FirstOf(s) \in s
          BY <3>2, FirstOfIn
        <4>2. Sums(sub(s), f, s) /\ Sums(sub(rest(s)), f, rest(s))
          BY <2>1, <2>2, <4>1
        <4>3. IsFiniteSet(rest(s))
          BY FS_Subset
        <4>4. sub(s)[rest(s)] = sub(rest(s))[rest(s)]
          <5>1. ASSUME NEW a, NEW b, NEW r, Sums(a, f, s), Sums(b, f, r),
                       r \subseteq s, IsFiniteSet(r)
                PROVE  a[r] = b[r]
            BY <5>1, SumsAgree
          <5>2. rest(s) \subseteq s
            OBVIOUS
          <5> HIDE DEF rest, g, Good
          <5>3. QED
            BY <4>2, <4>3, <5>1, <5>2
        <4>5. sub(s)[s] = f[FirstOf(s)] + sub(s)[rest(s)]
          BY <3>2, <4>2 DEF Sums
        <4>6. QED
          BY <3>2, <4>4, <4>5
      <3>3. QED
        BY <3>1, <3>2
    <2>3. Sums(g, f, T)
      <3>1. ASSUME NEW s \in SUBSET T, s # {}
            PROVE  g[rest(s)] = sub(rest(s))[rest(s)]
        <4>1. rest(s) \in SUBSET T /\ rest(s) # T
          BY <3>1, FirstOfIn
        <4> HIDE DEF rest, g
        <4>2. QED
          BY <2>2, <4>1
      <3>2. QED
        BY <3>1 DEF Sums
    <2>4. QED
      BY <2>3
  <1>2. (SUBSET S) \subseteq Good
    <2> HIDE DEF Good
    <2>1. QED
      BY <1>1, SubsetInduction
  <1>3. QED
    BY <1>2

(* MapThenSumSet is such a sum. *)
LEMMA SumIsSums ==
    ASSUME NEW f, NEW S, IsFiniteSet(S)
    PROVE  \E g : Sums(g, f, S) /\ SumOver(f, S) = g[S]
  <1> DEFINE g == CHOOSE g : Sums(g, f, S)
  <1>1. Sums(g, f, S)
    BY SumsExist
  <1>2. SumOver(f, S) = g[S]
    BY DEF SumOver, Sums, MapThenSumSet, MapThenFoldSet, FirstOf
  <1>3. QED
    BY <1>1, <1>2

(* One function sums f over all the subsets of a finite set. *)
LEMMA SumOfSubset ==
    ASSUME NEW f, NEW S, IsFiniteSet(S)
    PROVE  \E g : Sums(g, f, S) /\ \A T \in SUBSET S : SumOver(f, T) = g[T]
  <1>1. PICK g : Sums(g, f, S)
    BY SumsExist
  <1>2. ASSUME NEW T \in SUBSET S
        PROVE  SumOver(f, T) = g[T]
    <2>1. IsFiniteSet(T)
      BY FS_Subset
    <2>2. PICK h : Sums(h, f, T) /\ SumOver(f, T) = h[T]
      BY <2>1, SumIsSums
    <2>3. QED
      BY <1>1, <2>1, <2>2, SumsAgree
  <1>3. QED
    BY <1>1, <1>2

(* The sum over no element. *)
LEMMA SumEmpty == \A f : SumOver(f, {}) = 0
  <1>1. TAKE f
  <1>2. PICK g : Sums(g, f, {}) /\ SumOver(f, {}) = g[{}]
    BY FS_EmptySet, SumIsSums
  <1>3. QED
    BY <1>2 DEF Sums

(* Any element may be taken out of the sum first. *)
LEMMA SumRemove ==
    ASSUME NEW f, NEW S, IsFiniteSet(S), \A x \in S : f[x] \in Nat
    PROVE  /\ SumOver(f, S) \in Nat
           /\ \A x \in S : SumOver(f, S) = f[x] + SumOver(f, S \ {x})
  <1>1. PICK g : Sums(g, f, S) /\ \A T \in SUBSET S : SumOver(f, T) = g[T]
    BY SumOfSubset
  <1> DEFINE Good == {T \in SUBSET S :
                        g[T] \in Nat /\ \A x \in T : g[T] = f[x] + g[T \ {x}]}
  <1>2. ASSUME NEW T \in SUBSET S, \A U \in SUBSET T : U # T => U \in Good
        PROVE  T \in Good
    <2>1. CASE T = {}
      BY <1>1, <2>1 DEF Sums
    <2>2. CASE T # {}
      <3> DEFINE y == FirstOf(T)
      <3>1. y \in T
        BY <2>2, FirstOfIn
      <3>2. g[T] = f[y] + g[T \ {y}]
        BY <1>1, <2>2 DEF Sums
      <3> HIDE DEF y
      <3>3. T \ {y} \in Good
        BY <1>2, <3>1
      <3>4. g[T] \in Nat
        BY <3>1, <3>2, <3>3
      <3>5. ASSUME NEW x \in T, x # y
            PROVE  g[T] = f[x] + g[T \ {x}]
        <4>1. g[T \ {y}] = f[x] + g[(T \ {y}) \ {x}]
          BY <3>3, <3>5
        <4>2. T \ {x} \in Good /\ y \in T \ {x}
          BY <1>2, <3>1, <3>5
        <4>3. g[T \ {x}] = f[y] + g[(T \ {x}) \ {y}]
          BY <4>2
        <4>4. (T \ {x}) \ {y} = (T \ {y}) \ {x}
          OBVIOUS
        <4>5. (T \ {y}) \ {x} \in Good
          <5>1. (T \ {y}) \ {x} \in SUBSET T /\ (T \ {y}) \ {x} # T
            BY <3>1
          <5> HIDE DEF Good
          <5>2. QED
            BY <1>2, <5>1
        <4>6. g[(T \ {y}) \ {x}] \in Nat
          BY <4>5
        <4>7. f[x] \in Nat /\ f[y] \in Nat
          <5>1. x \in S /\ y \in S
            BY <3>1
          <5> HIDE DEF Good
          <5>2. QED
            BY <5>1
        <4>8. g[T \ {x}] = f[y] + g[(T \ {y}) \ {x}]
          BY <4>3, <4>4
        <4> HIDE DEF Good
        <4>9. QED
          BY <3>2, <4>1, <4>6, <4>7, <4>8
      <3>6. QED
        BY <3>2, <3>4, <3>5
    <2>3. QED
      BY <2>1, <2>2
  <1>3. (SUBSET S) \subseteq Good
    <2> HIDE DEF Good
    <2>1. QED
      BY <1>2, SubsetInduction
  <1>4. QED
    BY <1>1, <1>3

(* An element that is added adds its value. *)
LEMMA SumAdd ==
    ASSUME NEW f, NEW S, IsFiniteSet(S), NEW x, x \notin S,
           f[x] \in Nat, \A y \in S : f[y] \in Nat
    PROVE  SumOver(f, S \cup {x}) = SumOver(f, S) + f[x]
  <1>1. IsFiniteSet(S \cup {x})
    BY FS_AddElement
  <1>2. (S \cup {x}) \ {x} = S
    OBVIOUS
  <1>3. SumOver(f, S) \in Nat
    BY SumRemove
  <1>4. SumOver(f, S \cup {x}) = f[x] + SumOver(f, S)
    BY <1>1, <1>2, SumRemove
  <1>5. QED
    BY <1>3, <1>4

(* The sum over a disjoint union is the sum of the sums. *)
LEMMA SumUnion ==
    ASSUME NEW f, NEW S, IsFiniteSet(S), \A x \in S : f[x] \in Nat,
           NEW T \in SUBSET S
    PROVE  SumOver(f, S) = SumOver(f, T) + SumOver(f, S \ T)
  <1> DEFINE Good == {U \in SUBSET T : SumOver(f, S) = SumOver(f, U) + SumOver(f, S \ U)}
  <1>1. ASSUME NEW U \in SUBSET T, \A V \in SUBSET U : V # U => V \in Good
        PROVE  U \in Good
    <2>1. CASE U = {}
      <3>1. SumOver(f, S) \in Nat /\ SumOver(f, U) = 0 /\ S \ U = S
        BY <2>1, SumRemove, SumEmpty
      <3>2. QED
        BY <3>1
    <2>2. CASE U # {}
      <3>1. PICK x \in U : TRUE
        BY <2>2
      <3>2. IsFiniteSet(U) /\ IsFiniteSet(S \ U) /\ IsFiniteSet(S \ (U \ {x}))
        BY FS_Subset
      <3>3. SumOver(f, U) = f[x] + SumOver(f, U \ {x})
        BY <3>2, SumRemove
      <3>4. /\ (S \ (U \ {x})) \ {x} = S \ U
            /\ x \in S \ (U \ {x})
        OBVIOUS
      <3>5. SumOver(f, S \ (U \ {x})) = f[x] + SumOver(f, S \ U)
        BY <3>2, <3>4, SumRemove
      <3>6. SumOver(f, S) = SumOver(f, U \ {x}) + SumOver(f, S \ (U \ {x}))
        BY <1>1, <3>1
      <3>7. f[x] \in Nat /\ SumOver(f, U \ {x}) \in Nat /\ SumOver(f, S \ U) \in Nat
        <4>1. IsFiniteSet(U \ {x})
          BY FS_Subset
        <4>2. QED
          BY <3>2, <4>1, SumRemove
      <3>8. QED
        BY <3>3, <3>5, <3>6, <3>7
    <2>3. QED
      BY <2>1, <2>2
  <1>2. IsFiniteSet(T)
    BY FS_Subset
  <1>3. (SUBSET T) \subseteq Good
    <2> HIDE DEF Good
    <2>1. QED
      BY <1>1, <1>2, SubsetInduction
  <1>4. QED
    BY <1>3

(* A part of a set sums to no more than the set. *)
LEMMA SumSubset ==
    ASSUME NEW f, NEW S, IsFiniteSet(S), \A x \in S : f[x] \in Nat,
           NEW T \in SUBSET S
    PROVE  SumOver(f, T) \in Nat /\ SumOver(f, T) <= SumOver(f, S)
  <1>1. IsFiniteSet(T) /\ IsFiniteSet(S \ T)
    BY FS_Subset
  <1>2. SumOver(f, T) \in Nat /\ SumOver(f, S \ T) \in Nat
    BY <1>1, SumRemove
  <1>3. QED
    BY <1>2, SumUnion

(* The largest value of a function over a finite set, or 0. *)
LEMMA MaxOfValues ==
    ASSUME NEW f, NEW S, IsFiniteSet(S), \A x \in S : f[x] \in Nat,
           NEW V, \A v : v \in V <=> v = 0 \/ \E x \in S : v = f[x]
    PROVE  /\ Max(V) \in Nat
           /\ \A x \in S : f[x] <= Max(V)
           /\ Max(V) = 0 \/ \E x \in S : Max(V) = f[x]
  <1> DEFINE Vals(T) == {0} \cup {f[x] : x \in T}
             IsMax(m, T) == m \in Vals(T) /\ \A y \in Vals(T) : m >= y
             Good == {T \in SUBSET S : \E m : IsMax(m, T)}
  <1>1. ASSUME NEW T \in SUBSET S, \A U \in SUBSET T : U # T => U \in Good
        PROVE  T \in Good
    <2>1. CASE T = {}
      <3>1. IsMax(0, T)
        BY <2>1
      <3>2. QED
        BY <3>1
    <2>2. CASE T # {}
      <3>1. PICK x \in T : TRUE
        BY <2>2
      <3>2. PICK m : IsMax(m, T \ {x})
        BY <1>1, <3>1
      <3>3. m \in Nat /\ f[x] \in Nat /\ \A y \in T : f[y] \in Nat
        BY <3>2
      <3>4. Vals(T) = Vals(T \ {x}) \cup {f[x]}
        OBVIOUS
      <3>5. \A y \in Vals(T) : y \in Nat
        BY <3>3
      <3> HIDE DEF Vals
      <3>6. IsMax(m, T) \/ IsMax(f[x], T)
        BY <3>2, <3>3, <3>4, <3>5
      <3>7. QED
        BY <3>6
    <2>3. QED
      BY <2>1, <2>2
  <1>2. (SUBSET S) \subseteq Good
    <2> HIDE DEF Good
    <2>1. QED
      BY <1>1, SubsetInduction
  <1>3. \E m \in Vals(S) : \A y \in Vals(S) : m >= y
    BY <1>2
  <1>4. V = Vals(S)
    OBVIOUS
  <1>5. Max(V) \in V /\ \A y \in V : Max(V) >= y
    <2> HIDE DEF Vals
    <2>1. QED
      BY <1>3, <1>4 DEF Max
  <1>6. QED
    BY <1>5
============================================================================
