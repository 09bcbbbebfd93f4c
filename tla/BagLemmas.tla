----------------------------- MODULE BagLemmas ------------------------------
(***************************************************************************)
(* What the operators on the rows of a bag return and what the rows add up *)
(* to, for any rows, rewards and lists of rewards, with the induction over *)
(* finite sets that a sum needs.                                           *)
(***************************************************************************)
EXTENDS Bag, WellFoundedInduction, TLAPS

-----------------------------------------------------------------------------
(* Finite sets *)

\* Natural numbers have a least one.
LEMMA LeastNat ==
    ASSUME NEW A, A \subseteq Nat, A # {}
    PROVE  \E m \in A : \A k \in A : m <= k
<1>1. PICK m \in A : \A k \in A : ~(<<k, m>> \in OpToRel(<, Nat))
  BY NatLessThanWellFounded, WFMin, Zenon
<1>2. ASSUME NEW k \in A PROVE ~(k < m)
  BY <1>1, Zenon DEF OpToRel
<1> QED
  BY <1>2

\* The first n values of f name every element of S.
Names(f, n, S) == n \in Nat /\ \A x \in S : \E k \in 1 .. n : f[k] = x

\* A finite set can be named.
LEMMA FiniteNamed ==
    ASSUME NEW S, IsFiniteSet(S)
    PROVE  \E f, n : Names(f, n, S)
<1>1. PICK q \in Seq(S) : \A x \in S : \E k \in 1 .. Len(q) : q[k] = x
  BY Zenon DEF IsFiniteSet
<1>2. Names(q, Len(q), S)
  BY <1>1 DEF Names
<1> QED
  BY <1>2, Zenon

\* A set that can be named is finite.
LEMMA NamedFinite ==
    ASSUME NEW S, NEW f, NEW n, Names(f, n, S)
    PROVE  IsFiniteSet(S)
<1>1. CASE S = {}
  <2>1. << >> \in Seq(S)
    OBVIOUS
  <2> QED
    BY <1>1, <2>1, Zenon DEF IsFiniteSet
<1>2. CASE S # {}
  <2>1. PICK e : e \in S
    BY <1>2, Zenon
  <2> DEFINE g == [k \in 1 .. n |-> IF f[k] \in S THEN f[k] ELSE e]
  <2>2. g \in Seq(S) /\ Len(g) = n
    BY <2>1 DEF Names
  <2>3. \A x \in S : \E k \in 1 .. n : g[k] = x
    BY Zenon DEF Names
  <2> QED
    BY <2>2, <2>3, Zenon DEF IsFiniteSet
<1> QED
  BY <1>1, <1>2, Zenon

\* A part of a finite set is finite.
LEMMA FiniteSubset ==
    ASSUME NEW S, IsFiniteSet(S), NEW T, T \subseteq S
    PROVE  IsFiniteSet(T)
<1>1. PICK f, n : Names(f, n, S)
  BY FiniteNamed, Zenon
<1>2. Names(f, n, T)
  BY <1>1, Zenon DEF Names
<1> QED
  BY <1>2, NamedFinite, Zenon

\* Two finite sets make a finite one.
LEMMA FiniteUnion ==
    ASSUME NEW S, IsFiniteSet(S), NEW T, IsFiniteSet(T)
    PROVE  IsFiniteSet(S \cup T)
<1>1. PICK f, n : Names(f, n, S)
  BY FiniteNamed, Zenon
<1>2. PICK g, m : Names(g, m, T)
  BY FiniteNamed, Zenon
<1> DEFINE h == [k \in 1 .. (n + m) |-> IF k <= n THEN f[k] ELSE g[k - n]]
<1>3. \A k \in 1 .. n : h[k] = f[k]
  BY <1>1, <1>2 DEF Names
<1>4. \A k \in 1 .. m : k + n \in 1 .. (n + m) /\ h[k + n] = g[k]
  BY <1>1, <1>2 DEF Names
<1>5. Names(h, n + m, S \cup T)
  <2> HIDE DEF h
  <2> QED
  BY <1>1, <1>2, <1>3, <1>4 DEF Names
<1> QED
  BY <1>5, NamedFinite, Zenon

\* One element is a finite set.
LEMMA FiniteSingleton ==
    ASSUME NEW x
    PROVE  IsFiniteSet({x})
<1>1. Names([k \in 1 .. 1 |-> x], 1, {x})
  BY DEF Names
<1> QED
  BY <1>1, NamedFinite, Zenon

\* The empty set is finite.
LEMMA FiniteEmpty == IsFiniteSet({})
BY FiniteSingleton, FiniteSubset, Zenon

\* An interval of numbers is finite.
LEMMA FiniteInterval ==
    ASSUME NEW n \in Nat
    PROVE  IsFiniteSet(1 .. n)
<1>1. Names([k \in 1 .. n |-> k], n, 1 .. n)
  BY Zenon DEF Names
<1> QED
  BY <1>1, NamedFinite, Zenon

\* A proper subset misses an element.
LEMMA Missing ==
    ASSUME NEW T, NEW U, U \subseteq T, U # T
    PROVE  \E x \in T : x \notin U
BY Zenon

\* Induction over the subsets of a finite set: the property is a set of subsets.
LEMMA SubsetInduction ==
    ASSUME NEW S, IsFiniteSet(S), NEW Good,
           \A T \in SUBSET S : (\A U \in SUBSET T : U # T => U \in Good) => T \in Good
    PROVE  \A T \in SUBSET S : T \in Good
<1> DEFINE A == {n \in Nat : \E T \in SUBSET S : \E f : Names(f, n, T) /\ T \notin Good}
<1> SUFFICES ASSUME NEW V \in SUBSET S, V \notin Good PROVE FALSE
  BY Zenon
<1>1. A # {}
  <2>1. IsFiniteSet(V)
    BY FiniteSubset, Zenon
  <2>2. PICK f, n : Names(f, n, V)
    BY <2>1, FiniteNamed, Zenon
  <2> QED
    BY <2>2 DEF Names
<1>2. PICK n \in A : \A k \in A : n <= k
  <2>1. A \subseteq Nat
    BY Zenon
  <2> HIDE DEF A
  <2> QED
    BY <1>1, <2>1, LeastNat, Zenon
<1>3. PICK T, f : T \in SUBSET S /\ Names(f, n, T) /\ T \notin Good
  BY Zenon
<1>4. PICK U \in SUBSET T : U # T /\ U \notin Good
  BY <1>3, Zenon
<1>5. PICK x \in T : x \notin U
  <2>1. U \subseteq T /\ U # T
    BY <1>4, Zenon
  <2> QED
    BY <2>1, Missing, Zenon
<1>6. PICK k \in 1 .. n : f[k] = x
  BY <1>3, Zenon DEF Names
<1> DEFINE g == [j \in 1 .. (n - 1) |-> IF j = k THEN f[n] ELSE f[j]]
<1>7. Names(g, n - 1, U)
  BY <1>3, <1>5, <1>6 DEF Names
<1>8. n - 1 \in A
  <2>1. n - 1 \in Nat /\ U \in SUBSET S
    BY <1>3, <1>7, Zenon DEF Names
  <2> HIDE DEF g
  <2> QED
    BY <1>4, <1>7, <2>1, Zenon
<1> QED
  BY <1>2, <1>8

\* Of b there are l left, as many as were wanted have been taken, and the count
\* of what is used has gone from used to u.
Took(b, l, want, used, u) == b - l = LesserOf(b, want) /\ u = used + (b - l)

\* Taking n more of what is left.
LEMMA TookMore ==
    ASSUME NEW b \in Nat, NEW l \in Nat, NEW n \in Nat, n <= l, NEW want \in Int,
           NEW used \in Nat, NEW u, Took(b, l, want, used, u)
    PROVE  Took(b, l - n, want + n, used, u + n)
BY DEF Took, LesserOf

-----------------------------------------------------------------------------
(* Sums *)

Pick(s) == CHOOSE x \in s : TRUE

\* g sums f over the subsets of T.
Summing(g, T, f) ==
    g = [s \in SUBSET T |-> IF s = {} THEN 0 ELSE f[Pick(s)] + g[s \ {Pick(s)}]]

\* Two functions that sum f agree.
LEMMA SumAgree ==
    ASSUME NEW S, IsFiniteSet(S), NEW f, NEW T, NEW g, NEW h,
           Summing(g, T, f), Summing(h, S, f), S \subseteq T
    PROVE  g[S] = h[S]
<1> DEFINE Good == {s \in SUBSET S : g[s] = h[s]}
<1>1. ASSUME NEW s \in SUBSET S, \A r \in SUBSET s : r # s => r \in Good
      PROVE  s \in Good
  <2>1. /\ g[s] = IF s = {} THEN 0 ELSE f[Pick(s)] + g[s \ {Pick(s)}]
        /\ h[s] = IF s = {} THEN 0 ELSE f[Pick(s)] + h[s \ {Pick(s)}]
    BY Zenon DEF Summing
  <2>2. s # {} => s \ {Pick(s)} \in Good
    BY <1>1, Zenon DEF Pick
  <2> QED
    BY <2>1, <2>2, Zenon
<1>2. \A s \in SUBSET S : s \in Good
  <2> HIDE DEF Good
  <2> QED
    BY <1>1, SubsetInduction, Zenon
<1> QED
  BY <1>2, Zenon

\* The recursive function behind the library's sum exists.
LEMMA SumExists ==
    ASSUME NEW S, IsFiniteSet(S), NEW f, \A x \in S : f[x] \in Int
    PROVE  \E g \in [SUBSET S -> Int] : Summing(g, S, f)
<1> DEFINE Sums(T) == {g \in [SUBSET T -> Int] : Summing(g, T, f)}
           Good == {T \in SUBSET S : Sums(T) # {}}
<1>1. ASSUME NEW T \in SUBSET S, \A U \in SUBSET T : U # T => U \in Good
      PROVE  T \in Good
  <2> DEFINE G(U) == CHOOSE g : g \in Sums(U)
             rest(s) == s \ {Pick(s)}
             g == [s \in SUBSET T |->
                     IF s = {} THEN 0 ELSE f[Pick(s)] + G(rest(s))[rest(s)]]
  <2>1. ASSUME NEW U \in SUBSET T, U # T
        PROVE  G(U) \in [SUBSET U -> Int] /\ Summing(G(U), U, f)
    <3>1. \E k : k \in Sums(U)
      BY <2>1, <1>1, Zenon
    <3>2. G(U) \in Sums(U)
      BY <3>1, Zenon
    <3> QED
      BY <3>2, Zenon
  <2>2. ASSUME NEW s \in SUBSET T, s # {}
        PROVE  Pick(s) \in s /\ rest(s) \in SUBSET T /\ rest(s) # T /\ rest(s) \subseteq s
    BY <2>2, Zenon DEF Pick
  <2> HIDE DEF G, Sums
  <2>3. ASSUME NEW s \in SUBSET T, s # T PROVE g[s] = G(s)[s]
    <3>1. Summing(G(s), s, f)
      BY <2>1, <2>3, Zenon
    <3>2. G(s)[s] = IF s = {} THEN 0 ELSE f[Pick(s)] + G(s)[rest(s)]
      <4> HIDE DEF g, Good
      <4> QED
        BY <3>1, Zenon DEF Summing
    <3>3. s # {} => G(s)[rest(s)] = G(rest(s))[rest(s)]
      <4> SUFFICES ASSUME s # {} PROVE G(s)[rest(s)] = G(rest(s))[rest(s)]
        BY Zenon
      <4>1. rest(s) \in SUBSET T /\ rest(s) # T /\ rest(s) \subseteq s
        BY <2>2, Zenon
      <4>2. Summing(G(rest(s)), rest(s), f) /\ IsFiniteSet(rest(s))
        BY <4>1, <2>1, FiniteSubset, Zenon
      <4> HIDE DEF rest, g, Good
      <4> QED
        BY <3>1, <4>1, <4>2, SumAgree, Zenon
    <3> QED
      BY <3>2, <3>3, Zenon
  <2>4. Summing(g, T, f)
    <3>1. \A s \in SUBSET T : s # {} => g[rest(s)] = G(rest(s))[rest(s)]
      <4> HIDE DEF g, rest
      <4> QED
        BY <2>2, <2>3, Zenon
    <3> QED
      BY <3>1, Zenon DEF Summing
  <2>5. g \in [SUBSET T -> Int]
    <3> SUFFICES ASSUME NEW s \in SUBSET T, s # {}
                 PROVE  f[Pick(s)] \in Int /\ G(rest(s))[rest(s)] \in Int
      OBVIOUS
    <3>1. Pick(s) \in S /\ rest(s) \in SUBSET T /\ rest(s) # T
      BY <2>2, Zenon
    <3>2. G(rest(s)) \in [SUBSET rest(s) -> Int]
      BY <3>1, <2>1, Zenon
    <3> QED
      BY <3>1, <3>2, Zenon
  <2> HIDE DEF g
  <2> QED
    BY <2>4, <2>5, Zenon DEF Sums
<1>2. \A T \in SUBSET S : T \in Good
  <2> HIDE DEF Good
  <2> QED
    BY <1>1, SubsetInduction, Zenon
<1> QED
  BY <1>2, Zenon

\* A sum is an integer, the sum over nothing is 0, and any sum is the element
\* picked first and the rest.
LEMMA SumUnfold ==
    ASSUME NEW S, IsFiniteSet(S), NEW f, \A x \in S : f[x] \in Int
    PROVE  /\ SumFunctionOnSet(f, S) \in Int
           /\ S = {} => SumFunctionOnSet(f, S) = 0
           /\ S # {} => SumFunctionOnSet(f, S)
                          = f[Pick(S)] + SumFunctionOnSet(f, S \ {Pick(S)})
<1>1. PICK g \in [SUBSET S -> Int] : Summing(g, S, f)
  BY SumExists, Zenon
<1>2. ASSUME NEW t \in SUBSET S PROVE SumFunctionOnSet(f, t) = g[t]
  <2> DEFINE it == CHOOSE it : Summing(it, t, f)
  <2>1. IsFiniteSet(t) /\ t \subseteq S /\ \A x \in t : f[x] \in Int
    BY FiniteSubset, Zenon
  <2>2. Summing(it, t, f)
    BY <2>1, SumExists, Zenon
  <2>3. SumFunctionOnSet(f, t) = it[t]
    BY Zenon DEF SumFunctionOnSet, FoldFunctionOnSet, MapThenFoldSet, Summing, Pick
  <2> HIDE DEF it
  <2>4. g[t] = it[t]
    BY <1>1, <2>1, <2>2, SumAgree
  <2> QED
    BY <2>3, <2>4, Zenon
<1>3. g[S] = IF S = {} THEN 0 ELSE f[Pick(S)] + g[S \ {Pick(S)}]
  BY <1>1, Zenon DEF Summing
<1> QED
  BY <1>1, <1>2, <1>3, Zenon

\* A sum is an integer.
LEMMA SumType ==
    ASSUME NEW S, IsFiniteSet(S), NEW f, \A x \in S : f[x] \in Int
    PROVE  SumFunctionOnSet(f, S) \in Int
BY SumUnfold, Zenon

\* The sum over nothing.
LEMMA SumEmpty ==
    ASSUME NEW f
    PROVE  SumFunctionOnSet(f, {}) = 0
BY SumUnfold, FiniteEmpty, Zenon

\* Any element may be taken out first: the order does not matter.
LEMMA SumTakeOut ==
    ASSUME NEW S, IsFiniteSet(S), NEW f, \A x \in S : f[x] \in Int, NEW e \in S
    PROVE  SumFunctionOnSet(f, S) = f[e] + SumFunctionOnSet(f, S \ {e})
<1> DEFINE Sum(T) == SumFunctionOnSet(f, T)
           Good == {T \in SUBSET S : \A x \in T : Sum(T) = f[x] + Sum(T \ {x})}
<1>1. ASSUME NEW T \in SUBSET S, \A U \in SUBSET T : U # T => U \in Good
      PROVE  T \in Good
  <2> SUFFICES ASSUME NEW x \in T PROVE Sum(T) = f[x] + Sum(T \ {x})
    BY Zenon
  <2> DEFINE c == Pick(T)
  <2>1. c \in T
    BY Zenon DEF Pick
  <2>2. /\ IsFiniteSet(T) /\ IsFiniteSet((T \ {x}) \ {c})
        /\ \A y \in T : f[y] \in Int
    BY FiniteSubset, Zenon
  <2>3. Sum(T) = f[c] + Sum(T \ {c})
    BY <2>1, <2>2, SumUnfold, Zenon
  <2> HIDE DEF c
  <2>4. CASE x = c
    BY <2>3, <2>4, Zenon
  <2>5. CASE x # c
    <3>1. T \ {c} \in Good /\ T \ {x} \in Good
      BY <1>1, <2>1, Zenon
    <3>2. Sum(T \ {c}) = f[x] + Sum((T \ {c}) \ {x})
      BY <3>1, <2>5, Zenon
    <3>3. Sum(T \ {x}) = f[c] + Sum((T \ {x}) \ {c})
      BY <3>1, <2>1, <2>5, Zenon
    <3>4. (T \ {x}) \ {c} = (T \ {c}) \ {x}
      BY Zenon
    <3>5. Sum((T \ {x}) \ {c}) \in Int
      BY <2>2, SumType, Zenon
    <3>6. f[x] \in Int /\ f[c] \in Int
      BY <2>1, Zenon
    <3>7. Sum(T) = f[c] + (f[x] + Sum((T \ {x}) \ {c}))
      BY <2>3, <3>2, <3>4, Zenon
    <3> HIDE DEF Sum
    <3> QED
      BY <3>3, <3>5, <3>6, <3>7
  <2> QED
    BY <2>4, <2>5, Zenon
<1>2. \A T \in SUBSET S : T \in Good
  <2> HIDE DEF Good
  <2> QED
    BY <1>1, SubsetInduction, Zenon
<1> QED
  BY <1>2, Zenon

\* Functions that agree have one sum.
LEMMA SumSame ==
    ASSUME NEW S, IsFiniteSet(S), NEW f, NEW h,
           \A x \in S : f[x] \in Int /\ h[x] = f[x]
    PROVE  SumFunctionOnSet(f, S) = SumFunctionOnSet(h, S)
<1> DEFINE Good == {T \in SUBSET S : SumFunctionOnSet(f, T) = SumFunctionOnSet(h, T)}
<1>1. ASSUME NEW T \in SUBSET S, \A U \in SUBSET T : U # T => U \in Good
      PROVE  T \in Good
  <2>1. /\ IsFiniteSet(T)
        /\ \A y \in T : f[y] \in Int /\ h[y] \in Int
    BY FiniteSubset, Zenon
  <2>2. CASE T = {}
    BY <2>2, SumEmpty, Zenon
  <2>3. CASE T # {}
    <3>1. Pick(T) \in T
      BY <2>3, Zenon DEF Pick
    <3>2. /\ SumFunctionOnSet(f, T) = f[Pick(T)] + SumFunctionOnSet(f, T \ {Pick(T)})
          /\ SumFunctionOnSet(h, T) = h[Pick(T)] + SumFunctionOnSet(h, T \ {Pick(T)})
      BY <2>1, <2>3, SumUnfold, Zenon
    <3>3. T \ {Pick(T)} \in Good
      BY <1>1, <3>1, Zenon
    <3> QED
      BY <3>1, <3>2, <3>3, Zenon
  <2> QED
    BY <2>2, <2>3, Zenon
<1>2. \A T \in SUBSET S : T \in Good
  <2> HIDE DEF Good
  <2> QED
    BY <1>1, SubsetInduction, Zenon
<1> QED
  BY <1>2, Zenon

\* One value changes.
LEMMA SumChange ==
    ASSUME NEW S, IsFiniteSet(S), NEW f, NEW h, NEW e \in S,
           \A x \in S : f[x] \in Int /\ h[x] \in Int,
           \A x \in S \ {e} : h[x] = f[x]
    PROVE  SumFunctionOnSet(h, S) = SumFunctionOnSet(f, S) - f[e] + h[e]
<1>1. IsFiniteSet(S \ {e})
  BY FiniteSubset, Zenon
<1>2. SumFunctionOnSet(f, S \ {e}) = SumFunctionOnSet(h, S \ {e})
  BY <1>1, SumSame, Zenon
<1>3. SumFunctionOnSet(f, S \ {e}) \in Int
  BY <1>1, SumType, Zenon
<1>4. /\ SumFunctionOnSet(f, S) = f[e] + SumFunctionOnSet(f, S \ {e})
      /\ SumFunctionOnSet(h, S) = h[e] + SumFunctionOnSet(h, S \ {e})
  BY SumTakeOut, Zenon
<1> QED
  BY <1>2, <1>3, <1>4

\* One element more.
LEMMA SumAdd ==
    ASSUME NEW S, IsFiniteSet(S), NEW f, NEW e, e \notin S,
           \A x \in S \cup {e} : f[x] \in Int
    PROVE  SumFunctionOnSet(f, S \cup {e}) = SumFunctionOnSet(f, S) + f[e]
<1> DEFINE T == S \cup {e}
<1>1. IsFiniteSet(T) /\ T \ {e} = S /\ e \in T /\ \A x \in T : f[x] \in Int
  BY FiniteUnion, FiniteSingleton, Zenon
<1>2. f[e] \in Int /\ SumFunctionOnSet(f, S) \in Int
  BY SumType, Zenon
<1> HIDE DEF T
<1>3. SumFunctionOnSet(f, T) = f[e] + SumFunctionOnSet(f, T \ {e})
  BY <1>1, SumTakeOut, Zenon
<1>4. SumFunctionOnSet(f, T) = f[e] + SumFunctionOnSet(f, S)
  BY <1>1, <1>3, Zenon
<1>5. SumFunctionOnSet(f, T) = SumFunctionOnSet(f, S) + f[e]
  BY <1>2, <1>4
<1> QED
  BY <1>5, Zenon DEF T

\* A single term.
LEMMA SumSingle ==
    ASSUME NEW f, NEW e, f[e] \in Int
    PROVE  SumFunctionOnSet(f, {e}) = f[e]
<1>1. IsFiniteSet({e}) /\ {e} \ {e} = {} /\ e \in {e} /\ \A x \in {e} : f[x] \in Int
  BY FiniteSingleton, Zenon
<1>2. SumFunctionOnSet(f, {e}) = f[e] + SumFunctionOnSet(f, {e} \ {e})
  <2> DEFINE S == {e}
  <2>1. IsFiniteSet(S) /\ e \in S /\ \A x \in S : f[x] \in Int
    BY <1>1, Zenon
  <2> HIDE DEF S
  <2>2. SumFunctionOnSet(f, S) = f[e] + SumFunctionOnSet(f, S \ {e})
    BY <2>1, SumTakeOut, Zenon
  <2> QED
    BY <2>2, Zenon DEF S
<1> QED
  BY <1>1, <1>2, SumEmpty

\* A sum stays within a set of integers that is closed under addition.
LEMMA SumWithin ==
    ASSUME NEW V, V \subseteq Int, 0 \in V, \A a, b \in V : a + b \in V,
           NEW S, IsFiniteSet(S), NEW f, \A x \in S : f[x] \in V
    PROVE  SumFunctionOnSet(f, S) \in V
<1> DEFINE Good == {T \in SUBSET S : SumFunctionOnSet(f, T) \in V}
<1>1. ASSUME NEW T \in SUBSET S, \A U \in SUBSET T : U # T => U \in Good
      PROVE  T \in Good
  <2>1. IsFiniteSet(T) /\ \A y \in T : f[y] \in Int
    BY FiniteSubset, Zenon
  <2>2. CASE T = {}
    BY <2>2, SumEmpty, Zenon
  <2>3. CASE T # {}
    <3>1. SumFunctionOnSet(f, T) = f[Pick(T)] + SumFunctionOnSet(f, T \ {Pick(T)})
      BY <2>1, <2>3, SumUnfold, Zenon
    <3>2. Pick(T) \in T /\ T \ {Pick(T)} \in Good
      BY <1>1, <2>3, Zenon DEF Pick
    <3> QED
      BY <3>1, <3>2, Zenon
  <2> QED
    BY <2>2, <2>3, Zenon
<1>2. \A T \in SUBSET S : T \in Good
  <2> HIDE DEF Good
  <2> QED
    BY <1>1, SubsetInduction, Zenon
<1> QED
  BY <1>2, Zenon

\* Where every value is 0 the sum is.
LEMMA SumZero ==
    ASSUME NEW S, IsFiniteSet(S), NEW f, \A x \in S : f[x] = 0
    PROVE  SumFunctionOnSet(f, S) = 0
<1> DEFINE V == {0}
<1>1. V \subseteq Int /\ 0 \in V /\ (\A a, b \in V : a + b \in V) /\ \A x \in S : f[x] \in V
  OBVIOUS
<1>2. SumFunctionOnSet(f, S) \in V
  <2> HIDE DEF V
  <2> QED
    BY <1>1, SumWithin, Zenon
<1> QED
  BY <1>2, Zenon

\* A sum of natural numbers is one.
LEMMA SumNat ==
    ASSUME NEW S, IsFiniteSet(S), NEW f, \A x \in S : f[x] \in Nat
    PROVE  SumFunctionOnSet(f, S) \in Nat
<1>1. Nat \subseteq Int /\ 0 \in Nat /\ \A a, b \in Nat : a + b \in Nat
  OBVIOUS
<1> QED
  BY <1>1, SumWithin, Zenon

\* No term is larger than a sum of natural numbers.
LEMMA SumAtLeast ==
    ASSUME NEW S, IsFiniteSet(S), NEW f, \A x \in S : f[x] \in Nat, NEW e \in S
    PROVE  f[e] <= SumFunctionOnSet(f, S)
<1>1. IsFiniteSet(S \ {e})
  BY FiniteSubset, Zenon
<1>2. SumFunctionOnSet(f, S \ {e}) \in Nat
  BY <1>1, SumNat, Zenon
<1>3. f[e] \in Nat /\ \A x \in S : f[x] \in Int
  OBVIOUS
<1>4. SumFunctionOnSet(f, S) = f[e] + SumFunctionOnSet(f, S \ {e})
  BY <1>3, SumTakeOut, Zenon
<1> QED
  BY <1>2, <1>3, <1>4

\* A function with one more argument.
LEMMA SumExtend ==
    ASSUME NEW S, IsFiniteSet(S), NEW f, NEW h, NEW e, e \notin S,
           DOMAIN f = S, DOMAIN h = S \cup {e},
           \A x \in S : f[x] \in Int /\ h[x] = f[x], h[e] \in Int
    PROVE  SumFunction(h) = SumFunction(f) + h[e]
<1>1. SumFunctionOnSet(h, S \cup {e}) = SumFunctionOnSet(h, S) + h[e]
  BY SumAdd
<1>2. SumFunctionOnSet(f, S) = SumFunctionOnSet(h, S)
  BY SumSame, Zenon
<1> QED
  BY <1>1, <1>2, Zenon DEF SumFunction

-----------------------------------------------------------------------------
(* Sound rows *)

\* Two rows of a count-stacked item with one expiry are one row.
Distinct(rs) ==
    \A id1, id2 \in RowIds :
        /\ rs[id1].item \in ItemTypes \ TimeItems
        /\ rs[id1].item = rs[id2].item /\ rs[id1].expire = rs[id2].expire
        => id1 = id2

RowSound(row) ==
    /\ row.count \in Nat /\ row.used \in Nat /\ row.used <= row.count
    /\ row.expire \in Nat

RowsOK(rs) ==
    /\ rs = [id \in RowIds |-> rs[id]]
    /\ \A id \in RowIds : RowSound(rs[id])
    /\ Distinct(rs)

Shape(j) == DOMAIN j = {"pc", "op", "order", "next", "left", "start", "rows"}

InTx(j) == j.pc \in {"nonce", "reward", "take"}

\* A time-stacked item has one row that has not run out by t.
OneLive(rs, t) ==
    \A id1, id2 \in RowIds :
        /\ rs[id1].item \in TimeItems /\ rs[id1].item = rs[id2].item
        /\ rs[id1].expire > t /\ rs[id2].expire > t
        => id1 = id2

\* What the first n rewards of a list have of item i.
Part(list, i, n) == SumFunctionOnSet(Counts(list, i), 1 .. n)

\* What has been taken for the reward that a revocation is at.
Begun(j, i) ==
    IF j.pc = "take" /\ Current(j).item = i THEN Current(j).count - j.left ELSE 0

\* The working copy of a grant against the committed rows rs.
GrantBalance(j, rs) ==
    \A i \in ItemTypes \ TimeItems :
        /\ HeldOf(j.rows, i) = HeldOf(rs, i) + Part(Given[j.order], i, j.next - 1)
        /\ UsedOf(j.rows, i) = UsedOf(rs, i)

\* The rows are the same but for what is used.
SameButUsed(ns, rs) ==
    \A id \in RowIds : /\ ns[id].item = rs[id].item /\ ns[id].count = rs[id].count
                       /\ ns[id].expire = rs[id].expire

\* A row is used only when those that run out before it are used up.
InOrder(ns, rs, t) ==
    \A id1, id2 \in RowIds :
        (/\ ns[id1].used > rs[id1].used
         /\ rs[id2].item = rs[id1].item
         /\ RunsOutBefore(rs[id2], rs[id1]))
        => id2 \notin Revocable(ns, rs[id1].item, t)

\* The rows ns have lost what was wanted of each item, or all that could be
\* taken of it, against the rows rs.
Lost(ns, rs, t, want) ==
    \A i \in ItemTypes :
        LET gone == LiveOf(rs, i, t) - LiveOf(ns, i, t) IN
        gone = LesserOf(LiveOf(rs, i, t), want[i]) /\ UsedOf(ns, i) = UsedOf(rs, i) + gone

Taking(ns, rs, t, want) ==
    SameButUsed(ns, rs) /\ InOrder(ns, rs, t) /\ Lost(ns, rs, t, want)

\* What a revocation has asked for up to now.
Wanted(j) == [i \in ItemTypes |-> Part(Taken[j.order], i, j.next - 1) + Begun(j, i)]

\* What an open transaction has done so far.
Balance(j, rs) ==
    /\ j.next <= Len(Rewards(j)) + 1
    /\ j.pc = "nonce" => j.rows = rs /\ j.next = 1
    /\ j.pc = "take" => /\ Current(j).item \in ItemTypes
                        /\ j.left >= 0 /\ j.left <= Current(j).count /\ Current(j).count > 0
    /\ j.op # "revoke" => GrantBalance(j, rs)
    /\ j.op = "revoke" => Taking(j.rows, rs, j.start, Wanted(j))

\* The order of a call is one that it may have.
CallOK(j) ==
    \/ j.op \in {"grant", "revoke"} /\ j.order \in Orders
    \/ j.op = "add" /\ j.order \in Adds

\* A transaction on sound rows that is at a reward of its list.
Midway(j, rs) ==
    /\ CallOK(j) /\ j.next \in Nat \ {0} /\ More(j)
    /\ RowsOK(rs) /\ RowsOK(j.rows) /\ Balance(j, rs)

\* Call k is j: at its next reward, or at a row of the reward j is at.
Passed(k, j) ==
    /\ k.pc = "reward" /\ k.next = j.next + 1
    /\ k.op = j.op /\ k.order = j.order /\ k.start = j.start
Within(k, j) ==
    /\ k.pc = "take" /\ k.next = j.next
    /\ k.op = j.op /\ k.order = j.order /\ k.start = j.start

\* There is nothing to take, or nothing more.
RewardDone(j) ==
    \/ j.pc = "reward" /\ Current(j).count <= 0
    \/ j.pc = "take" /\ j.left \in Int /\ TakenEnough(j)

\* A call that has gone through its list has done what the list says.
Settled(j, rs) ==
    /\ j.op # "revoke" => \A i \in ItemTypes \ TimeItems :
          /\ HeldOf(j.rows, i) = HeldOf(rs, i) + CountIn(Given[j.order], i)
          /\ UsedOf(j.rows, i) = UsedOf(rs, i)
    /\ j.op = "revoke" => \A i \in ItemTypes :
          /\ LiveOf(rs, i, j.start) - LiveOf(j.rows, i, j.start)
               = LesserOf(LiveOf(rs, i, j.start), CountIn(Taken[j.order], i))
          /\ UsedOf(j.rows, i)
               = UsedOf(rs, i) + (LiveOf(rs, i, j.start) - LiveOf(j.rows, i, j.start))

\* Row x of the rows is charged n, and nothing else changes.
Charge(new, old, x, n) ==
    /\ x \in RowIds /\ n \in Nat /\ n <= Available(old[x])
    /\ new[x] = AddUsed(old[x], n) /\ \A id \in RowIds \ {x} : new[id] = old[id]
    /\ SameButUsed(new, old)

\* n more of an item is wanted.
WantNext(more, want, item, n) ==
    \A i \in ItemTypes : /\ want[i] \in Int
                         /\ more[i] = IF i = item THEN want[i] + n ELSE want[i]

\* Row x has n more of item i, to expire at e.
OneRowGrows(ns, rs, x, i, n, e) ==
    /\ \A id \in RowIds \ {x} : ns[id] = rs[id]
    /\ ns[x].item = i /\ ns[x].expire = e
    /\ \/ rs[x].item = NoItem /\ ns[x].count = n /\ ns[x].used = 0
       \/ /\ rs[x].item = i /\ rs[x].expire = e
          /\ ns[x].count = rs[x].count + n /\ ns[x].used = rs[x].used

-----------------------------------------------------------------------------
(* The bag *)

\* Fields of a row that is built.
LEMMA RowFields ==
    ASSUME NEW i, NEW n, NEW u, NEW e
    PROVE  /\ Row(i, n, u, e).item = i /\ Row(i, n, u, e).count = n
           /\ Row(i, n, u, e).used = u /\ Row(i, n, u, e).expire = e
BY Zenon DEF Row

\* A table without rows is sound.
LEMMA EmptyBag == RowsOK(NoRows)
<1>1. \A id \in RowIds : NoRows[id] = NoRow
  BY Zenon DEF NoRows
<1>2. NoRow.item = NoItem /\ NoRow.count = 0 /\ NoRow.used = 0 /\ NoRow.expire = 0
  BY RowFields DEF NoRow
<1>3. NoRows = [id \in RowIds |-> NoRows[id]]
  BY <1>1, Zenon DEF NoRows
<1> QED
  BY <1>1, <1>2, <1>3, BagAssumption DEF RowsOK, RowSound, Distinct

\* Replacing one row by a sound one keeps the table sound, unless the new row
\* doubles another one of a count-stacked item.
LEMMA ReplaceRow ==
    ASSUME NEW rs, RowsOK(rs), NEW row, RowSound(row), NEW x,
           row.item \in ItemTypes \ TimeItems =>
              \A id \in RowIds \ {x} : ~(rs[id].item = row.item /\ rs[id].expire = row.expire)
    PROVE  RowsOK([rs EXCEPT ![x] = row])
<1> DEFINE new == [rs EXCEPT ![x] = row]
<1>1. new = [id \in RowIds |-> IF id = x THEN row ELSE rs[id]]
  BY Zenon DEF RowsOK
<1>2. \A id \in RowIds : new[id] = IF id = x THEN row ELSE rs[id]
  BY <1>1, Zenon
<1>3. new = [id \in RowIds |-> new[id]]
  BY <1>1, Zenon
<1> HIDE DEF new
<1>4. \A id \in RowIds : RowSound(new[id])
  BY <1>2, Zenon DEF RowsOK
<1>5. Distinct(new)
  <2> SUFFICES ASSUME NEW id1 \in RowIds, NEW id2 \in RowIds,
                      new[id1].item \in ItemTypes \ TimeItems,
                      new[id1].item = new[id2].item, new[id1].expire = new[id2].expire
               PROVE  id1 = id2
    BY Zenon DEF Distinct
  <2>1. CASE id1 # x /\ id2 # x
    BY <1>2, <2>1, Zenon DEF RowsOK, Distinct
  <2>2. CASE id1 = x \/ id2 = x
    BY <1>2, <2>2, Zenon
  <2> QED
    BY <2>1, <2>2, Zenon
<1> QED
  BY <1>3, <1>4, <1>5, Zenon DEF RowsOK, new

\* A new row that doubles no row of the table.
LEMMA InsertRow ==
    ASSUME NEW rs, RowsOK(rs), NEW row, RowSound(row),
           row.item \in ItemTypes \ TimeItems =>
              \A id \in RowIds : ~(rs[id].item = row.item /\ rs[id].expire = row.expire)
    PROVE  RowsOK(Insert(rs, row))
BY ReplaceRow, Zenon DEF Insert

\* addItemUnlimitedInTx keeps the table sound.
LEMMA UnlimitedOK ==
    ASSUME NEW rs, RowsOK(rs), NEW i, NEW n \in Int, NEW e \in Nat
    PROVE  RowsOK(AddItemUnlimited(rs, i, n, e))
<1> DEFINE existing == Existing(rs, i, e)
           x == CHOOSE id \in existing : TRUE
<1>1. CASE n <= 0
  BY <1>1, Zenon DEF AddItemUnlimited
<1>2. CASE n > 0 /\ existing = {}
  <2>1. RowSound(Row(i, n, 0, e))
    BY <1>2, RowFields DEF RowSound
  <2>2. \A id \in RowIds : ~(rs[id].item = i /\ rs[id].expire = e)
    BY <1>2, Zenon DEF Existing
  <2>3. RowsOK(Insert(rs, Row(i, n, 0, e)))
    BY <2>1, <2>2, RowFields, InsertRow
  <2> QED
    BY <1>2, <2>3, Zenon DEF AddItemUnlimited
<1>3. CASE n > 0 /\ existing # {}
  <2>1. x \in RowIds /\ rs[x].item = i /\ rs[x].expire = e
    <3>1. x \in existing
      BY <1>3, Zenon
    <3> QED
      BY <3>1, Zenon DEF Existing
  <2> DEFINE row == AddCount(rs[x], n)
  <2>2. row.item = i /\ row.expire = e /\ row.count = rs[x].count + n /\ row.used = rs[x].used
    BY <2>1, RowFields DEF AddCount
  <2>3. AddItemUnlimited(rs, i, n, e) = [rs EXCEPT ![x] = row]
    BY <1>3 DEF AddItemUnlimited
  <2> HIDE DEF row, x
  <2>4. RowSound(row)
    BY <1>3, <2>1, <2>2 DEF RowsOK, RowSound
  <2>5. row.item \in ItemTypes \ TimeItems =>
           \A id \in RowIds \ {x} : ~(rs[id].item = row.item /\ rs[id].expire = row.expire)
    BY <2>1, <2>2, Zenon DEF RowsOK, Distinct
  <2>6. RowsOK([rs EXCEPT ![x] = row])
    BY <2>4, <2>5, ReplaceRow, Zenon
  <2> QED
    BY <2>3, <2>6, Zenon
<1> QED
  BY <1>1, <1>2, <1>3

\* Merging the rows of a time-stacked item keeps the table sound.
LEMMA MergeOK ==
    ASSUME NEW rs, RowsOK(rs), NEW i \in TimeItems, NEW e \in Nat, NEW merged
    PROVE  RowsOK(Merge(rs, i, e, merged))
<1> DEFINE new == Merge(rs, i, e, merged)
<1>1. new = [id \in RowIds |-> new[id]]
  BY Zenon DEF Merge
<1>2. ASSUME NEW id \in RowIds
      PROVE  \/ new[id] = rs[id] \/ new[id] = Row(i, 1, 0, e) \/ new[id] = NoRow
  BY Zenon DEF Merge
<1>3. /\ NoRow.item = NoItem /\ NoRow.count = 0 /\ NoRow.used = 0 /\ NoRow.expire = 0
      /\ Row(i, 1, 0, e).item = i /\ Row(i, 1, 0, e).count = 1 /\ Row(i, 1, 0, e).used = 0
      /\ Row(i, 1, 0, e).expire = e
  BY RowFields DEF NoRow
<1> HIDE DEF new
<1>4. \A id \in RowIds : RowSound(new[id])
  BY <1>2, <1>3 DEF RowsOK, RowSound
<1>5. \A id \in RowIds : new[id].item \in ItemTypes \ TimeItems => new[id] = rs[id]
  BY <1>2, <1>3, BagAssumption, Zenon
<1>6. Distinct(new)
  BY <1>5, Zenon DEF Distinct, RowsOK
<1> QED
  BY <1>1, <1>4, <1>6, Zenon DEF RowsOK, new

\* The product of two natural numbers.
LEMMA ProductNat ==
    ASSUME NEW a \in Nat, NEW b \in Nat
    PROVE  a * b \in Nat
OBVIOUS

\* The time a row adds to what is left.
TimeOf(rs, t) == [id \in RowIds |-> (rs[id].expire - t) * Available(rs[id])]

\* The time that is left is a number of seconds.
LEMMA TimeLeftType ==
    ASSUME NEW rs, RowsOK(rs), NEW i, NEW t \in Nat
    PROVE  /\ TimeLeft(rs, i, t) \in Nat
           /\ IsFiniteSet(StackedUsable(rs, i, t))
           /\ \A id \in StackedUsable(rs, i, t) : TimeOf(rs, t)[id] \in Nat
<1> DEFINE S == StackedUsable(rs, i, t)
<1>1. S \subseteq RowIds /\ IsFiniteSet(S)
  <2>1. S \subseteq RowIds
    BY Zenon DEF StackedUsable
  <2> QED
    BY <2>1, BagAssumption, FiniteSubset, Zenon
<1>2. ASSUME NEW id \in S PROVE TimeOf(rs, t)[id] \in Nat
  <2>1. /\ id \in RowIds /\ rs[id].expire \in Nat /\ rs[id].expire > t
        /\ rs[id].count \in Nat /\ rs[id].used \in Nat /\ Available(rs[id]) > 0
    BY Zenon DEF StackedUsable, RowsOK, RowSound
  <2>2. rs[id].expire - t \in Nat /\ Available(rs[id]) \in Nat
    BY <2>1 DEF Available
  <2>3. (rs[id].expire - t) * Available(rs[id]) \in Nat
    BY <2>2, ProductNat, Zenon
  <2> QED
    BY <2>1, <2>3, Zenon DEF TimeOf
<1>3. SumFunctionOnSet(TimeOf(rs, t), S) \in Nat
  <2> HIDE DEF S
  <2> QED
    BY <1>1, <1>2, SumNat, Zenon
<1>4. TimeLeft(rs, i, t) = SumFunctionOnSet(TimeOf(rs, t), S)
  BY Zenon DEF TimeLeft, TimeOf
<1> QED
  BY <1>1, <1>2, <1>3, <1>4, Zenon

\* The new expiry lies ahead by the new time and what was left.
LEMMA TotalTime ==
    ASSUME NEW rs, RowsOK(rs), NEW i, NEW n \in Int, NEW e \in Nat, NEW t \in Nat,
           n > 0, e - t > 0
    PROVE  /\ (e - t) * n \in Nat \ {0}
           /\ (e - t) * n + TimeLeft(rs, i, t) \in Nat \ {0}
           /\ t + ((e - t) * n + TimeLeft(rs, i, t)) \in Nat
<1>1. TimeLeft(rs, i, t) \in Nat
  BY TimeLeftType, Zenon
<1>2. e - t \in Nat /\ n \in Nat
  OBVIOUS
<1>3. (e - t) * n \in Nat /\ (e - t) * n # 0
  <2> DEFINE u == e - t
  <2>1. u \in Nat /\ u > 0
    BY <1>2, Zenon
  <2> HIDE DEF u
  <2>2. u * n \in Nat /\ u * n # 0
    BY <1>2, <2>1
  <2> QED
    BY <2>2, Zenon DEF u
<1> QED
  BY <1>1, <1>3

\* addItemTimeStackInTx keeps the table sound.
LEMMA TimeStackOK ==
    ASSUME NEW rs, RowsOK(rs), NEW i \in TimeItems, NEW n \in Int, NEW e \in Nat, NEW t \in Nat
    PROVE  RowsOK(AddItemTimeStack(rs, i, n, e, t))
<1>1. RowsOK(AddItemUnlimited(rs, i, n, e))
  BY UnlimitedOK, Zenon
<1>2. ASSUME NEW x \in Nat PROVE RowsOK(Insert(rs, Row(i, 1, 0, x)))
  <2>1. RowSound(Row(i, 1, 0, x)) /\ Row(i, 1, 0, x).item = i
    BY RowFields DEF RowSound
  <2> QED
    BY <2>1, InsertRow, Zenon
<1>3. ASSUME NEW x \in Nat, NEW merged PROVE RowsOK(Merge(rs, i, x, merged))
  BY MergeOK, Zenon
<1>4. CASE n <= 0 \/ e = 0 \/ e - t <= 0
  BY <1>1, <1>4, Zenon DEF AddItemTimeStack
<1>5. CASE ~(n <= 0) /\ e # 0 /\ ~(e - t <= 0)
  <2> DEFINE x == t + ((e - t) * n + TimeLeft(rs, i, t))
  <2>1. x \in Nat
    BY <1>5, TotalTime
  <2>2. AddItemTimeStack(rs, i, n, e, t)
          \in {Insert(rs, Row(i, 1, 0, x)), Merge(rs, i, x, Stacked(rs, i, t))}
    BY <1>5, Zenon DEF AddItemTimeStack
  <2> HIDE DEF x
  <2>3. RowsOK(Insert(rs, Row(i, 1, 0, x))) /\ RowsOK(Merge(rs, i, x, Stacked(rs, i, t)))
    BY <1>2, <1>3, <2>1, Zenon
  <2> QED
    BY <2>2, <2>3, Zenon
<1> QED
  BY <1>4, <1>5, Zenon

\* The expiry of a reward.
LEMMA ExpireNat ==
    ASSUME NEW r \in Reward, NEW start \in Nat
    PROVE  ExpireAt(r, start) \in Nat
BY DEF ExpireAt, Reward

\* One reward keeps the table sound.
LEMMA RewardOK ==
    ASSUME NEW rs, RowsOK(rs), NEW r \in Reward, NEW start \in Nat, NEW t \in Nat
    PROVE  RowsOK(AddReward(rs, r, start, t))
<1>1. r.count \in Int /\ ExpireAt(r, start) \in Nat
  BY ExpireNat, Zenon DEF Reward
<1> QED
  BY <1>1, UnlimitedOK, TimeStackOK, Zenon DEF AddReward

\* Taking from a row that has something left keeps the table sound.
LEMMA TakeOK ==
    ASSUME NEW rs, RowsOK(rs), NEW id \in RowIds, NEW left \in Int, left > 0,
           Available(rs[id]) > 0
    PROVE  /\ Deduction(rs[id], left) \in Int
           /\ RowsOK([rs EXCEPT ![id] = AddUsed(rs[id], Deduction(rs[id], left))])
<1> DEFINE n == Deduction(rs[id], left)
           row == AddUsed(rs[id], n)
<1>1. RowSound(rs[id])
  BY Zenon DEF RowsOK
<1>2. n \in Nat /\ rs[id].used + n <= rs[id].count
  BY <1>1 DEF Deduction, LesserOf, Available, RowSound
<1>3. /\ row.item = rs[id].item /\ row.expire = rs[id].expire
      /\ row.count = rs[id].count /\ row.used = rs[id].used + n
  BY RowFields DEF AddUsed
<1> HIDE DEF n, row
<1>4. RowSound(row)
  BY <1>1, <1>2, <1>3 DEF RowSound
<1>5. row.item \in ItemTypes \ TimeItems =>
         \A x \in RowIds \ {id} : ~(rs[x].item = row.item /\ rs[x].expire = row.expire)
  BY <1>3, Zenon DEF RowsOK, Distinct
<1>6. RowsOK([rs EXCEPT ![id] = row])
  BY <1>4, <1>5, ReplaceRow, Zenon
<1> QED
  BY <1>2, <1>6 DEF n, row

\* What is left of a sound row is a number.
LEMMA AvailableInt ==
    ASSUME NEW rs, RowsOK(rs), NEW id \in RowIds
    PROVE  Available(rs[id]) \in Int
BY DEF RowsOK, RowSound, Available

\* The reward a goroutine is at is one of the list it was called with.
LEMMA CurrentReward ==
    ASSUME NEW j, CallOK(j), j.next \in Nat \ {0}, More(j)
    PROVE  Current(j) \in Reward
<1>1. Rewards(j) \in Seq(Reward)
  BY BagAssumption, Zenon DEF Rewards, CallOK
<1>2. j.next \in 1 .. Len(Rewards(j))
  BY <1>1 DEF More
<1> QED
  BY <1>1, <1>2 DEF Current

-----------------------------------------------------------------------------
(* What the rows add up to *)

\* What each row adds.
Held(rs, i) == [id \in RowIds |-> IF rs[id].item = i THEN rs[id].count ELSE 0]

Used(rs, i) == [id \in RowIds |-> IF rs[id].item = i THEN rs[id].used ELSE 0]

Live(rs, i, t) == [id \in RowIds |-> IF id \in Revocable(rs, i, t) THEN Available(rs[id]) ELSE 0]

\* The terms and the sums are natural numbers.
LEMMA BagSums ==
    ASSUME NEW rs, RowsOK(rs), NEW i, NEW t
    PROVE  /\ \A id \in RowIds : /\ Held(rs, i)[id] \in Nat /\ Used(rs, i)[id] \in Nat
                                 /\ Live(rs, i, t)[id] \in Nat
           /\ HeldOf(rs, i) = SumFunctionOnSet(Held(rs, i), RowIds) /\ HeldOf(rs, i) \in Nat
           /\ UsedOf(rs, i) = SumFunctionOnSet(Used(rs, i), RowIds) /\ UsedOf(rs, i) \in Nat
           /\ LiveOf(rs, i, t) = SumFunctionOnSet(Live(rs, i, t), RowIds)
           /\ LiveOf(rs, i, t) \in Nat
<1>1. ASSUME NEW id \in RowIds
      PROVE  /\ Held(rs, i)[id] \in Nat /\ Used(rs, i)[id] \in Nat
             /\ Live(rs, i, t)[id] \in Nat
  <2>1. RowSound(rs[id])
    BY Zenon DEF RowsOK
  <2>2. Available(rs[id]) \in Nat
    BY <2>1 DEF RowSound, Available
  <2> QED
    BY <2>1, <2>2, Zenon DEF RowSound, Held, Used, Live
<1>2. HeldOf(rs, i) = SumFunctionOnSet(Held(rs, i), RowIds)
  BY Zenon DEF HeldOf, Held, SumFunction
<1>3. UsedOf(rs, i) = SumFunctionOnSet(Used(rs, i), RowIds)
  BY Zenon DEF UsedOf, Used, SumFunction
<1>4. LiveOf(rs, i, t) = SumFunctionOnSet(Live(rs, i, t), RowIds)
  BY Zenon DEF LiveOf, Live, SumFunction
<1>5. /\ SumFunctionOnSet(Held(rs, i), RowIds) \in Nat
      /\ SumFunctionOnSet(Used(rs, i), RowIds) \in Nat
      /\ SumFunctionOnSet(Live(rs, i, t), RowIds) \in Nat
  BY <1>1, SumNat, BagAssumption, Zenon
<1> QED
  BY <1>1, <1>2, <1>3, <1>4, <1>5, Zenon

\* Rows that add the same of item i.
LEMMA SameSums ==
    ASSUME NEW rs, RowsOK(rs), NEW ns, RowsOK(ns), NEW i,
           \A id \in RowIds : Held(ns, i)[id] = Held(rs, i)[id]
                              /\ Used(ns, i)[id] = Used(rs, i)[id]
    PROVE  HeldOf(ns, i) = HeldOf(rs, i) /\ UsedOf(ns, i) = UsedOf(rs, i)
<1>1. \A id \in RowIds : Held(rs, i)[id] \in Int /\ Used(rs, i)[id] \in Int
  BY BagSums
<1>2. SumFunctionOnSet(Held(rs, i), RowIds) = SumFunctionOnSet(Held(ns, i), RowIds)
  BY <1>1, SumSame, BagAssumption, Zenon
<1>3. SumFunctionOnSet(Used(rs, i), RowIds) = SumFunctionOnSet(Used(ns, i), RowIds)
  BY <1>1, SumSame, BagAssumption, Zenon
<1> QED
  BY <1>2, <1>3, BagSums, Zenon

\* One row is replaced.
LEMMA OneRowSums ==
    ASSUME NEW rs, RowsOK(rs), NEW ns, RowsOK(ns), NEW i, NEW t, NEW x \in RowIds,
           \A id \in RowIds \ {x} : ns[id] = rs[id]
    PROVE  /\ HeldOf(ns, i) = HeldOf(rs, i) - Held(rs, i)[x] + Held(ns, i)[x]
           /\ UsedOf(ns, i) = UsedOf(rs, i) - Used(rs, i)[x] + Used(ns, i)[x]
           /\ LiveOf(ns, i, t) = LiveOf(rs, i, t) - Live(rs, i, t)[x] + Live(ns, i, t)[x]
<1>1. \A id \in RowIds :
         Held(rs, i)[id] \in Nat /\ Used(rs, i)[id] \in Nat /\ Live(rs, i, t)[id] \in Nat
  BY BagSums, Zenon
<1>2. \A id \in RowIds :
         Held(ns, i)[id] \in Nat /\ Used(ns, i)[id] \in Nat /\ Live(ns, i, t)[id] \in Nat
  BY BagSums, Zenon
<1>3. SumFunctionOnSet(Held(ns, i), RowIds)
        = SumFunctionOnSet(Held(rs, i), RowIds) - Held(rs, i)[x] + Held(ns, i)[x]
  <2>1. \A id \in RowIds : Held(rs, i)[id] \in Int /\ Held(ns, i)[id] \in Int
    BY <1>1, <1>2
  <2>2. \A id \in RowIds \ {x} : Held(ns, i)[id] = Held(rs, i)[id]
    BY Zenon DEF Held
  <2> QED
    BY <2>1, <2>2, SumChange, BagAssumption
<1>4. SumFunctionOnSet(Used(ns, i), RowIds)
        = SumFunctionOnSet(Used(rs, i), RowIds) - Used(rs, i)[x] + Used(ns, i)[x]
  <2>1. \A id \in RowIds : Used(rs, i)[id] \in Int /\ Used(ns, i)[id] \in Int
    BY <1>1, <1>2
  <2>2. \A id \in RowIds \ {x} : Used(ns, i)[id] = Used(rs, i)[id]
    BY Zenon DEF Used
  <2> QED
    BY <2>1, <2>2, SumChange, BagAssumption
<1>5. SumFunctionOnSet(Live(ns, i, t), RowIds)
        = SumFunctionOnSet(Live(rs, i, t), RowIds) - Live(rs, i, t)[x] + Live(ns, i, t)[x]
  <2>1. \A id \in RowIds : Live(rs, i, t)[id] \in Int /\ Live(ns, i, t)[id] \in Int
    BY <1>1, <1>2
  <2>2. \A id \in RowIds \ {x} : Live(ns, i, t)[id] = Live(rs, i, t)[id]
    BY Zenon DEF Live, Revocable
  <2> QED
    BY <2>1, <2>2, SumChange, BagAssumption
<1> QED
  BY <1>3, <1>4, <1>5, BagSums, Zenon

\* A row that may be taken from has no more left than there is in all, and
\* when there is no such row there is nothing.
LEMMA LiveBounds ==
    ASSUME NEW rs, RowsOK(rs), NEW i, NEW t
    PROVE  /\ \A x \in Revocable(rs, i, t) : Available(rs[x]) <= LiveOf(rs, i, t)
           /\ Revocable(rs, i, t) = {} => LiveOf(rs, i, t) = 0
<1>1. ASSUME NEW x \in Revocable(rs, i, t) PROVE Available(rs[x]) <= LiveOf(rs, i, t)
  <2>1. x \in RowIds /\ Live(rs, i, t)[x] = Available(rs[x])
    BY Zenon DEF Live, Revocable
  <2>2. Live(rs, i, t)[x] <= SumFunctionOnSet(Live(rs, i, t), RowIds)
    BY <2>1, BagSums, SumAtLeast, BagAssumption, Zenon
  <2> QED
    BY <2>1, <2>2, BagSums, Zenon
<1>2. ASSUME Revocable(rs, i, t) = {} PROVE LiveOf(rs, i, t) = 0
  <2>1. \A id \in RowIds : Live(rs, i, t)[id] = 0
    BY <1>2, Zenon DEF Live
  <2>2. SumFunctionOnSet(Live(rs, i, t), RowIds) = 0
    BY <2>1, SumZero, BagAssumption, Zenon
  <2> QED
    BY <2>2, BagSums, Zenon
<1> QED
  BY <1>1, <1>2, Zenon

-----------------------------------------------------------------------------
(* What a reward adds *)

\* A row in use has a free one beside it to insert into.
LEMMA InsertEffect ==
    ASSUME NEW rs, RowsOK(rs), Room(rs), NEW row
    PROVE  \E x \in RowIds :
              /\ rs[x].item = NoItem /\ Insert(rs, row)[x] = row
              /\ \A id \in RowIds \ {x} : Insert(rs, row)[id] = rs[id]
<1> DEFINE x == CHOOSE id \in RowIds : rs[id].item = NoItem
<1>1. x \in RowIds /\ rs[x].item = NoItem
  BY Zenon DEF Room
<1>2. Insert(rs, row) = [rs EXCEPT ![x] = row]
  BY Zenon DEF Insert
<1> HIDE DEF x
<1>3. rs = [id \in RowIds |-> rs[id]]
  BY Zenon DEF RowsOK
<1> QED
  BY <1>1, <1>2, <1>3, Zenon

\* addItemUnlimitedInTx changes one row of the item.
LEMMA UnlimitedEffect ==
    ASSUME NEW rs, RowsOK(rs), Room(rs), NEW i, NEW n \in Int, n > 0, NEW e,
           NEW ns, ns = AddItemUnlimited(rs, i, n, e)
    PROVE  \E x \in RowIds : OneRowGrows(ns, rs, x, i, n, e)
<1> DEFINE existing == Existing(rs, i, e)
           y == CHOOSE id \in existing : TRUE
<1>1. CASE existing = {}
  <2> DEFINE row == Row(i, n, 0, e)
  <2>1. ns = Insert(rs, row)
    BY <1>1 DEF AddItemUnlimited
  <2>2. row.item = i /\ row.expire = e /\ row.count = n /\ row.used = 0
    BY RowFields
  <2> HIDE DEF row
  <2>3. PICK x \in RowIds :
              /\ rs[x].item = NoItem /\ Insert(rs, row)[x] = row
              /\ \A id \in RowIds \ {x} : Insert(rs, row)[id] = rs[id]
    BY InsertEffect
  <2> QED
    BY <2>1, <2>2, <2>3, Zenon DEF OneRowGrows
<1>2. CASE existing # {}
  <2>1. y \in RowIds /\ rs[y].item = i /\ rs[y].expire = e
    <3>1. y \in existing
      BY <1>2, Zenon
    <3> QED
      BY <3>1, Zenon DEF Existing
  <2> DEFINE row == AddCount(rs[y], n)
  <2>2. row.item = i /\ row.expire = e /\ row.count = rs[y].count + n /\ row.used = rs[y].used
    BY <2>1, RowFields DEF AddCount
  <2>3. ns = [rs EXCEPT ![y] = row]
    BY <1>2 DEF AddItemUnlimited
  <2> HIDE DEF row, y
  <2>4. rs = [id \in RowIds |-> rs[id]]
    BY Zenon DEF RowsOK
  <2>5. ns[y] = row /\ \A id \in RowIds \ {y} : ns[id] = rs[id]
    BY <2>1, <2>3, <2>4, Zenon
  <2> QED
    BY <2>1, <2>2, <2>5, Zenon DEF OneRowGrows
<1> QED
  BY <1>1, <1>2, Zenon

\* Of rows to merge one runs out first.
LEMMA SomeEarliest ==
    ASSUME NEW rs, RowsOK(rs), NEW ids, ids \subseteq RowIds, ids # {}
    PROVE  Earliest(rs, ids) # {}
<1> DEFINE ends == {rs[id].expire : id \in ids} \ {0}
<1>1. \A id \in ids : rs[id].expire \in Nat
  BY Zenon DEF RowsOK, RowSound
<1>2. CASE ends = {}
  <2>1. ids \subseteq Earliest(rs, ids)
    BY <1>2, Zenon DEF Earliest, NotLater
  <2> QED
    BY <2>1, Zenon
<1>3. CASE ends # {}
  <2>1. PICK m \in ends : \A e \in ends : m <= e
    <3>1. ends \subseteq Nat
      BY <1>1, Zenon
    <3> HIDE DEF ends
    <3> QED
      BY <1>3, <3>1, LeastNat, Zenon
  <2>2. PICK x \in ids : rs[x].expire = m
    BY Zenon
  <2>3. x \in Earliest(rs, ids)
    BY <2>1, <2>2, Zenon DEF Earliest, NotLater
  <2> QED
    BY <2>3, Zenon
<1> QED
  BY <1>2, <1>3, Zenon

\* Row x is all that is left of item i, and runs out at end.
Restacked(ns, rs, i, end, t, x) ==
    /\ ns[x] = Row(i, 1, 0, end)
    /\ \A id \in RowIds \ {x} : ~(ns[id].item = i /\ ns[id].expire > t)
    /\ \A id \in RowIds : \/ ns[id] = rs[id]
                          \/ rs[id].item \in {i, NoItem} /\ ns[id].item \in {i, NoItem}

\* addItemTimeStackInTx leaves one row of the item that has not run out, which
\* runs out when the new time and what was left are over.
LEMMA TimeStackEffect ==
    ASSUME NEW rs, RowsOK(rs), Room(rs), NEW i \in TimeItems, NEW n \in Int, n > 0,
           NEW e \in Nat, NEW t \in Nat, e - t > 0,
           NEW ns, ns = AddItemTimeStack(rs, i, n, e, t)
    PROVE  \E x \in RowIds :
              Restacked(ns, rs, i, t + ((e - t) * n + TimeLeft(rs, i, t)), t, x)
<1> DEFINE end == t + ((e - t) * n + TimeLeft(rs, i, t))
           row == Row(i, 1, 0, end)
           merged == Stacked(rs, i, t)
<1>1. row.item = i /\ NoRow.item = NoItem /\ i # NoItem
  BY RowFields, BagAssumption DEF NoRow
<1>2. e # 0
  OBVIOUS
<1>3. CASE merged = {}
  <2>1. ns = Insert(rs, row)
    BY <1>2, <1>3 DEF AddItemTimeStack
  <2> HIDE DEF row
  <2>2. PICK x \in RowIds :
              /\ rs[x].item = NoItem /\ Insert(rs, row)[x] = row
              /\ \A id \in RowIds \ {x} : Insert(rs, row)[id] = rs[id]
    BY InsertEffect
  <2>3. \A id \in RowIds : ~(rs[id].item = i /\ rs[id].expire > t)
    BY <1>3, Zenon DEF Stacked
  <2>4. /\ ns[x] = row
        /\ \A id \in RowIds \ {x} : ~(ns[id].item = i /\ ns[id].expire > t)
        /\ \A id \in RowIds : \/ ns[id] = rs[id]
                              \/ rs[id].item \in {i, NoItem} /\ ns[id].item \in {i, NoItem}
    BY <1>1, <2>1, <2>2, <2>3, Zenon
  <2> QED
    BY <2>4, Zenon DEF row, end, Restacked
<1>4. CASE merged # {}
  <2> DEFINE x == CHOOSE id \in Earliest(rs, merged) : TRUE
  <2>1. x \in merged
    <3>1. merged \subseteq RowIds
      BY Zenon DEF Stacked
    <3>2. Earliest(rs, merged) # {}
      <4> HIDE DEF merged
      <4> QED
        BY <1>4, <3>1, SomeEarliest, Zenon
    <3>3. x \in Earliest(rs, merged)
      BY <3>2, Zenon
    <3> QED
      BY <3>3, Zenon DEF Earliest
  <2>2. ns = Merge(rs, i, end, merged)
    BY <1>2, <1>4 DEF AddItemTimeStack
  <2>3. \A id \in RowIds :
           ns[id] = IF id \notin merged THEN rs[id] ELSE IF id = x THEN row ELSE NoRow
    BY <2>2, Zenon DEF Merge
  <2>4. \A id \in RowIds : id \in merged <=> rs[id].item = i /\ rs[id].expire > t
    BY Zenon DEF Stacked
  <2>5. x \in RowIds
    BY <2>1, Zenon DEF Stacked
  <2> HIDE DEF merged, x, row
  <2>6. /\ ns[x] = row
        /\ \A id \in RowIds \ {x} : ~(ns[id].item = i /\ ns[id].expire > t)
    BY <1>1, <2>1, <2>3, <2>4, <2>5, Zenon
  <2>7. \A id \in RowIds : \/ ns[id] = rs[id]
                           \/ rs[id].item \in {i, NoItem} /\ ns[id].item \in {i, NoItem}
    BY <1>1, <2>1, <2>3, <2>4, <2>5, Zenon
  <2> QED
    BY <2>5, <2>6, <2>7, Zenon DEF row, end, Restacked
<1> QED
  BY <1>3, <1>4, Zenon

\* What one reward has of item i.
CountOf(r, i) == IF r.item = i /\ r.count > 0 THEN r.count ELSE 0

\* One reward adds its count to what is held of a count-stacked item, and
\* nothing to what is held of another.
LEMMA RewardHeld ==
    ASSUME NEW rs, RowsOK(rs), Room(rs), NEW r \in Reward, NEW start \in Nat, NEW t \in Nat,
           NEW i \in ItemTypes \ TimeItems, NEW ns, ns = AddReward(rs, r, start, t)
    PROVE  /\ HeldOf(ns, i) = HeldOf(rs, i) + CountOf(r, i)
           /\ UsedOf(ns, i) = UsedOf(rs, i)
<1> DEFINE e == ExpireAt(r, start)
<1>1. RowsOK(ns) /\ e \in Nat /\ r.count \in Int /\ i # NoItem
  BY RewardOK, ExpireNat, BagAssumption, Zenon DEF Reward
<1>2. HeldOf(rs, i) \in Nat /\ UsedOf(rs, i) \in Nat
  BY BagSums, Zenon
<1> HIDE DEF e
<1>3. CASE ns = rs /\ CountOf(r, i) = 0
  BY <1>2, <1>3
<1>4. CASE ns = AddItemUnlimited(rs, r.item, r.count, e) /\ r.count > 0
  <2>1. PICK x \in RowIds : OneRowGrows(ns, rs, x, r.item, r.count, e)
    BY <1>1, <1>4, UnlimitedEffect, Zenon
  <2>2. /\ HeldOf(ns, i) = HeldOf(rs, i) - Held(rs, i)[x] + Held(ns, i)[x]
        /\ UsedOf(ns, i) = UsedOf(rs, i) - Used(rs, i)[x] + Used(ns, i)[x]
    BY <1>1, <2>1, OneRowSums DEF OneRowGrows
  <2>3. rs[x].count \in Nat /\ rs[x].used \in Nat
    BY Zenon DEF RowsOK, RowSound
  <2>4. /\ Held(ns, i)[x] = Held(rs, i)[x] + CountOf(r, i)
        /\ Used(ns, i)[x] = Used(rs, i)[x]
    BY <1>1, <1>4, <2>1, <2>3 DEF Held, Used, CountOf, OneRowGrows
  <2>5. Held(rs, i)[x] \in Nat /\ Used(rs, i)[x] \in Nat /\ CountOf(r, i) \in Int
    BY <1>1, BagSums DEF CountOf
  <2> QED
    BY <1>2, <2>2, <2>4, <2>5
<1>5. CASE /\ r.item \in TimeItems /\ r.count > 0 /\ e - t > 0
           /\ ns = AddItemTimeStack(rs, r.item, r.count, e, t)
  <2>1. \A id \in RowIds : \/ ns[id] = rs[id]
                           \/ rs[id].item \in {r.item, NoItem} /\ ns[id].item \in {r.item, NoItem}
    BY <1>1, <1>5, TimeStackEffect DEF Restacked
  <2>2. \A id \in RowIds : Held(ns, i)[id] = Held(rs, i)[id] /\ Used(ns, i)[id] = Used(rs, i)[id]
    BY <1>1, <1>5, <2>1, Zenon DEF Held, Used
  <2>3. HeldOf(ns, i) = HeldOf(rs, i) /\ UsedOf(ns, i) = UsedOf(rs, i)
    BY <1>1, <2>2, SameSums, Zenon
  <2> QED
    BY <1>2, <1>5, <2>3 DEF CountOf
<1>6. r.item \in TimeItems =>
         \/ ns = rs
         \/ ns = AddItemUnlimited(rs, r.item, r.count, e) /\ r.count > 0
         \/ /\ r.count > 0 /\ e - t > 0
            /\ ns = AddItemTimeStack(rs, r.item, r.count, e, t)
  BY <1>1 DEF AddReward, AddItemTimeStack, e
<1>7. r.item \notin TimeItems =>
         \/ ns = rs /\ r.count <= 0
         \/ ns = AddItemUnlimited(rs, r.item, r.count, e) /\ r.count > 0
  BY <1>1 DEF AddReward, AddItemUnlimited, e
<1> QED
  BY <1>1, <1>3, <1>4, <1>5, <1>6, <1>7 DEF CountOf

\* A time-stacked item keeps one row that has not run out.
LEMMA RewardOneLive ==
    ASSUME NEW rs, RowsOK(rs), Room(rs), NEW r \in Reward, NEW start \in Nat, NEW t \in Nat,
           OneLive(rs, t), NEW ns, ns = AddReward(rs, r, start, t)
    PROVE  OneLive(ns, t)
<1> DEFINE e == ExpireAt(r, start)
<1>1. e \in Nat /\ r.count \in Int /\ NoItem \notin TimeItems
  BY ExpireNat, BagAssumption, Zenon DEF Reward
<1> HIDE DEF e
<1>2. CASE ns = rs
  BY <1>2, Zenon
<1>3. CASE /\ ns = AddItemUnlimited(rs, r.item, r.count, e) /\ r.count > 0
           /\ r.item \in TimeItems => e = 0
  <2>1. PICK x \in RowIds :
              /\ \A id \in RowIds \ {x} : ns[id] = rs[id]
              /\ ns[x].item = r.item /\ ns[x].expire = e
    BY <1>1, <1>3, UnlimitedEffect DEF OneRowGrows
  <2>2. ~(ns[x].item \in TimeItems /\ ns[x].expire > t)
    BY <1>3, <2>1
  <2> QED
    BY <2>1, <2>2 DEF OneLive
<1>4. CASE /\ r.item \in TimeItems /\ r.count > 0 /\ e - t > 0
           /\ ns = AddItemTimeStack(rs, r.item, r.count, e, t)
  <2> DEFINE end == t + ((e - t) * r.count + TimeLeft(rs, r.item, t))
  <2>1. PICK x \in RowIds : Restacked(ns, rs, r.item, end, t, x)
    BY <1>1, <1>4, TimeStackEffect, Zenon
  <2> HIDE DEF end
  <2> QED
    BY <1>1, <2>1 DEF OneLive, Restacked
<1>5. r.item \in TimeItems =>
         \/ ns = rs
         \/ ns = AddItemUnlimited(rs, r.item, r.count, e) /\ r.count > 0 /\ e = 0
         \/ /\ r.count > 0 /\ e - t > 0
            /\ ns = AddItemTimeStack(rs, r.item, r.count, e, t)
  BY <1>1 DEF AddReward, AddItemTimeStack, e
<1>6. r.item \notin TimeItems =>
         \/ ns = rs
         \/ ns = AddItemUnlimited(rs, r.item, r.count, e) /\ r.count > 0
  BY <1>1 DEF AddReward, AddItemUnlimited, e
<1> QED
  BY <1>2, <1>3, <1>4, <1>5, <1>6, Zenon

\* The reward's time is added to the time that was left.
LEMMA RewardTime ==
    ASSUME NEW rs, RowsOK(rs), Room(rs), NEW r \in Reward, NEW start \in Nat, NEW t \in Nat,
           r.item \in TimeItems, r.count > 0, ExpireAt(r, start) - t > 0,
           NEW ns, ns = AddReward(rs, r, start, t)
    PROVE  TimeLeft(ns, r.item, t)
             = TimeLeft(rs, r.item, t) + (ExpireAt(r, start) - t) * r.count
<1> DEFINE e == ExpireAt(r, start)
           total == (e - t) * r.count + TimeLeft(rs, r.item, t)
<1>1. e \in Nat /\ r.count \in Int /\ RowsOK(ns)
  BY ExpireNat, RewardOK, Zenon DEF Reward
<1>2. ns = AddItemTimeStack(rs, r.item, r.count, e, t)
  BY Zenon DEF AddReward
<1>3. /\ total \in Nat \ {0} /\ (e - t) * r.count \in Nat /\ TimeLeft(rs, r.item, t) \in Nat
  BY <1>1, TotalTime, TimeLeftType, Zenon
<1>4. e - t > 0
  BY Zenon
<1> HIDE DEF e
<1>5. PICK x \in RowIds : Restacked(ns, rs, r.item, t + total, t, x)
  BY <1>1, <1>2, <1>4, TimeStackEffect, Zenon
<1> HIDE DEF total
<1>6. /\ ns[x].item = r.item /\ ns[x].count = 1 /\ ns[x].used = 0 /\ ns[x].expire = t + total
  BY <1>5, RowFields DEF Restacked
<1>7. StackedUsable(ns, r.item, t) = {x}
  BY <1>3, <1>5, <1>6 DEF StackedUsable, Available, Restacked
<1>8. TimeOf(ns, t)[x] = total
  BY <1>3, <1>6 DEF TimeOf, Available
<1>9. TimeLeft(ns, r.item, t) = SumFunctionOnSet(TimeOf(ns, t), {x})
  BY <1>7, Zenon DEF TimeLeft, TimeOf
<1>10. SumFunctionOnSet(TimeOf(ns, t), {x}) = total
  <2>1. TimeOf(ns, t)[x] \in Int
    BY <1>3, <1>8
  <2>2. SumFunctionOnSet(TimeOf(ns, t), {x}) = TimeOf(ns, t)[x]
    BY <2>1, SumSingle, Zenon
  <2> QED
    BY <1>8, <2>2, Zenon
<1> QED
  BY <1>3, <1>9, <1>10 DEF total, e

-----------------------------------------------------------------------------
(* What an open transaction has done so far *)

\* The rewards of a list, one after the other.
LEMMA Parts ==
    ASSUME NEW list \in Seq(Reward), NEW i
    PROVE  /\ \A n \in 0 .. Len(list) : Part(list, i, n) \in Nat
           /\ Part(list, i, 0) = 0
           /\ \A n \in 1 .. Len(list) :
                 Part(list, i, n) = Part(list, i, n - 1) + CountOf(list[n], i)
           /\ CountIn(list, i) = Part(list, i, Len(list))
<1> DEFINE f == Counts(list, i)
<1>1. \A n \in 1 .. Len(list) : f[n] \in Nat /\ f[n] = CountOf(list[n], i)
  <2> SUFFICES ASSUME NEW n \in 1 .. Len(list)
               PROVE  f[n] \in Nat /\ f[n] = CountOf(list[n], i)
    BY Zenon
  <2>1. list[n] \in Reward
    OBVIOUS
  <2>2. list[n].count \in Int
    BY <2>1, Zenon DEF Reward
  <2> QED
    BY <2>2 DEF Counts, CountOf
<1>2. DOMAIN f = 1 .. Len(list)
  BY DEF Counts
<1> HIDE DEF f
<1>3. ASSUME NEW n \in 0 .. Len(list)
      PROVE  IsFiniteSet(1 .. n) /\ (\A k \in 1 .. n : f[k] \in Nat)
  <2>1. IsFiniteSet(1 .. n)
    BY FiniteInterval
  <2> QED
    BY <1>1, <2>1
<1>4. ASSUME NEW n \in 0 .. Len(list) PROVE SumFunctionOnSet(f, 1 .. n) \in Nat
  BY <1>3, SumNat, Zenon
<1>5. ASSUME NEW n \in 1 .. Len(list)
      PROVE  SumFunctionOnSet(f, 1 .. n) = SumFunctionOnSet(f, 1 .. (n - 1)) + f[n]
  <2> DEFINE S == 1 .. (n - 1)
  <2>1. n - 1 \in 0 .. Len(list) /\ S \cup {n} = 1 .. n /\ n \notin S
    OBVIOUS
  <2>2. IsFiniteSet(S)
    BY <1>3, <2>1, Zenon
  <2>3. \A k \in S \cup {n} : f[k] \in Int
    BY <1>1, <2>1
  <2> HIDE DEF S
  <2>4. SumFunctionOnSet(f, S \cup {n}) = SumFunctionOnSet(f, S) + f[n]
    BY <2>1, <2>2, <2>3, SumAdd, Zenon
  <2> QED
    BY <2>1, <2>4, Zenon DEF S
<1>6. SumFunctionOnSet(f, 1 .. 0) = 0
  <2>1. 1 .. 0 = {}
    OBVIOUS
  <2> QED
    BY <2>1, SumEmpty, Zenon
<1>7. CountIn(list, i) = SumFunctionOnSet(f, 1 .. Len(list))
  BY <1>2, Zenon DEF CountIn, SumFunction, f
<1> QED
  BY <1>1, <1>4, <1>5, <1>6, <1>7, Zenon DEF Part, f

\* The list a call works through.
LEMMA ListOf ==
    ASSUME NEW j, CallOK(j)
    PROVE  /\ Rewards(j) \in Seq(Reward)
           /\ j.op # "revoke" => Rewards(j) = Given[j.order]
           /\ j.op = "revoke" => Rewards(j) = Taken[j.order]
BY BagAssumption, Zenon DEF CallOK, Rewards

\* A transaction that has read the rows and done nothing else.
LEMMA FreshBalance ==
    ASSUME NEW j, CallOK(j), NEW rs, RowsOK(rs), j.rows = rs, j.next = 1, j.pc # "take"
    PROVE  Balance(j, rs)
<1>1. Rewards(j) \in Seq(Reward) /\ Len(Rewards(j)) \in Nat
  BY ListOf
<1>2. \A i : Part(Rewards(j), i, j.next - 1) = 0
  BY <1>1, Parts
<1>3. \A i : HeldOf(rs, i) \in Nat /\ UsedOf(rs, i) \in Nat /\ LiveOf(rs, i, j.start) \in Nat
  BY BagSums, Zenon
<1>4. j.op # "revoke" => GrantBalance(j, rs)
  BY <1>2, <1>3, ListOf DEF GrantBalance
<1>5. InOrder(j.rows, rs, j.start)
  <2>1. \A id \in RowIds : rs[id].used \in Nat
    BY Zenon DEF RowsOK, RowSound
  <2> QED
    BY <2>1 DEF InOrder
<1>6. j.op = "revoke" => Taking(j.rows, rs, j.start, Wanted(j))
  <2> SUFFICES ASSUME j.op = "revoke" PROVE Taking(rs, rs, j.start, Wanted(j))
    BY Zenon
  <2>1. \A i \in ItemTypes : Wanted(j)[i] = 0
    BY <1>2, ListOf DEF Wanted, Begun
  <2>2. Lost(rs, rs, j.start, Wanted(j))
    BY <1>3, <2>1 DEF Lost, LesserOf
  <2> QED
    BY <1>5, <2>2, Zenon DEF Taking, SameButUsed
<1> QED
  BY <1>1, <1>4, <1>6 DEF Balance

\* One reward of a grant.
LEMMA GrantOn ==
    ASSUME NEW j, NEW rs, Midway(j, rs), j.op # "revoke", Room(j.rows),
           j.start \in Nat, NEW t \in Nat,
           NEW k, Passed(k, j), k.rows = AddReward(j.rows, Current(j), j.start, t)
    PROVE  Balance(k, rs)
<1>0. /\ CallOK(j) /\ j.next \in Nat \ {0} /\ More(j) /\ RowsOK(j.rows)
      /\ Balance(j, rs) /\ RowsOK(rs)
      /\ k.pc = "reward" /\ k.next = j.next + 1 /\ k.op = j.op /\ k.order = j.order
  BY Zenon DEF Midway, Passed
<1> DEFINE list == Rewards(j)
<1>1. list \in Seq(Reward) /\ list = Given[j.order] /\ Rewards(k) = list
  BY <1>0, ListOf, Zenon DEF Rewards
<1>2. j.next \in 1 .. Len(list) /\ Len(list) \in Nat
  BY <1>0, <1>1 DEF More
<1>3. Current(j) \in Reward /\ Current(j) = list[j.next]
  BY <1>1, <1>2 DEF Current
<1> HIDE DEF list
<1>4. ASSUME NEW i \in ItemTypes \ TimeItems
      PROVE  /\ HeldOf(k.rows, i) = HeldOf(rs, i) + Part(list, i, k.next - 1)
             /\ UsedOf(k.rows, i) = UsedOf(rs, i)
  <2>1. /\ HeldOf(k.rows, i) = HeldOf(j.rows, i) + CountOf(Current(j), i)
        /\ UsedOf(k.rows, i) = UsedOf(j.rows, i)
    BY <1>0, <1>3, RewardHeld
  <2>2. /\ HeldOf(j.rows, i) = HeldOf(rs, i) + Part(list, i, j.next - 1)
        /\ UsedOf(j.rows, i) = UsedOf(rs, i)
    BY <1>0, <1>1, Zenon DEF Balance, GrantBalance
  <2>3. Part(list, i, j.next) = Part(list, i, j.next - 1) + CountOf(list[j.next], i)
    BY <1>1, <1>2, Parts, Zenon
  <2>4. Part(list, i, j.next - 1) \in Nat /\ HeldOf(rs, i) \in Nat
    <3>1. j.next - 1 \in 0 .. Len(list)
      BY <1>2
    <3> QED
      BY <1>0, <1>1, <3>1, Parts, BagSums, Zenon
  <2>5. CountOf(Current(j), i) \in Int
    BY <1>3 DEF CountOf, Reward
  <2>6. k.next - 1 = j.next
    BY <1>0, <1>2
  <2> QED
    BY <1>3, <2>1, <2>2, <2>3, <2>4, <2>5, <2>6
<1>5. GrantBalance(k, rs)
  BY <1>0, <1>1, <1>4, Zenon DEF GrantBalance
<1>6. k.next <= Len(Rewards(k)) + 1
  BY <1>0, <1>1, <1>2
<1> QED
  BY <1>0, <1>5, <1>6, Zenon DEF Balance

\* One row is charged with n: what is used grows by n, what can be taken
\* shrinks by n.
LEMMA ChargedSums ==
    ASSUME NEW rs, RowsOK(rs), NEW ns, RowsOK(ns), NEW x, NEW n, Charge(ns, rs, x, n),
           NEW t, NotExpired(rs[x], t), Available(rs[x]) > 0, NEW i
    PROVE  /\ i # rs[x].item =>
                 UsedOf(ns, i) = UsedOf(rs, i) /\ LiveOf(ns, i, t) = LiveOf(rs, i, t)
           /\ i = rs[x].item =>
                 UsedOf(ns, i) = UsedOf(rs, i) + n /\ LiveOf(ns, i, t) = LiveOf(rs, i, t) - n
<1>0. x \in RowIds /\ n \in Nat /\ n <= Available(rs[x]) /\ ns[x] = AddUsed(rs[x], n)
  BY Zenon DEF Charge
<1>1. /\ ns[x].item = rs[x].item /\ ns[x].count = rs[x].count
      /\ ns[x].expire = rs[x].expire /\ ns[x].used = rs[x].used + n
  BY <1>0, RowFields DEF AddUsed
<1>2. rs[x].used \in Nat /\ rs[x].count \in Nat
  BY <1>0, Zenon DEF RowsOK, RowSound
<1>3. /\ UsedOf(ns, i) = UsedOf(rs, i) - Used(rs, i)[x] + Used(ns, i)[x]
      /\ LiveOf(ns, i, t) = LiveOf(rs, i, t) - Live(rs, i, t)[x] + Live(ns, i, t)[x]
  BY <1>0, OneRowSums DEF Charge
<1>4. /\ UsedOf(rs, i) \in Nat /\ LiveOf(rs, i, t) \in Nat
      /\ Used(rs, i)[x] \in Nat /\ Live(rs, i, t)[x] \in Nat
  BY <1>0, BagSums, Zenon
<1>5. ASSUME i # rs[x].item
      PROVE  Used(ns, i)[x] = Used(rs, i)[x] /\ Live(ns, i, t)[x] = Live(rs, i, t)[x]
  BY <1>0, <1>1, <1>5, Zenon DEF Used, Live, Revocable
<1>6. ASSUME i = rs[x].item
      PROVE  /\ Used(ns, i)[x] = Used(rs, i)[x] + n
             /\ Live(ns, i, t)[x] = Live(rs, i, t)[x] - n
  BY <1>0, <1>1, <1>2, <1>6 DEF Used, Live, Revocable, NotExpired, Available
<1> QED
  BY <1>0, <1>3, <1>4, <1>5, <1>6

\* The order of the rows is kept when the first one is charged.
LEMMA ChargedInOrder ==
    ASSUME NEW rs, RowsOK(rs), NEW old, RowsOK(old), NEW t, NEW i,
           SameButUsed(old, rs), InOrder(old, rs, t),
           NEW x \in Earliest(old, Revocable(old, i, t)),
           NEW new, RowsOK(new), NEW n, Charge(new, old, x, n)
    PROVE  InOrder(new, rs, t)
<1>0. /\ SameButUsed(new, old) /\ \A id \in RowIds \ {x} : new[id] = old[id]
      /\ new[x].used = old[x].used + n /\ n \in Nat /\ x \in RowIds
  BY RowFields DEF Charge, AddUsed
<1>1. /\ x \in Revocable(old, i, t)
      /\ \A y \in Revocable(old, i, t) : NotLater(old[x], old[y])
  BY Zenon DEF Earliest
<1>2. x \in RowIds /\ old[x].item = i
  BY <1>1, Zenon DEF Revocable
<1> SUFFICES ASSUME NEW id1 \in RowIds, NEW id2 \in RowIds,
                    new[id1].used > rs[id1].used, rs[id2].item = rs[id1].item,
                    RunsOutBefore(rs[id2], rs[id1]),
                    id2 \in Revocable(new, rs[id1].item, t)
             PROVE  FALSE
  BY Zenon DEF InOrder
<1>3. id2 \in Revocable(old, rs[id1].item, t)
  <2>1. CASE id2 = x
    <3>1. old[x].count \in Nat /\ old[x].used \in Nat /\ new[x].used \in Nat
      BY <1>2, Zenon DEF RowsOK, RowSound
    <3> QED
      BY <1>0, <1>2, <2>1, <3>1 DEF Revocable, NotExpired, Available, SameButUsed
  <2>2. CASE id2 # x
    BY <1>0, <2>2, Zenon DEF Revocable
  <2> QED
    BY <2>1, <2>2, Zenon
<1>4. CASE id1 # x
  BY <1>0, <1>3, <1>4, Zenon DEF InOrder
<1>5. CASE id1 = x
  <2>1. rs[id1].item = i /\ rs[x].expire = old[x].expire /\ rs[id2].expire = old[id2].expire
    BY <1>2, <1>5, Zenon DEF SameButUsed
  <2>2. NotLater(old[x], old[id2])
    BY <1>1, <1>3, <2>1, Zenon
  <2>3. old[x].expire \in Nat /\ old[id2].expire \in Nat
    BY <1>2, Zenon DEF RowsOK, RowSound
  <2> QED
    BY <1>5, <2>1, <2>2, <2>3 DEF NotLater, RunsOutBefore
<1> QED
  BY <1>4, <1>5, Zenon

\* Something more is taken from the first row.
LEMMA TakeMore ==
    ASSUME NEW rs, RowsOK(rs), NEW old, RowsOK(old), NEW t, NEW item,
           NEW want, Taking(old, rs, t, want), NEW x, NEW n, NEW new, RowsOK(new),
           x \in Earliest(old, Revocable(old, item, t)), Charge(new, old, x, n),
           NEW more, WantNext(more, want, item, n)
    PROVE  Taking(new, rs, t, more)
<1>1. x \in Revocable(old, item, t) /\ x \in RowIds /\ NotExpired(old[x], t)
      /\ Available(old[x]) > 0 /\ old[x].item = item
  BY Zenon DEF Earliest, Revocable
<1>2. ASSUME NEW i
      PROVE  /\ i # item =>
                   UsedOf(new, i) = UsedOf(old, i) /\ LiveOf(new, i, t) = LiveOf(old, i, t)
             /\ i = item => /\ UsedOf(new, i) = UsedOf(old, i) + n
                            /\ LiveOf(new, i, t) = LiveOf(old, i, t) - n
  BY <1>1, ChargedSums
<1>4. SameButUsed(old, rs) /\ InOrder(old, rs, t) /\ Lost(old, rs, t, want)
  BY Zenon DEF Taking
<1>5. SameButUsed(new, rs) /\ InOrder(new, rs, t)
  <2>1. SameButUsed(new, rs)
    BY <1>4, Zenon DEF SameButUsed, Charge
  <2> QED
    BY <1>4, <2>1, ChargedInOrder, Zenon
<1>6. ASSUME NEW i \in ItemTypes
      PROVE  /\ LiveOf(rs, i, t) - LiveOf(new, i, t) = LesserOf(LiveOf(rs, i, t), more[i])
             /\ UsedOf(new, i) = UsedOf(rs, i) + (LiveOf(rs, i, t) - LiveOf(new, i, t))
  <2> DEFINE before == LiveOf(rs, i, t)
             live == LiveOf(old, i, t)
  <2>1. before \in Nat /\ live \in Nat /\ UsedOf(rs, i) \in Nat /\ UsedOf(old, i) \in Nat
    BY BagSums, Zenon
  <2>2. Took(before, live, want[i], UsedOf(rs, i), UsedOf(old, i))
    BY <1>4, Zenon DEF Lost, Took
  <2>3. CASE i # item
    BY <1>2, <2>2, <2>3, Zenon DEF WantNext, Took
  <2>4. CASE i = item
    <3>1. UsedOf(new, i) = UsedOf(old, i) + n /\ LiveOf(new, i, t) = live - n
      BY <1>2, <2>4, Zenon
    <3>2. n \in Nat /\ n <= live /\ more[i] = want[i] + n /\ want[i] \in Int
      <4>1. Available(old[x]) <= live /\ Available(old[x]) \in Int
        BY <1>1, <2>4, LiveBounds DEF Available, RowsOK, RowSound
      <4> HIDE DEF live
      <4> QED
        BY <2>1, <2>4, <4>1 DEF WantNext, Charge
    <3> HIDE DEF live, before
    <3>3. Took(before, live - n, want[i] + n, UsedOf(rs, i), UsedOf(old, i) + n)
      BY <2>1, <2>2, <3>2, TookMore, Zenon
    <3> QED
      BY <3>1, <3>2, <3>3, Zenon DEF before, Took
  <2> QED
    BY <2>3, <2>4, Zenon
<1>7. Lost(new, rs, t, more)
  BY <1>6, Zenon DEF Lost
<1> QED
  BY <1>5, <1>7, Zenon DEF Taking

\* Wanting more of what there is no more of changes nothing.
LEMMA WantMore ==
    ASSUME NEW rs, RowsOK(rs), NEW ns, RowsOK(ns), NEW t, NEW want, Taking(ns, rs, t, want),
           NEW more,
           \A i \in ItemTypes : /\ want[i] \in Int /\ more[i] \in Int
                                /\ \/ more[i] = want[i]
                                   \/ more[i] >= want[i] /\ Revocable(ns, i, t) = {}
    PROVE  Taking(ns, rs, t, more)
<1>1. ASSUME NEW i \in ItemTypes
      PROVE  LiveOf(rs, i, t) - LiveOf(ns, i, t) = LesserOf(LiveOf(rs, i, t), more[i])
  <2>1. LiveOf(rs, i, t) - LiveOf(ns, i, t) = LesserOf(LiveOf(rs, i, t), want[i])
    BY Zenon DEF Taking, Lost
  <2>2. CASE more[i] = want[i]
    BY <2>1, <2>2, Zenon
  <2>3. CASE more[i] >= want[i] /\ Revocable(ns, i, t) = {}
    <3>1. LiveOf(rs, i, t) \in Nat /\ LiveOf(ns, i, t) = 0
      BY <2>3, BagSums, LiveBounds, Zenon
    <3> QED
      BY <2>1, <2>3, <3>1 DEF LesserOf
  <2> QED
    BY <2>2, <2>3, Zenon
<1> QED
  BY <1>1, Zenon DEF Taking, Lost

\* What a revocation that is at a reward has asked for.
LEMMA WantedOf ==
    ASSUME NEW j, NEW rs, Midway(j, rs), j.op = "revoke", NEW i \in ItemTypes
    PROVE  /\ Current(j) \in Reward /\ Current(j).count \in Int
           /\ Part(Taken[j.order], i, j.next - 1) \in Nat
           /\ Part(Taken[j.order], i, j.next)
                = Part(Taken[j.order], i, j.next - 1) + CountOf(Current(j), i)
           /\ Wanted(j)[i] = Part(Taken[j.order], i, j.next - 1) + Begun(j, i)
<1> DEFINE list == Taken[j.order]
<1>1. list \in Seq(Reward) /\ Rewards(j) = list
  BY ListOf, Zenon DEF Midway
<1>2. j.next \in 1 .. Len(list) /\ j.next - 1 \in 0 .. Len(list)
  BY <1>1 DEF More, Midway
<1>3. Current(j) = list[j.next] /\ Current(j) \in Reward
  BY <1>1, <1>2 DEF Current
<1>4. Wanted(j)[i] = Part(list, i, j.next - 1) + Begun(j, i)
  BY Zenon DEF Wanted
<1>5. Current(j).count \in Int
  BY <1>3, Zenon DEF Reward
<1> HIDE DEF list
<1> QED
  BY <1>1, <1>2, <1>3, <1>4, <1>5, Parts, Zenon DEF list

\* The revocation goes on to the next reward: all of the one it is at has been
\* taken, or there is nothing left to take.
LEMMA RevokeOn ==
    ASSUME NEW j, NEW rs, Midway(j, rs), j.op = "revoke", RewardDone(j),
           NEW k, Passed(k, j), k.rows = j.rows
    PROVE  Balance(k, rs)
<1>0. /\ k.pc = "reward" /\ k.op = j.op /\ k.order = j.order /\ k.start = j.start
      /\ j.next \in Nat \ {0} /\ k.next - 1 = j.next
  BY DEF Passed, Midway
<1>1. Rewards(k) = Rewards(j) /\ k.next <= Len(Rewards(k)) + 1
  <2>1. Rewards(k) = Rewards(j) /\ Len(Rewards(j)) \in Nat
    BY <1>0, ListOf DEF Rewards, Midway
  <2>2. j.next <= Len(Rewards(j)) /\ k.next = j.next + 1
    BY Zenon DEF More, Midway, Passed
  <2> QED
    BY <1>0, <2>1, <2>2
<1>2. /\ Taking(j.rows, rs, j.start, Wanted(j)) /\ RowsOK(rs) /\ RowsOK(j.rows)
      /\ j.pc = "take" => j.left >= 0 /\ j.left <= Current(j).count /\ Current(j).count > 0
  BY Zenon DEF Balance, Midway
<1>3. ASSUME NEW i \in ItemTypes
      PROVE  /\ Wanted(j)[i] \in Int /\ Wanted(k)[i] \in Int
             /\ \/ Wanted(k)[i] = Wanted(j)[i]
                \/ Wanted(k)[i] >= Wanted(j)[i] /\ Revocable(j.rows, i, j.start) = {}
  <2> DEFINE p == Part(Taken[j.order], i, j.next - 1)
             r == Current(j)
  <2>1. /\ r.count \in Int /\ p \in Nat /\ Wanted(j)[i] = p + Begun(j, i)
        /\ Part(Taken[j.order], i, j.next) = p + CountOf(r, i)
    BY WantedOf, Zenon
  <2>2. Wanted(k)[i] = p + CountOf(r, i)
    BY <1>0, <2>1 DEF Wanted, Begun, CountOf
  <2>3. CASE j.pc = "reward" /\ r.count <= 0
    BY <2>1, <2>2, <2>3 DEF Begun, CountOf
  <2>4. CASE j.pc = "take" /\ r.item # i
    BY <2>1, <2>2, <2>4 DEF Begun, CountOf
  <2>5. CASE j.pc = "take" /\ r.item = i
    <3>1. CountOf(r, i) = r.count /\ Begun(j, i) = r.count - j.left /\ j.left >= 0
      BY <1>2, <2>5, Zenon DEF Begun, CountOf
    <3>2. j.left \in Int /\ (j.left <= 0 \/ Revocable(j.rows, i, j.start) = {})
      BY <2>5, Zenon DEF TakenEnough, RewardDone
    <3> HIDE DEF p, r
    <3> QED
      BY <2>1, <2>2, <3>1, <3>2
  <2> QED
    BY <2>3, <2>4, <2>5, Zenon DEF RewardDone
<1>4. Taking(k.rows, rs, k.start, Wanted(k))
  BY <1>0, <1>2, <1>3, WantMore, Zenon
<1> QED
  BY <1>0, <1>1, <1>4, Zenon DEF Balance

\* revokeItemInTx begins.
LEMMA RevokeBegins ==
    ASSUME NEW j, NEW rs, Midway(j, rs), j.op = "revoke", j.pc = "reward",
           Current(j).item # NoItem, Current(j).count > 0,
           NEW k, Within(k, j), k.rows = j.rows, k.left = Current(j).count
    PROVE  Balance(k, rs)
<1>0. /\ k.pc = "take" /\ k.next = j.next /\ k.op = j.op /\ k.order = j.order
      /\ k.start = j.start
  BY Zenon DEF Within
<1>1. Rewards(k) = Rewards(j) /\ Current(k) = Current(j)
  BY <1>0, Zenon DEF Rewards, Current
<1>2. Current(j) \in Reward
  BY CurrentReward, Zenon DEF Midway
<1>3. Current(j).item \in ItemTypes /\ Current(j).count \in Int
  BY <1>2, Zenon DEF Reward
<1>4. \A i : Begun(k, i) = Begun(j, i)
  BY <1>0, <1>1, <1>3 DEF Begun
<1>5. Wanted(k) = Wanted(j)
  BY <1>0, <1>4, Zenon DEF Wanted
<1> QED
  BY <1>0, <1>1, <1>3, <1>5 DEF Balance, Midway

\* revokeItemInTx charges row x, the first one, with n.
Takes(k, j, x, n) ==
    /\ j.op = "revoke" /\ j.pc = "take" /\ j.left \in Int /\ j.left > 0
    /\ x \in Earliest(j.rows, Revocable(j.rows, Current(j).item, j.start))
    /\ n = Deduction(j.rows[x], j.left)
    /\ k.left = j.left - n /\ k.rows = [j.rows EXCEPT ![x] = AddUsed(j.rows[x], n)]
    /\ Within(k, j)

\* One row is charged.
LEMMA RevokeTakesRow ==
    ASSUME NEW j, NEW rs, Midway(j, rs), NEW x, NEW n, NEW k, Takes(k, j, x, n)
    PROVE  Balance(k, rs)
<1> /\ k.pc = "take" /\ k.next = j.next /\ k.op = j.op /\ k.order = j.order
      /\ k.start = j.start /\ j.op = "revoke" /\ j.pc = "take"
  BY Zenon DEF Within, Takes
<1> Rewards(k) = Rewards(j) /\ Current(k) = Current(j)
  BY Zenon DEF Rewards, Current
<1> DEFINE r == Current(j)
<1> /\ Taking(j.rows, rs, j.start, Wanted(j)) /\ j.next <= Len(Rewards(j)) + 1
      /\ r.item \in ItemTypes /\ j.left <= r.count /\ r.count > 0
      /\ RowsOK(rs) /\ RowsOK(j.rows)
  BY Zenon DEF Balance, Midway
<1> HIDE DEF r
<1> Charge(k.rows, j.rows, x, n) /\ RowsOK(k.rows) /\ n <= j.left /\ n \in Nat
  <2>1. x \in RowIds /\ Available(j.rows[x]) > 0 /\ Available(j.rows[x]) \in Int
    <3>1. x \in RowIds /\ Available(j.rows[x]) > 0
      BY Zenon DEF Takes, Earliest, Revocable
    <3> QED
      BY <3>1, AvailableInt, Zenon
  <2>2. n \in Nat /\ n <= Available(j.rows[x]) /\ n <= j.left
    BY <2>1 DEF Takes, Deduction, LesserOf
  <2>3. RowsOK(k.rows)
    BY <2>1, TakeOK DEF Takes
  <2>4. k.rows[x] = AddUsed(j.rows[x], n) /\ \A id \in RowIds \ {x} : k.rows[id] = j.rows[id]
    BY <2>1, Zenon DEF RowsOK, Takes
  <2>5. SameButUsed(k.rows, j.rows)
    BY <2>4, RowFields DEF AddUsed, SameButUsed
  <2> QED
    BY <2>1, <2>2, <2>3, <2>4, <2>5, Zenon DEF Charge
<1> j.left \in Int /\ k.left = j.left - n /\ r.count \in Int
  BY WantedOf DEF Takes, r
<1>6. ASSUME NEW i \in ItemTypes
      PROVE  /\ Wanted(j)[i] \in Int
             /\ Wanted(k)[i] = IF i = r.item THEN Wanted(j)[i] + n ELSE Wanted(j)[i]
  <2>1. /\ Part(Taken[j.order], i, j.next - 1) \in Nat
        /\ Wanted(j)[i] = Part(Taken[j.order], i, j.next - 1) + Begun(j, i)
        /\ Wanted(k)[i] = Part(Taken[j.order], i, j.next - 1) + Begun(k, i)
    BY WantedOf DEF Wanted
  <2>2. /\ Begun(j, i) = IF i = r.item THEN r.count - j.left ELSE 0
        /\ Begun(k, i) = IF i = r.item THEN r.count - k.left ELSE 0
    BY Zenon DEF Begun, r
  <2> QED
    BY <2>1, <2>2
<1>7. WantNext(Wanted(k), Wanted(j), r.item, n)
  BY <1>6, Zenon DEF WantNext
<1>8. Taking(k.rows, rs, k.start, Wanted(k))
  <2>1. x \in Earliest(j.rows, Revocable(j.rows, r.item, j.start))
    BY Zenon DEF Takes, r
  <2> QED
    BY <1>7, <2>1, TakeMore, Zenon
<1>9. k.left >= 0 /\ k.left <= r.count
  OBVIOUS
<1> QED
  BY <1>8, <1>9, Zenon DEF Balance, r

\* A call that has gone through its list has done what the list says.
LEMMA WholeList ==
    ASSUME NEW j, CallOK(j), j.next \in Nat \ {0}, j.pc = "reward", ~More(j),
           NEW rs, Balance(j, rs)
    PROVE  Settled(j, rs)
<1> DEFINE list == Rewards(j)
<1>1. /\ list \in Seq(Reward) /\ (j.op # "revoke" => list = Given[j.order])
      /\ (j.op = "revoke" => list = Taken[j.order])
  BY ListOf, Zenon
<1>2. j.next - 1 = Len(list)
  <2>1. Len(list) \in Nat /\ ~(j.next <= Len(list)) /\ j.next <= Len(list) + 1
    BY <1>1 DEF More, Balance
  <2> QED
    BY <2>1
<1> HIDE DEF list
<1>3. \A i : Part(list, i, j.next - 1) = CountIn(list, i) /\ CountIn(list, i) \in Nat
  BY <1>1, <1>2, Parts
<1>4. ASSUME NEW i PROVE Part(list, i, j.next - 1) + Begun(j, i) = CountIn(list, i)
  BY <1>3 DEF Begun
<1>5. ASSUME j.op # "revoke", NEW i \in ItemTypes \ TimeItems
      PROVE  /\ HeldOf(j.rows, i) = HeldOf(rs, i) + CountIn(Given[j.order], i)
             /\ UsedOf(j.rows, i) = UsedOf(rs, i)
  BY <1>1, <1>3, <1>5, Zenon DEF Balance, GrantBalance
<1>6. ASSUME j.op = "revoke", NEW i \in ItemTypes
      PROVE  /\ LiveOf(rs, i, j.start) - LiveOf(j.rows, i, j.start)
                  = LesserOf(LiveOf(rs, i, j.start), CountIn(Taken[j.order], i))
             /\ UsedOf(j.rows, i) = UsedOf(rs, i)
                  + (LiveOf(rs, i, j.start) - LiveOf(j.rows, i, j.start))
  <2>1. Lost(j.rows, rs, j.start, Wanted(j)) /\ Wanted(j)[i] = CountIn(Taken[j.order], i)
    BY <1>1, <1>4, <1>6, Zenon DEF Balance, Taking, Wanted
  <2> QED
    BY <2>1, Zenon DEF Lost
<1> QED
  BY <1>5, <1>6, Zenon DEF Settled

\* What the lists L of the calls in S have of item i.
CallSum(S, L, i) == SumFunction([x \in S |-> CountIn(L[x], i)])

\* One more call is counted.
LEMMA OneMoreCall ==
    ASSUME NEW S, IsFiniteSet(S), NEW o, o \notin S, NEW L, NEW i,
           \A x \in S \cup {o} : L[x] \in Seq(Reward)
    PROVE  CallSum(S \cup {o}, L, i) = CallSum(S, L, i) + CountIn(L[o], i)
<1> DEFINE f == [x \in S |-> CountIn(L[x], i)]
           h == [x \in S \cup {o} |-> CountIn(L[x], i)]
<1>1. ASSUME NEW x \in S \cup {o} PROVE CountIn(L[x], i) \in Int
  <2>1. L[x] \in Seq(Reward) /\ Len(L[x]) \in 0 .. Len(L[x])
    OBVIOUS
  <2> QED
    BY <2>1, Parts
<1>2. /\ DOMAIN f = S /\ DOMAIN h = S \cup {o} /\ h[o] = CountIn(L[o], i)
      /\ \A x \in S : f[x] = CountIn(L[x], i) /\ h[x] = CountIn(L[x], i)
  BY Zenon
<1>3. h[o] \in Int /\ \A x \in S : f[x] \in Int /\ h[x] = f[x]
  BY <1>1, <1>2, Zenon
<1>4. SumFunction(h) = SumFunction(f) + h[o]
  <2> HIDE DEF f, h
  <2> QED
    BY <1>2, <1>3, SumExtend
<1> QED
  BY <1>2, <1>4, Zenon DEF CallSum

\* The sum over the calls is a number.
LEMMA CallsType ==
    ASSUME NEW S, IsFiniteSet(S), NEW L, NEW i, \A x \in S : L[x] \in Seq(Reward)
    PROVE  CallSum(S, L, i) \in Int
<1> DEFINE f == [x \in S |-> CountIn(L[x], i)]
<1>1. ASSUME NEW x \in S PROVE f[x] \in Int
  <2>1. L[x] \in Seq(Reward) /\ Len(L[x]) \in 0 .. Len(L[x])
    OBVIOUS
  <2> QED
    BY <2>1, Parts
<1>2. DOMAIN f = S
  BY Zenon
<1> HIDE DEF f
<1>3. SumFunctionOnSet(f, S) \in Int
  BY <1>1, SumType, Zenon
<1> QED
  BY <1>2, <1>3, Zenon DEF SumFunction, f, CallSum

=============================================================================
