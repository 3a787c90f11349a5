-------------------------------- MODULE SumLemmas --------------------------------
(***************************************************************************)
(* Facts about finite sums (SumFunctionOnSet and SumFunction of the        *)
(* community module Functions) that the proofs about room counts and       *)
(* payments rest on.  The library's induction theorems take a predicate as *)
(* a parameter; here the predicate is the set of the subsets for which it  *)
(* holds, which makes induction over a finite set a first-order fact.      *)
(***************************************************************************)
EXTENDS Integers, Functions, FiniteSets, FiniteSetTheorems, TLAPS

\* A nonempty set of subsets of a finite set has a minimal member.
LEMMA MinimalSubset ==
  ASSUME NEW S, IsFiniteSet(S), NEW B \in SUBSET SUBSET S, B # {}
  PROVE  \E T \in B : \A U \in B : ~ (U \subseteq T /\ U # T)
<1>1. IsWellFoundedOn(StrictSubsetOrdering(S), SUBSET S)
  BY FS_StrictSubsetOrderingWellFounded, FS_FiniteSubsetsOfFinite, Zenon
<1>2. B \subseteq SUBSET S
  OBVIOUS
<1>3. \E T \in B : \A U \in B : ~ (<<U, T>> \in StrictSubsetOrdering(S))
  BY <1>1, <1>2, WFMin
<1> QED
  BY <1>3 DEF StrictSubsetOrdering

\* What holds of a subset of a finite set S as soon as it holds of every strictly
\* smaller one holds of every subset of S.
LEMMA SubsetInduction ==
  ASSUME NEW S, IsFiniteSet(S), NEW G,
         \A T \in SUBSET S : (\A U \in SUBSET T : U # T => U \in G) => T \in G
  PROVE  \A T \in SUBSET S : T \in G
<1> DEFINE Bad == {T \in SUBSET S : T \notin G}
<1>1. SUFFICES ASSUME Bad # {} PROVE FALSE
  OBVIOUS
<1>2. PICK T \in Bad : \A U \in Bad : ~ (U \subseteq T /\ U # T)
  <2>1. Bad \in SUBSET SUBSET S
    OBVIOUS
  <2> HIDE DEF Bad
  <2> QED
    BY <1>1, <2>1, MinimalSubset
<1>3. \A U \in SUBSET T : U # T => U \in G
  BY <1>2
<1> QED
  BY <1>2, <1>3

--------------------------------------------------------------------------------
\* The summand the fold takes first, and its partial sums: g[s] is the sum over s.
Chosen(s) == CHOOSE x \in s : TRUE

IsPartialSums(g, w, T) ==
  g = [s \in SUBSET T |-> IF s = {} THEN 0 ELSE w[Chosen(s)] + g[s \ {Chosen(s)}]]

PartialSums(w, T) == CHOOSE g : IsPartialSums(g, w, T)

\* A member of a nonempty set is chosen.
LEMMA ChosenIn == \A s : s # {} => Chosen(s) \in s
  BY DEF Chosen

\* The library's definition is the last of the partial sums.
LEMMA SumIsPartialSums == \A w, T : SumFunctionOnSet(w, T) = PartialSums(w, T)[T]
  BY DEF SumFunctionOnSet, FoldFunctionOnSet, MapThenFoldSet, PartialSums, IsPartialSums, Chosen

\* The recursion, one level unfolded.
LEMMA PartialSumsAt ==
  ASSUME NEW g, NEW w, NEW T, IsPartialSums(g, w, T), NEW s \in SUBSET T
  PROVE  g[s] = IF s = {} THEN 0 ELSE w[Chosen(s)] + g[s \ {Chosen(s)}]
<1> DEFINE F == [u \in SUBSET T |-> IF u = {} THEN 0 ELSE w[Chosen(u)] + g[u \ {Chosen(u)}]]
<1>1. F[s] = IF s = {} THEN 0 ELSE w[Chosen(s)] + g[s \ {Chosen(s)}]
  OBVIOUS
<1>2. g = F
  BY DEF IsPartialSums
<1> HIDE DEF F
<1> QED
  BY <1>1, <1>2

\* There is at most one function of partial sums, whatever set it is defined up to.
LEMMA PartialSumsAgree ==
  ASSUME NEW S, IsFiniteSet(S), NEW w, NEW T, NEW U, S \subseteq T, S \subseteq U,
         NEW g, NEW h, IsPartialSums(g, w, T), IsPartialSums(h, w, U)
  PROVE  \A s \in SUBSET S : g[s] = h[s]
<1> DEFINE G == {s \in SUBSET S : g[s] = h[s]}
<1>1. ASSUME NEW s \in SUBSET S, \A u \in SUBSET s : u # s => u \in G PROVE s \in G
  <2>1. s \in SUBSET T /\ s \in SUBSET U
    OBVIOUS
  <2>2. /\ g[s] = IF s = {} THEN 0 ELSE w[Chosen(s)] + g[s \ {Chosen(s)}]
        /\ h[s] = IF s = {} THEN 0 ELSE w[Chosen(s)] + h[s \ {Chosen(s)}]
    BY <2>1, PartialSumsAt, Zenon
  <2>3. CASE s = {}
    BY <2>2, <2>3
  <2>4. CASE s # {}
    <3>1. s \ {Chosen(s)} \in SUBSET s /\ s \ {Chosen(s)} # s
      BY <2>4, ChosenIn
    <3>2. g[s \ {Chosen(s)}] = h[s \ {Chosen(s)}]
      BY <3>1, <1>1
    <3> QED
      BY <2>2, <2>4, <3>2
  <2> QED
    BY <2>3, <2>4
<1> HIDE DEF G
<1>2. \A s \in SUBSET S : s \in G
  BY <1>1, SubsetInduction, Zenon
<1> QED
  BY <1>2 DEF G

\* There is one for every finite set: a recursive function over the subsets of a
\* finite set is well defined.
LEMMA PartialSumsExist ==
  ASSUME NEW S, IsFiniteSet(S), NEW w
  PROVE  \A T \in SUBSET S : IsPartialSums(PartialSums(w, T), w, T)
<1> DEFINE G == {T \in SUBSET S : \E g : IsPartialSums(g, w, T)}
<1>1. ASSUME NEW T \in SUBSET S, \A U \in SUBSET T : U # T => U \in G PROVE T \in G
  <2> DEFINE rest(s) == s \ {Chosen(s)}
             g == [s \in SUBSET T |->
                     IF s = {} THEN 0 ELSE w[Chosen(s)] + PartialSums(w, rest(s))[rest(s)]]
  <2>1. ASSUME NEW U \in SUBSET T, U # T PROVE IsPartialSums(PartialSums(w, U), w, U)
    <3>1. \E h : IsPartialSums(h, w, U)
      BY <1>1, <2>1
    <3> QED
      BY <3>1 DEF PartialSums
  <2>2. ASSUME NEW s \in SUBSET T, s # {}
        PROVE  rest(s) \in SUBSET T /\ rest(s) # T /\ rest(s) # s
    BY <2>2, ChosenIn
  <2>3. ASSUME NEW u \in SUBSET T, u # T PROVE g[u] = PartialSums(w, u)[u]
    <3>1. PartialSums(w, u)[u] = IF u = {} THEN 0 ELSE w[Chosen(u)] + PartialSums(w, u)[rest(u)]
      BY <2>1, <2>3, PartialSumsAt, u \in SUBSET u, Zenon
    <3>2. CASE u = {}
      BY <3>1, <3>2
    <3>3. CASE u # {}
      <4>1. rest(u) \subseteq u /\ rest(u) \subseteq rest(u) /\ IsFiniteSet(rest(u))
        BY FS_Subset, T \in SUBSET S, u \in SUBSET T, rest(u) \in SUBSET S
      <4>2. IsPartialSums(PartialSums(w, u), w, u) /\ IsPartialSums(PartialSums(w, rest(u)), w, rest(u))
        BY <2>1, <2>2, <2>3, <3>3
      <4>3. rest(u) \in SUBSET rest(u)
        OBVIOUS
      <4>4. PartialSums(w, u)[rest(u)] = PartialSums(w, rest(u))[rest(u)]
        BY <4>1, <4>2, <4>3, PartialSumsAgree
      <4>5. g[u] = w[Chosen(u)] + PartialSums(w, rest(u))[rest(u)]
        BY <3>3
      <4> QED
        BY <3>1, <3>3, <4>4, <4>5
    <3> QED
      BY <3>2, <3>3
  <2>4. \A s \in SUBSET T : s # {} => g[rest(s)] = PartialSums(w, rest(s))[rest(s)]
    BY <2>2, <2>3
  <2>5. g = [s \in SUBSET T |-> IF s = {} THEN 0 ELSE w[Chosen(s)] + g[rest(s)]]
    BY <2>4
  <2> QED
    BY <2>5 DEF IsPartialSums
<1> HIDE DEF G
<1>2. \A T \in SUBSET S : T \in G
  BY <1>1, SubsetInduction, Zenon
<1> QED
  BY <1>2 DEF G, PartialSums

--------------------------------------------------------------------------------
\* Nothing adds up to zero.
LEMMA SumEmpty == \A w : SumFunctionOnSet(w, {}) = 0
<1> TAKE w
<1>1. IsPartialSums(PartialSums(w, {}), w, {})
  BY PartialSumsExist, FS_EmptySet
<1>2. {} \in SUBSET {}
  OBVIOUS
<1> QED
  BY <1>1, <1>2, PartialSumsAt, SumIsPartialSums

\* A sum is the chosen summand and the sum of the others.
LEMMA SumChosen ==
  ASSUME NEW w, NEW T, IsFiniteSet(T), T # {}
  PROVE  SumFunctionOnSet(w, T) = w[Chosen(T)] + SumFunctionOnSet(w, T \ {Chosen(T)})
<1> DEFINE R == T \ {Chosen(T)}
<1>1. R \in SUBSET T /\ T \in SUBSET T /\ R \subseteq R
  OBVIOUS
<1>2. IsPartialSums(PartialSums(w, T), w, T) /\ IsPartialSums(PartialSums(w, R), w, R)
  BY <1>1, PartialSumsExist, Zenon
<1>3. PartialSums(w, T)[T] = w[Chosen(T)] + PartialSums(w, T)[R]
  BY <1>1, <1>2, PartialSumsAt, T # {}
<1>4. IsFiniteSet(R) /\ R \in SUBSET R
  BY <1>1, FS_Subset
<1>5. PartialSums(w, T)[R] = PartialSums(w, R)[R]
  BY <1>1, <1>2, <1>4, PartialSumsAgree
<1> QED
  BY <1>3, <1>5, SumIsPartialSums

\* A sum of integers is an integer.
LEMMA SumType ==
  ASSUME NEW S, IsFiniteSet(S), NEW w, \A x \in S : w[x] \in Int
  PROVE  \A T \in SUBSET S : SumFunctionOnSet(w, T) \in Int
<1> DEFINE G == {T \in SUBSET S : SumFunctionOnSet(w, T) \in Int}
<1>1. ASSUME NEW T \in SUBSET S, \A U \in SUBSET T : U # T => U \in G PROVE T \in G
  <2>1. CASE T = {}
    BY <2>1, SumEmpty
  <2>2. CASE T # {}
    <3>1. Chosen(T) \in T /\ T \ {Chosen(T)} \in G
      BY <1>1, <2>2, ChosenIn
    <3>2. IsFiniteSet(T)
      BY FS_Subset
    <3> QED
      BY <2>2, <3>1, <3>2, SumChosen
  <2> QED
    BY <2>1, <2>2
<1> HIDE DEF G
<1>2. \A T \in SUBSET S : T \in G
  BY <1>1, SubsetInduction, Zenon
<1> QED
  BY <1>2 DEF G

\* A sum is any one of its summands and the sum of the others, so the order in
\* which summands are chosen does not matter.
LEMMA SumRemove ==
  ASSUME NEW S, IsFiniteSet(S), NEW w, \A x \in S : w[x] \in Int
  PROVE  \A T \in SUBSET S : \A x \in T :
           SumFunctionOnSet(w, T) = w[x] + SumFunctionOnSet(w, T \ {x})
<1> DEFINE Sum(T) == SumFunctionOnSet(w, T)
           G == {T \in SUBSET S : \A x \in T : Sum(T) = w[x] + Sum(T \ {x})}
<1>1. ASSUME NEW T \in SUBSET S, \A U \in SUBSET T : U # T => U \in G PROVE T \in G
  <2>1. SUFFICES ASSUME NEW x \in T PROVE Sum(T) = w[x] + Sum(T \ {x})
    OBVIOUS
  <2> DEFINE f == Chosen(T)
  <2>2. f \in T /\ IsFiniteSet(T) /\ T # {}
    BY <2>1, ChosenIn, FS_Subset
  <2>3. Sum(T) = w[f] + Sum(T \ {f})
    BY <2>2, SumChosen
  <2>4. CASE x = f
    BY <2>3, <2>4
  <2>5. CASE x # f
    <3>1. /\ T \ {f} \in G /\ x \in T \ {f}
          /\ T \ {x} \in G /\ f \in T \ {x}
      BY <1>1, <2>1, <2>2, <2>5
    <3>2. Sum(T \ {f}) = w[x] + Sum((T \ {f}) \ {x})
      BY <3>1
    <3>3. Sum(T \ {x}) = w[f] + Sum((T \ {x}) \ {f})
      BY <3>1
    <3>4. (T \ {f}) \ {x} = (T \ {x}) \ {f} /\ (T \ {x}) \ {f} \in SUBSET S
      OBVIOUS
    <3>5. w[x] \in Int /\ w[f] \in Int /\ Sum((T \ {x}) \ {f}) \in Int
      BY <2>2, <3>4, SumType
    <3>6. Sum(T \ {f}) = w[x] + Sum((T \ {x}) \ {f})
      BY <3>2, <3>4
    <3>7. Sum(T) = w[f] + (w[x] + Sum((T \ {x}) \ {f}))
      BY <2>3, <3>6
    <3>8. w[x] + Sum(T \ {x}) = w[x] + (w[f] + Sum((T \ {x}) \ {f}))
      BY <3>3
    <3>9. \A i, j, k \in Int : i + (j + k) = j + (i + k)
      OBVIOUS
    <3> QED
      BY <3>5, <3>7, <3>8, <3>9
  <2> QED
    BY <2>4, <2>5
<1> HIDE DEF G
<1>2. \A T \in SUBSET S : T \in G
  BY <1>1, SubsetInduction, Zenon
<1> QED
  BY <1>2 DEF G

\* Equal summands give equal sums.
LEMMA SumAgree ==
  ASSUME NEW S, IsFiniteSet(S), NEW w, NEW v, \A x \in S : v[x] = w[x]
  PROVE  SumFunctionOnSet(v, S) = SumFunctionOnSet(w, S)
<1> DEFINE G == {T \in SUBSET S : SumFunctionOnSet(v, T) = SumFunctionOnSet(w, T)}
<1>1. ASSUME NEW T \in SUBSET S, \A U \in SUBSET T : U # T => U \in G PROVE T \in G
  <2>1. CASE T = {}
    BY <2>1, SumEmpty
  <2>2. CASE T # {}
    <3>1. Chosen(T) \in T /\ T \ {Chosen(T)} \in G /\ IsFiniteSet(T)
      BY <1>1, <2>2, ChosenIn, FS_Subset
    <3>2. /\ SumFunctionOnSet(v, T) = v[Chosen(T)] + SumFunctionOnSet(v, T \ {Chosen(T)})
          /\ SumFunctionOnSet(w, T) = w[Chosen(T)] + SumFunctionOnSet(w, T \ {Chosen(T)})
      BY <2>2, <3>1, SumChosen
    <3> QED
      BY <3>1, <3>2
  <2> QED
    BY <2>1, <2>2
<1> HIDE DEF G
<1>2. \A T \in SUBSET S : T \in G
  BY <1>1, SubsetInduction, Zenon
<1> QED
  BY <1>2 DEF G

\* A sum of natural numbers is one.
LEMMA SumNonNegative ==
  ASSUME NEW S, IsFiniteSet(S), NEW w, \A x \in S : w[x] \in Nat
  PROVE  SumFunctionOnSet(w, S) \in Nat
<1> DEFINE G == {T \in SUBSET S : SumFunctionOnSet(w, T) \in Nat}
<1>1. ASSUME NEW T \in SUBSET S, \A U \in SUBSET T : U # T => U \in G PROVE T \in G
  <2>1. CASE T = {}
    BY <2>1, SumEmpty
  <2>2. CASE T # {}
    <3>1. Chosen(T) \in T /\ T \ {Chosen(T)} \in G /\ IsFiniteSet(T)
      BY <1>1, <2>2, ChosenIn, FS_Subset
    <3> QED
      BY <2>2, <3>1, SumChosen
  <2> QED
    BY <2>1, <2>2
<1> HIDE DEF G
<1>2. \A T \in SUBSET S : T \in G
  BY <1>1, SubsetInduction, Zenon
<1> QED
  BY <1>2 DEF G

\* Sums over whole domains: natural summands ...
LEMMA SumFunctionType ==
  ASSUME NEW S, IsFiniteSet(S), NEW w, DOMAIN w = S, \A y \in S : w[y] \in Nat
  PROVE  SumFunction(w) \in Nat
BY SumNonNegative DEF SumFunction

\* ... and one summand more.
LEMMA SumFunctionAdded ==
  ASSUME NEW S, IsFiniteSet(S), NEW x, x \notin S,
         NEW v, DOMAIN v = S \cup {x}, NEW w, DOMAIN w = S,
         v[x] \in Int, \A y \in S : w[y] \in Int /\ v[y] = w[y]
  PROVE  SumFunction(v) = v[x] + SumFunction(w)
<1> DEFINE T == S \cup {x}
<1>1. IsFiniteSet(T) /\ \A y \in T : v[y] \in Int
  BY FS_AddElement
<1>2. SumFunctionOnSet(v, T) = v[x] + SumFunctionOnSet(v, T \ {x})
  <2>1. T \in SUBSET T /\ x \in T
    OBVIOUS
  <2> HIDE DEF T
  <2> QED
    BY <1>1, <2>1, SumRemove
<1>3. T \ {x} = S
  OBVIOUS
<1>4. SumFunctionOnSet(v, S) = SumFunctionOnSet(w, S)
  BY SumAgree
<1> QED
  BY <1>2, <1>3, <1>4 DEF SumFunction
--------------------------------------------------------------------------------
\* Smaller summands give a smaller sum.
LEMMA SumMonotone ==
  ASSUME NEW S, IsFiniteSet(S), NEW v, NEW w,
         \A x \in S : v[x] \in Int /\ w[x] \in Int /\ v[x] <= w[x]
  PROVE  SumFunctionOnSet(v, S) <= SumFunctionOnSet(w, S)
<1> DEFINE G == {T \in SUBSET S : SumFunctionOnSet(v, T) <= SumFunctionOnSet(w, T)}
<1>1. ASSUME NEW T \in SUBSET S, \A U \in SUBSET T : U # T => U \in G PROVE T \in G
  <2>1. CASE T = {}
    BY <2>1, SumEmpty
  <2>2. CASE T # {}
    <3> DEFINE x == Chosen(T)  R == T \ {x}
    <3>1. x \in T /\ R \in G /\ R \in SUBSET S /\ IsFiniteSet(T)
      BY <1>1, <2>2, ChosenIn, FS_Subset
    <3>2. /\ SumFunctionOnSet(v, T) = v[x] + SumFunctionOnSet(v, R)
          /\ SumFunctionOnSet(w, T) = w[x] + SumFunctionOnSet(w, R)
      BY <2>2, <3>1, SumChosen
    <3>3. SumFunctionOnSet(v, R) \in Int /\ SumFunctionOnSet(w, R) \in Int
      BY <3>1, SumType
    <3> QED
      BY <3>1, <3>2, <3>3
  <2> QED
    BY <2>1, <2>2
<1> HIDE DEF G
<1>2. \A T \in SUBSET S : T \in G
  BY <1>1, SubsetInduction, Zenon
<1> QED
  BY <1>2 DEF G

\* The sum of sums.
LEMMA SumPlus ==
  ASSUME NEW S, IsFiniteSet(S), NEW u, NEW v, NEW w,
         \A x \in S : v[x] \in Int /\ w[x] \in Int /\ u[x] = v[x] + w[x]
  PROVE  SumFunctionOnSet(u, S) = SumFunctionOnSet(v, S) + SumFunctionOnSet(w, S)
<1> DEFINE G == {T \in SUBSET S :
                   SumFunctionOnSet(u, T) = SumFunctionOnSet(v, T) + SumFunctionOnSet(w, T)}
<1>1. ASSUME NEW T \in SUBSET S, \A U \in SUBSET T : U # T => U \in G PROVE T \in G
  <2>1. CASE T = {}
    BY <2>1, SumEmpty
  <2>2. CASE T # {}
    <3> DEFINE x == Chosen(T)  R == T \ {x}
    <3>1. x \in T /\ R \in G /\ R \in SUBSET S /\ IsFiniteSet(T)
      BY <1>1, <2>2, ChosenIn, FS_Subset
    <3>2. /\ SumFunctionOnSet(u, T) = u[x] + SumFunctionOnSet(u, R)
          /\ SumFunctionOnSet(v, T) = v[x] + SumFunctionOnSet(v, R)
          /\ SumFunctionOnSet(w, T) = w[x] + SumFunctionOnSet(w, R)
      BY <2>2, <3>1, SumChosen
    <3>3. SumFunctionOnSet(v, R) \in Int /\ SumFunctionOnSet(w, R) \in Int
      BY <3>1, SumType
    <3> QED
      BY <3>1, <3>2, <3>3
  <2> QED
    BY <2>1, <2>2
<1> HIDE DEF G
<1>2. \A T \in SUBSET S : T \in G
  BY <1>1, SubsetInduction, Zenon
<1> QED
  BY <1>2 DEF G

\* Summands that are zero may be left out.
LEMMA SumNonZero ==
  ASSUME NEW S, IsFiniteSet(S), NEW w, \A x \in S : w[x] \in Int,
         NEW Z \in SUBSET S, \A x \in Z : w[x] = 0
  PROVE  SumFunctionOnSet(w, S) = SumFunctionOnSet(w, S \ Z)
<1> DEFINE G == {Y \in SUBSET Z : SumFunctionOnSet(w, S) = SumFunctionOnSet(w, S \ Y)}
<1>1. ASSUME NEW T \in SUBSET Z, \A U \in SUBSET T : U # T => U \in G PROVE T \in G
  <2>1. CASE T = {}
    <3>1. S \ T = S
      BY <2>1
    <3> QED
      BY <3>1
  <2>2. CASE T # {}
    <3> DEFINE x == Chosen(T)  R == T \ {x}
    <3>1. x \in T /\ x \in Z /\ R \in G /\ w[x] = 0
      BY <1>1, <2>2, ChosenIn
    <3>2. S \ R \in SUBSET S /\ x \in S \ R /\ (S \ R) \ {x} = S \ T
      BY <3>1
    <3>3. SumFunctionOnSet(w, S \ R) = w[x] + SumFunctionOnSet(w, S \ T)
      BY <3>2, SumRemove
    <3>4. SumFunctionOnSet(w, S \ T) \in Int
      BY SumType, S \ T \in SUBSET S
    <3> QED
      BY <3>1, <3>3, <3>4
  <2> QED
    BY <2>1, <2>2
<1>2. IsFiniteSet(Z)
  BY FS_Subset
<1> HIDE DEF G
<1>3. \A T \in SUBSET Z : T \in G
  BY <1>1, <1>2, SubsetInduction, Zenon
<1>4. Z \in G
  BY <1>3
<1> QED
  BY <1>4 DEF G

\* A finite set of integers has a least member and a greatest one.
LEMMA Bounds ==
  ASSUME NEW S \in SUBSET Int, IsFiniteSet(S), S # {}
  PROVE  /\ \E x \in S : \A y \in S : x <= y
         /\ \E x \in S : \A y \in S : x >= y
<1> DEFINE Least(T) == \E x \in T : \A y \in T : x <= y
           Greatest(T) == \E x \in T : \A y \in T : x >= y
           G == {T \in SUBSET S : T # {} => Least(T) /\ Greatest(T)}
<1>1. ASSUME NEW T \in SUBSET S, \A U \in SUBSET T : U # T => U \in G PROVE T \in G
  <2>1. SUFFICES ASSUME T # {} PROVE Least(T) /\ Greatest(T)
    OBVIOUS
  <2>2. PICK z \in T : TRUE
    BY <2>1
  <2> DEFINE R == T \ {z}
  <2>3. CASE R = {}
    BY <2>2, <2>3
  <2>4. CASE R # {}
    <3>1. Least(R) /\ Greatest(R)
      BY <1>1, <2>4
    <3>2. PICK x \in R : \A y \in R : x <= y
      BY <3>1
    <3>3. PICK w \in R : \A y \in R : w >= y
      BY <3>1
    <3>4. Least(T)
      <4>1. CASE x <= z
        BY <3>2, <4>1
      <4>2. CASE ~ (x <= z)
        BY <3>2, <4>2, \A y \in T : y = z \/ y \in R
      <4> QED
        BY <4>1, <4>2
    <3>5. Greatest(T)
      <4>1. CASE w >= z
        BY <3>3, <4>1
      <4>2. CASE ~ (w >= z)
        BY <3>3, <4>2, \A y \in T : y = z \/ y \in R
      <4> QED
        BY <4>1, <4>2
    <3> QED
      BY <3>4, <3>5
  <2> QED
    BY <2>3, <2>4
<1> HIDE DEF G
<1>2. \A T \in SUBSET S : T \in G
  BY <1>1, SubsetInduction, Zenon
<1>3. S \in G
  BY <1>2
<1> QED
  BY <1>3 DEF G

\* What the parts of a whole can hold together can be divided among them.
LEMMA SumDivides ==
  ASSUME NEW S, IsFiniteSet(S), NEW room, \A x \in S : room[x] \in Nat,
         NEW n \in Nat, n <= SumFunctionOnSet(room, S)
  PROVE  \E w \in [S -> Nat] : /\ \A x \in S : w[x] <= room[x]
                               /\ SumFunctionOnSet(w, S) = n
<1> DEFINE Fits(T, m, w) == /\ \A x \in T : w[x] <= room[x]
                            /\ SumFunctionOnSet(w, T) = m
           G == {T \in SUBSET S : \A m \in Nat : m <= SumFunctionOnSet(room, T) =>
                                    \E w \in [T -> Nat] : Fits(T, m, w)}
<1>1. ASSUME NEW T \in SUBSET S, \A U \in SUBSET T : U # T => U \in G PROVE T \in G
  <2>1. SUFFICES ASSUME NEW m \in Nat, m <= SumFunctionOnSet(room, T)
                 PROVE  \E w \in [T -> Nat] : Fits(T, m, w)
    OBVIOUS
  <2>2. CASE T = {}
    <3>1. m = 0
      BY <2>1, <2>2, SumEmpty
    <3>2. Fits(T, m, [x \in T |-> 0])
      BY <2>2, <3>1, SumEmpty
    <3> QED
      BY <3>2
  <2>3. CASE T # {}
    <3> DEFINE x == Chosen(T)
               R == T \ {x}
               k == IF m <= room[x] THEN m ELSE room[x]
    <3>1. x \in T /\ R \in G /\ R \in SUBSET S /\ IsFiniteSet(T) /\ IsFiniteSet(R) /\ x \notin R
      BY <1>1, <2>3, ChosenIn, FS_Subset
    <3>2. SumFunctionOnSet(room, T) = room[x] + SumFunctionOnSet(room, R)
      BY <2>3, <3>1, SumChosen
    <3>3. room[x] \in Nat /\ SumFunctionOnSet(room, R) \in Nat
      BY <3>1, SumNonNegative
    <3>4. k \in Nat /\ m - k \in Nat /\ m - k <= SumFunctionOnSet(room, R) /\ k <= room[x]
      BY <2>1, <3>2, <3>3
    <3>5. PICK u \in [R -> Nat] : Fits(R, m - k, u)
      BY <3>1, <3>4
    <3> DEFINE w == [y \in T |-> IF y = x THEN k ELSE u[y]]
    <3> HIDE DEF k, x
    <3>6. w \in [T -> Nat] /\ \A y \in T : w[y] <= room[y]
      BY <3>4, <3>5
    <3>7. /\ w[x] = k
          /\ \A y \in R : w[y] = u[y] /\ w[y] \in Nat
      BY <3>1, <3>5
    <3> HIDE DEF w
    <3>8. SumFunctionOnSet(w, R) = m - k
      <4>1. SumFunctionOnSet(w, R) = SumFunctionOnSet(u, R)
        BY <3>1, <3>7, SumAgree
      <4> QED
        BY <4>1, <3>5
    <3>9. SumFunctionOnSet(w, T) = w[x] + SumFunctionOnSet(w, R)
      BY <2>3, <3>1, SumChosen DEF x
    <3>10. SumFunctionOnSet(w, T) = m
      BY <3>4, <3>7, <3>8, <3>9
    <3>11. Fits(T, m, w)
      BY <3>6, <3>10
    <3> QED
      BY <3>6, <3>11
  <2> QED
    BY <2>2, <2>3
<1> HIDE DEF G
<1>2. \A T \in SUBSET S : T \in G
  BY <1>1, SubsetInduction, Zenon
<1>3. S \in G
  BY <1>2
<1> QED
  BY <1>3 DEF G
================================================================================
