----------------------------- MODULE SumTheorems -----------------------------
(***************************************************************************)
(* Facts about SumFunction, the sum of the values of a function, on finite *)
(* domains: what one more, one less or one changed argument does to it.    *)
(* The library defines it by recursion over an arbitrary choice of         *)
(* arguments, so each fact rests on an induction; here the predicate of an *)
(* induction is a set, whose membership the provers can unfold.            *)
(***************************************************************************)
EXTENDS Integers, FiniteSets, Functions, FiniteSetTheorems, WellFoundedInduction, TLAPS

\* The recursion that SumFunction(f) unfolds to: partial sums over subsets.
Pick(s) == CHOOSE x \in s : TRUE
Partial(f, s, g) == IF s = {} THEN 0 ELSE f[Pick(s)] + g[s \ {Pick(s)}]
PartialSums(f) == CHOOSE g : g = [s \in SUBSET DOMAIN f |-> Partial(f, s, g)]

\* f without the argument x, and f with the value v there.
Without(f, x) == [y \in DOMAIN f \ {x} |-> f[y]]
With(f, x, v) == [y \in DOMAIN f \cup {x} |-> IF y = x THEN v ELSE f[y]]

\* A function of numbers with finitely many arguments.
Summable(f) == IsFiniteSet(DOMAIN f) /\ f \in [DOMAIN f -> Nat]

-----------------------------------------------------------------------------
(* A set of numbers has a least one.                                       *)
LEMMA LeastNat ==
    ASSUME NEW T, T \subseteq Nat, T # {}
    PROVE  \E n \in T : \A m \in T : n <= m
<1>1. PICK n \in T : \A m \in T : <<m, n>> \notin OpToRel(<, Nat)
  BY NatLessThanWellFounded, WFMin
<1>2. ASSUME NEW m \in T PROVE n <= m
  <2>1. m \in Nat /\ n \in Nat
    OBVIOUS
  <2>2. ~ (m < n)
    BY <1>1, <2>1 DEF OpToRel
  <2> QED
    BY <2>1, <2>2
<1> QED
  BY <1>2

(* Induction over the numbers for membership in a set.                     *)
LEMMA SetInduction ==
    ASSUME NEW G, 0 \in G, \A n \in Nat : n \in G => n + 1 \in G
    PROVE  \A n \in Nat : n \in G
<1> DEFINE T == Nat \ G
<1>1. SUFFICES ASSUME T # {} PROVE FALSE
  OBVIOUS
<1>2. PICK n \in T : \A m \in T : n <= m
  BY <1>1, LeastNat
<1>3. n \in Nat /\ n # 0 /\ n - 1 \in Nat /\ n - 1 < n
  BY <1>2
<1>4. n - 1 \in G
  BY <1>2, <1>3
<1>5. (n - 1) + 1 \in G
  BY <1>3, <1>4
<1> QED
  BY <1>2, <1>3, <1>5

-----------------------------------------------------------------------------
LEMMA PickMember == ASSUME NEW s, s # {} PROVE Pick(s) \in s
  BY DEF Pick

(* A non-empty finite set without the element picked is one smaller.       *)
LEMMA PickSmaller ==
    ASSUME NEW s, IsFiniteSet(s), s # {}
    PROVE  /\ Cardinality(s) \in Nat
           /\ IsFiniteSet(s \ {Pick(s)})
           /\ Cardinality(s \ {Pick(s)}) \in Nat
           /\ Cardinality(s) = Cardinality(s \ {Pick(s)}) + 1
<1>1. Pick(s) \in s
  BY PickMember
<1>2. IsFiniteSet(s \ {Pick(s)}) /\ Cardinality(s \ {Pick(s)}) = Cardinality(s) - 1
  BY <1>1, FS_RemoveElement
<1> QED
  BY <1>2, FS_CardinalityType

LEMMA SumUnfolds ==
    ASSUME NEW f PROVE SumFunction(f) = PartialSums(f)[DOMAIN f]
  BY DEF SumFunction, SumFunctionOnSet, FoldFunctionOnSet, MapThenFoldSet,
         PartialSums, Partial, Pick

(* Partial sums over a finite domain exist: those over at most n arguments *)
(* do, for every n.                                                        *)
LEMMA PartialSumsExist ==
    ASSUME NEW f, IsFiniteSet(DOMAIN f)
    PROVE  \A s \in SUBSET DOMAIN f : PartialSums(f)[s] = Partial(f, s, PartialSums(f))
<1> DEFINE D == DOMAIN f
           Upto(n, g) == \A s \in SUBSET D : Cardinality(s) <= n => g[s] = Partial(f, s, g)
           G == {n \in Nat : \E g : DOMAIN g = SUBSET D /\ Upto(n, g)}
<1>0. \A s \in SUBSET D : IsFiniteSet(s) /\ Cardinality(s) \in Nat
                          /\ (Cardinality(s) <= 0 <=> s = {})
  BY FS_Subset, FS_CardinalityType, FS_EmptySet
<1>1. 0 \in G
  <2> DEFINE g == [s \in SUBSET D |-> 0]
  <2>1. DOMAIN g = SUBSET D
    OBVIOUS
  <2>2. Upto(0, g)
    BY <1>0 DEF Partial
  <2> QED
    BY <2>1, <2>2
<1>2. ASSUME NEW n \in Nat, n \in G PROVE n + 1 \in G
  <2>1. PICK g : DOMAIN g = SUBSET D /\ Upto(n, g)
    BY <1>2
  <2> DEFINE h == [s \in SUBSET D |-> IF Cardinality(s) = n + 1 THEN Partial(f, s, g) ELSE g[s]]
  <2>2. ASSUME NEW s \in SUBSET D, Cardinality(s) <= n + 1
        PROVE  h[s] = Partial(f, s, h)
    <3>1. CASE s = {}
      <4>1. Cardinality(s) = 0
        BY <3>1, FS_EmptySet
      <4>2. h[s] = g[s] /\ Cardinality(s) <= n
        BY <4>1
      <4> QED
        BY <2>1, <3>1, <4>2 DEF Partial
    <3>2. CASE s # {}
      <4> DEFINE r == s \ {Pick(s)}
      <4>1. r \in SUBSET D /\ Cardinality(r) \in Nat /\ Cardinality(s) = Cardinality(r) + 1
        BY <1>0, <3>2, PickSmaller
      <4>2. h[r] = g[r]
        BY <4>1, <2>2
      <4>3. Partial(f, s, h) = Partial(f, s, g)
        BY <3>2, <4>2 DEF Partial
      <4>4. CASE Cardinality(s) = n + 1
        BY <4>3, <4>4
      <4>5. CASE Cardinality(s) # n + 1
        <5>1. Cardinality(s) <= n
          BY <4>1, <4>5, <2>2
        <5> QED
          BY <2>1, <4>3, <4>5, <5>1
      <4> QED
        BY <4>4, <4>5
    <3> QED
      BY <3>1, <3>2
  <2>3. DOMAIN h = SUBSET D /\ Upto(n + 1, h)
    BY <2>2
  <2> QED
    <3> HIDE DEF h
    <3> QED
      BY <2>3
<1>3. Cardinality(D) \in Nat
  BY FS_CardinalityType
<1>4. Cardinality(D) \in G
  <2> HIDE DEF G
  <2> QED
    BY <1>1, <1>2, <1>3, SetInduction
<1>5. PICK g : DOMAIN g = SUBSET D /\ Upto(Cardinality(D), g)
  BY <1>4
<1> DEFINE h == [s \in SUBSET D |-> g[s]]
<1>6. ASSUME NEW s \in SUBSET D PROVE h[s] = Partial(f, s, h)
  <2>1. Cardinality(s) <= Cardinality(D)
    BY FS_Subset
  <2>2. g[s] = Partial(f, s, g)
    BY <1>5, <2>1
  <2> QED
    BY <2>2 DEF Partial
<1>7. h = [s \in SUBSET D |-> Partial(f, s, h)]
  <2> SUFFICES \A s \in SUBSET D : h[s] = Partial(f, s, h)
    OBVIOUS
  <2> QED
    BY <1>6
<1>8. PartialSums(f) = [s \in SUBSET D |-> Partial(f, s, PartialSums(f))]
  <2> HIDE DEF h
  <2> QED
    BY <1>7 DEF PartialSums
<1> QED
  <2> DEFINE q == PartialSums(f)
  <2>1. q = [s \in SUBSET D |-> Partial(f, s, q)]
    BY <1>8
  <2> HIDE DEF q
  <2>2. \A s \in SUBSET D : q[s] = Partial(f, s, q)
    BY <2>1
  <2> QED
    BY <2>2 DEF q

-----------------------------------------------------------------------------
(* Partial sums are numbers.                                               *)
LEMMA PartialSumsType ==
    ASSUME NEW f, Summable(f)
    PROVE  \A s \in SUBSET DOMAIN f : PartialSums(f)[s] \in Nat
<1> DEFINE D == DOMAIN f
           q == PartialSums(f)
           G == {n \in Nat : \A s \in SUBSET D : Cardinality(s) = n => q[s] \in Nat}
<1>0. \A s \in SUBSET D : IsFiniteSet(s) /\ Cardinality(s) \in Nat
                          /\ (Cardinality(s) = 0 <=> s = {})
  BY FS_Subset, FS_CardinalityType, FS_EmptySet DEF Summable
<1>e. \A s \in SUBSET D : q[s] = Partial(f, s, q)
  BY PartialSumsExist DEF Summable
<1> HIDE DEF q
<1>1. 0 \in G
  BY <1>0, <1>e DEF Partial
<1>2. ASSUME NEW n \in Nat, n \in G PROVE n + 1 \in G
  <2>1. ASSUME NEW s \in SUBSET D, Cardinality(s) = n + 1 PROVE q[s] \in Nat
    <3>1. s # {}
      BY <2>1, <1>0
    <3> DEFINE r == s \ {Pick(s)}
    <3>2. r \in SUBSET D /\ Cardinality(r) = n /\ Pick(s) \in D
      BY <1>0, <2>1, <3>1, PickSmaller, PickMember
    <3>3. q[r] \in Nat /\ f[Pick(s)] \in Nat
      BY <1>2, <3>2 DEF Summable
    <3> QED
      BY <1>e, <3>1, <3>3 DEF Partial
  <2> QED
    BY <2>1
<1> HIDE DEF G
<1>3. \A n \in Nat : n \in G
  BY <1>1, <1>2, SetInduction
<1> QED
  BY <1>0, <1>3 DEF G, q

(* The order of the sum does not matter: any argument may be added last.   *)
LEMMA PartialSumsAny ==
    ASSUME NEW f, Summable(f)
    PROVE  \A s \in SUBSET DOMAIN f : \A x \in s :
              PartialSums(f)[s] = f[x] + PartialSums(f)[s \ {x}]
<1> DEFINE D == DOMAIN f
           q == PartialSums(f)
           Splits(s) == \A x \in s : q[s] = f[x] + q[s \ {x}]
           G == {n \in Nat : \A s \in SUBSET D : Cardinality(s) = n => Splits(s)}
<1>0. \A s \in SUBSET D : IsFiniteSet(s) /\ Cardinality(s) \in Nat
                          /\ (Cardinality(s) = 0 <=> s = {})
  BY FS_Subset, FS_CardinalityType, FS_EmptySet DEF Summable
<1>t. \A s \in SUBSET D : q[s] \in Nat
  BY PartialSumsType
<1>e. \A s \in SUBSET D : s # {} => q[s] = f[Pick(s)] + q[s \ {Pick(s)}]
  BY PartialSumsExist DEF Summable, Partial
<1> HIDE DEF q
<1>1. 0 \in G
  BY <1>0
<1>2. ASSUME NEW n \in Nat, n \in G PROVE n + 1 \in G
  <2>1. ASSUME NEW s \in SUBSET D, Cardinality(s) = n + 1, NEW x \in s
        PROVE  q[s] = f[x] + q[s \ {x}]
    <3> DEFINE c == Pick(s)
               r == s \ {c}
    <3>1. c \in s /\ q[s] = f[c] + q[r]
      BY <1>e, PickMember
    <3> HIDE DEF c
    <3>2. CASE x = c
      BY <3>1, <3>2
    <3>3. CASE x # c
      <4>1. Cardinality(r) = n /\ Cardinality(s \ {x}) = n
        BY <1>0, <2>1, <3>1, FS_RemoveElement
      <4>2. q[r] = f[x] + q[r \ {x}]
        BY <1>2, <3>3, <4>1
      <4>3. q[s \ {x}] = f[c] + q[(s \ {x}) \ {c}]
        BY <1>2, <3>1, <3>3, <4>1
      <4>4. q[(s \ {x}) \ {c}] = q[r \ {x}]
        <5>1. (s \ {x}) \ {c} = r \ {x}
          OBVIOUS
        <5> QED
          BY <5>1
      <4>5. q[r \ {x}] \in Nat /\ f[x] \in Nat /\ f[c] \in Nat
        BY <1>t, <3>1 DEF Summable
      <4> HIDE DEF r, D, G
      <4> QED
        BY <3>1, <4>2, <4>3, <4>4, <4>5
    <3> QED
      BY <3>2, <3>3
  <2> QED
    BY <2>1
<1> HIDE DEF G
<1>3. \A n \in Nat : n \in G
  BY <1>1, <1>2, SetInduction
<1> QED
  BY <1>0, <1>3 DEF G, q

(* Functions that agree on a set have the same partial sum over it.        *)
LEMMA PartialSumsAgree ==
    ASSUME NEW f, Summable(f), NEW g, Summable(g),
           NEW S, S \subseteq DOMAIN f, S \subseteq DOMAIN g, \A x \in S : f[x] = g[x]
    PROVE  PartialSums(f)[S] = PartialSums(g)[S]
<1> DEFINE q == PartialSums(f)
           h == PartialSums(g)
           G == {n \in Nat : \A s \in SUBSET S : Cardinality(s) = n => q[s] = h[s]}
<1>s. IsFiniteSet(S)
  BY FS_Subset DEF Summable
<1>0. \A s \in SUBSET S : IsFiniteSet(s) /\ Cardinality(s) \in Nat
                          /\ (Cardinality(s) = 0 <=> s = {})
  BY <1>s, FS_Subset, FS_CardinalityType, FS_EmptySet
<1>e. \A s \in SUBSET S : q[s] = Partial(f, s, q) /\ h[s] = Partial(g, s, h)
  <2>1. \A s \in SUBSET DOMAIN f : q[s] = Partial(f, s, q)
    BY PartialSumsExist DEF Summable
  <2>2. \A s \in SUBSET DOMAIN g : h[s] = Partial(g, s, h)
    BY PartialSumsExist DEF Summable
  <2> HIDE DEF q, h
  <2> QED
    BY <2>1, <2>2
<1> HIDE DEF q, h
<1>1. 0 \in G
  BY <1>0, <1>e DEF Partial
<1>2. ASSUME NEW n \in Nat, n \in G PROVE n + 1 \in G
  <2>1. ASSUME NEW s \in SUBSET S, Cardinality(s) = n + 1 PROVE q[s] = h[s]
    <3>1. s # {}
      BY <2>1, <1>0
    <3> DEFINE c == Pick(s)
               r == s \ {c}
    <3>2. r \in SUBSET S /\ Cardinality(r) = n /\ c \in S
      BY <1>0, <2>1, <3>1, PickSmaller, PickMember
    <3>3. q[r] = h[r] /\ f[c] = g[c]
      BY <1>2, <3>2
    <3> QED
      BY <1>e, <3>1, <3>3 DEF Partial
  <2> QED
    BY <2>1
<1> HIDE DEF G
<1>3. \A n \in Nat : n \in G
  BY <1>1, <1>2, SetInduction
<1> QED
  BY <1>0, <1>3 DEF G, q, h

(* A sum over fewer arguments is no larger.                                *)
LEMMA PartialSumsGrow ==
    ASSUME NEW f, Summable(f)
    PROVE  \A s \in SUBSET DOMAIN f : \A r \in SUBSET s : PartialSums(f)[r] <= PartialSums(f)[s]
<1> DEFINE D == DOMAIN f
           q == PartialSums(f)
           G == {n \in Nat : \A s \in SUBSET D : Cardinality(s) = n =>
                                \A r \in SUBSET s : q[r] <= q[s]}
<1>0. \A s \in SUBSET D : IsFiniteSet(s) /\ Cardinality(s) \in Nat
                          /\ (Cardinality(s) = 0 <=> s = {})
  BY FS_Subset, FS_CardinalityType, FS_EmptySet DEF Summable
<1>t. \A s \in SUBSET D : q[s] \in Nat
  BY PartialSumsType
<1>a. \A s \in SUBSET D : \A x \in s : q[s] = f[x] + q[s \ {x}]
  BY PartialSumsAny
<1> HIDE DEF q
<1>1. 0 \in G
  <2>1. ASSUME NEW s \in SUBSET D, Cardinality(s) = 0, NEW r \in SUBSET s
        PROVE  q[r] <= q[s]
    <3>1. r = s
      BY <1>0, <2>1
    <3>2. q[s] \in Nat
      BY <1>t
    <3> QED
      BY <3>1, <3>2
  <2> QED
    BY <2>1
<1>2. ASSUME NEW n \in Nat, n \in G PROVE n + 1 \in G
  <2>1. ASSUME NEW s \in SUBSET D, Cardinality(s) = n + 1, NEW r \in SUBSET s
        PROVE  q[r] <= q[s]
    <3>1. CASE r = s
      BY <1>t, <3>1
    <3>2. CASE r # s
      <4>1. PICK x \in s : x \notin r
        BY <3>2
      <4>2. Cardinality(s \ {x}) = n
        BY <1>0, <2>1, FS_RemoveElement
      <4>3. q[r] <= q[s \ {x}]
        BY <1>2, <4>1, <4>2
      <4>4. q[r] \in Nat /\ q[s \ {x}] \in Nat /\ f[x] \in Nat
        BY <1>t DEF Summable
      <4>5. q[s] = f[x] + q[s \ {x}]
        BY <1>a
      <4> QED
        BY <4>3, <4>4, <4>5
    <3> QED
      BY <3>1, <3>2
  <2> QED
    BY <2>1
<1> HIDE DEF G
<1>3. \A n \in Nat : n \in G
  BY <1>1, <1>2, SetInduction
<1> QED
  BY <1>0, <1>3 DEF G, q

(* A sum over two disjoint sets is the sum of two sums.                    *)
LEMMA PartialSumsSplit ==
    ASSUME NEW f, Summable(f), NEW S, NEW R, S \cup R \subseteq DOMAIN f, S \cap R = {}
    PROVE  PartialSums(f)[S \cup R] = PartialSums(f)[S] + PartialSums(f)[R]
<1> DEFINE q == PartialSums(f)
           G == {n \in Nat : \A r \in SUBSET R : Cardinality(r) = n => q[S \cup r] = q[S] + q[r]}
<1>s. IsFiniteSet(R)
  BY FS_Subset DEF Summable
<1>0. \A r \in SUBSET R : IsFiniteSet(r) /\ Cardinality(r) \in Nat
                          /\ (Cardinality(r) = 0 <=> r = {})
  BY <1>s, FS_Subset, FS_CardinalityType, FS_EmptySet
<1>t. \A s \in SUBSET DOMAIN f : q[s] \in Nat
  BY PartialSumsType
<1>a. \A s \in SUBSET DOMAIN f : \A x \in s : q[s] = f[x] + q[s \ {x}]
  BY PartialSumsAny
<1>e. q[{}] = 0
  BY PartialSumsExist DEF Summable, Partial
<1> HIDE DEF q
<1>1. 0 \in G
  <2>1. ASSUME NEW r \in SUBSET R, Cardinality(r) = 0 PROVE q[S \cup r] = q[S] + q[r]
    <3>1. r = {} /\ S \cup r = S
      BY <1>0, <2>1
    <3>2. q[S] \in Nat
      BY <1>t
    <3> QED
      BY <1>e, <3>1, <3>2
  <2> QED
    BY <2>1
<1>2. ASSUME NEW n \in Nat, n \in G PROVE n + 1 \in G
  <2>1. ASSUME NEW r \in SUBSET R, Cardinality(r) = n + 1 PROVE q[S \cup r] = q[S] + q[r]
    <3>1. PICK x \in r : TRUE
      BY <1>0, <2>1
    <3> DEFINE p == r \ {x}
    <3>2. Cardinality(p) = n /\ p \in SUBSET R
      BY <1>0, <2>1, <3>1, FS_RemoveElement
    <3>3. q[S \cup p] = q[S] + q[p]
      BY <1>2, <3>2
    <3>4. (S \cup r) \ {x} = S \cup p
      BY <3>1
    <3>5. q[r] = f[x] + q[p] /\ q[S \cup r] = f[x] + q[S \cup p]
      BY <1>a, <3>1, <3>4
    <3>6. q[S] \in Nat /\ q[p] \in Nat /\ f[x] \in Nat
      BY <1>t, <3>1 DEF Summable
    <3> HIDE DEF p
    <3> QED
      BY <3>3, <3>5, <3>6
  <2>2. n + 1 \in Nat
    OBVIOUS
  <2> QED
    BY <2>1, <2>2, Zenon
<1> HIDE DEF G
<1>3. \A n \in Nat : n \in G
  BY <1>1, <1>2, SetInduction
<1> QED
  BY <1>0, <1>3 DEF G, q

(* A sum of noughts is nought.                                             *)
LEMMA PartialSumsZero ==
    ASSUME NEW f, Summable(f), NEW S, S \subseteq DOMAIN f, \A x \in S : f[x] = 0
    PROVE  PartialSums(f)[S] = 0
<1> DEFINE q == PartialSums(f)
           G == {n \in Nat : \A s \in SUBSET S : Cardinality(s) = n => q[s] = 0}
<1>s. IsFiniteSet(S)
  BY FS_Subset DEF Summable
<1>0. \A s \in SUBSET S : IsFiniteSet(s) /\ Cardinality(s) \in Nat
                          /\ (Cardinality(s) = 0 <=> s = {})
  BY <1>s, FS_Subset, FS_CardinalityType, FS_EmptySet
<1>a. \A s \in SUBSET DOMAIN f : \A x \in s : q[s] = f[x] + q[s \ {x}]
  BY PartialSumsAny
<1>e. q[{}] = 0
  BY PartialSumsExist DEF Summable, Partial
<1> HIDE DEF q
<1>1. 0 \in G
  BY <1>0, <1>e
<1>2. ASSUME NEW n \in Nat, n \in G PROVE n + 1 \in G
  <2>1. ASSUME NEW s \in SUBSET S, Cardinality(s) = n + 1 PROVE q[s] = 0
    <3>1. PICK x \in s : TRUE
      BY <1>0, <2>1
    <3>2. Cardinality(s \ {x}) = n
      BY <1>0, <2>1, <3>1, FS_RemoveElement
    <3>3. q[s \ {x}] = 0 /\ f[x] = 0
      BY <1>2, <3>1, <3>2
    <3> QED
      BY <1>a, <3>1, <3>3
  <2>2. n + 1 \in Nat
    OBVIOUS
  <2> QED
    BY <2>1, <2>2, Zenon
<1> HIDE DEF G
<1>3. \A n \in Nat : n \in G
  BY <1>1, <1>2, SetInduction
<1> QED
  BY <1>0, <1>3 DEF G, q

(* What one more at one argument adds to a partial sum.                    *)
LEMMA PartialSumsBump ==
    ASSUME NEW f, Summable(f), NEW x \in DOMAIN f, NEW S, S \subseteq DOMAIN f
    PROVE  /\ Summable([f EXCEPT ![x] = @ + 1])
           /\ PartialSums([f EXCEPT ![x] = @ + 1])[S]
                = IF x \in S THEN PartialSums(f)[S] + 1 ELSE PartialSums(f)[S]
<1> DEFINE g == [f EXCEPT ![x] = @ + 1]
<1>1. Summable(g) /\ DOMAIN g = DOMAIN f /\ g[x] = f[x] + 1 /\ \A y \in DOMAIN f : y # x => g[y] = f[y]
  BY DEF Summable
<1> HIDE DEF g
<1>2. PartialSums(f)[S \ {x}] = PartialSums(g)[S \ {x}]
  BY <1>1, PartialSumsAgree
<1>3. CASE x \notin S
  <2>1. S \ {x} = S
    BY <1>3
  <2> QED
    BY <1>1, <1>2, <1>3, <2>1 DEF g
<1>4. CASE x \in S
  <2>1. PartialSums(f)[S] = f[x] + PartialSums(f)[S \ {x}]
    BY <1>4, PartialSumsAny
  <2>2. PartialSums(g)[S] = g[x] + PartialSums(g)[S \ {x}]
    BY <1>1, <1>4, PartialSumsAny
  <2>3. f[x] \in Nat /\ PartialSums(f)[S \ {x}] \in Nat
    BY PartialSumsType DEF Summable
  <2> QED
    BY <1>1, <1>2, <1>4, <2>1, <2>2, <2>3 DEF g
<1> QED
  BY <1>3, <1>4

-----------------------------------------------------------------------------
(* The facts the other modules cite.                                       *)
LEMMA SumType == ASSUME NEW f, Summable(f) PROVE SumFunction(f) \in Nat
  BY SumUnfolds, PartialSumsType

LEMMA SumEmpty == ASSUME NEW f, DOMAIN f = {} PROVE SumFunction(f) = 0
<1>1. PartialSums(f)[{}] = Partial(f, {}, PartialSums(f))
  BY PartialSumsExist, FS_EmptySet
<1> QED
  BY <1>1, SumUnfolds DEF Partial

LEMMA SumPart ==
    ASSUME NEW f, Summable(f), NEW S, S \subseteq DOMAIN f
    PROVE  /\ Summable([x \in S |-> f[x]])
           /\ SumFunction([x \in S |-> f[x]]) = PartialSums(f)[S]
           /\ SumFunction([x \in S |-> f[x]]) <= SumFunction(f)
<1> DEFINE g == [x \in S |-> f[x]]
<1>1. Summable(g) /\ DOMAIN g = S /\ \A x \in S : f[x] = g[x]
  BY FS_Subset DEF Summable
<1>2. SumFunction(g) = PartialSums(g)[S] /\ SumFunction(f) = PartialSums(f)[DOMAIN f]
  BY <1>1, SumUnfolds
<1>3. PartialSums(f)[S] = PartialSums(g)[S]
  <2> HIDE DEF g
  <2> QED
    BY <1>1, PartialSumsAgree
<1>4. PartialSums(f)[S] <= PartialSums(f)[DOMAIN f]
  BY PartialSumsGrow
<1> QED
  BY <1>1, <1>2, <1>3, <1>4

LEMMA SumWithout ==
    ASSUME NEW f, Summable(f), NEW x \in DOMAIN f
    PROVE  /\ Summable(Without(f, x)) /\ f[x] \in Nat
           /\ SumFunction(Without(f, x)) \in Nat
           /\ SumFunction(f) = f[x] + SumFunction(Without(f, x))
<1> DEFINE S == DOMAIN f \ {x}
<1>1. Without(f, x) = [y \in S |-> f[y]]
  BY DEF Without
<1>2. Summable(Without(f, x)) /\ SumFunction(Without(f, x)) = PartialSums(f)[S]
  BY <1>1, SumPart
<1>3. PartialSums(f)[DOMAIN f] = f[x] + PartialSums(f)[S]
  BY PartialSumsAny
<1> QED
  BY <1>2, <1>3, SumUnfolds, SumType DEF Summable

LEMMA SumWith ==
    ASSUME NEW f, Summable(f), NEW x, NEW v \in Nat
    PROVE  /\ Summable(With(f, x, v))
           /\ SumFunction(With(f, x, v)) =
                v + (IF x \in DOMAIN f THEN SumFunction(f) - f[x] ELSE SumFunction(f))
<1> DEFINE g == With(f, x, v)
<1>1. Summable(g) /\ x \in DOMAIN g /\ g[x] = v
  BY FS_AddElement DEF Summable, With
<1>2. SumFunction(g) = v + SumFunction(Without(g, x))
  <2> HIDE DEF g
  <2> QED
    BY <1>1, SumWithout
<1>3. CASE x \in DOMAIN f
  <2>1. Without(g, x) = Without(f, x)
    BY <1>3 DEF With, Without
  <2> QED
    BY <1>1, <1>2, <1>3, <2>1, SumWithout
<1>4. CASE x \notin DOMAIN f
  <2>1. Without(g, x) = f
    BY <1>4 DEF With, Without, Summable
  <2> QED
    BY <1>1, <1>2, <1>4, <2>1
<1> QED
  BY <1>3, <1>4
==============================================================================
