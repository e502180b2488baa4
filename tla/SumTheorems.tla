---------------------------- MODULE SumTheorems ----------------------------
(***************************************************************************)
(* Sums over finite sets: SumFunctionOnSet of the community modules, which *)
(* the components total invocations, requests and rates with.              *)
(*                                                                         *)
(* The sum is a fold, a CHOOSE of the function on the subsets of the set   *)
(* that satisfies the recursion.  That there is one is proved by induction *)
(* on the size of the subsets, that there is no other by induction on the  *)
(* subsets themselves.  Both inductions are about a SET of numbers or of   *)
(* subsets, as WFMin states well-foundedness, so no lemma takes an         *)
(* operator; from the recursion on, every lemma grows the set by one       *)
(* element at a time.                                                      *)
(***************************************************************************)
EXTENDS Integers, FiniteSets, FiniteSetsExt, Functions, FiniteSetTheorems,
        WellFoundedInduction, TLAPS

\* The element that the fold takes off a set.
Chosen(s) == CHOOSE x \in s : TRUE

\* h is the fold of f over the subsets of S.
Folds(h, f, S) ==
  h = [s \in SUBSET S |-> IF s = {} THEN 0 ELSE f[Chosen(s)] + h[s \ {Chosen(s)}]]

\* The sum is the value of a fold at the whole set.
LEMMA SumIs ==
  ASSUME NEW f, NEW S
  PROVE  SumFunctionOnSet(f, S) = (CHOOSE h : Folds(h, f, S))[S]
BY DEF SumFunctionOnSet, FoldFunctionOnSet, MapThenFoldSet, Folds, Chosen

-----------------------------------------------------------------------------
(* Induction over sets and numbers *)

\* A family of subsets of a finite set that has every set whose proper subsets it
\* has is the family of all of them.
LEMMA SetInduction ==
  ASSUME NEW S, IsFiniteSet(S), NEW T \in SUBSET SUBSET S,
         \A s \in SUBSET S : (\A r \in SUBSET s : r # s => r \in T) => s \in T
  PROVE  T = SUBSET S
<1>. DEFINE R == StrictSubsetOrdering(S)
            U == (SUBSET S) \ T
            P == SUBSET S
<1>1. IsWellFoundedOn(R, P)
  BY FS_StrictSubsetOrderingWellFounded, FS_FiniteSubsetsOfFinite
<1>2. U \subseteq P
  OBVIOUS
<1>. SUFFICES ASSUME U # {} PROVE FALSE
  OBVIOUS
<1>. HIDE DEF R, U, P
<1>3. PICK s \in U : \A r \in U : <<r, s>> \notin R
  BY <1>1, <1>2, WFMin
<1>4. \A r \in SUBSET s : r # s => r \in T
  BY <1>3 DEF StrictSubsetOrdering, R, U
<1>. QED
  BY <1>3, <1>4 DEF U

\* A set of natural numbers with 0 and every successor is that of all of them.
LEMMA NatSetInduction ==
  ASSUME NEW T \in SUBSET Nat, 0 \in T, \A n \in T : n + 1 \in T
  PROVE  T = Nat
<1>. DEFINE R == OpToRel(<, Nat)
            U == Nat \ T
<1>1. IsWellFoundedOn(R, Nat)
  BY NatLessThanWellFounded
<1>2. U \subseteq Nat
  OBVIOUS
<1>. SUFFICES ASSUME U # {} PROVE FALSE
  OBVIOUS
<1>. HIDE DEF R, U
<1>3. PICK n \in U : \A m \in U : <<m, n>> \notin R
  BY <1>1, <1>2, WFMin
<1>4. \A m \in Nat : m < n => m \in T
  BY <1>3 DEF OpToRel, R, U
<1>5. n \in Nat /\ n # 0
  BY <1>3 DEF U
<1>6. n - 1 \in T
  BY <1>4, <1>5
<1>7. n - 1 + 1 \in T
  BY <1>6
<1>. QED
  BY <1>3, <1>5, <1>7 DEF U

-----------------------------------------------------------------------------
(* The recursion *)

\* The subsets of at most n elements, and a fold of f over them.
Small(S, n) == {s \in SUBSET S : Cardinality(s) <= n}

FoldsUpTo(h, f, S, n) ==
  /\ DOMAIN h = Small(S, n)
  /\ \A s \in Small(S, n) :
       h[s] = IF s = {} THEN 0 ELSE f[Chosen(s)] + h[s \ {Chosen(s)}]

\* The element that is taken off is one of the set.
LEMMA ChosenIn == ASSUME NEW s, s # {} PROVE Chosen(s) \in s
BY DEF Chosen

\* There is a fold over every finite set: one over the subsets of at most n + 1
\* elements is made from one over those of at most n.
LEMMA FoldExists ==
  ASSUME NEW f, NEW S, IsFiniteSet(S)
  PROVE  \E h : Folds(h, f, S)
<1>. DEFINE T == {n \in Nat : \E h : FoldsUpTo(h, f, S, n)}
<1>0. ASSUME NEW s \in SUBSET S
      PROVE  /\ IsFiniteSet(s) /\ Cardinality(s) \in Nat
             /\ Cardinality(s) = 0 <=> s = {}
             /\ Cardinality(s) <= Cardinality(S)
             /\ s # {} => /\ s \ {Chosen(s)} \in SUBSET S
                          /\ Cardinality(s \ {Chosen(s)}) = Cardinality(s) - 1
  BY FS_Subset, FS_CardinalityType, FS_EmptySet, FS_RemoveElement, ChosenIn
<1>1. 0 \in T
  <2>. DEFINE h == [s \in Small(S, 0) |-> 0]
  <2>1. Small(S, 0) = {{}}
    <3>1. {} \in SUBSET S /\ Cardinality({}) = 0
      BY FS_EmptySet
    <3>2. ASSUME NEW s \in SUBSET S PROVE Cardinality(s) <= 0 <=> s = {}
      <4>1. Cardinality(s) \in Nat /\ (Cardinality(s) = 0 <=> s = {})
        BY <1>0
      <4>. QED
        BY <4>1
    <3>. QED
      BY <3>1, <3>2 DEF Small
  <2>2. FoldsUpTo(h, f, S, 0)
    BY <2>1 DEF FoldsUpTo
  <2>. QED
    BY <2>2
<1>2. ASSUME NEW n \in T PROVE n + 1 \in T
  <2>1. PICK h : FoldsUpTo(h, f, S, n)
    OBVIOUS
  <2>. DEFINE g == [s \in Small(S, n + 1) |->
                      IF s = {} THEN 0 ELSE f[Chosen(s)] + h[s \ {Chosen(s)}]]
  <2>2. ASSUME NEW s \in Small(S, n + 1), s # {}
        PROVE  s \ {Chosen(s)} \in Small(S, n) /\ s \ {Chosen(s)} \in Small(S, n + 1)
    <3>1. s \in SUBSET S /\ Cardinality(s) <= n + 1
      BY <2>2 DEF Small
    <3>2. /\ Cardinality(s) \in Nat /\ n \in Nat
          /\ s \ {Chosen(s)} \in SUBSET S
          /\ Cardinality(s \ {Chosen(s)}) = Cardinality(s) - 1
      BY <1>0, <2>2, <3>1
    <3>. QED
      BY <3>1, <3>2 DEF Small
  <2>3. ASSUME NEW s \in Small(S, n) PROVE g[s] = h[s] /\ s \in Small(S, n + 1)
    <3>1. s \in Small(S, n + 1)
      <4>1. s \in SUBSET S /\ Cardinality(s) <= n
        BY <2>3 DEF Small
      <4>2. Cardinality(s) \in Nat /\ n \in Nat
        BY <1>0, <4>1
      <4>. QED
        BY <4>1, <4>2 DEF Small
    <3>. QED
      BY <2>1, <3>1 DEF FoldsUpTo
  <2>4. FoldsUpTo(g, f, S, n + 1)
    <3>1. DOMAIN g = Small(S, n + 1)
      OBVIOUS
    <3>2. ASSUME NEW s \in Small(S, n + 1)
          PROVE g[s] = IF s = {} THEN 0 ELSE f[Chosen(s)] + g[s \ {Chosen(s)}]
      BY <2>2, <2>3
    <3>. HIDE DEF g
    <3>. QED
      BY <3>1, <3>2 DEF FoldsUpTo
  <2>. HIDE DEF g
  <2>. QED
    BY <2>4
<1>3. T = Nat
  BY <1>1, <1>2, NatSetInduction
<1>4. PICK h : FoldsUpTo(h, f, S, Cardinality(S))
  BY <1>0, <1>3
<1>5. Small(S, Cardinality(S)) = SUBSET S
  BY <1>0 DEF Small
<1>. QED
  <2>. DEFINE g == [s \in SUBSET S |-> h[s]]
  <2>1. Folds(g, f, S)
    BY <1>0, <1>4, <1>5 DEF FoldsUpTo, Folds
  <2>. QED
    BY <2>1

\* Two folds, of a set and of one of its subsets, agree where both are defined.
LEMMA FoldUnique ==
  ASSUME NEW f, NEW S, IsFiniteSet(S), NEW V, NEW h, NEW g, V \in SUBSET S,
         Folds(h, f, S), Folds(g, f, V)
  PROVE  \A s \in SUBSET V : h[s] = g[s]
<1>. DEFINE T == {s \in SUBSET V : h[s] = g[s]}
<1>1. IsFiniteSet(V)
  BY FS_Subset
<1>2. ASSUME NEW s \in SUBSET V, \A r \in SUBSET s : r # s => r \in T
      PROVE  s \in T
  <2>1. CASE s = {}
    BY <2>1 DEF Folds
  <2>2. CASE s # {}
    <3>1. /\ s \ {Chosen(s)} \in SUBSET s /\ s \ {Chosen(s)} # s
          /\ s \ {Chosen(s)} \in SUBSET V
          /\ s \in SUBSET S
      BY <2>2, ChosenIn
    <3>2. h[s \ {Chosen(s)}] = g[s \ {Chosen(s)}]
      BY <1>2, <3>1
    <3>3. h[s] = f[Chosen(s)] + h[s \ {Chosen(s)}] /\ g[s] = f[Chosen(s)] + g[s \ {Chosen(s)}]
      BY <2>2, <3>1 DEF Folds
    <3>. QED
      BY <3>2, <3>3
  <2>. QED
    BY <2>1, <2>2
<1>3. T = SUBSET V
  <2>1. T \in SUBSET SUBSET V
    OBVIOUS
  <2>. HIDE DEF T
  <2>. QED
    BY <1>1, <1>2, <2>1, SetInduction
<1>. QED
  BY <1>3

\* The equation that defines the sum.
LEMMA SumUnfolds ==
  ASSUME NEW f, NEW S, IsFiniteSet(S)
  PROVE  /\ S = {} => SumFunctionOnSet(f, S) = 0
         /\ S # {} => SumFunctionOnSet(f, S) =
                        f[Chosen(S)] + SumFunctionOnSet(f, S \ {Chosen(S)})
<1>. DEFINE h == CHOOSE x : Folds(x, f, S)
            V == S \ {Chosen(S)}
            g == CHOOSE x : Folds(x, f, V)
<1>1. Folds(h, f, S) /\ Folds(g, f, V)
  <2>1. IsFiniteSet(V)
    BY FS_Subset
  <2>. QED
    BY <2>1, FoldExists
<1>2. SumFunctionOnSet(f, S) = h[S] /\ SumFunctionOnSet(f, V) = g[V]
  BY SumIs
<1>. HIDE DEF h, g
<1>3. h[V] = g[V]
  <2>1. V \in SUBSET S /\ V \in SUBSET V
    OBVIOUS
  <2>. HIDE DEF V
  <2>. QED
    BY <1>1, <2>1, FoldUnique
<1>4. h[S] = IF S = {} THEN 0 ELSE f[Chosen(S)] + h[V]
  BY <1>1 DEF Folds
<1>. QED
  BY <1>2, <1>3, <1>4

\* Nothing sums to 0.
LEMMA SumEmpty == ASSUME NEW f PROVE SumFunctionOnSet(f, {}) = 0
BY SumUnfolds, FS_EmptySet

-----------------------------------------------------------------------------
(* Sums of integers *)

\* The sum of integers is one.
LEMMA SumInt ==
  ASSUME NEW S, IsFiniteSet(S), NEW f, \A x \in S : f[x] \in Int
  PROVE  SumFunctionOnSet(f, S) \in Int
<1>. DEFINE T == {s \in SUBSET S : SumFunctionOnSet(f, s) \in Int}
<1>1. ASSUME NEW s \in SUBSET S, \A r \in SUBSET s : r # s => r \in T
      PROVE  s \in T
  <2>1. IsFiniteSet(s)
    BY FS_Subset
  <2>2. CASE s = {}
    BY <2>2, SumEmpty
  <2>3. CASE s # {}
    <3>1. SumFunctionOnSet(f, s) = f[Chosen(s)] + SumFunctionOnSet(f, s \ {Chosen(s)})
      BY <2>1, <2>3, SumUnfolds
    <3>2. Chosen(s) \in s
      BY <2>3, ChosenIn
    <3>3. SumFunctionOnSet(f, s \ {Chosen(s)}) \in Int
      BY <1>1, <3>2
    <3>. QED
      BY <3>1, <3>2, <3>3
  <2>. QED
    BY <2>2, <2>3
<1>2. T = SUBSET S
  <2>1. T \in SUBSET SUBSET S
    OBVIOUS
  <2>. HIDE DEF T
  <2>. QED
    BY <1>1, <2>1, SetInduction
<1>. QED
  BY <1>2

\* Any element may be taken off, not only the chosen one.
LEMMA SumRemove ==
  ASSUME NEW S, IsFiniteSet(S), NEW f, \A x \in S : f[x] \in Int, NEW y \in S
  PROVE  SumFunctionOnSet(f, S) = f[y] + SumFunctionOnSet(f, S \ {y})
<1>. DEFINE Sum(s) == SumFunctionOnSet(f, s)
            T == {s \in SUBSET S : \A z \in s : Sum(s) = f[z] + Sum(s \ {z})}
<1>0. \A s \in SUBSET S : IsFiniteSet(s) /\ Sum(s) \in Int
  BY FS_Subset, SumInt
<1>1. ASSUME NEW s \in SUBSET S, \A r \in SUBSET s : r # s => r \in T
      PROVE  s \in T
  <2>1. SUFFICES ASSUME NEW z \in s PROVE Sum(s) = f[z] + Sum(s \ {z})
    OBVIOUS
  <2>. DEFINE c == Chosen(s)
  <2>2. c \in s
    BY ChosenIn
  <2>3. Sum(s) = f[c] + Sum(s \ {c})
    BY <1>0, SumUnfolds
  <2>. HIDE DEF c
  <2>4. CASE c = z
    BY <2>3, <2>4
  <2>5. CASE c # z
    <3>1. Sum(s \ {c}) = f[z] + Sum((s \ {c}) \ {z})
      <4>1. s \ {c} \in T /\ z \in s \ {c}
        BY <1>1, <2>2, <2>5
      <4>. QED
        BY <4>1
    <3>2. Sum(s \ {z}) = f[c] + Sum((s \ {z}) \ {c})
      <4>1. s \ {z} \in T /\ c \in s \ {z}
        BY <1>1, <2>2, <2>5
      <4>. QED
        BY <4>1
    <3>3. (s \ {z}) \ {c} = (s \ {c}) \ {z}
      OBVIOUS
    <3>4. f[c] \in Int /\ f[z] \in Int /\ Sum((s \ {c}) \ {z}) \in Int
      BY <1>0, <2>2
    <3>5. Sum(s \ {z}) = f[c] + Sum((s \ {c}) \ {z})
      BY <3>2, <3>3
    <3>. HIDE DEF Sum
    <3>. QED
      BY <2>3, <3>1, <3>4, <3>5
  <2>. QED
    BY <2>4, <2>5
<1>2. T = SUBSET S
  <2>1. T \in SUBSET SUBSET S
    OBVIOUS
  <2>. HIDE DEF T
  <2>. QED
    BY <1>1, <2>1, SetInduction
<1>. QED
  BY <1>2

\* One more element adds its term.
LEMMA SumAdd ==
  ASSUME NEW S, IsFiniteSet(S), NEW y, y \notin S, NEW f,
         \A x \in S \union {y} : f[x] \in Int
  PROVE  SumFunctionOnSet(f, S \union {y}) = SumFunctionOnSet(f, S) + f[y]
<1>1. IsFiniteSet(S \union {y}) /\ (S \union {y}) \ {y} = S
  BY FS_AddElement
<1>2. SumFunctionOnSet(f, S \union {y}) = f[y] + SumFunctionOnSet(f, S)
  BY <1>1, SumRemove
<1>3. f[y] \in Int /\ SumFunctionOnSet(f, S) \in Int
  BY SumInt
<1>. QED
  BY <1>2, <1>3

\* A family with the empty set and, with a set, the set and one more element, has
\* the whole set.
LEMMA SetGrows ==
  ASSUME NEW S, IsFiniteSet(S), NEW T \in SUBSET SUBSET S, {} \in T,
         \A s \in T : \A x \in S \ s : s \union {x} \in T
  PROVE  S \in T
<1>1. ASSUME NEW s \in SUBSET S, \A r \in SUBSET s : r # s => r \in T
      PROVE  s \in T
  <2>1. CASE s = {}
    BY <2>1
  <2>2. CASE s # {}
    <3>1. PICK x \in s : TRUE
      BY <2>2
    <3>2. s \ {x} \in T /\ x \in S \ (s \ {x}) /\ (s \ {x}) \union {x} = s
      BY <1>1, <3>1
    <3>. QED
      BY <3>2
  <2>. QED
    BY <2>1, <2>2
<1>. QED
  BY <1>1, SetInduction

\* Smaller terms, smaller sum.
LEMMA SumOrder ==
  ASSUME NEW S, IsFiniteSet(S), NEW f, NEW g,
         \A x \in S : f[x] \in Int /\ g[x] \in Int /\ f[x] <= g[x]
  PROVE  SumFunctionOnSet(f, S) <= SumFunctionOnSet(g, S)
<1>. DEFINE F(s) == SumFunctionOnSet(f, s)
            G(s) == SumFunctionOnSet(g, s)
            T == {s \in SUBSET S : F(s) <= G(s)}
<1>1. {} \in T
  BY SumEmpty
<1>2. ASSUME NEW s \in T, NEW x \in S \ s PROVE s \union {x} \in T
  <2>1. IsFiniteSet(s)
    BY FS_Subset
  <2>2. F(s \union {x}) = F(s) + f[x] /\ G(s \union {x}) = G(s) + g[x]
    BY <2>1, SumAdd
  <2>3. F(s) \in Int /\ G(s) \in Int /\ F(s) <= G(s)
    BY <2>1, SumInt
  <2>4. F(s \union {x}) <= G(s \union {x})
    <3>. HIDE DEF F, G
    <3>. QED
      BY <2>2, <2>3
  <2>. QED
    BY <2>4
<1>3. S \in T
  <2>1. T \in SUBSET SUBSET S
    OBVIOUS
  <2>. HIDE DEF T
  <2>. QED
    BY <1>1, <1>2, <2>1, SetGrows
<1>. QED
  BY <1>3

\* Equal terms, equal sum.
LEMMA SumEqual ==
  ASSUME NEW S, IsFiniteSet(S), NEW f, NEW g,
         \A x \in S : f[x] \in Int /\ g[x] = f[x]
  PROVE  SumFunctionOnSet(f, S) = SumFunctionOnSet(g, S)
<1>1. /\ SumFunctionOnSet(f, S) <= SumFunctionOnSet(g, S)
      /\ SumFunctionOnSet(g, S) <= SumFunctionOnSet(f, S)
  BY SumOrder
<1>2. SumFunctionOnSet(f, S) \in Int /\ SumFunctionOnSet(g, S) \in Int
  BY SumInt
<1>. QED
  BY <1>1, <1>2

\* The sum of natural numbers is one.
LEMMA SumNat ==
  ASSUME NEW S, IsFiniteSet(S), NEW f, \A x \in S : f[x] \in Nat
  PROVE  SumFunctionOnSet(f, S) \in Nat
<1>. DEFINE T == {s \in SUBSET S : SumFunctionOnSet(f, s) \in Nat}
<1>1. {} \in T
  BY SumEmpty
<1>2. ASSUME NEW s \in T, NEW x \in S \ s PROVE s \union {x} \in T
  <2>1. IsFiniteSet(s)
    BY FS_Subset
  <2>2. \A y \in s \union {x} : f[y] \in Int
    OBVIOUS
  <2>3. SumFunctionOnSet(f, s \union {x}) = SumFunctionOnSet(f, s) + f[x]
    BY <2>1, <2>2, SumAdd
  <2>. QED
    BY <2>3
<1>3. S \in T
  <2>1. T \in SUBSET SUBSET S
    OBVIOUS
  <2>. HIDE DEF T
  <2>. QED
    BY <1>1, <1>2, <2>1, SetGrows
<1>. QED
  BY <1>3

\* The sum over two disjoint sets is that of their sums.
LEMMA SumUnion ==
  ASSUME NEW A, NEW B, IsFiniteSet(A), IsFiniteSet(B), A \intersect B = {}, NEW f,
         \A x \in A \union B : f[x] \in Int
  PROVE  SumFunctionOnSet(f, A \union B)
           = SumFunctionOnSet(f, A) + SumFunctionOnSet(f, B)
<1>. DEFINE F(s) == SumFunctionOnSet(f, s)
            T == {s \in SUBSET B : F(A \union s) = F(A) + F(s)}
<1>0. F(A) \in Int
  BY SumInt
<1>1. {} \in T
  <2>1. A \union {} = A /\ F({}) = 0
    BY SumEmpty
  <2>. QED
    BY <1>0, <2>1
<1>2. ASSUME NEW s \in T, NEW x \in B \ s PROVE s \union {x} \in T
  <2>1. IsFiniteSet(s) /\ IsFiniteSet(A \union s) /\ x \notin A \union s
    BY FS_Subset, FS_Union
  <2>2. F(s \union {x}) = F(s) + f[x] /\ F((A \union s) \union {x}) = F(A \union s) + f[x]
    BY <2>1, SumAdd
  <2>3. (A \union s) \union {x} = A \union (s \union {x})
    OBVIOUS
  <2>4. F(s) \in Int /\ f[x] \in Int /\ F(A \union s) = F(A) + F(s)
    BY <2>1, SumInt
  <2>5. F(A \union (s \union {x})) = F(A) + F(s \union {x})
    <3>1. F(A \union (s \union {x})) = F(A \union s) + f[x]
      BY <2>2, <2>3
    <3>. HIDE DEF F
    <3>. QED
      BY <1>0, <2>2, <2>4, <3>1
  <2>. QED
    BY <2>5
<1>3. B \in T
  <2>1. T \in SUBSET SUBSET B
    OBVIOUS
  <2>. HIDE DEF T
  <2>. QED
    BY <1>1, <1>2, <2>1, SetGrows
<1>. QED
  BY <1>3

\* Positive terms may be left out of a sum for a smaller one.
LEMMA SumSubset ==
  ASSUME NEW S, IsFiniteSet(S), NEW A \in SUBSET S, NEW f, \A x \in S : f[x] \in Nat
  PROVE  SumFunctionOnSet(f, A) <= SumFunctionOnSet(f, S)
<1>1. IsFiniteSet(A) /\ IsFiniteSet(S \ A) /\ A \union (S \ A) = S
  BY FS_Subset
<1>2. SumFunctionOnSet(f, S) = SumFunctionOnSet(f, A) + SumFunctionOnSet(f, S \ A)
  <2>1. \A x \in A \union (S \ A) : f[x] \in Int
    BY <1>1
  <2>. QED
    BY <1>1, <2>1, SumUnion
<1>3. SumFunctionOnSet(f, A) \in Nat /\ SumFunctionOnSet(f, S \ A) \in Nat
  BY <1>1, SumNat
<1>. QED
  BY <1>2, <1>3

\* Equal terms sum to their number times the term.
LEMMA SumConstant ==
  ASSUME NEW S, IsFiniteSet(S), NEW c \in Int, NEW f, \A x \in S : f[x] = c
  PROVE  SumFunctionOnSet(f, S) = Cardinality(S) * c
<1>. DEFINE F(s) == SumFunctionOnSet(f, s)
            T == {s \in SUBSET S : F(s) = Cardinality(s) * c}
<1>1. {} \in T
  BY SumEmpty, FS_EmptySet
<1>2. ASSUME NEW s \in T, NEW x \in S \ s PROVE s \union {x} \in T
  <2>1. IsFiniteSet(s) /\ Cardinality(s) \in Nat
    BY FS_Subset, FS_CardinalityType
  <2>2. \A y \in s \union {x} : f[y] \in Int
    OBVIOUS
  <2>3. F(s \union {x}) = F(s) + f[x] /\ Cardinality(s \union {x}) = Cardinality(s) + 1
    BY <2>1, <2>2, SumAdd, FS_AddElement
  <2>4. (Cardinality(s) + 1) * c = Cardinality(s) * c + c
    BY <2>1
  <2>5. F(s) = Cardinality(s) * c /\ f[x] = c
    OBVIOUS
  <2>6. F(s \union {x}) = Cardinality(s \union {x}) * c
    <3>. HIDE DEF F
    <3>. QED
      BY <2>3, <2>4, <2>5
  <2>. QED
    BY <2>6
<1>3. S \in T
  <2>1. T \in SUBSET SUBSET S
    OBVIOUS
  <2>. HIDE DEF T
  <2>. QED
    BY <1>1, <1>2, <2>1, SetGrows
<1>. QED
  BY <1>3

\* The sum over disjoint parts of their sums is that over their union.
LEMMA SumPartition ==
  ASSUME NEW B, IsFiniteSet(B), NEW part,
         \A b \in B : IsFiniteSet(part[b]),
         \A b, c \in B : b # c => part[b] \intersect part[c] = {},
         NEW f, \A b \in B : \A x \in part[b] : f[x] \in Int,
         NEW g, \A b \in B : g[b] = SumFunctionOnSet(f, part[b])
  PROVE  SumFunctionOnSet(g, B) = SumFunctionOnSet(f, UNION {part[b] : b \in B})
<1>. DEFINE F(s) == SumFunctionOnSet(f, s)
            G(s) == SumFunctionOnSet(g, s)
            All(C) == UNION {part[b] : b \in C}
            T == {C \in SUBSET B : IsFiniteSet(All(C)) /\ G(C) = F(All(C))}
<1>1. {} \in T
  BY SumEmpty, FS_EmptySet
<1>2. ASSUME NEW C \in T, NEW b \in B \ C PROVE C \union {b} \in T
  <2>1. IsFiniteSet(C) /\ IsFiniteSet(All(C)) /\ IsFiniteSet(part[b])
    BY FS_Subset
  <2>2. All(C \union {b}) = All(C) \union part[b] /\ All(C) \intersect part[b] = {}
    OBVIOUS
  <2>3. \A x \in All(C) \union part[b] : f[x] \in Int
    OBVIOUS
  <2>. HIDE DEF All
  <2>4. IsFiniteSet(All(C \union {b}))
    <3>1. IsFiniteSet(All(C) \union part[b])
      BY <2>1, FS_Union
    <3>. QED
      BY <2>2, <3>1
  <2>5. F(All(C) \union part[b]) = F(All(C)) + F(part[b])
    BY <2>1, <2>2, <2>3, SumUnion
  <2>6. \A c \in C \union {b} : g[c] \in Int
    <3>1. \A c \in B : F(part[c]) \in Int
      BY SumInt
    <3>. QED
      BY <3>1
  <2>7. G(C \union {b}) = G(C) + g[b]
    BY <2>1, <2>6, SumAdd
  <2>8. g[b] = F(part[b]) /\ G(C) = F(All(C))
    OBVIOUS
  <2>9. G(C \union {b}) = F(All(C \union {b}))
    <3>. HIDE DEF F, G
    <3>. QED
      BY <2>2, <2>5, <2>7, <2>8
  <2>. QED
    BY <2>4, <2>9
<1>3. B \in T
  <2>1. T \in SUBSET SUBSET B
    OBVIOUS
  <2>. HIDE DEF T
  <2>. QED
    BY <1>1, <1>2, <2>1, SetGrows
<1>. QED
  BY <1>3

-----------------------------------------------------------------------------
(* Sums over intervals *)

\* The last term.
LEMMA SumUpTo ==
  ASSUME NEW n \in Nat, NEW f, \A k \in 1 .. n + 1 : f[k] \in Int
  PROVE  SumFunctionOnSet(f, 1 .. n + 1) = SumFunctionOnSet(f, 1 .. n) + f[n + 1]
<1>1. IsFiniteSet(1 .. n) /\ n + 1 \notin 1 .. n
  BY FS_Interval
<1>2. (1 .. n) \union {n + 1} = 1 .. n + 1
  OBVIOUS
<1>3. \A k \in (1 .. n) \union {n + 1} : f[k] \in Int
  BY <1>2
<1>4. SumFunctionOnSet(f, (1 .. n) \union {n + 1}) = SumFunctionOnSet(f, 1 .. n) + f[n + 1]
  BY <1>1, <1>3, SumAdd
<1>. QED
  BY <1>2, <1>4

\* The sum of a sequence of terms is that of its beginning and of its rest, which
\* is numbered from 1.
LEMMA SumShifted ==
  ASSUME NEW d \in Nat, NEW n \in Nat, NEW f, \A k \in 1 .. d + n : f[k] \in Int,
         NEW g, \A m \in 1 .. n : g[m] = f[d + m]
  PROVE  SumFunctionOnSet(f, 1 .. d + n)
           = SumFunctionOnSet(f, 1 .. d) + SumFunctionOnSet(g, 1 .. n)
<1>. DEFINE F(k) == SumFunctionOnSet(f, 1 .. k)
            G(k) == SumFunctionOnSet(g, 1 .. k)
            T == {k \in Nat : k <= n => F(d + k) = F(d) + G(k)}
<1>0. ASSUME NEW k \in 0 .. n PROVE F(d + k) \in Int /\ G(k) \in Int
  <2>1. IsFiniteSet(1 .. d + k) /\ IsFiniteSet(1 .. k)
    BY FS_Interval
  <2>2. (\A i \in 1 .. d + k : f[i] \in Int) /\ (\A i \in 1 .. k : g[i] \in Int)
    OBVIOUS
  <2>. QED
    BY <2>1, <2>2, SumInt
<1>1. 0 \in T
  <2>1. 1 .. 0 = {} /\ d + 0 = d /\ 0 \in 0 .. n
    OBVIOUS
  <2>2. G(0) = 0 /\ F(d) \in Int
    BY <1>0, <2>1, SumEmpty
  <2>. HIDE DEF F, G
  <2>. QED
    BY <2>1, <2>2
<1>2. ASSUME NEW k \in T PROVE k + 1 \in T
  <2>1. SUFFICES ASSUME k + 1 <= n PROVE F(d + (k + 1)) = F(d) + G(k + 1)
    OBVIOUS
  <2>2. F(d + k + 1) = F(d + k) + f[d + k + 1]
    <3>1. \A i \in 1 .. d + k + 1 : f[i] \in Int
      BY <2>1
    <3>. QED
      BY <3>1, SumUpTo
  <2>3. G(k + 1) = G(k) + g[k + 1]
    <3>1. \A i \in 1 .. k + 1 : g[i] \in Int
      BY <2>1
    <3>. QED
      BY <3>1, SumUpTo
  <2>4. /\ g[k + 1] = f[d + k + 1] /\ f[d + k + 1] \in Int
        /\ d + (k + 1) = d + k + 1 /\ k \in 0 .. n
        /\ F(d + k) = F(d) + G(k)
    BY <2>1
  <2>5. F(d) \in Int /\ G(k) \in Int
    <3>1. d + 0 = d /\ 0 \in 0 .. n
      OBVIOUS
    <3>. QED
      BY <1>0, <2>4, <3>1
  <2>. HIDE DEF F, G
  <2>. QED
    BY <2>2, <2>3, <2>4, <2>5
<1>3. T = Nat
  <2>1. T \in SUBSET Nat
    OBVIOUS
  <2>. HIDE DEF T
  <2>. QED
    BY <1>1, <1>2, <2>1, NatSetInduction
<1>4. n \in T
  BY <1>3
<1>. QED
  BY <1>4

-----------------------------------------------------------------------------
(* Sums of sums, of multiples, and over other sets *)

\* The sum of two terms each is that of the two sums.
LEMMA SumPlus ==
  ASSUME NEW S, IsFiniteSet(S), NEW f, NEW g, NEW h,
         \A x \in S : f[x] \in Int /\ g[x] \in Int /\ h[x] = f[x] + g[x]
  PROVE  SumFunctionOnSet(h, S) = SumFunctionOnSet(f, S) + SumFunctionOnSet(g, S)
<1>. DEFINE F(s) == SumFunctionOnSet(f, s)
            G(s) == SumFunctionOnSet(g, s)
            H(s) == SumFunctionOnSet(h, s)
            T == {s \in SUBSET S : H(s) = F(s) + G(s)}
<1>1. {} \in T
  <2>1. H({}) = 0 /\ F({}) = 0 /\ G({}) = 0
    BY SumEmpty
  <2>. HIDE DEF F, G, H
  <2>. QED
    BY <2>1
<1>2. ASSUME NEW s \in T, NEW x \in S \ s PROVE s \union {x} \in T
  <2>1. IsFiniteSet(s) /\ x \notin s
    BY FS_Subset
  <2>2. /\ \A y \in s \union {x} : f[y] \in Int /\ g[y] \in Int /\ h[y] \in Int
        /\ h[x] = f[x] + g[x]
    OBVIOUS
  <2>3. /\ F(s \union {x}) = F(s) + f[x] /\ G(s \union {x}) = G(s) + g[x]
        /\ H(s \union {x}) = H(s) + h[x]
    BY <2>1, <2>2, SumAdd
  <2>4. F(s) \in Int /\ G(s) \in Int /\ f[x] \in Int /\ g[x] \in Int
    BY <2>1, <2>2, SumInt
  <2>5. H(s) = F(s) + G(s)
    OBVIOUS
  <2>6. H(s \union {x}) = F(s \union {x}) + G(s \union {x})
    <3>. HIDE DEF F, G, H
    <3>. QED
      BY <2>2, <2>3, <2>4, <2>5
  <2>. QED
    BY <2>6
<1>3. S \in T
  <2>1. T \in SUBSET SUBSET S
    OBVIOUS
  <2>. HIDE DEF T
  <2>. QED
    BY <1>1, <1>2, <2>1, SetGrows
<1>. QED
  BY <1>3

\* A factor may be taken out of a sum.
LEMMA SumTimes ==
  ASSUME NEW S, IsFiniteSet(S), NEW c \in Int, NEW f, NEW g,
         \A x \in S : f[x] \in Int /\ g[x] = c * f[x]
  PROVE  SumFunctionOnSet(g, S) = c * SumFunctionOnSet(f, S)
<1>. DEFINE F(s) == SumFunctionOnSet(f, s)
            G(s) == SumFunctionOnSet(g, s)
            T == {s \in SUBSET S : G(s) = c * F(s)}
<1>1. {} \in T
  <2>1. G({}) = 0 /\ F({}) = 0 /\ c * 0 = 0
    BY SumEmpty
  <2>. HIDE DEF F, G
  <2>. QED
    BY <2>1
<1>2. ASSUME NEW s \in T, NEW x \in S \ s PROVE s \union {x} \in T
  <2>1. IsFiniteSet(s) /\ x \notin s
    BY FS_Subset
  <2>2. /\ \A y \in s \union {x} : f[y] \in Int
        /\ \A y \in s \union {x} : g[y] \in Int
        /\ g[x] = c * f[x]
    OBVIOUS
  <2>3. F(s \union {x}) = F(s) + f[x] /\ G(s \union {x}) = G(s) + g[x]
    BY <2>1, <2>2, SumAdd
  <2>4. F(s) \in Int /\ f[x] \in Int
    BY <2>1, <2>2, SumInt
  <2>5. G(s) = c * F(s)
    OBVIOUS
  <2>6. G(s \union {x}) = c * F(s \union {x})
    <3>. HIDE DEF F, G
    <3>1. c * (F(s) + f[x]) = c * F(s) + c * f[x]
      BY <2>4
    <3>. QED
      BY <2>2, <2>3, <2>5, <3>1
  <2>. QED
    BY <2>6
<1>3. S \in T
  <2>1. T \in SUBSET SUBSET S
    OBVIOUS
  <2>. HIDE DEF T
  <2>. QED
    BY <1>1, <1>2, <2>1, SetGrows
<1>. QED
  BY <1>3

\* Zeros may be left out.
LEMMA SumSupport ==
  ASSUME NEW S, IsFiniteSet(S), NEW A \in SUBSET S, NEW f,
         \A x \in S : f[x] \in Int, \A x \in S \ A : f[x] = 0
  PROVE  SumFunctionOnSet(f, S) = SumFunctionOnSet(f, A)
<1>1. /\ IsFiniteSet(A) /\ IsFiniteSet(S \ A) /\ A \intersect (S \ A) = {}
      /\ A \union (S \ A) = S
  BY FS_Subset
<1>2. SumFunctionOnSet(f, S) = SumFunctionOnSet(f, A) + SumFunctionOnSet(f, S \ A)
  BY <1>1, SumUnion
<1>3. SumFunctionOnSet(f, S \ A) = Cardinality(S \ A) * 0
  BY <1>1, SumConstant
<1>4. Cardinality(S \ A) \in Nat /\ SumFunctionOnSet(f, A) \in Int
  BY <1>1, FS_CardinalityType, SumInt
<1>. QED
  BY <1>2, <1>3, <1>4

\* A sum over an image, whose members have one preimage each.
LEMMA SumImage ==
  ASSUME NEW S, IsFiniteSet(S), NEW h, \A x, y \in S : x # y => h[x] # h[y],
         NEW f, \A x \in S : f[h[x]] \in Int, NEW g, \A x \in S : g[x] = f[h[x]]
  PROVE  SumFunctionOnSet(f, {h[x] : x \in S}) = SumFunctionOnSet(g, S)
<1>. DEFINE part == [x \in S |-> {h[x]}]
<1>1. ASSUME NEW x \in S
      PROVE  IsFiniteSet(part[x]) /\ g[x] = SumFunctionOnSet(f, part[x])
  <2>1. IsFiniteSet({}) /\ h[x] \notin {} /\ SumFunctionOnSet(f, {}) = 0
    BY FS_EmptySet, SumEmpty
  <2>2. SumFunctionOnSet(f, {} \union {h[x]}) = 0 + f[h[x]]
    <3>1. \A y \in {} \union {h[x]} : f[y] \in Int
      OBVIOUS
    <3>. QED
      BY <2>1, <3>1, SumAdd
  <2>3. {} \union {h[x]} = part[x] /\ IsFiniteSet({h[x]})
    BY FS_Singleton
  <2>. QED
    BY <2>2, <2>3
<1>2. /\ \A x, y \in S : x # y => part[x] \intersect part[y] = {}
      /\ \A x \in S : \A y \in part[x] : f[y] \in Int
      /\ UNION {part[x] : x \in S} = {h[x] : x \in S}
  OBVIOUS
<1>3. SumFunctionOnSet(g, S) = SumFunctionOnSet(f, UNION {part[x] : x \in S})
  <2>. HIDE DEF part
  <2>. QED
    BY <1>1, <1>2, SumPartition
<1>. QED
  BY <1>2, <1>3, Zenon

\* As many elements as have a property are a sum of zeros and ones.
LEMMA SumCounts ==
  ASSUME NEW S, IsFiniteSet(S), NEW A \in SUBSET S, NEW f,
         \A x \in S : f[x] = IF x \in A THEN 1 ELSE 0
  PROVE  SumFunctionOnSet(f, S) = Cardinality(A)
<1>1. IsFiniteSet(A) /\ Cardinality(A) \in Nat
  BY FS_Subset, FS_CardinalityType
<1>2. SumFunctionOnSet(f, S) = SumFunctionOnSet(f, A)
  BY SumSupport
<1>3. SumFunctionOnSet(f, A) = Cardinality(A) * 1
  BY <1>1, SumConstant
<1>. QED
  BY <1>1, <1>2, <1>3
=============================================================================
