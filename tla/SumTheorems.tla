----------------------------- MODULE SumTheorems -----------------------------
(***************************************************************************)
(* What SumFunctionOnSet and SumFunction of Functions.tla compute, for     *)
(* every finite set: the account balances and reservations of PaperBroker  *)
(* are such sums.                                                          *)
(*                                                                         *)
(* The sum is a fold, defined by choosing one element after the other, so  *)
(* its laws need induction on the size of the set.  The induction is taken *)
(* in its least-number form, over sets of naturals, which follows from the *)
(* well-foundedness of < on Nat.                                           *)
(***************************************************************************)
EXTENDS Integers, FiniteSets, Functions, FiniteSetTheorems, WellFoundedInduction, TLAPS

\* Every non-empty set of naturals has a least element.
LEMMA LeastNumber == \A T \in SUBSET Nat : T # {} => \E m \in T : \A k \in T : m <= k
<1> SUFFICES ASSUME NEW T \in SUBSET Nat, T # {}
             PROVE  \E m \in T : \A k \in T : m <= k
  OBVIOUS
<1> DEFINE R == OpToRel(<, Nat)
<1>1. IsWellFoundedOn(R, Nat)
  BY NatLessThanWellFounded, Zenon
<1>2. PICK m \in T : \A y \in T : ~ (<<y, m>> \in R)
  <2> HIDE DEF R
  <2> QED BY <1>1, WFMin, Zenon
<1>3. \A y \in T : ~ (y < m)
  BY <1>2, Zenon DEF OpToRel
<1> QED BY <1>3

\* A set of naturals that holds 0 and the successor of each of its members is Nat.
LEMMA NaturalInduction ==
    \A T \in SUBSET Nat : 0 \in T /\ (\A n \in T : n + 1 \in T) => T = Nat
<1> SUFFICES ASSUME NEW T \in SUBSET Nat, 0 \in T, \A n \in T : n + 1 \in T, T # Nat
             PROVE  FALSE
  OBVIOUS
<1>1. PICK m \in Nat \ T : \A k \in Nat \ T : m <= k
  <2>1. Nat \ T \in SUBSET Nat /\ Nat \ T # {}
    OBVIOUS
  <2> QED BY <2>1, LeastNumber, Zenon
<1>2. m # 0
  OBVIOUS
<1>3. m - 1 \in Nat /\ m - 1 \in T
  BY <1>1, <1>2
<1> QED BY <1>1, <1>3

----------------------------------------------------------------------------
(* The fold behind a sum.                                                  *)

Chosen(s) == CHOOSE x \in s : TRUE

\* g is the fold that sums f over the members of D, sets closed under removal.
IsFold(g, f, D) ==
    g = [s \in D |-> IF s = {} THEN 0 ELSE f[Chosen(s)] + g[s \ {Chosen(s)}]]

UpTo(S, n) == {s \in SUBSET S : Cardinality(s) <= n}

\* The sum is what the chosen fold gives for the whole set.
LEMMA SumIsFold ==
    \A f, S : SumFunctionOnSet(f, S) = (CHOOSE g : IsFold(g, f, SUBSET S))[S]
BY DEF SumFunctionOnSet, FoldFunctionOnSet, MapThenFoldSet, IsFold, Chosen

\* What removing the chosen element does to the size of a set.
LEMMA ChosenRemoved ==
    \A s : IsFiniteSet(s) /\ s # {} =>
        /\ Chosen(s) \in s
        /\ IsFiniteSet(s \ {Chosen(s)})
        /\ Cardinality(s \ {Chosen(s)}) \in Nat
        /\ Cardinality(s) = Cardinality(s \ {Chosen(s)}) + 1
<1> SUFFICES ASSUME NEW s, IsFiniteSet(s), s # {}
             PROVE  /\ Chosen(s) \in s
                    /\ IsFiniteSet(s \ {Chosen(s)})
                    /\ Cardinality(s \ {Chosen(s)}) \in Nat
                    /\ Cardinality(s) = Cardinality(s \ {Chosen(s)}) + 1
  OBVIOUS
<1>1. Chosen(s) \in s
  BY DEF Chosen
<1>2. IsFiniteSet(s \ {Chosen(s)}) /\ Cardinality(s \ {Chosen(s)}) = Cardinality(s) - 1
  BY <1>1, FS_RemoveElement
<1>3. Cardinality(s) \in Nat /\ Cardinality(s \ {Chosen(s)}) \in Nat
  BY <1>2, FS_CardinalityType
<1> QED BY <1>1, <1>2, <1>3

\* A fold over the sets of at most n elements extends to those of n + 1.
LEMMA FoldExtends ==
    \A f, S, n, g :
        IsFiniteSet(S) /\ n \in Nat /\ IsFold(g, f, UpTo(S, n)) => \E h : IsFold(h, f, UpTo(S, n + 1))
<1> SUFFICES ASSUME NEW f, NEW S, NEW n \in Nat, NEW g, IsFiniteSet(S), IsFold(g, f, UpTo(S, n))
             PROVE  \E h : IsFold(h, f, UpTo(S, n + 1))
  OBVIOUS
<1> DEFINE Rest(s) == s \ {Chosen(s)}
           h == [s \in UpTo(S, n + 1) |-> IF s \in UpTo(S, n) THEN g[s] ELSE f[Chosen(s)] + g[Rest(s)]]
<1>1. \A s \in UpTo(S, n + 1) : IsFiniteSet(s) /\ Cardinality(s) \in Nat
  <2> TAKE s \in UpTo(S, n + 1)
  <2>1. IsFiniteSet(s)
    <3>1. s \subseteq S
      BY DEF UpTo
    <3> QED BY <3>1, FS_Subset
  <2> QED BY <2>1, FS_CardinalityType
<1>2. \A s \in UpTo(S, n + 1) : s # {} => Rest(s) \in UpTo(S, n)
  <2> SUFFICES ASSUME NEW s \in UpTo(S, n + 1), s # {}
               PROVE  Rest(s) \in UpTo(S, n)
    OBVIOUS
  <2>1. Cardinality(Rest(s)) \in Nat /\ Cardinality(s) = Cardinality(Rest(s)) + 1
    BY <1>1, ChosenRemoved
  <2>2. Cardinality(s) <= n + 1 /\ s \subseteq S
    BY DEF UpTo
  <2>3. Cardinality(Rest(s)) <= n
    BY <2>1, <2>2
  <2> QED BY <2>2, <2>3 DEF UpTo
<1>3. \A s \in UpTo(S, n + 1) : h[s] = IF s = {} THEN 0 ELSE f[Chosen(s)] + h[Rest(s)]
  <2> TAKE s \in UpTo(S, n + 1)
  <2>1. \A t \in UpTo(S, n) : t \in UpTo(S, n + 1)
    <3> SUFFICES ASSUME NEW t \in UpTo(S, n)
                 PROVE  t \in UpTo(S, n + 1)
      OBVIOUS
    <3>1. t \subseteq S /\ Cardinality(t) <= n
      BY DEF UpTo
    <3>2. Cardinality(t) \in Nat
      BY <3>1, FS_Subset, FS_CardinalityType
    <3> QED BY <3>1, <3>2 DEF UpTo
  <2>2. s # {} => h[Rest(s)] = g[Rest(s)]
    BY <1>2, <2>1
  <2>3. CASE s \in UpTo(S, n)
    <3>1. g[s] = IF s = {} THEN 0 ELSE f[Chosen(s)] + g[Rest(s)]
      BY <2>3 DEF IsFold
    <3> QED BY <2>2, <2>3, <3>1
  <2>4. CASE s \notin UpTo(S, n)
    <3>1. s # {}
      <4>1. {} \in UpTo(S, n)
        BY FS_EmptySet DEF UpTo
      <4> QED BY <2>4, <4>1
    <3> QED BY <2>2, <2>4, <3>1
  <2> QED BY <2>3, <2>4
<1>4. IsFold(h, f, UpTo(S, n + 1))
  <2> DEFINE k == [s \in UpTo(S, n + 1) |-> IF s = {} THEN 0 ELSE f[Chosen(s)] + h[Rest(s)]]
  <2>1. h = k
    <3>1. DOMAIN h = DOMAIN k /\ \A s \in UpTo(S, n + 1) : h[s] = k[s]
      <4> HIDE DEF h
      <4> QED BY <1>3 DEF h
    <3> QED BY <3>1
  <2> HIDE DEF h
  <2> QED BY <2>1 DEF IsFold
<1> QED BY <1>4

\* A finite set has a fold over its subsets.
LEMMA FoldExists ==
    \A f, S : IsFiniteSet(S) => \E g : IsFold(g, f, SUBSET S)
<1> SUFFICES ASSUME NEW f, NEW S, IsFiniteSet(S)
             PROVE  \E g : IsFold(g, f, SUBSET S)
  OBVIOUS
<1> DEFINE T == {n \in Nat : \E g : IsFold(g, f, UpTo(S, n))}
<1>1. 0 \in T
  <2> DEFINE g == [s \in UpTo(S, 0) |-> 0]
  <2>1. \A s \in UpTo(S, 0) : s = {}
    <3> SUFFICES ASSUME NEW s \in UpTo(S, 0)
                 PROVE  s = {}
      OBVIOUS
    <3>1. s \subseteq S /\ Cardinality(s) <= 0
      BY DEF UpTo
    <3>2. IsFiniteSet(s)
      BY <3>1, FS_Subset
    <3> QED BY <3>1, <3>2, FS_CardinalityType, FS_EmptySet
  <2>2. IsFold(g, f, UpTo(S, 0))
    BY <2>1 DEF IsFold
  <2> QED BY <2>2
<1>2. \A n \in T : n + 1 \in T
  <2> SUFFICES ASSUME NEW n \in T
               PROVE  \E g : IsFold(g, f, UpTo(S, n + 1))
    OBVIOUS
  <2> QED BY FoldExtends
<1>3. Cardinality(S) \in T
  <2>1. T = Nat
    <3> HIDE DEF T
    <3>1. T \in SUBSET Nat
      BY DEF T
    <3> QED BY <1>1, <1>2, <3>1, NaturalInduction, Zenon
  <2> QED BY <2>1, FS_CardinalityType
<1>4. UpTo(S, Cardinality(S)) = SUBSET S
  <2>1. \A s \in SUBSET S : Cardinality(s) <= Cardinality(S)
    BY FS_Subset
  <2> QED BY <2>1 DEF UpTo
<1> QED BY <1>3, <1>4

----------------------------------------------------------------------------
(* The laws of sums.                                                       *)

\* Two folds agree on a finite set where their functions do.
LEMMA FoldsAgree ==
    \A f1, f2, S1, S2, g1, g2, s :
        /\ IsFold(g1, f1, SUBSET S1) /\ IsFold(g2, f2, SUBSET S2)
        /\ IsFiniteSet(s) /\ s \subseteq S1 /\ s \subseteq S2 /\ \A x \in s : f1[x] = f2[x]
        => g1[s] = g2[s]
<1> SUFFICES ASSUME NEW f1, NEW f2, NEW S1, NEW S2, NEW g1, NEW g2, NEW s0,
                    IsFold(g1, f1, SUBSET S1), IsFold(g2, f2, SUBSET S2),
                    IsFiniteSet(s0), s0 \subseteq S1, s0 \subseteq S2, \A x \in s0 : f1[x] = f2[x]
             PROVE  g1[s0] = g2[s0]
  OBVIOUS
<1> DEFINE Agree(s) == s \subseteq S1 /\ s \subseteq S2 /\ \A x \in s : f1[x] = f2[x]
           T == {n \in Nat : \A s : IsFiniteSet(s) /\ Cardinality(s) = n /\ Agree(s) => g1[s] = g2[s]}
<1>1. 0 \in T
  <2> SUFFICES ASSUME NEW s, IsFiniteSet(s), Cardinality(s) = 0, Agree(s)
               PROVE  g1[s] = g2[s]
    OBVIOUS
  <2>1. s = {}
    BY FS_EmptySet
  <2> QED BY <2>1 DEF IsFold
<1>2. \A n \in T : n + 1 \in T
  <2> SUFFICES ASSUME NEW n \in T, NEW s, IsFiniteSet(s), Cardinality(s) = n + 1, Agree(s)
               PROVE  g1[s] = g2[s]
    OBVIOUS
  <2>1. s # {}
    BY FS_EmptySet
  <2> DEFINE r == s \ {Chosen(s)}
  <2>2. Chosen(s) \in s /\ IsFiniteSet(r) /\ Cardinality(r) = n
    <3>1. /\ Chosen(s) \in s /\ IsFiniteSet(r) /\ Cardinality(r) \in Nat
          /\ Cardinality(s) = Cardinality(r) + 1
      BY <2>1, ChosenRemoved
    <3> QED BY <3>1
  <2>3. g1[r] = g2[r]
    <3>1. Agree(r)
      OBVIOUS
    <3> QED BY <2>2, <3>1
  <2>4. g1[s] = f1[Chosen(s)] + g1[r] /\ g2[s] = f2[Chosen(s)] + g2[r]
    BY <2>1 DEF IsFold
  <2> QED BY <2>2, <2>3, <2>4
<1>3. T = Nat
  <2> HIDE DEF T
  <2>1. T \in SUBSET Nat
    BY DEF T
  <2> QED BY <1>1, <1>2, <2>1, NaturalInduction, Zenon
<1>4. Cardinality(s0) \in T
  <2>1. Cardinality(s0) \in Nat
    BY FS_CardinalityType
  <2> HIDE DEF T
  <2> QED BY <1>3, <2>1
<1> QED BY <1>4

\* Any fold over a set that holds s gives the sum over s.
LEMMA FoldGivesSum ==
    \A f, S, g, s :
        IsFold(g, f, SUBSET S) /\ s \subseteq S /\ IsFiniteSet(s) => g[s] = SumFunctionOnSet(f, s)
<1> SUFFICES ASSUME NEW f, NEW S, NEW g, NEW s,
                    IsFold(g, f, SUBSET S), s \subseteq S, IsFiniteSet(s)
             PROVE  g[s] = SumFunctionOnSet(f, s)
  OBVIOUS
<1> DEFINE h == CHOOSE h : IsFold(h, f, SUBSET s)
<1>1. IsFold(h, f, SUBSET s)
  <2>1. \E k : IsFold(k, f, SUBSET s)
    BY FoldExists
  <2> QED BY <2>1
<1>2. SumFunctionOnSet(f, s) = h[s]
  BY SumIsFold
<1>3. g[s] = h[s]
  <2> HIDE DEF h
  <2> QED BY <1>1, FoldsAgree
<1> QED BY <1>2, <1>3

LEMMA WholeFoldGivesSum ==
    \A f, s, g : IsFiniteSet(s) /\ IsFold(g, f, SUBSET s) => g[s] = SumFunctionOnSet(f, s)
<1> SUFFICES ASSUME NEW f, NEW s, NEW g, IsFiniteSet(s), IsFold(g, f, SUBSET s)
             PROVE  g[s] = SumFunctionOnSet(f, s)
  OBVIOUS
<1> QED BY FoldGivesSum

\* The sum over nothing is 0, and a sum over a finite set is one element and the rest.
LEMMA SumStep ==
    \A f, s : IsFiniteSet(s) =>
        SumFunctionOnSet(f, s) =
            IF s = {} THEN 0 ELSE f[Chosen(s)] + SumFunctionOnSet(f, s \ {Chosen(s)})
<1> SUFFICES ASSUME NEW f, NEW s, IsFiniteSet(s)
             PROVE  SumFunctionOnSet(f, s) =
                      IF s = {} THEN 0 ELSE f[Chosen(s)] + SumFunctionOnSet(f, s \ {Chosen(s)})
  OBVIOUS
<1>1. PICK g : IsFold(g, f, SUBSET s)
  BY FoldExists
<1>2. g[s] = IF s = {} THEN 0 ELSE f[Chosen(s)] + g[s \ {Chosen(s)}]
  BY <1>1 DEF IsFold
<1>3. g[s] = SumFunctionOnSet(f, s)
  BY <1>1, FoldGivesSum
<1>4. s # {} => g[s \ {Chosen(s)}] = SumFunctionOnSet(f, s \ {Chosen(s)})
  <2> SUFFICES ASSUME s # {} PROVE g[s \ {Chosen(s)}] = SumFunctionOnSet(f, s \ {Chosen(s)})
    OBVIOUS
  <2>1. IsFiniteSet(s \ {Chosen(s)}) /\ s \ {Chosen(s)} \subseteq s
    BY ChosenRemoved
  <2> QED BY <1>1, <2>1, FoldGivesSum
<1> QED BY <1>2, <1>3, <1>4

\* A sum depends only on the values of its set.
LEMMA SumAgrees ==
    \A f1, f2, s :
        IsFiniteSet(s) /\ (\A x \in s : f1[x] = f2[x])
        => SumFunctionOnSet(f1, s) = SumFunctionOnSet(f2, s)
<1> SUFFICES ASSUME NEW f1, NEW f2, NEW s, IsFiniteSet(s), \A x \in s : f1[x] = f2[x]
             PROVE  SumFunctionOnSet(f1, s) = SumFunctionOnSet(f2, s)
  OBVIOUS
<1>1. PICK g1 : IsFold(g1, f1, SUBSET s)
  BY FoldExists
<1>2. PICK g2 : IsFold(g2, f2, SUBSET s)
  BY FoldExists
<1>3. g1[s] = g2[s]
  BY <1>1, <1>2, FoldsAgree
<1>4. g1[s] = SumFunctionOnSet(f1, s) /\ g2[s] = SumFunctionOnSet(f2, s)
  BY <1>1, <1>2, WholeFoldGivesSum
<1> QED BY <1>3, <1>4

\* A sum of members of a set that holds 0 and is closed under + is a member of it.
LEMMA SumClosed ==
    \A f, s, V :
        /\ IsFiniteSet(s) /\ \A x \in s : f[x] \in V
        /\ 0 \in V /\ \A a, b \in V : a + b \in V
        => SumFunctionOnSet(f, s) \in V
<1> SUFFICES ASSUME NEW f, NEW s0, NEW V, IsFiniteSet(s0), \A x \in s0 : f[x] \in V,
                    0 \in V, \A a, b \in V : a + b \in V
             PROVE  SumFunctionOnSet(f, s0) \in V
  OBVIOUS
<1> DEFINE Member(s) == (\A x \in s : f[x] \in V) => SumFunctionOnSet(f, s) \in V
           T == {n \in Nat : \A s : IsFiniteSet(s) /\ Cardinality(s) = n => Member(s)}
<1>1. 0 \in T
  <2> SUFFICES ASSUME NEW s, IsFiniteSet(s), Cardinality(s) = 0
               PROVE  Member(s)
    OBVIOUS
  <2>1. SumFunctionOnSet(f, s) = 0
    BY FS_EmptySet, SumStep
  <2> QED BY <2>1
<1>2. \A n \in T : n + 1 \in T
  <2> SUFFICES ASSUME NEW n \in T, NEW s, IsFiniteSet(s), Cardinality(s) = n + 1
               PROVE  Member(s)
    OBVIOUS
  <2>1. s # {}
    BY FS_EmptySet
  <2> DEFINE r == s \ {Chosen(s)}
  <2>2. Chosen(s) \in s /\ IsFiniteSet(r) /\ Cardinality(r) = n
    <3>1. /\ Chosen(s) \in s /\ IsFiniteSet(r) /\ Cardinality(r) \in Nat
          /\ Cardinality(s) = Cardinality(r) + 1
      BY <2>1, ChosenRemoved
    <3> QED BY <3>1
  <2>3. SumFunctionOnSet(f, s) = f[Chosen(s)] + SumFunctionOnSet(f, r)
    BY <2>1, SumStep
  <2>4. Member(r)
    BY <2>2
  <2> HIDE DEF r
  <2>5. \A x \in r : x \in s
    BY DEF r
  <2> QED BY <2>2, <2>3, <2>4, <2>5
<1>3. T = Nat
  <2> HIDE DEF T
  <2>1. T \in SUBSET Nat
    BY DEF T
  <2> QED BY <1>1, <1>2, <2>1, NaturalInduction, Zenon
<1>4. Cardinality(s0) \in T
  <2>1. Cardinality(s0) \in Nat
    BY FS_CardinalityType
  <2> HIDE DEF T
  <2> QED BY <1>3, <2>1
<1> QED BY <1>4

\* A sum of integers is an integer, one of naturals a natural, one of zeroes 0.
LEMMA SumType ==
    \A f, s : IsFiniteSet(s) =>
        /\ (\A x \in s : f[x] \in Int) => SumFunctionOnSet(f, s) \in Int
        /\ (\A x \in s : f[x] \in Nat) => SumFunctionOnSet(f, s) \in Nat
        /\ (\A x \in s : f[x] = 0) => SumFunctionOnSet(f, s) = 0
<1> SUFFICES ASSUME NEW f, NEW s, IsFiniteSet(s)
             PROVE  /\ (\A x \in s : f[x] \in Int) => SumFunctionOnSet(f, s) \in Int
                    /\ (\A x \in s : f[x] \in Nat) => SumFunctionOnSet(f, s) \in Nat
                    /\ (\A x \in s : f[x] = 0) => SumFunctionOnSet(f, s) = 0
  OBVIOUS
<1> DEFINE Closed(V) == 0 \in V /\ \A a, b \in V : a + b \in V
<1>1. Closed(Int) /\ Closed(Nat) /\ Closed({0})
  OBVIOUS
<1>2. \A V : Closed(V) /\ (\A x \in s : f[x] \in V) => SumFunctionOnSet(f, s) \in V
  BY SumClosed
<1> HIDE DEF Closed
<1> QED BY <1>1, <1>2

\* Any element may be taken out of a sum first: the order of a fold over + does not matter.
LEMMA SumRemove ==
    \A f, s, x :
        IsFiniteSet(s) /\ (\A y \in s : f[y] \in Int) /\ x \in s
        => SumFunctionOnSet(f, s) = f[x] + SumFunctionOnSet(f, s \ {x})
<1> SUFFICES ASSUME NEW f, NEW s0, NEW x0, IsFiniteSet(s0), x0 \in s0,
                    \A y \in s0 : f[y] \in Int
             PROVE  SumFunctionOnSet(f, s0) = f[x0] + SumFunctionOnSet(f, s0 \ {x0})
  OBVIOUS
<1> DEFINE Total(s) == SumFunctionOnSet(f, s)
           T == {n \in Nat : \A s, x : /\ IsFiniteSet(s) /\ Cardinality(s) = n
                                        /\ (\A y \in s : f[y] \in Int) /\ x \in s
                                        => Total(s) = f[x] + Total(s \ {x})}
<1>1. 0 \in T
  BY FS_EmptySet
<1>2. \A n \in T : n + 1 \in T
  <2> TAKE n \in T
  <2>0. n + 1 \in Nat
    OBVIOUS
  <2> SUFFICES \A s, x : /\ IsFiniteSet(s) /\ Cardinality(s) = n + 1
                         /\ (\A y \in s : f[y] \in Int) /\ x \in s
                         => Total(s) = f[x] + Total(s \ {x})
    <3> HIDE DEF Total
    <3> QED BY <2>0, Zenon
  <2> SUFFICES ASSUME NEW s, NEW x, IsFiniteSet(s), Cardinality(s) = n + 1,
                      x \in s, \A y \in s : f[y] \in Int
               PROVE  Total(s) = f[x] + Total(s \ {x})
    OBVIOUS
  <2> DEFINE c == Chosen(s)
             rest == s \ {c}
             less == s \ {x}
             both == rest \ {x}
  <2>1. c \in s /\ IsFiniteSet(rest) /\ Cardinality(rest) = n
    <3>1. /\ c \in s /\ IsFiniteSet(rest) /\ Cardinality(rest) \in Nat
          /\ Cardinality(s) = Cardinality(rest) + 1
      BY ChosenRemoved
    <3> QED BY <3>1
  <2>2. Total(s) = f[c] + Total(rest)
    BY SumStep
  <2>3. CASE x = c
    BY <2>2, <2>3
  <2>4. CASE x # c
    <3>1. IsFiniteSet(less) /\ Cardinality(less) = n
      <4>1. IsFiniteSet(less) /\ Cardinality(less) = Cardinality(s) - 1
        BY FS_RemoveElement
      <4> QED BY <4>1
    <3>2. \A t, y : /\ IsFiniteSet(t) /\ Cardinality(t) = n
                    /\ (\A z \in t : f[z] \in Int) /\ y \in t
                    => Total(t) = f[y] + Total(t \ {y})
      OBVIOUS
    <3>3. Total(rest) = f[x] + Total(rest \ {x})
      <4>1. x \in rest /\ \A z \in rest : f[z] \in Int
        BY <2>4
      <4> HIDE DEF rest, Total, T
      <4> QED BY <2>1, <3>2, <4>1
    <3>4. Total(less) = f[c] + Total(less \ {c})
      <4>1. c \in less /\ \A z \in less : f[z] \in Int
        BY <2>1, <2>4
      <4> HIDE DEF less, Total, T, c
      <4> QED BY <3>1, <3>2, <4>1
    <3>5. less \ {c} = both
      OBVIOUS
    <3>6. Total(both) \in Int
      <4>1. IsFiniteSet(both) /\ \A z \in both : f[z] \in Int
        BY <2>1, FS_RemoveElement
      <4> QED BY <4>1, SumType
    <3>7. f[c] \in Int /\ f[x] \in Int
      BY <2>1
    <3>8. Total(less) = f[c] + Total(both)
      BY <3>4, <3>5
    <3> HIDE DEF Total, c, rest, less, both
    <3>9. Total(s) = f[c] + (f[x] + Total(both))
      BY <2>2, <3>3 DEF both
    <3> QED BY <3>6, <3>7, <3>8, <3>9 DEF less
  <2> QED BY <2>3, <2>4
<1>3. T = Nat
  <2> HIDE DEF T
  <2>1. T \in SUBSET Nat
    BY DEF T
  <2> QED BY <1>1, <1>2, <2>1, NaturalInduction, Zenon
<1>4. Cardinality(s0) \in T
  <2>1. Cardinality(s0) \in Nat
    BY FS_CardinalityType
  <2> HIDE DEF T
  <2> QED BY <1>3, <2>1
<1> QED BY <1>4

\* A new element adds its value.
LEMMA SumAdd ==
    \A f, g, s, x :
        /\ IsFiniteSet(s) /\ x \notin s /\ g[x] \in Int
        /\ (\A y \in s : f[y] \in Int) /\ (\A y \in s : g[y] = f[y])
        => SumFunctionOnSet(g, s \cup {x}) = SumFunctionOnSet(f, s) + g[x]
<1> SUFFICES ASSUME NEW f, NEW g, NEW s, NEW x, IsFiniteSet(s), x \notin s, g[x] \in Int,
                    \A y \in s : f[y] \in Int, \A y \in s : g[y] = f[y]
             PROVE  SumFunctionOnSet(g, s \cup {x}) = SumFunctionOnSet(f, s) + g[x]
  OBVIOUS
<1>1. IsFiniteSet(s \cup {x}) /\ (s \cup {x}) \ {x} = s
  BY FS_AddElement
<1>2. \A y \in s \cup {x} : g[y] \in Int
  OBVIOUS
<1>3. SumFunctionOnSet(g, s \cup {x}) = g[x] + SumFunctionOnSet(g, s)
  <2> DEFINE t == s \cup {x}
  <2>1. x \in t /\ t \ {x} = s
    BY <1>1
  <2> HIDE DEF t
  <2>2. SumFunctionOnSet(g, t) = g[x] + SumFunctionOnSet(g, t \ {x})
    BY <1>1, <1>2, <2>1, SumRemove DEF t
  <2> QED BY <2>1, <2>2 DEF t
<1>4. SumFunctionOnSet(g, s) = SumFunctionOnSet(f, s)
  BY SumAgrees
<1>5. SumFunctionOnSet(f, s) \in Int
  BY SumType
<1> QED BY <1>3, <1>4, <1>5

\* A value that changes moves the sum by as much.
LEMMA SumChange ==
    \A f, g, s, x :
        /\ IsFiniteSet(s) /\ x \in s /\ g[x] \in Int
        /\ (\A y \in s : f[y] \in Int) /\ (\A y \in s \ {x} : g[y] = f[y])
        => SumFunctionOnSet(g, s) + f[x] = SumFunctionOnSet(f, s) + g[x]
<1> SUFFICES ASSUME NEW f, NEW g, NEW s, NEW x, IsFiniteSet(s), x \in s, g[x] \in Int,
                    \A y \in s : f[y] \in Int, \A y \in s \ {x} : g[y] = f[y]
             PROVE  SumFunctionOnSet(g, s) + f[x] = SumFunctionOnSet(f, s) + g[x]
  OBVIOUS
<1> DEFINE r == s \ {x}
<1>1. IsFiniteSet(r)
  BY FS_RemoveElement
<1>2. SumFunctionOnSet(f, s) = f[x] + SumFunctionOnSet(f, r)
  BY SumRemove
<1>3. SumFunctionOnSet(g, s) = g[x] + SumFunctionOnSet(g, r)
  <2>1. \A y \in s : g[y] \in Int
    OBVIOUS
  <2> QED BY <2>1, SumRemove
<1>4. SumFunctionOnSet(g, r) = SumFunctionOnSet(f, r)
  <2>1. \A y \in r : g[y] = f[y]
    OBVIOUS
  <2> HIDE DEF r
  <2> QED BY <1>1, <2>1, SumAgrees
<1>5. SumFunctionOnSet(f, r) \in Int
  <2>1. \A y \in r : f[y] \in Int
    OBVIOUS
  <2> HIDE DEF r
  <2> QED BY <1>1, <2>1, SumType
<1> HIDE DEF r
<1> QED BY <1>2, <1>3, <1>4, <1>5

\* What a smaller set sums to is no more, when the values are naturals.
LEMMA SumMonotone ==
    \A f, s, t :
        IsFiniteSet(t) /\ s \subseteq t /\ (\A x \in t : f[x] \in Nat)
        => SumFunctionOnSet(f, s) <= SumFunctionOnSet(f, t)
<1> SUFFICES ASSUME NEW f, NEW s0, NEW t0, IsFiniteSet(t0), s0 \subseteq t0,
                    \A x \in t0 : f[x] \in Nat
             PROVE  SumFunctionOnSet(f, s0) <= SumFunctionOnSet(f, t0)
  OBVIOUS
<1> DEFINE Total(s) == SumFunctionOnSet(f, s)
           Rises(t) == \A s : s \subseteq t /\ (\A x \in t : f[x] \in Nat) => Total(s) <= Total(t)
           T == {n \in Nat : \A t : IsFiniteSet(t) /\ Cardinality(t) = n => Rises(t)}
<1>1. 0 \in T
  <2> SUFFICES ASSUME NEW t, IsFiniteSet(t), Cardinality(t) = 0
               PROVE  Rises(t)
    OBVIOUS
  <2>1. t = {}
    BY FS_EmptySet
  <2>2. Total({}) = 0
    BY FS_EmptySet, SumStep
  <2> QED BY <2>1, <2>2
<1>2. \A n \in T : n + 1 \in T
  <2> TAKE n \in T
  <2>0. n + 1 \in Nat
    OBVIOUS
  <2> SUFFICES \A t : IsFiniteSet(t) /\ Cardinality(t) = n + 1 => Rises(t)
    <3> HIDE DEF Rises
    <3> QED BY <2>0, Zenon
  <2> SUFFICES ASSUME NEW t, IsFiniteSet(t), Cardinality(t) = n + 1, \A x \in t : f[x] \in Nat,
                      NEW s, s \subseteq t
               PROVE  Total(s) <= Total(t)
    OBVIOUS
  <2> DEFINE c == Chosen(t)
             rest == t \ {c}
  <2>1. t # {}
    BY FS_EmptySet
  <2>2. c \in t /\ IsFiniteSet(rest) /\ Cardinality(rest) = n
    <3>1. /\ c \in t /\ IsFiniteSet(rest) /\ Cardinality(rest) \in Nat
          /\ Cardinality(t) = Cardinality(rest) + 1
      BY <2>1, ChosenRemoved
    <3> QED BY <3>1
  <2>3. Total(t) = f[c] + Total(rest)
    BY <2>1, SumStep
  <2>4. Rises(rest)
    <3> HIDE DEF rest, Rises
    <3> QED BY <2>2
  <2>5. \A x \in rest : f[x] \in Nat
    OBVIOUS
  <2>6. Total(rest) \in Nat /\ f[c] \in Nat
    <3> HIDE DEF rest
    <3> QED BY <2>2, <2>5, SumType
  <2>7. CASE c \notin s
    <3>1. s \subseteq rest
      BY <2>7
    <3>2. Total(s) <= Total(rest)
      <4> HIDE DEF rest, Total
      <4> QED BY <2>4, <2>5, <3>1
    <3>3. Total(s) \in Int
      <4>1. IsFiniteSet(s) /\ \A x \in s : f[x] \in Int
        BY FS_Subset
      <4> QED BY <4>1, SumType
    <3> HIDE DEF rest, Total
    <3> QED BY <2>3, <2>6, <3>2, <3>3
  <2>8. CASE c \in s
    <3> DEFINE less == s \ {c}
    <3>1. less \subseteq rest /\ IsFiniteSet(s) /\ IsFiniteSet(less)
      BY FS_Subset, FS_RemoveElement
    <3>2. Total(less) <= Total(rest)
      <4> HIDE DEF rest, less, Total
      <4> QED BY <2>4, <2>5, <3>1
    <3>3. \A x \in s : f[x] \in Int
      OBVIOUS
    <3>4. Total(s) = f[c] + Total(less)
      <4> HIDE DEF c
      <4> QED BY <2>8, <3>1, <3>3, SumRemove
    <3>5. Total(less) \in Int
      <4>1. \A x \in less : f[x] \in Int
        BY <3>3
      <4> HIDE DEF less
      <4> QED BY <3>1, <4>1, SumType
    <3> HIDE DEF rest, less, Total, c
    <3> QED BY <2>3, <2>6, <3>2, <3>4, <3>5
  <2> QED BY <2>7, <2>8
<1>3. T = Nat
  <2> HIDE DEF T
  <2>1. T \in SUBSET Nat
    BY DEF T
  <2> QED BY <1>1, <1>2, <2>1, NaturalInduction, Zenon
<1>4. Cardinality(t0) \in T
  <2>1. Cardinality(t0) \in Nat
    BY FS_CardinalityType
  <2> HIDE DEF T
  <2> QED BY <1>3, <2>1
<1> QED BY <1>4

=============================================================================
