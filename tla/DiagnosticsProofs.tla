-------------------------- MODULE DiagnosticsProofs --------------------------
(***************************************************************************)
(* Proofs about Diagnostics, for any number of events, intervals and       *)
(* report streams: the events the recorder and its writer thread share are *)
(* all accounted for, no loss goes unsaid, no side strands the other and   *)
(* protected evidence is displaced last.                                   *)
(*                                                                         *)
(* The first part states what the sequence operators of the model return.  *)
(* FlattenSeq is a recursive function, so its laws need induction, taken   *)
(* from NaturalInduction of SumTheorems.                                   *)
(***************************************************************************)
EXTENDS Diagnostics, SumTheorems, SequenceTheorems

-----------------------------------------------------------------------------
\* event_counts puts every event of a sequence in one of its two categories.
LEMMA CountsEveryEvent ==
    \A S : \A s \in Seq(S) :
        /\ event_counts(s) \in [Categories -> Nat]
        /\ event_counts(s)["protected"] + event_counts(s)["other"] = Len(s)
<1> SUFFICES ASSUME NEW S, NEW s \in Seq(S)
             PROVE  /\ event_counts(s) \in [Categories -> Nat]
                    /\ event_counts(s)["protected"] + event_counts(s)["other"] = Len(s)
  OBVIOUS
<1> DEFINE at(c) == {i \in DOMAIN s : Category(s[i]) = c}
           P == at("protected")
           O == at("other")
<1>1. DOMAIN s = 1..Len(s) /\ Len(s) \in Nat
  OBVIOUS
<1>2. IsFiniteSet(DOMAIN s) /\ Cardinality(DOMAIN s) = Len(s)
  BY <1>1, FS_Interval
<1>3. \A c \in Categories : IsFiniteSet(at(c)) /\ Cardinality(at(c)) \in Nat
  <2> TAKE c \in Categories
  <2>1. at(c) \in SUBSET DOMAIN s
    OBVIOUS
  <2>2. IsFiniteSet(at(c))
    BY <1>2, <2>1, FS_Subset, Zenon
  <2> QED BY <2>2, FS_CardinalityType
<1>4. P \cup O = DOMAIN s /\ P \cap O = {}
  BY DEF Category
<1>5. Cardinality(P) + Cardinality(O) = Len(s)
  <2>1. "protected" \in Categories /\ "other" \in Categories
    BY DEF Categories
  <2>2. IsFiniteSet(P) /\ Cardinality(P) \in Nat /\ IsFiniteSet(O) /\ Cardinality(O) \in Nat
    BY <1>3, <2>1
  <2>3. Cardinality(P \cup O) = Cardinality(P) + Cardinality(O) - Cardinality(P \cap O)
    <3> HIDE DEF P, O
    <3> QED BY <2>2, FS_Union
  <2>4. Cardinality(P \cap O) = 0
    BY <1>4, FS_EmptySet
  <2> HIDE DEF P, O
  <2> QED BY <1>2, <1>4, <2>2, <2>3, <2>4
<1> QED BY <1>3, <1>5 DEF event_counts, Categories

-----------------------------------------------------------------------------
(* FlattenSeq.                                                             *)

\* g flattens the first i members of q, for each i up to n.
IsFlat(g, q, n) == g = [i \in 1..n |-> IF i = 1 THEN q[i] ELSE g[i-1] \o q[i]]

LEMMA FlatExists == \A q : \A n \in Nat : \E g : IsFlat(g, q, n)
<1> SUFFICES ASSUME NEW q
             PROVE  \A n \in Nat : \E g : IsFlat(g, q, n)
  OBVIOUS
<1> DEFINE T == {n \in Nat : \E g : IsFlat(g, q, n)}
<1>1. 0 \in T
  <2> DEFINE g0 == [i \in 1..0 |-> 0]
  <2>1. g0 = [i \in 1..0 |-> IF i = 1 THEN q[i] ELSE g0[i-1] \o q[i]]
    OBVIOUS
  <2>2. IsFlat(g0, q, 0)
    BY <2>1 DEF IsFlat
  <2> QED BY <2>2
<1>2. \A n \in T : n + 1 \in T
  <2> SUFFICES ASSUME NEW n \in Nat, NEW g, IsFlat(g, q, n)
               PROVE  \E h : IsFlat(h, q, n + 1)
    OBVIOUS
  <2> DEFINE val(f, i) == IF i = 1 THEN q[i] ELSE f[i-1] \o q[i]
             h == [i \in 1..(n + 1) |-> val(g, i)]
  <2>1. \A i \in 1..n : g[i] = val(g, i)
    BY DEF IsFlat
  <2>2. \A i \in 1..n : h[i] = g[i]
    <3> HIDE DEF val
    <3> QED BY <2>1
  <2>3. \A i \in 1..(n + 1) : val(g, i) = val(h, i)
    <3> SUFFICES ASSUME NEW i \in 1..(n + 1), i # 1
                 PROVE  g[i-1] = h[i-1]
      OBVIOUS
    <3>1. i - 1 \in 1..n
      OBVIOUS
    <3> HIDE DEF h
    <3> QED BY <2>2, <3>1
  <2>4. h = [i \in 1..(n + 1) |-> val(h, i)]
    <3> DEFINE k == [i \in 1..(n + 1) |-> val(h, i)]
    <3>1. h = k
      <4>1. \A i \in 1..(n + 1) : h[i] = val(g, i) /\ k[i] = val(h, i)
        <5> HIDE DEF val
        <5> QED OBVIOUS
      <4>2. h \in [1..(n + 1) -> {val(g, i) : i \in 1..(n + 1)}]
        <5> HIDE DEF val
        <5> QED OBVIOUS
      <4>3. DOMAIN h = 1..(n + 1) /\ DOMAIN k = 1..(n + 1)
        OBVIOUS
      <4>4. h = [i \in DOMAIN h |-> h[i]] /\ k = [i \in DOMAIN k |-> k[i]]
        OBVIOUS
      <4> HIDE DEF h, k, val
      <4> QED BY <2>3, <4>1, <4>3, <4>4
    <3> QED BY <3>1
  <2>5. IsFlat(h, q, n + 1)
    BY <2>4 DEF IsFlat
  <2> QED BY <2>5
<1>3. T = Nat
  <2>1. T \in SUBSET Nat
    OBVIOUS
  <2> HIDE DEF T
  <2> QED BY <1>1, <1>2, <2>1, NaturalInduction, Zenon
<1> QED BY <1>3

\* Two flattenings agree as far as their sequences do.
LEMMA FlatsAgree ==
    \A g, h, q, r : \A n, m \in Nat :
        IsFlat(g, q, n) /\ IsFlat(h, r, m) =>
            \A k \in 1..n : k \in 1..m /\ (\A i \in 1..k : q[i] = r[i]) => g[k] = h[k]
<1> SUFFICES ASSUME NEW g, NEW h, NEW q, NEW r, NEW n \in Nat, NEW m \in Nat,
                    NEW k \in 1..n, k \in 1..m, IsFlat(g, q, n), IsFlat(h, r, m),
                    \A i \in 1..k : q[i] = r[i]
             PROVE  g[k] = h[k]
  OBVIOUS
<1>a. \A i \in 1..n : g[i] = IF i = 1 THEN q[i] ELSE g[i-1] \o q[i]
  BY DEF IsFlat
<1>b. \A i \in 1..m : h[i] = IF i = 1 THEN r[i] ELSE h[i-1] \o r[i]
  BY DEF IsFlat
<1> DEFINE T == {j \in Nat : j \in 1..k => g[j] = h[j]}
<1>1. 0 \in T
  OBVIOUS
<1>2. \A j \in T : j + 1 \in T
  <2> SUFFICES ASSUME NEW j \in T, j + 1 \in 1..k
               PROVE  g[j + 1] = h[j + 1]
    OBVIOUS
  <2>1. g[j + 1] = (IF j + 1 = 1 THEN q[j + 1] ELSE g[(j + 1) - 1] \o q[j + 1])
    <3>1. j + 1 \in 1..n
      OBVIOUS
    <3> QED BY <1>a, <3>1, Zenon
  <2>2. h[j + 1] = (IF j + 1 = 1 THEN r[j + 1] ELSE h[(j + 1) - 1] \o r[j + 1])
    <3>1. j + 1 \in 1..m
      OBVIOUS
    <3> QED BY <1>b, <3>1, Zenon
  <2>3. q[j + 1] = r[j + 1]
    OBVIOUS
  <2>4. (j + 1) - 1 = j
    OBVIOUS
  <2>5. CASE j = 0
    <3>1. g[j + 1] = q[j + 1] /\ h[j + 1] = r[j + 1]
      BY <2>1, <2>2, <2>5
    <3> QED BY <2>3, <3>1
  <2>6. CASE j # 0
    <3>1. j \in 1..k /\ j + 1 # 1
      BY <2>6
    <3>2. g[j] = h[j]
      BY <3>1
    <3>3. g[j + 1] = g[j] \o q[j + 1] /\ h[j + 1] = h[j] \o r[j + 1]
      BY <2>1, <2>2, <2>4, <3>1
    <3> QED BY <2>3, <3>2, <3>3
  <2> QED BY <2>5, <2>6
<1>3. T = Nat
  <2>1. T \in SUBSET Nat
    OBVIOUS
  <2> HIDE DEF T
  <2> QED BY <1>1, <1>2, <2>1, NaturalInduction, Zenon
<1>4. k \in T
  BY <1>3
<1> QED BY <1>4

\* FlattenSeq is what its recursive function gives for the whole sequence.
LEMMA FlattenIsFlat ==
    \A S : \A q \in Seq(Seq(S)) :
        IF q = <<>> THEN FlattenSeq(q) = <<>>
        ELSE \E g : IsFlat(g, q, Len(q)) /\ FlattenSeq(q) = g[Len(q)]
<1> SUFFICES ASSUME NEW S, NEW q \in Seq(Seq(S))
             PROVE  IF q = <<>> THEN FlattenSeq(q) = <<>>
                    ELSE \E g : IsFlat(g, q, Len(q)) /\ FlattenSeq(q) = g[Len(q)]
  OBVIOUS
<1>1. CASE q = <<>>
  BY <1>1 DEF FlattenSeq
<1>2. CASE q # <<>>
  <2>1. Len(q) \in Nat /\ Len(q) # 0
    BY <1>2
  <2> DEFINE flat == CHOOSE g : IsFlat(g, q, Len(q))
  <2>2. IsFlat(flat, q, Len(q))
    BY <2>1, FlatExists
  <2>3. FlattenSeq(q) = flat[Len(q)]
    BY <2>1 DEF FlattenSeq, IsFlat
  <2> QED BY <1>2, <2>2, <2>3
<1> QED BY <1>1, <1>2

\* Flattening one more sequence appends it.
LEMMA FlattenAppend ==
    \A S : \A q \in Seq(Seq(S)), e \in Seq(S) :
        FlattenSeq(Append(q, e)) = IF q = <<>> THEN e ELSE FlattenSeq(q) \o e
<1> SUFFICES ASSUME NEW S, NEW q \in Seq(Seq(S)), NEW e \in Seq(S)
             PROVE  FlattenSeq(Append(q, e)) = IF q = <<>> THEN e ELSE FlattenSeq(q) \o e
  OBVIOUS
<1> DEFINE r == Append(q, e)
           n == Len(q)
<1>1. /\ r \in Seq(Seq(S)) /\ r # <<>> /\ Len(r) = n + 1 /\ n \in Nat
      /\ r[n + 1] = e /\ \A i \in 1..n : q[i] = r[i]
  BY AppendProperties
<1> HIDE DEF r
<1>2. PICK h : IsFlat(h, r, n + 1) /\ FlattenSeq(r) = h[n + 1]
  BY <1>1, FlattenIsFlat
<1>3. \A i \in 1..(n + 1) : h[i] = IF i = 1 THEN r[i] ELSE h[i-1] \o r[i]
  BY <1>2 DEF IsFlat
<1>4. h[n + 1] = IF n + 1 = 1 THEN r[n + 1] ELSE h[(n + 1) - 1] \o r[n + 1]
  <2>1. n + 1 \in 1..(n + 1)
    BY <1>1
  <2> QED BY <1>3, <2>1, Zenon
<1>5. CASE q = <<>>
  <2>1. n + 1 = 1
    BY <1>5
  <2> QED BY <1>1, <1>2, <1>4, <1>5, <2>1 DEF r
<1>6. CASE q # <<>>
  <2>1. n # 0 /\ n + 1 # 1 /\ (n + 1) - 1 = n /\ n \in 1..n /\ n \in 1..(n + 1)
    BY <1>1, <1>6
  <2>2. PICK g : IsFlat(g, q, n) /\ FlattenSeq(q) = g[n]
    BY <1>6, FlattenIsFlat
  <2>3. g[n] = h[n]
    <3>1. n \in Nat /\ n + 1 \in Nat
      BY <1>1
    <3>2. IsFlat(g, q, n) /\ IsFlat(h, r, n + 1) /\ \A i \in 1..n : q[i] = r[i]
      BY <1>1, <1>2, <2>2
    <3> HIDE DEF n
    <3>3. n \in 1..n /\ n \in 1..(n + 1)
      BY <2>1
    <3> DEFINE m == n + 1
    <3>4. m \in Nat /\ n \in 1..m /\ IsFlat(h, r, m)
      BY <3>1, <3>2, <3>3
    <3> HIDE DEF m
    <3>5. \A k \in 1..n : k \in 1..m /\ (\A i \in 1..k : q[i] = r[i]) => g[k] = h[k]
      BY <3>1, <3>2, <3>4, FlatsAgree
    <3> QED BY <3>2, <3>3, <3>4, <3>5
  <2>4. h[n + 1] = h[n] \o e
    BY <1>1, <1>4, <2>1
  <2> QED BY <1>2, <1>6, <2>2, <2>3, <2>4 DEF r
<1> QED BY <1>5, <1>6

\* Flattening a sequence of sequences yields a sequence.
LEMMA FlattenType == \A S : \A q \in Seq(Seq(S)) : FlattenSeq(q) \in Seq(S)
<1> SUFFICES ASSUME NEW S
             PROVE  \A q \in Seq(Seq(S)) : FlattenSeq(q) \in Seq(S)
  OBVIOUS
<1> DEFINE ok(q) == FlattenSeq(q) \in Seq(S)
           T == {n \in Nat : \A q \in Seq(Seq(S)) : Len(q) = n => ok(q)}
<1>1. 0 \in T
  <2> SUFFICES ASSUME NEW q \in Seq(Seq(S)), Len(q) = 0
               PROVE  FlattenSeq(q) \in Seq(S)
    OBVIOUS
  <2>1. q = <<>>
    OBVIOUS
  <2>2. FlattenSeq(q) = <<>>
    BY <2>1, FlattenIsFlat
  <2> QED BY <2>2
<1>2. \A n \in T : n + 1 \in T
  <2> SUFFICES ASSUME NEW n \in T
               PROVE  \A r \in Seq(Seq(S)) : Len(r) = n + 1 => ok(r)
    <3> HIDE DEF ok
    <3> QED OBVIOUS
  <2> SUFFICES ASSUME NEW r \in Seq(Seq(S)), Len(r) = n + 1
               PROVE  FlattenSeq(r) \in Seq(S)
    OBVIOUS
  <2>1. r # <<>>
    OBVIOUS
  <2>2. PICK q \in Seq(Seq(S)), e \in Seq(S) : r = Append(q, e)
    BY <2>1, SequenceEmptyOrAppend
  <2>3. Len(q) = n
    BY <2>2
  <2>4. FlattenSeq(q) \in Seq(S)
    BY <2>3
  <2>5. FlattenSeq(r) = IF q = <<>> THEN e ELSE FlattenSeq(q) \o e
    BY <2>2, FlattenAppend
  <2>6. FlattenSeq(q) \o e \in Seq(S)
    BY <2>4, ConcatProperties
  <2> QED BY <2>5, <2>6
<1>3. T = Nat
  <2>1. T \in SUBSET Nat
    OBVIOUS
  <2> HIDE DEF T
  <2> QED BY <1>1, <1>2, <2>1, NaturalInduction, Zenon
<1> QED BY <1>3

\* The length of a flattened sequence, one member more at the end.
LEMMA FlattenLonger ==
    \A S : \A q \in Seq(Seq(S)), e \in Seq(S) :
        Len(FlattenSeq(Append(q, e))) = Len(FlattenSeq(q)) + Len(e)
<1> SUFFICES ASSUME NEW S, NEW q \in Seq(Seq(S)), NEW e \in Seq(S)
             PROVE  Len(FlattenSeq(Append(q, e))) = Len(FlattenSeq(q)) + Len(e)
  OBVIOUS
<1>1. FlattenSeq(Append(q, e)) = IF q = <<>> THEN e ELSE FlattenSeq(q) \o e
  BY FlattenAppend
<1>2. FlattenSeq(q) \in Seq(S)
  BY FlattenType
<1>3. CASE q = <<>>
  <2>1. FlattenSeq(q) = <<>>
    BY <1>3, FlattenIsFlat
  <2> QED BY <1>1, <1>3, <2>1
<1>4. CASE q # <<>>
  BY <1>1, <1>2, <1>4, ConcatProperties
<1> QED BY <1>3, <1>4

\* A sequence of sequences cut in two: the lengths of the parts add up.
LEMMA FlattenSplit ==
    \A S : \A a, b \in Seq(Seq(S)) :
        Len(FlattenSeq(a \o b)) = Len(FlattenSeq(a)) + Len(FlattenSeq(b))
<1> SUFFICES ASSUME NEW S, NEW a \in Seq(Seq(S))
             PROVE  \A b \in Seq(Seq(S)) :
                        Len(FlattenSeq(a \o b)) = Len(FlattenSeq(a)) + Len(FlattenSeq(b))
  OBVIOUS
<1> DEFINE size(q) == Len(FlattenSeq(q))
           T == {n \in Nat : \A b \in Seq(Seq(S)) : Len(b) = n => size(a \o b) = size(a) + size(b)}
<1>a. \A q \in Seq(Seq(S)) : size(q) \in Nat
  BY FlattenType
<1>1. 0 \in T
  <2> SUFFICES ASSUME NEW b \in Seq(Seq(S)), Len(b) = 0
               PROVE  size(a \o b) = size(a) + size(b)
    OBVIOUS
  <2>1. b = <<>>
    OBVIOUS
  <2>2. a \o b = a
    BY <2>1
  <2>3. size(b) = 0
    <3>1. FlattenSeq(b) = <<>>
      BY <2>1, FlattenIsFlat
    <3> QED BY <3>1
  <2>4. size(a) \in Nat
    BY <1>a
  <2> HIDE DEF size
  <2> QED BY <2>2, <2>3, <2>4
<1>2. \A n \in T : n + 1 \in T
  <2> SUFFICES ASSUME NEW n \in T
               PROVE  \A r \in Seq(Seq(S)) : Len(r) = n + 1 => size(a \o r) = size(a) + size(r)
    <3> HIDE DEF size
    <3> QED OBVIOUS
  <2> SUFFICES ASSUME NEW r \in Seq(Seq(S)), Len(r) = n + 1
               PROVE  size(a \o r) = size(a) + size(r)
    OBVIOUS
  <2>1. r # <<>>
    OBVIOUS
  <2>2. PICK b \in Seq(Seq(S)), e \in Seq(S) : r = Append(b, e)
    BY <2>1, SequenceEmptyOrAppend
  <2>3. Len(b) = n
    BY <2>2
  <2>4. size(a \o b) = size(a) + size(b)
    BY <2>3
  <2>5. a \o r = Append(a \o b, e) /\ a \o b \in Seq(Seq(S))
    BY <2>2
  <2>6. size(r) = size(b) + Len(e)
    BY <2>2, FlattenLonger
  <2>7. size(a \o r) = size(a \o b) + Len(e)
    BY <2>5, FlattenLonger
  <2>8. size(a) \in Nat /\ size(b) \in Nat /\ Len(e) \in Nat
    BY <1>a
  <2> HIDE DEF size
  <2> QED BY <2>4, <2>6, <2>7, <2>8
<1>3. T = Nat
  <2>1. T \in SUBSET Nat
    OBVIOUS
  <2> HIDE DEF T
  <2> QED BY <1>1, <1>2, <2>1, NaturalInduction, Zenon
<1> QED BY <1>3

-----------------------------------------------------------------------------
(* Picked.                                                                 *)

\* The n-th smallest member of a finite set of positions exists.
LEMMA RankExists ==
    \A m \in Nat : \A I \in SUBSET (1..m) :
        /\ IsFiniteSet(I) /\ Cardinality(I) \in Nat
        /\ \A n \in 1..Cardinality(I) : \E i \in I : Cardinality({j \in I : j <= i}) = n
<1> SUFFICES ASSUME NEW m \in Nat, NEW I \in SUBSET (1..m)
             PROVE  /\ IsFiniteSet(I) /\ Cardinality(I) \in Nat
                    /\ \A n \in 1..Cardinality(I) : \E i \in I : Cardinality({j \in I : j <= i}) = n
  OBVIOUS
<1> DEFINE upTo(i) == {j \in I : j <= i}
           rank == [i \in I |-> Cardinality(upTo(i))]
           c == Cardinality(I)
<1>1. IsFiniteSet(I) /\ c \in Nat
  <2>1. IsFiniteSet(1..m)
    BY FS_Interval
  <2> QED BY <2>1, FS_Subset, FS_CardinalityType
<1>2. \A i \in I : IsFiniteSet(upTo(i)) /\ Cardinality(upTo(i)) \in 1..c
  <2> SUFFICES ASSUME NEW i \in I
               PROVE  IsFiniteSet(upTo(i)) /\ Cardinality(upTo(i)) \in 1..c
    OBVIOUS
  <2>1. upTo(i) \in SUBSET I /\ i \in upTo(i)
    OBVIOUS
  <2> HIDE DEF upTo
  <2>2. IsFiniteSet(upTo(i)) /\ Cardinality(upTo(i)) <= c /\ Cardinality(upTo(i)) \in Nat
    BY <1>1, <2>1, FS_Subset, FS_CardinalityType
  <2>3. Cardinality(upTo(i)) # 0
    BY <2>1, <2>2, FS_EmptySet
  <2> QED BY <1>1, <2>2, <2>3
<1>3. \A i, k \in I : i < k => Cardinality(upTo(i)) # Cardinality(upTo(k))
  <2> SUFFICES ASSUME NEW i \in I, NEW k \in I, i < k, Cardinality(upTo(i)) = Cardinality(upTo(k))
               PROVE  FALSE
    <3> HIDE DEF upTo
    <3> QED OBVIOUS
  <2>1. upTo(i) \in SUBSET upTo(k) /\ k \in upTo(k) /\ k \notin upTo(i)
    <3>1. \A j \in I : j \in Int
      OBVIOUS
    <3>2. \A j \in I : j <= i => j <= k
      BY <3>1
    <3>3. k <= k /\ ~ (k <= i)
      BY <3>1
    <3> QED BY <3>2, <3>3, Zenon
  <2> HIDE DEF upTo
  <2>2. IsFiniteSet(upTo(k))
    BY <1>2
  <2>3. upTo(k) = upTo(i)
    BY <2>1, <2>2, FS_Subset
  <2> QED BY <2>1, <2>3
<1>4. rank \in Injection(I, 1..c)
  <2>1. rank \in [I -> 1..c]
    <3> HIDE DEF upTo, c
    <3> QED BY <1>2
  <2>2. \A i, k \in I : rank[i] = rank[k] => i = k
    <3> SUFFICES ASSUME NEW i \in I, NEW k \in I, rank[i] = rank[k]
                 PROVE  i = k
      OBVIOUS
    <3>1. i \in Int /\ k \in Int
      OBVIOUS
    <3>2. ~ (i < k) /\ ~ (k < i)
      <4> HIDE DEF upTo
      <4> QED BY <1>3
    <3> QED BY <3>1, <3>2
  <2> HIDE DEF rank, c
  <2> QED BY <2>1, <2>2 DEF Injection, IsInjective
<1>5. IsFiniteSet(1..c) /\ Cardinality(1..c) = c
  BY <1>1, FS_Interval
<1>6. rank \in Surjection(I, 1..c)
  <2>1. Cardinality(I) = Cardinality(1..c)
    BY <1>5
  <2> HIDE DEF rank, c
  <2> QED BY <1>4, <1>5, <2>1, FS_Injection
<1>7. \A n \in 1..c : \E i \in I : rank[i] = n
  <2> HIDE DEF rank, c
  <2> QED BY <1>6 DEF Surjection
<1> QED BY <1>1, <1>7

\* Picking from a sequence takes each wanted position once.
LEMMA PickedProperties ==
    \A S : \A s \in Seq(S) : \A I \in SUBSET (DOMAIN s) :
        /\ IsFiniteSet(I) /\ Cardinality(I) \in Nat
        /\ Picked(s, I) \in Seq(S)
        /\ Len(Picked(s, I)) = Cardinality(I)
        /\ \E p \in [1..Cardinality(I) -> I] :
              /\ \A n \in 1..Cardinality(I) : Picked(s, I)[n] = s[p[n]]
              /\ \A n, k \in 1..Cardinality(I) : p[n] = p[k] => n = k
<1> SUFFICES ASSUME NEW S, NEW s \in Seq(S), NEW I \in SUBSET (DOMAIN s)
             PROVE  /\ IsFiniteSet(I) /\ Cardinality(I) \in Nat
                    /\ Picked(s, I) \in Seq(S)
                    /\ Len(Picked(s, I)) = Cardinality(I)
                    /\ \E p \in [1..Cardinality(I) -> I] :
                          /\ \A n \in 1..Cardinality(I) : Picked(s, I)[n] = s[p[n]]
                          /\ \A n, k \in 1..Cardinality(I) : p[n] = p[k] => n = k
  OBVIOUS
<1> DEFINE c == Cardinality(I)
           rank(i) == Cardinality({j \in I : j <= i})
           at(n) == CHOOSE i \in I : rank(i) = n
           p == [n \in 1..c |-> at(n)]
<1>1. /\ IsFiniteSet(I) /\ c \in Nat
      /\ \A n \in 1..c : \E i \in I : rank(i) = n
  <2>1. Len(s) \in Nat /\ I \in SUBSET (1..Len(s))
    OBVIOUS
  <2> QED BY <2>1, RankExists
<1>2. \A n \in 1..c : at(n) \in I /\ rank(at(n)) = n
  <2> HIDE DEF rank, c
  <2> QED BY <1>1
<1>3. Picked(s, I) = [n \in 1..c |-> s[at(n)]]
  BY DEF Picked
<1> HIDE DEF rank, at, c
<1>4. p \in [1..c -> I]
  BY <1>2
<1>5. \A n \in 1..c : s[at(n)] \in S
  BY <1>2
<1>6. Picked(s, I) \in [1..c -> S]
  BY <1>3, <1>5
<1>7. Picked(s, I) \in Seq(S) /\ Len(Picked(s, I)) = c
  BY <1>1, <1>6
<1>8. \A n \in 1..c : Picked(s, I)[n] = s[p[n]]
  BY <1>3
<1>9. \A n, k \in 1..c : p[n] = p[k] => n = k
  BY <1>2
<1> HIDE DEF p
<1> QED BY <1>1, <1>4, <1>7, <1>8, <1>9 DEF c

-----------------------------------------------------------------------------
(* What one collection takes from the recorder.                            *)

\* The number of whole groups taken is one of those that fit.
LEMMA GroupsTakenInRange ==
    publications \in Seq(Seq(Event)) => GroupsTaken \in 0..Len(publications)
<1> SUFFICES ASSUME publications \in Seq(Seq(Event))
             PROVE  GroupsTaken \in 0..Len(publications)
  OBVIOUS
<1> DEFINE n == Len(publications)
           size(k) == Len(FlattenSeq(SubSeq(publications, 1, k)))
           fitting == {k \in 0..n : size(k) <= EventCap - 1}
<1>1. n \in Nat
  OBVIOUS
<1>2. 0 \in fitting
  <2>1. SubSeq(publications, 1, 0) = <<>>
    <3>1. 0 \in Int /\ 1 \in Int /\ 0 < 1
      OBVIOUS
    <3> QED BY <3>1, SubSeqEmpty
  <2>2. FlattenSeq(<<>>) = <<>>
    BY DEF FlattenSeq
  <2>3. size(0) = 0
    <3>1. FlattenSeq(SubSeq(publications, 1, 0)) = <<>>
      BY <2>1, <2>2, Zenon
    <3>2. Len(<<>>) = 0
      OBVIOUS
    <3> QED BY <3>1, <3>2, Zenon
  <2>4. EventCap - 1 \in Nat
    BY DiagnosticsBounds
  <2> HIDE DEF size
  <2> QED BY <1>1, <2>3, <2>4
<1>3. fitting \in SUBSET (0..n)
  OBVIOUS
<1>4. GroupsTaken = CHOOSE k \in fitting : \A j \in fitting : j <= k
  BY DEF GroupsTaken
<1> HIDE DEF fitting, n
<1>5. \E k \in fitting : \A j \in fitting : j <= k
  <2> DEFINE T == {n - k : k \in fitting}
  <2>1. T \in SUBSET Nat /\ T # {}
    BY <1>1, <1>2, <1>3
  <2>2. PICK t \in T : \A u \in T : t <= u
    <3> HIDE DEF T
    <3> QED BY <2>1, LeastNumber, Zenon
  <2>3. PICK k \in fitting : t = n - k
    OBVIOUS
  <2>4. \A j \in fitting : n - k <= n - j
    BY <2>2, <2>3
  <2>5. \A j \in fitting : j <= k
    BY <1>1, <1>3, <2>4
  <2> QED BY <2>5
<1>6. GroupsTaken \in fitting
  BY <1>4, <1>5
<1> QED BY <1>3, <1>6 DEF n

\* Whole groups are taken from the front: what is taken and what is left add up.
LEMMA GroupsSplit ==
    publications \in Seq(Seq(Event)) =>
        LET taken == SubSeq(publications, 1, GroupsTaken)
            left == SubSeq(publications, GroupsTaken + 1, Len(publications))
        IN  /\ FlattenSeq(taken) \in Seq(Event)
            /\ left \in Seq(Seq(Event)) /\ Len(left) <= Len(publications)
            /\ FlattenSeq(left) \in Seq(Event)
            /\ Len(FlattenSeq(taken)) + Len(FlattenSeq(left)) = Len(FlattenSeq(publications))
<1> SUFFICES ASSUME publications \in Seq(Seq(Event))
             PROVE  LET taken == SubSeq(publications, 1, GroupsTaken)
                        left == SubSeq(publications, GroupsTaken + 1, Len(publications))
                    IN  /\ FlattenSeq(taken) \in Seq(Event)
                        /\ left \in Seq(Seq(Event)) /\ Len(left) <= Len(publications)
                        /\ FlattenSeq(left) \in Seq(Event)
                        /\ Len(FlattenSeq(taken)) + Len(FlattenSeq(left))
                            = Len(FlattenSeq(publications))
  OBVIOUS
<1> DEFINE k == GroupsTaken
           n == Len(publications)
           taken == SubSeq(publications, 1, k)
           left == SubSeq(publications, k + 1, n)
<1>1. k \in 0..n /\ n \in Nat
  BY GroupsTakenInRange
<1> HIDE DEF k
<1>2. taken \in Seq(Seq(Event))
  BY <1>1, SubSeqProperties
<1>3. left \in Seq(Seq(Event)) /\ Len(left) <= n
  BY <1>1, SubSeqProperties
<1>4. taken \o left = publications
  <2>1. 1 \in 1..(n + 1) /\ k \in (1 - 1)..n /\ n \in k..n
    BY <1>1
  <2>2. taken \o left = SubSeq(publications, 1, n)
    BY <2>1, ConcatAdjacentSubSeq
  <2> QED BY <2>2, SubSeqFull
<1> HIDE DEF taken, left
<1>5. FlattenSeq(taken) \in Seq(Event) /\ FlattenSeq(left) \in Seq(Event)
  BY <1>2, <1>3, FlattenType
<1>6. Len(FlattenSeq(taken)) + Len(FlattenSeq(left)) = Len(FlattenSeq(publications))
  <2>1. Len(FlattenSeq(taken \o left)) = Len(FlattenSeq(taken)) + Len(FlattenSeq(left))
    BY <1>2, <1>3, FlattenSplit
  <2> QED BY <1>4, <2>1
<1> QED BY <1>3, <1>5, <1>6 DEF taken, left, k, n

\* Every pending event is either taken or remains.
LEMMA EventsSplit ==
    events \in Seq(Event) =>
        /\ TakenAt \in SUBSET (DOMAIN events)
        /\ EventsTaken \in Seq(Event)
        /\ RemainingEvents \in Seq(Event)
        /\ Len(EventsTaken) + Len(RemainingEvents) = Len(events)
        /\ \E p \in [1..Len(RemainingEvents) -> DOMAIN events] :
              /\ \A n \in 1..Len(RemainingEvents) : RemainingEvents[n] = events[p[n]]
              /\ \A n, k \in 1..Len(RemainingEvents) : p[n] = p[k] => n = k
<1> SUFFICES ASSUME events \in Seq(Event)
             PROVE  /\ TakenAt \in SUBSET (DOMAIN events)
                    /\ EventsTaken \in Seq(Event)
                    /\ RemainingEvents \in Seq(Event)
                    /\ Len(EventsTaken) + Len(RemainingEvents) = Len(events)
                    /\ \E p \in [1..Len(RemainingEvents) -> DOMAIN events] :
                          /\ \A n \in 1..Len(RemainingEvents) : RemainingEvents[n] = events[p[n]]
                          /\ \A n, k \in 1..Len(RemainingEvents) : p[n] = p[k] => n = k
  OBVIOUS
<1> DEFINE D == DOMAIN events
           F == {i \in TakenAt : Protected(events[i])}
           G == TakenAt \ F
           R == D \ TakenAt
<1>1. TakenAt \in SUBSET D
  BY DEF TakenAt
<1>2. F \in SUBSET D /\ G \in SUBSET D /\ R \in SUBSET D
  BY <1>1
<1>3. F \cup G = TakenAt /\ F \cap G = {} /\ TakenAt \cup R = D /\ TakenAt \cap R = {}
  BY <1>1
<1>4. EventsTaken = Picked(events, F) \o Picked(events, G) /\ RemainingEvents = Picked(events, R)
  BY DEF EventsTaken, RemainingEvents
<1>5. IsFiniteSet(D) /\ Cardinality(D) = Len(events) /\ Len(events) \in Nat
  <2>1. D = 1..Len(events) /\ Len(events) \in Nat
    OBVIOUS
  <2> QED BY <2>1, FS_Interval
<1> HIDE DEF F, G, R
<1>6. Picked(events, F) \in Seq(Event) /\ Len(Picked(events, F)) = Cardinality(F)
  BY <1>2, PickedProperties
<1>7. Picked(events, G) \in Seq(Event) /\ Len(Picked(events, G)) = Cardinality(G)
  BY <1>2, PickedProperties
<1>8. /\ Picked(events, R) \in Seq(Event) /\ Len(Picked(events, R)) = Cardinality(R)
      /\ \E p \in [1..Cardinality(R) -> R] :
            /\ \A n \in 1..Cardinality(R) : Picked(events, R)[n] = events[p[n]]
            /\ \A n, k \in 1..Cardinality(R) : p[n] = p[k] => n = k
  BY <1>2, PickedProperties
<1>9. EventsTaken \in Seq(Event) /\ Len(EventsTaken) = Cardinality(F) + Cardinality(G)
  BY <1>4, <1>6, <1>7, ConcatProperties
<1>10. Cardinality(F) + Cardinality(G) + Cardinality(R) = Len(events)
  <2> HIDE DEF D
  <2>1. IsFiniteSet(F) /\ IsFiniteSet(G) /\ IsFiniteSet(R) /\ IsFiniteSet(TakenAt)
    BY <1>1, <1>2, <1>5, FS_Subset
  <2>2. Cardinality(TakenAt) = Cardinality(F) + Cardinality(G)
    <3>1. Cardinality(F \cup G) = Cardinality(F) + Cardinality(G) - Cardinality(F \cap G)
      BY <2>1, FS_Union
    <3>2. Cardinality(F \cap G) = 0
      BY <1>3, FS_EmptySet
    <3>3. Cardinality(F) \in Nat /\ Cardinality(G) \in Nat
      BY <2>1, FS_CardinalityType
    <3>4. Cardinality(F \cup G) = Cardinality(F) + Cardinality(G)
      BY <3>1, <3>2, <3>3
    <3> QED BY <1>3, <3>4, Zenon
  <2>3. Cardinality(D) = Cardinality(TakenAt) + Cardinality(R)
    <3>1. Cardinality(TakenAt \cup R) = Cardinality(TakenAt) + Cardinality(R) - Cardinality(TakenAt \cap R)
      BY <2>1, FS_Union
    <3>2. Cardinality(TakenAt \cap R) = 0
      BY <1>3, FS_EmptySet
    <3>3. Cardinality(TakenAt) \in Nat /\ Cardinality(R) \in Nat
      BY <2>1, FS_CardinalityType
    <3>4. Cardinality(TakenAt \cup R) = Cardinality(TakenAt) + Cardinality(R)
      BY <3>1, <3>2, <3>3
    <3> QED BY <1>3, <3>4, Zenon
  <2> QED BY <1>5, <2>2, <2>3
<1>11. Len(EventsTaken) + Len(RemainingEvents) = Len(events)
  BY <1>4, <1>8, <1>9, <1>10
<1>12. \E p \in [1..Len(RemainingEvents) -> DOMAIN events] :
          /\ \A n \in 1..Len(RemainingEvents) : RemainingEvents[n] = events[p[n]]
          /\ \A n, k \in 1..Len(RemainingEvents) : p[n] = p[k] => n = k
  <2>1. PICK p \in [1..Cardinality(R) -> R] :
            /\ \A n \in 1..Cardinality(R) : Picked(events, R)[n] = events[p[n]]
            /\ \A n, k \in 1..Cardinality(R) : p[n] = p[k] => n = k
    BY <1>8
  <2>2. p \in [1..Cardinality(R) -> DOMAIN events]
    BY <1>2
  <2> QED BY <1>4, <1>8, <2>1, <2>2
<1> QED BY <1>1, <1>4, <1>8, <1>9, <1>11, <1>12

-----------------------------------------------------------------------------
(* The inductive invariant.                                                *)

LossTypes == [Places -> [Categories -> Nat]]

Group == Seq(Event) \ {<<>>}

DiagnosticsTypes ==
    /\ started \in BOOLEAN /\ stopped \in BOOLEAN /\ stopping \in BOOLEAN /\ allowed \in BOOLEAN
    /\ submitted \in Nat /\ sequence \in Nat /\ dropped \in Nat /\ coalesced \in Nat
    /\ rejected \in Nat /\ uncertain \in Nat /\ saved \in Nat
    /\ events \in Seq(Event) /\ publications \in Seq(Group) /\ queue \in Seq(Interval)
    /\ messages \in Seq(Interval \cup {NONE})
    /\ raw \in Interval \cup {NONE} /\ reading \in Nat \cup {NONE}
    /\ stored \in SUBSET Interval /\ IsFiniteSet(stored)
    /\ unknown \in SUBSET Interval /\ IsFiniteSet(unknown)
    /\ watermark \in [dropped : Nat, uncertain : Nat, since : BOOLEAN]
    /\ flagged \in [dropped : Nat, uncertain : Nat]
    /\ loss \in LossTypes
    /\ pc \in {"unborn", "starting"} => raw = NONE

TypeInv == DiagnosticsTypes /\ DiagnosticsTypeOK

\* A writer that has ended has closed its mailbox first.
EndedIsStopping == pc \in {"ended", "dead"} => stopping

\* No watermark is ahead of the losses it was read from.
WatermarkBehind == watermark.dropped <= total_dropped /\ watermark.uncertain <= uncertain

\* The mailbox holds an interval, not the sentinel.
Posted == messages # <<>> /\ messages # <<NONE>>

\* Neither saved nor given up: every interval already settled is older.
Fresh(r) ==
    /\ saved <= r.seq
    /\ \A x \in stored \cup unknown : x.seq < r.seq

\* Intervals keep their order of collection from the queue through the mailbox and the
\* writer's hands into the store, so no interval can be in two of these places.
StoreInOrder ==
    /\ \A x \in stored : x.seq < saved
    /\ \A x \in stored \cup unknown : x.seq < sequence
    /\ saved <= sequence
    /\ saved > 0 => \E y \in stored : y.seq = saved - 1

QueueInOrder ==
    /\ \A i \in DOMAIN queue : Fresh(queue[i]) /\ queue[i].seq < sequence
    /\ \A i, j \in DOMAIN queue : i < j => queue[i].seq < queue[j].seq

MailInOrder ==
    Posted =>
        /\ Fresh(messages[1]) /\ messages[1].seq < sequence
        /\ \A i \in DOMAIN queue : messages[1].seq < queue[i].seq

\* While a failed save is verified its interval may have been stored already.
CommittedInHand ==
    pc = "verify" /\ \E x \in stored : x.seq = raw.seq /\ x.events = raw.events

HandInOrder ==
    raw # NONE =>
        /\ raw.seq < sequence
        /\ \A i \in DOMAIN queue : raw.seq < queue[i].seq
        /\ Posted => raw.seq < messages[1].seq
        /\ Fresh(raw) \/ CommittedInHand

IntervalsInOrder == StoreInOrder /\ QueueInOrder /\ MailInOrder /\ HandInOrder

-----------------------------------------------------------------------------
(* What the recorder's helpers return.                                     *)

LEMMA RemoveAtProperties ==
    \A S : \A s \in Seq(S) : \A i \in DOMAIN s :
        /\ RemoveAt(s, i) \in Seq(S)
        /\ Len(RemoveAt(s, i)) = Len(s) - 1
        /\ \A j \in 1..(Len(s) - 1) : RemoveAt(s, i)[j] = IF j < i THEN s[j] ELSE s[j + 1]
<1> SUFFICES ASSUME NEW S, NEW s \in Seq(S), NEW i \in DOMAIN s
             PROVE  /\ RemoveAt(s, i) \in Seq(S)
                    /\ Len(RemoveAt(s, i)) = Len(s) - 1
                    /\ \A j \in 1..(Len(s) - 1) :
                           RemoveAt(s, i)[j] = IF j < i THEN s[j] ELSE s[j + 1]
  OBVIOUS
<1> DEFINE n == Len(s)
           a == SubSeq(s, 1, i - 1)
           b == SubSeq(s, i + 1, n)
<1>1. n \in Nat /\ i \in 1..n /\ \A j \in 1..n : s[j] \in S
  OBVIOUS
<1> HIDE DEF n
<1>2. a \in Seq(S) /\ Len(a) = i - 1 /\ \A j \in 1..(i - 1) : a[j] = s[j]
  <2>1. 1 \in Int /\ i - 1 \in Int /\ \A j \in 1..(i - 1) : s[j] \in S
    BY <1>1
  <2>2. a \in Seq(S) /\ Len(a) = IF 1 <= i - 1 THEN (i - 1) - 1 + 1 ELSE 0
    BY <2>1, SubSeqProperties
  <2>3. \A j \in 1..(i - 1) : a[j] = s[j]
    OBVIOUS
  <2> QED BY <1>1, <2>2, <2>3
<1>3. b \in Seq(S) /\ Len(b) = n - i /\ \A j \in 1..(n - i) : b[j] = s[i + j]
  <2>1. i + 1 \in Int /\ n \in Int /\ \A j \in (i + 1)..n : s[j] \in S
    BY <1>1
  <2>2. b \in Seq(S) /\ Len(b) = IF i + 1 <= n THEN n - (i + 1) + 1 ELSE 0
    BY <2>1, SubSeqProperties
  <2>3. \A j \in 1..(n - i) : b[j] = s[i + j]
    BY <1>1
  <2> QED BY <1>1, <2>2, <2>3
<1> HIDE DEF a, b
<1>4. a \o b \in Seq(S) /\ Len(a \o b) = n - 1
  <2>1. a \o b \in Seq(S) /\ Len(a \o b) = Len(a) + Len(b)
    BY <1>2, <1>3, ConcatProperties
  <2>2. (i - 1) + (n - i) = n - 1
    BY <1>1
  <2> QED BY <1>2, <1>3, <2>1, <2>2
<1>5. \A j \in 1..(n - 1) : (a \o b)[j] = IF j < i THEN s[j] ELSE s[j + 1]
  <2> SUFFICES ASSUME NEW j \in 1..(n - 1)
               PROVE  (a \o b)[j] = IF j < i THEN s[j] ELSE s[j + 1]
    OBVIOUS
  <2>1. (a \o b)[j] = IF j <= Len(a) THEN a[j] ELSE b[j - Len(a)]
    <3>1. j \in 1..(Len(a) + Len(b))
      BY <1>1, <1>2, <1>3
    <3> QED BY <1>2, <1>3, <3>1, ConcatProperties
  <2>2. CASE j < i
    <3>1. j <= Len(a) /\ j \in 1..(i - 1)
      BY <1>1, <1>2, <2>2
    <3> QED BY <1>2, <2>1, <2>2, <3>1
  <2>3. CASE ~ (j < i)
    <3>1. ~ (j <= Len(a)) /\ j - Len(a) \in 1..(n - i) /\ i + (j - Len(a)) = j + 1
      BY <1>1, <1>2, <2>3
    <3>2. b[j - Len(a)] = s[i + (j - Len(a))]
      BY <1>3, <3>1
    <3> QED BY <2>1, <2>3, <3>1, <3>2
  <2> QED BY <2>2, <2>3
<1>6. RemoveAt(s, i) = a \o b
  BY DEF RemoveAt, a, b, n
<1> QED BY <1>4, <1>5, <1>6 DEF n

\* The victim is protected only when everything is.
LEMMA VictimProperties ==
    \A s \in Seq(Event) : s # <<>> =>
        /\ Victim(s) \in DOMAIN s
        /\ Protected(s[Victim(s)]) => \A i \in DOMAIN s : Protected(s[i])
<1> SUFFICES ASSUME NEW s \in Seq(Event), s # <<>>
             PROVE  /\ Victim(s) \in DOMAIN s
                    /\ Protected(s[Victim(s)]) => \A i \in DOMAIN s : Protected(s[i])
  OBVIOUS
<1> DEFINE open == {i \in DOMAIN s : ~Protected(s[i])}
<1>1. 1 \in DOMAIN s /\ DOMAIN s \in SUBSET Nat
  OBVIOUS
<1>2. Victim(s) = IF open = {} THEN 1 ELSE CHOOSE i \in open : \A j \in open : i <= j
  BY DEF Victim
<1>3. CASE open = {}
  BY <1>1, <1>2, <1>3
<1>4. CASE open # {}
  <2>1. open \in SUBSET Nat
    BY <1>1
  <2>2. \E i \in open : \A j \in open : i <= j
    <3> HIDE DEF open
    <3> QED BY <1>4, <2>1, LeastNumber, Zenon
  <2>3. Victim(s) \in open
    BY <1>2, <1>4, <2>2
  <2> QED BY <2>3
<1> QED BY <1>3, <1>4

LEMMA QueueVictimProperties ==
    \A q \in Seq(Interval) : q # <<>> =>
        /\ QueueVictim(q) \in DOMAIN q
        /\ protected(q[QueueVictim(q)]) => \A i \in DOMAIN q : protected(q[i])
<1> SUFFICES ASSUME NEW q \in Seq(Interval), q # <<>>
             PROVE  /\ QueueVictim(q) \in DOMAIN q
                    /\ protected(q[QueueVictim(q)]) => \A i \in DOMAIN q : protected(q[i])
  OBVIOUS
<1> DEFINE open == {i \in DOMAIN q : ~protected(q[i])}
<1>1. 1 \in DOMAIN q /\ DOMAIN q \in SUBSET Nat
  OBVIOUS
<1>2. QueueVictim(q) = IF open = {} THEN 1 ELSE CHOOSE i \in open : \A j \in open : i <= j
  BY DEF QueueVictim
<1>3. CASE open = {}
  BY <1>1, <1>2, <1>3
<1>4. CASE open # {}
  <2>1. open \in SUBSET Nat
    BY <1>1
  <2>2. \E i \in open : \A j \in open : i <= j
    <3> HIDE DEF open
    <3> QED BY <1>4, <2>1, LeastNumber, Zenon
  <2>3. QueueVictim(q) \in open
    BY <1>2, <1>4, <2>2
  <2> QED BY <2>3
<1> QED BY <1>3, <1>4

\* Counting the events of a sequence as lost.
LEMMA CountsTyped ==
    \A S : \A s \in Seq(S), counts \in [Categories -> Nat] :
        /\ add_counts(counts, s) \in [Categories -> Nat]
        /\ add_counts(counts, s)["protected"] + add_counts(counts, s)["other"]
            = counts["protected"] + counts["other"] + Len(s)
<1> SUFFICES ASSUME NEW S, NEW s \in Seq(S), NEW counts \in [Categories -> Nat]
             PROVE  /\ add_counts(counts, s) \in [Categories -> Nat]
                    /\ add_counts(counts, s)["protected"] + add_counts(counts, s)["other"]
                        = counts["protected"] + counts["other"] + Len(s)
  OBVIOUS
<1> DEFINE c == event_counts(s)
<1>1. c \in [Categories -> Nat] /\ c["protected"] + c["other"] = Len(s)
  BY CountsEveryEvent
<1>2. add_counts(counts, s) = [d \in Categories |-> counts[d] + c[d]]
  BY DEF add_counts
<1> HIDE DEF c
<1>3. "protected" \in Categories /\ "other" \in Categories
  BY DEF Categories
<1>4. add_counts(counts, s) \in [Categories -> Nat]
  BY <1>1, <1>2
<1>5. /\ add_counts(counts, s)["protected"] = counts["protected"] + c["protected"]
      /\ add_counts(counts, s)["other"] = counts["other"] + c["other"]
  BY <1>2, <1>3
<1>6. /\ counts["protected"] \in Nat /\ counts["other"] \in Nat
      /\ c["protected"] \in Nat /\ c["other"] \in Nat /\ Len(s) \in Nat
  BY <1>1, <1>3
<1> QED BY <1>1, <1>4, <1>5, <1>6

LEMMA LossTyped ==
    loss \in LossTypes =>
        \A S : \A place \in Places, s \in Seq(S) : Lost(place, s) \in LossTypes
<1> SUFFICES ASSUME loss \in LossTypes, NEW S, NEW place \in Places, NEW s \in Seq(S)
             PROVE  Lost(place, s) \in LossTypes
  OBVIOUS
<1>1. add_counts(loss[place], s) \in [Categories -> Nat]
  <2>1. loss[place] \in [Categories -> Nat]
    BY DEF LossTypes
  <2> QED BY <2>1, CountsTyped
<1>2. Lost(place, s) = [loss EXCEPT ![place] = add_counts(loss[place], s)]
  BY DEF Lost
<1> QED BY <1>1, <1>2 DEF LossTypes

-----------------------------------------------------------------------------
(* Type correctness, action by action.                                     *)

LEMMA NewEventTyped ==
    submitted \in Nat =>
        /\ \A kind \in {"proof", "storage"} : NewEvent(kind, NONE) \in Event
        /\ \A key \in Keys, scope \in Scopes : NewEvent(key, scope) \in Event
BY DiagnosticsBounds DEF NewEvent, Event

\* What the writer thread may do to the interval in its hands.
LEMMA RejectTyped ==
    \A r \in Interval :
        rejected \in Nat /\ loss \in LossTypes /\ Reject(r)
        => rejected' \in Nat /\ rejected' = rejected + 1 /\ loss' \in LossTypes
<1> SUFFICES ASSUME NEW r \in Interval, rejected \in Nat, loss \in LossTypes, Reject(r)
             PROVE  rejected' \in Nat /\ rejected' = rejected + 1 /\ loss' \in LossTypes
  OBVIOUS
<1>1. r.events \in Seq(Event)
  BY DEF Interval
<1>2. "writer" \in Places
  BY DEF Places
<1>3. Lost("writer", r.events) \in LossTypes
  BY <1>1, <1>2, LossTyped
<1> QED BY <1>3 DEF Reject

\* Committing stores the interval in hand, with its events, or nothing.
LEMMA CommitTyped ==
    ASSUME raw \in Interval, saved \in Nat, stored \in SUBSET Interval, IsFiniteSet(stored), Commit
    PROVE  /\ saved' \in Nat /\ stored' \in SUBSET Interval /\ IsFiniteSet(stored')
           /\ \/ raw.seq < saved /\ stored' = stored /\ saved' = saved
              \/ /\ ~ (raw.seq < saved) /\ saved' = raw.seq + 1
                 /\ \E x \in Interval :
                       /\ x.seq = raw.seq /\ x.events = raw.events
                       /\ raw.seq > saved => x.gap
                       /\ stored' = stored \cup {x}
<1>1. raw.seq \in Nat /\ raw.gap \in BOOLEAN
  BY DEF Interval
<1>2. CASE raw.seq < saved
  BY <1>2 DEF Commit
<1>3. CASE ~ (raw.seq < saved)
  <2> DEFINE mark == raw.gap \/ raw.seq > saved
             x == [raw EXCEPT !.gap = mark]
  <2>1. stored' = stored \cup {x} /\ saved' = raw.seq + 1
    BY <1>3 DEF Commit
  <2>2. mark \in BOOLEAN /\ (raw.seq > saved => mark)
    OBVIOUS
  <2> HIDE DEF mark
  <2>3. x \in Interval /\ x.seq = raw.seq /\ x.events = raw.events /\ x.gap = mark
    BY <2>2 DEF Interval
  <2> HIDE DEF x
  <2>4. IsFiniteSet(stored')
    BY <2>1, FS_AddElement
  <2>5. raw.seq > saved => x.gap
    BY <2>2, <2>3, Zenon
  <2> QED BY <1>1, <1>3, <2>1, <2>3, <2>4, <2>5
<1> QED BY <1>2, <1>3

\* More rejections leave a watermark behind the losses.
LEMMA ReadingStaysBehind ==
    ASSUME dropped \in Nat, rejected \in Nat, reading \in Nat \cup {NONE},
           reading # NONE => reading <= total_dropped,
           dropped' \in Nat, rejected' \in Nat, dropped' >= dropped, rejected' >= rejected,
           reading' = reading
    PROVE  reading' # NONE => reading' <= total_dropped'
<1> SUFFICES ASSUME reading # NONE
             PROVE  reading <= dropped' + rejected'
  BY DEF total_dropped
<1>1. reading \in Nat /\ reading <= dropped + rejected
  BY DEF total_dropped
<1>2. \A r, d, e, f, g \in Nat : r <= d + e /\ f >= d /\ g >= e => r <= f + g
  OBVIOUS
<1> QED BY <1>1, <1>2

\* A mailbox of one slot is empty or holds its first message.
LEMMA OneSlot == \A S : \A m \in Seq(S) : Len(m) <= 1 /\ m # <<>> => m[1] \in S /\ m = <<m[1]>>
<1> TAKE S
<1> TAKE m \in Seq(S)
<1> HAVE Len(m) <= 1 /\ m # <<>>
<1>1. Len(m) = 1
  <2>1. Len(m) \in Nat \ {0}
    BY EmptySeq
  <2> QED BY <2>1
<1>2. m[1] \in S
  BY <1>1
<1>3. <<m[1]>> \in Seq(S) /\ Len(<<m[1]>>) = 1 /\ <<m[1]>>[1] = m[1]
  BY <1>2
<1>4. \A i \in 1..Len(m) : m[i] = <<m[1]>>[i]
  BY <1>1, <1>3
<1> DEFINE k == <<m[1]>>
<1>5. k \in Seq(S) /\ Len(m) = Len(k) /\ \A i \in 1..Len(m) : m[i] = k[i]
  BY <1>1, <1>3, <1>4
<1>6. m = k
  <2> HIDE DEF k
  <2> QED BY <1>5, SeqEqual
<1> QED BY <1>2, <1>6

LEMMA PostedInterval ==
    messages \in Seq(Interval \cup {NONE}) /\ Len(messages) <= 1 /\ Posted
    => messages[1] \in Interval /\ messages[1] # NONE /\ messages = <<messages[1]>>
<1> SUFFICES ASSUME messages \in Seq(Interval \cup {NONE}), Len(messages) <= 1, Posted
             PROVE  messages[1] \in Interval /\ messages[1] # NONE /\ messages = <<messages[1]>>
  OBVIOUS
<1>1. messages # <<>> /\ messages # <<NONE>>
  BY DEF Posted
<1>2. messages[1] \in Interval \cup {NONE} /\ messages = <<messages[1]>>
  BY <1>1, OneSlot
<1> QED BY <1>1, <1>2

LEMMA WriterTyped == TypeInv /\ WriterStep => TypeInv'
<1> SUFFICES ASSUME TypeInv, WriterStep
             PROVE  TypeInv'
  OBVIOUS
<1> USE DEF TypeInv, DiagnosticsTypes, DiagnosticsTypeOK, recorderVars, historyVars,
            WriterFrame
<1>1. CASE writer_open
  BY <1>1 DEF writer_open, total_dropped
<1>2. CASE writer_top
  BY <1>2 DEF writer_top, total_dropped
<1>3. CASE writer_get
  BY <1>3 DEF writer_get, total_dropped
<1>4. CASE writer_gate
  BY <1>4 DEF writer_gate, total_dropped
<1>5. CASE writer_append
  <2>1. raw \in Interval
    <3>1. pc = "append"
      BY <1>5 DEF writer_append
    <3> QED BY <3>1
  <2>2. /\ rejected' \in Nat /\ rejected' >= rejected /\ loss' \in LossTypes
        /\ saved' \in Nat /\ stored' \in SUBSET Interval /\ IsFiniteSet(stored')
    <3>1. CASE Commit /\ UNCHANGED <<rejected, loss>>
      BY <2>1, <3>1, CommitTyped
    <3>2. CASE Reject(raw) /\ UNCHANGED <<stored, saved>>
      BY <2>1, <3>2, RejectTyped
    <3>3. CASE UNCHANGED <<stored, saved, rejected, loss>>
      BY <3>3
    <3> QED BY <1>5, <3>1, <3>2, <3>3 DEF writer_append
  <2>3. pc' \in {"top", "verify"} /\ ((pc' = "top" /\ raw' = NONE) \/ (pc' = "verify" /\ raw' = raw))
    BY <1>5 DEF writer_append
  <2>4. reading' # NONE => reading' <= total_dropped'
    BY <1>5, <2>2, ReadingStaysBehind DEF writer_append
  <2> QED BY <1>5, <2>1, <2>2, <2>3, <2>4 DEF writer_append
<1>6. CASE writer_verify
  <2>1. raw \in Interval
    BY <1>6 DEF writer_verify
  <2>2. /\ rejected' \in Nat /\ rejected' >= rejected /\ loss' \in LossTypes
        /\ uncertain' \in Nat /\ unknown' \in SUBSET Interval /\ IsFiniteSet(unknown')
    <3>1. CASE uncertain' = uncertain + 1 /\ unknown' = unknown \cup {raw}
               /\ UNCHANGED <<rejected, loss>>
      <4>1. IsFiniteSet(unknown \cup {raw})
        BY FS_AddElement
      <4> QED BY <2>1, <3>1, <4>1
    <3>2. CASE Reject(raw) /\ UNCHANGED <<uncertain, unknown>>
      BY <2>1, <3>2, RejectTyped
    <3>3. CASE UNCHANGED <<uncertain, unknown, rejected, loss>>
      BY <3>3
    <3> QED BY <1>6, <3>1, <3>2, <3>3 DEF writer_verify
  <2>3. reading' # NONE => reading' <= total_dropped'
    BY <1>6, <2>2, ReadingStaysBehind DEF writer_verify
  <2> QED BY <1>6, <2>2, <2>3 DEF writer_verify
<1>7. CASE writer_exit
  <2>1. rejected' \in Nat /\ rejected' >= rejected /\ loss' \in LossTypes
    BY <1>7, RejectTyped DEF writer_exit
  <2>2. reading' # NONE => reading' <= total_dropped'
    BY <1>7, <2>1, ReadingStaysBehind DEF writer_exit
  <2> QED BY <1>7, <2>1, <2>2 DEF writer_exit
<1>8. CASE writer_drain
  <2>1. rejected' \in Nat /\ rejected' >= rejected /\ loss' \in LossTypes
    <3>1. CASE Posted
      <4>1. messages[1] \in Interval
        BY <3>1, PostedInterval
      <4> QED BY <1>8, <3>1, <4>1, RejectTyped DEF writer_drain, Posted
    <3>2. CASE ~Posted
      BY <1>8, <3>2 DEF writer_drain, Posted
    <3> QED BY <3>1, <3>2
  <2>2. reading' # NONE => reading' <= total_dropped'
    BY <1>8, <2>1, ReadingStaysBehind DEF writer_drain
  <2> QED BY <1>8, <2>1, <2>2 DEF writer_drain
<1>9. CASE writer_dead
  BY <1>9 DEF writer_dead, total_dropped
<1> QED BY <1>1, <1>2, <1>3, <1>4, <1>5, <1>6, <1>7, <1>8, <1>9 DEF WriterStep

\* The bookkeeping of n losses.
LEMMA RecordLossesTyped ==
    \A n \in Nat :
        TypeInv /\ RecordLosses(n) =>
            /\ dropped' \in Nat /\ dropped' = dropped + n /\ dropped' >= dropped
            /\ watermark' \in [dropped : Nat, uncertain : Nat, since : BOOLEAN]
            /\ watermark'.dropped = watermark.dropped /\ watermark'.uncertain = watermark.uncertain
            /\ n > 0 => watermark'.since
            /\ n = 0 => watermark' = watermark
<1> SUFFICES ASSUME NEW n \in Nat, TypeInv, RecordLosses(n)
             PROVE  /\ dropped' \in Nat /\ dropped' = dropped + n /\ dropped' >= dropped
                    /\ watermark' \in [dropped : Nat, uncertain : Nat, since : BOOLEAN]
                    /\ watermark'.dropped = watermark.dropped
                    /\ watermark'.uncertain = watermark.uncertain
                    /\ n > 0 => watermark'.since
                    /\ n = 0 => watermark' = watermark
  OBVIOUS
<1>1. dropped \in Nat /\ watermark \in [dropped : Nat, uncertain : Nat, since : BOOLEAN]
  BY DEF TypeInv, DiagnosticsTypes
<1>2. dropped' = dropped + n
  BY DEF RecordLosses
<1>3. CASE n > 0
  <2>1. watermark' = [watermark EXCEPT !.since = TRUE]
    BY <1>3 DEF RecordLosses
  <2>2. /\ watermark' \in [dropped : Nat, uncertain : Nat, since : BOOLEAN]
        /\ watermark'.dropped = watermark.dropped /\ watermark'.uncertain = watermark.uncertain
        /\ watermark'.since = TRUE
    BY <1>1, <2>1
  <2>3. dropped' \in Nat /\ dropped' >= dropped /\ n # 0
    BY <1>1, <1>2, <1>3
  <2>4. watermark'.since
    BY <2>2, Zenon
  <2> QED BY <1>2, <2>2, <2>3, <2>4, Zenon
<1>4. CASE ~ (n > 0)
  <2>1. watermark' = watermark
    BY <1>4 DEF RecordLosses
  <2> QED BY <1>1, <1>2, <1>4, <2>1
<1> QED BY <1>3, <1>4

\* Reporting events, one way or the other, keeps every variable in its type when the
\* variables it changes stay in theirs.
LEMMA ReportTyped ==
    ASSUME TypeInv,
           submitted' \in Nat, events' \in Seq(Event), Len(events') <= EventCap,
           publications' \in Seq(Group), Len(publications') <= PublicationCap,
           coalesced' \in Nat, dropped' \in Nat, dropped' >= dropped, loss' \in LossTypes,
           watermark' \in [dropped : Nat, uncertain : Nat, since : BOOLEAN],
           UNCHANGED <<started, stopped, queue, collected, sequence, reading, sharedVars,
                       writerVars, historyVars>>
    PROVE  TypeInv'
<1> USE DEF TypeInv, DiagnosticsTypes, DiagnosticsTypeOK, sharedVars, writerVars, historyVars
<1>1. reading' # NONE => reading' <= total_dropped'
  BY ReadingStaysBehind
<1>2. DiagnosticsTypes'
  OBVIOUS
<1>3. DiagnosticsTypeOK'
  BY <1>1
<1> QED BY <1>2, <1>3

LEMMA StartTyped == TypeInv /\ start => TypeInv'
BY DEF start, TypeInv, DiagnosticsTypes, DiagnosticsTypeOK, sharedVars, writerVars, historyVars,
       total_dropped

LEMMA RecordingFailedTyped == TypeInv /\ recording_failed => TypeInv'
<1> SUFFICES ASSUME TypeInv, recording_failed
             PROVE  TypeInv'
  OBVIOUS
<1>1. /\ dropped' \in Nat /\ dropped' >= dropped
      /\ watermark' \in [dropped : Nat, uncertain : Nat, since : BOOLEAN]
  <2>1. RecordLosses(1)
    BY DEF recording_failed
  <2> QED BY <2>1, RecordLossesTyped
<1> QED BY <1>1, ReportTyped DEF recording_failed, TypeInv, DiagnosticsTypes, DiagnosticsTypeOK

LEMMA CadenceElapsesTyped == TypeInv /\ (\E k \in Keys : CadenceElapses(k)) => TypeInv'
BY DEF CadenceElapses, TypeInv, DiagnosticsTypes, DiagnosticsTypeOK, sharedVars, writerVars,
       historyVars, total_dropped

LEMMA CollectWatermarkTyped == TypeInv /\ collect_watermark => TypeInv'
BY DEF collect_watermark, TypeInv, DiagnosticsTypes, DiagnosticsTypeOK, sharedVars, writerVars,
       historyVars, total_dropped

LEMMA FlushOneTyped == TypeInv /\ (\E permit \in BOOLEAN : flush_one(permit)) => TypeInv'
<1> SUFFICES ASSUME TypeInv, NEW permit \in BOOLEAN, flush_one(permit)
             PROVE  TypeInv'
  OBVIOUS
<1> USE DEF TypeInv, DiagnosticsTypes, DiagnosticsTypeOK, writerVars, historyVars, total_dropped
<1>1. CASE permit /\ queue # <<>> /\ Offered
  <2>1. messages' = <<Head(queue)>> /\ queue' = Tail(queue)
    BY <1>1 DEF flush_one
  <2>2. /\ Head(queue) \in Interval /\ queue' \in Seq(Interval) /\ Len(queue') <= QueueCap
    BY <1>1, <2>1, HeadTailProperties, DiagnosticsBounds
  <2>3. messages' \in Seq(Interval \cup {NONE}) /\ Len(messages') <= 1
    BY <2>1, <2>2
  <2> QED BY <2>2, <2>3 DEF flush_one
<1>2. CASE ~ (permit /\ queue # <<>> /\ Offered)
  BY <1>2 DEF flush_one
<1> QED BY <1>1, <1>2

LEMMA EventTyped == TypeInv /\ (\E kind \in {"proof", "storage"} : event(kind)) => TypeInv'
<1> SUFFICES ASSUME TypeInv, NEW kind \in {"proof", "storage"}, event(kind)
             PROVE  TypeInv'
  OBVIOUS
<1> DEFINE e == NewEvent(kind, NONE)
           isFull == Len(events) = EventCap
           noRoom == isFull /\ ~Protected(e) /\ \A i \in DOMAIN events : Protected(events[i])
<1>1. /\ submitted \in Nat /\ events \in Seq(Event) /\ Len(events) <= EventCap
      /\ loss \in LossTypes /\ EventCap \in Nat \ {0, 1}
  BY DiagnosticsBounds DEF TypeInv, DiagnosticsTypes, DiagnosticsTypeOK
<1>2. e \in Event
  BY <1>1, NewEventTyped
<1>3. "event_input" \in Places /\ "event_capacity" \in Places
  BY DEF Places
<1> HIDE DEF e
<1>4. \E n \in Nat : RecordLosses(n)
  BY DEF event
<1>5. /\ dropped' \in Nat /\ dropped' >= dropped
      /\ watermark' \in [dropped : Nat, uncertain : Nat, since : BOOLEAN]
  BY <1>4, RecordLossesTyped
<1>6. events' \in Seq(Event) /\ Len(events') <= EventCap /\ loss' \in LossTypes
  <2>1. CASE loss' = Lost("event_input", <<e>>) /\ UNCHANGED events
    <3>1. <<e>> \in Seq(Event)
      BY <1>2
    <3> QED BY <1>1, <1>3, <2>1, <3>1, LossTyped
  <2>2. CASE loss' = Lost("event_capacity", <<e>>) /\ UNCHANGED events
    <3>1. <<e>> \in Seq(Event)
      BY <1>2
    <3> QED BY <1>1, <1>3, <2>2, <3>1, LossTyped
  <2>3. CASE /\ isFull /\ loss' = Lost("event_capacity", <<events[Victim(events)]>>)
             /\ events' = Append(RemoveAt(events, Victim(events)), e)
    <3> DEFINE v == Victim(events)
               rest == RemoveAt(events, v)
    <3>1. v \in DOMAIN events
      <4>1. events # <<>>
        BY <1>1, <2>3
      <4> QED BY <1>1, <4>1, VictimProperties
    <3>2. <<events[v]>> \in Seq(Event)
      BY <1>1, <3>1
    <3>3. rest \in Seq(Event) /\ Len(rest) = Len(events) - 1
      BY <1>1, <3>1, RemoveAtProperties
    <3> HIDE DEF v, rest
    <3>4. events' \in Seq(Event) /\ Len(events') = EventCap
      BY <1>1, <1>2, <2>3, <3>3 DEF v, rest
    <3>5. loss' \in LossTypes
      BY <1>1, <1>3, <2>3, <3>2, LossTyped DEF v
    <3> QED BY <1>1, <3>4, <3>5
  <2>4. CASE ~isFull /\ events' = Append(events, e) /\ UNCHANGED loss
    BY <1>1, <1>2, <2>4
  <2> QED BY <2>1, <2>2, <2>3, <2>4, Zenon DEF event, e
<1>7. submitted' \in Nat
  BY <1>1 DEF event
<1> QED BY <1>5, <1>6, <1>7, ReportTyped DEF event, TypeInv, DiagnosticsTypes, DiagnosticsTypeOK

LEMMA OptionalEventsTyped ==
    TypeInv /\ (\E k \in Keys, s \in Scopes : optional_events(k, s)) => TypeInv'
<1> SUFFICES ASSUME TypeInv, NEW k \in Keys, NEW s \in Scopes, optional_events(k, s)
             PROVE  TypeInv'
  OBVIOUS
<1> DEFINE e == NewEvent(k, s)
<1>1. /\ submitted \in Nat /\ events \in Seq(Event) /\ Len(events) <= EventCap
      /\ coalesced \in Nat /\ EventCap \in Nat \ {0, 1}
  BY DiagnosticsBounds DEF TypeInv, DiagnosticsTypes, DiagnosticsTypeOK
<1>2. e \in Event
  BY <1>1, NewEventTyped
<1> HIDE DEF e
<1>3. events' \in Seq(Event) /\ Len(events') <= EventCap /\ coalesced' \in Nat
  <2>1. CASE /\ \E i \in QueuedAt(k) : events' = [events EXCEPT ![i] = e]
             /\ coalesced' = coalesced + 1
    <3>1. PICK i \in DOMAIN events : events' = [events EXCEPT ![i] = e]
      BY <2>1 DEF QueuedAt
    <3>2. events' \in Seq(Event) /\ Len(events') = Len(events)
      <4>1. i \in 1..Len(events)
        BY <1>1
      <4> QED BY <1>1, <1>2, <3>1, <4>1, ExceptSeq
    <3> QED BY <1>1, <2>1, <3>2
  <2>2. CASE Len(events) < EventCap /\ events' = Append(events, e) /\ UNCHANGED coalesced
    BY <1>1, <1>2, <2>2
  <2> QED BY <2>1, <2>2 DEF optional_events, e
<1>4. submitted' \in Nat
  BY <1>1 DEF optional_events
<1> QED BY <1>3, <1>4, ReportTyped DEF optional_events, TypeInv, DiagnosticsTypes, DiagnosticsTypeOK

LEMMA OptionalEventRefusedTyped ==
    TypeInv /\ (\E k \in Keys : optional_event_refused(k)) => TypeInv'
<1> SUFFICES ASSUME TypeInv, NEW k \in Keys, optional_event_refused(k)
             PROVE  TypeInv'
  OBVIOUS
<1> DEFINE e == NewEvent(k, NONE)
<1>1. submitted \in Nat /\ loss \in LossTypes
  BY DEF TypeInv, DiagnosticsTypes
<1>2. loss' \in LossTypes
  <2>1. <<e>> \in Seq({e})
    OBVIOUS
  <2>2. "event_input" \in Places
    BY DEF Places
  <2>3. Lost("event_input", <<e>>) \in LossTypes
    <3> HIDE DEF e
    <3> QED BY <1>1, <2>1, <2>2, LossTyped
  <2> QED BY <2>3 DEF optional_event_refused
<1>3. /\ dropped' \in Nat /\ dropped' >= dropped
      /\ watermark' \in [dropped : Nat, uncertain : Nat, since : BOOLEAN]
  <2>1. RecordLosses(1)
    BY DEF optional_event_refused
  <2> QED BY <2>1, RecordLossesTyped
<1>4. submitted' \in Nat
  BY <1>1 DEF optional_event_refused
<1> QED BY <1>2, <1>3, <1>4, ReportTyped
        DEF optional_event_refused, TypeInv, DiagnosticsTypes, DiagnosticsTypeOK

\* The reports of one publication: the broken ones, those that fit and the surplus.
ProofGroup(n) == [i \in 1..n |-> [id |-> submitted + i, kind |-> "proof", scope |-> NONE]]
Hole(n, bad) == SubSeq(ProofGroup(n), 1, bad)
Fits(n, bad) == SubSeq(ProofGroup(n), bad + 1, IF n < EventCap - 1 THEN n ELSE EventCap - 1)
Surplus(n) == SubSeq(ProofGroup(n), EventCap, n)

\* The group that a full backlog gives up.
Displaced(n, bad) ==
    IF Fits(n, bad) # <<>> /\ Len(publications) = PublicationCap THEN Head(publications) ELSE <<>>

LEMMA PublicationParts ==
    ASSUME TypeInv, NEW n \in 1..EventCap, NEW bad \in 0..1
    PROVE  /\ Hole(n, bad) \in Seq(Event) /\ Fits(n, bad) \in Seq(Event) /\ Surplus(n) \in Seq(Event)
           /\ Len(Hole(n, bad)) + Len(Fits(n, bad)) + Len(Surplus(n)) = n
<1>1. submitted \in Nat /\ EventCap \in Nat \ {0, 1} /\ n \in Nat /\ n >= 1 /\ n <= EventCap
  BY DiagnosticsBounds DEF TypeInv, DiagnosticsTypes
<1> DEFINE g == ProofGroup(n)
           m == IF n < EventCap - 1 THEN n ELSE EventCap - 1
<1>2. \A i \in 1..n : g[i] \in Event
  BY <1>1, DiagnosticsBounds DEF ProofGroup, Event
<1>3. m \in Nat /\ m <= n /\ bad \in Nat /\ bad <= m /\ bad <= n
  BY <1>1
<1>4. n = EventCap \/ (n < EventCap /\ m = n)
  BY <1>1
<1> HIDE DEF g, m
<1>5. SubSeq(g, 1, bad) \in Seq(Event) /\ Len(SubSeq(g, 1, bad)) = bad
  <2>1. 1 \in Int /\ bad \in Int /\ \A i \in 1..bad : g[i] \in Event
    BY <1>1, <1>2, <1>3
  <2>2. /\ SubSeq(g, 1, bad) \in Seq(Event)
        /\ Len(SubSeq(g, 1, bad)) = IF 1 <= bad THEN bad - 1 + 1 ELSE 0
    BY <2>1, SubSeqProperties
  <2> QED BY <1>3, <2>2
<1>6. SubSeq(g, bad + 1, m) \in Seq(Event) /\ Len(SubSeq(g, bad + 1, m)) = m - bad
  <2>1. bad + 1 \in Int /\ m \in Int /\ \A i \in (bad + 1)..m : g[i] \in Event
    BY <1>1, <1>2, <1>3
  <2>2. /\ SubSeq(g, bad + 1, m) \in Seq(Event)
        /\ Len(SubSeq(g, bad + 1, m)) = IF bad + 1 <= m THEN m - (bad + 1) + 1 ELSE 0
    BY <2>1, SubSeqProperties
  <2> QED BY <1>3, <2>2
<1>7. SubSeq(g, EventCap, n) \in Seq(Event) /\ Len(SubSeq(g, EventCap, n)) = n - m
  <2>1. EventCap \in Int /\ n \in Int /\ \A i \in EventCap..n : g[i] \in Event
    BY <1>1, <1>2
  <2>2. /\ SubSeq(g, EventCap, n) \in Seq(Event)
        /\ Len(SubSeq(g, EventCap, n)) = IF EventCap <= n THEN n - EventCap + 1 ELSE 0
    BY <2>1, SubSeqProperties
  <2>3. n = EventCap => m = EventCap - 1
    BY <1>1 DEF m
  <2> QED BY <1>1, <1>3, <1>4, <2>2, <2>3
<1>8. bad + (m - bad) + (n - m) = n
  BY <1>1, <1>3
<1> QED BY <1>5, <1>6, <1>7, <1>8 DEF Hole, Fits, Surplus, g, m

\* What a publication does to the backlog of groups.
LEMMA BacklogKept ==
    ASSUME TypeInv, NEW n \in 1..EventCap, NEW bad \in 0..1, publication(n, bad)
    PROVE  /\ Displaced(n, bad) \in Seq(Event)
           /\ publications' \in Seq(Group) /\ Len(publications') <= PublicationCap
           /\ Len(FlattenSeq(publications')) + Len(Displaced(n, bad))
                = Len(FlattenSeq(publications)) + Len(Fits(n, bad))
<1> DEFINE f == Fits(n, bad)
           d == Displaced(n, bad)
           kept == IF d # <<>> THEN Tail(publications) ELSE publications
<1>1. /\ publications \in Seq(Group) /\ publications \in Seq(Seq(Event))
      /\ Len(publications) <= PublicationCap /\ PublicationCap \in Nat \ {0}
  <2>1. publications \in Seq(Group) /\ Len(publications) <= PublicationCap
    BY DEF TypeInv, DiagnosticsTypes, DiagnosticsTypeOK
  <2>2. Group \subseteq Seq(Event)
    BY DEF Group
  <2> QED BY <2>1, <2>2, SeqMonotonic, DiagnosticsBounds
<1>2. f \in Seq(Event)
  BY PublicationParts
<1>3. publications' = IF f = <<>> THEN publications ELSE Append(kept, f)
  BY DEF publication, Fits, Displaced, ProofGroup
<1>4. d = IF f # <<>> /\ Len(publications) = PublicationCap THEN Head(publications) ELSE <<>>
  BY DEF Displaced
<1> HIDE DEF f, d
<1>5. CASE f = <<>>
  <2>1. d = <<>> /\ publications' = publications
    BY <1>3, <1>4, <1>5
  <2> QED BY <1>1, <1>5, <2>1 DEF f, d
<1>6. CASE f # <<>> /\ Len(publications) = PublicationCap
  <2>1. d = Head(publications) /\ publications # <<>>
    BY <1>1, <1>4, <1>6
  <2>2. d \in Group
    BY <1>1, <2>1, HeadTailProperties
  <2>3. d \in Seq(Event) /\ d # <<>>
    BY <2>2 DEF Group
  <2>4. /\ kept = Tail(publications) /\ kept \in Seq(Group) /\ kept \in Seq(Seq(Event))
        /\ Len(kept) = Len(publications) - 1
    BY <1>1, <2>1, <2>3, HeadTailProperties
  <2>5. f \in Group
    BY <1>2, <1>6 DEF Group
  <2>6. publications = <<d>> \o kept
    <3>1. publications = <<Head(publications)>> \o Tail(publications)
      BY <1>1, <2>1
    <3> QED BY <2>1, <2>4, <3>1
  <2> HIDE DEF kept
  <2>7. publications' = Append(kept, f)
    BY <1>3, <1>6 DEF kept
  <2>8. Len(FlattenSeq(publications')) = Len(FlattenSeq(kept)) + Len(f)
    BY <1>2, <2>4, <2>7, FlattenLonger
  <2>9. Len(FlattenSeq(publications)) = Len(d) + Len(FlattenSeq(kept))
    <3> DEFINE one == <<d>>
    <3>1. one \in Seq(Seq(Event))
      BY <2>3
    <3>2. FlattenSeq(one) = d
      <4>1. one = Append(<<>>, d) /\ <<>> \in Seq(Seq(Event))
        BY <2>3
      <4>2. FlattenSeq(Append(<<>>, d)) = d
        BY <2>3, <4>1, FlattenAppend
      <4> QED BY <4>1, <4>2
    <3> HIDE DEF one
    <3>3. Len(FlattenSeq(one \o kept)) = Len(FlattenSeq(one)) + Len(FlattenSeq(kept))
      BY <2>4, <3>1, FlattenSplit
    <3>4. publications = one \o kept
      BY <2>6 DEF one
    <3> QED BY <3>2, <3>3, <3>4
  <2>10. Len(d) \in Nat /\ Len(f) \in Nat /\ Len(FlattenSeq(kept)) \in Nat
    BY <1>2, <2>3, <2>4, FlattenType
  <2>11. publications' \in Seq(Group) /\ Len(publications') = PublicationCap
    BY <1>1, <1>6, <2>4, <2>5, <2>7
  <2>12. Len(FlattenSeq(publications')) + Len(d) = Len(FlattenSeq(publications)) + Len(f)
    BY <2>8, <2>9, <2>10
  <2> QED BY <1>1, <2>3, <2>11, <2>12 DEF f, d
<1>7. CASE f # <<>> /\ Len(publications) # PublicationCap
  <2>1. d = <<>> /\ publications' = Append(publications, f)
    BY <1>3, <1>4, <1>7
  <2>2. f \in Group
    BY <1>2, <1>7 DEF Group
  <2>3. publications' \in Seq(Group) /\ Len(publications') <= PublicationCap
    BY <1>1, <1>7, <2>1, <2>2
  <2>4. Len(FlattenSeq(publications')) = Len(FlattenSeq(publications)) + Len(f)
    BY <1>1, <1>2, <2>1, FlattenLonger
  <2>5. d \in Seq(Event) /\ Len(d) = 0 /\ Len(FlattenSeq(publications)) \in Nat /\ Len(f) \in Nat
    BY <1>1, <1>2, <2>1, FlattenType
  <2> QED BY <2>3, <2>4, <2>5 DEF f, d
<1> QED BY <1>5, <1>6, <1>7

\* Events counted as lost at one place add to the total.
LossTotal(l) == SumFunction([p \in Places |-> l[p]["protected"] + l[p]["other"]])

CountedAt(l, place, s) == [l EXCEPT ![place] = add_counts(l[place], s)]

\* The places a record can be lost at are finitely many, so that their counters can be added up.
LEMMA PlacesFinite == IsFiniteSet(Places)
<1>1. Places = {"event_input", "event_capacity", "event_shutdown", "handoff", "writer"}
  BY DEF Places
<1>2. IsFiniteSet({"event_input"})
  BY FS_Singleton
<1>3. IsFiniteSet({"event_input"} \cup {"event_capacity"})
  BY <1>2, FS_AddElement
<1>4. IsFiniteSet({"event_input"} \cup {"event_capacity"} \cup {"event_shutdown"})
  BY <1>3, FS_AddElement
<1>5. IsFiniteSet({"event_input"} \cup {"event_capacity"} \cup {"event_shutdown"} \cup {"handoff"})
  BY <1>4, FS_AddElement
<1>6. IsFiniteSet({"event_input"} \cup {"event_capacity"} \cup {"event_shutdown"} \cup {"handoff"}
                  \cup {"writer"})
  BY <1>5, FS_AddElement
<1>7. Places = {"event_input"} \cup {"event_capacity"} \cup {"event_shutdown"} \cup {"handoff"}
                  \cup {"writer"}
  BY <1>1
<1> QED BY <1>6, <1>7

LEMMA LossTotalGrows ==
    \A S : \A l \in LossTypes, place \in Places, s \in Seq(S) :
        /\ CountedAt(l, place, s) \in LossTypes
        /\ LossTotal(l) \in Nat
        /\ LossTotal(CountedAt(l, place, s)) = LossTotal(l) + Len(s)
<1> SUFFICES ASSUME NEW S, NEW l \in LossTypes, NEW place \in Places, NEW s \in Seq(S)
             PROVE  /\ CountedAt(l, place, s) \in LossTypes
                    /\ LossTotal(l) \in Nat
                    /\ LossTotal(CountedAt(l, place, s)) = LossTotal(l) + Len(s)
  OBVIOUS
<1> DEFINE k == CountedAt(l, place, s)
           f == [p \in Places |-> l[p]["protected"] + l[p]["other"]]
           g == [p \in Places |-> k[p]["protected"] + k[p]["other"]]
<1>1. /\ l[place] \in [Categories -> Nat]
      /\ add_counts(l[place], s) \in [Categories -> Nat]
      /\ add_counts(l[place], s)["protected"] + add_counts(l[place], s)["other"]
          = l[place]["protected"] + l[place]["other"] + Len(s)
  <2>1. l[place] \in [Categories -> Nat]
    BY DEF LossTypes
  <2> QED BY <2>1, CountsTyped
<1>2. k \in LossTypes /\ k[place] = add_counts(l[place], s) /\ \A p \in Places \ {place} : k[p] = l[p]
  BY <1>1 DEF LossTypes, CountedAt
<1>3. IsFiniteSet(Places)
  BY PlacesFinite
<1>4. "protected" \in Categories /\ "other" \in Categories
  BY DEF Categories
<1>5. \A p \in Places : f[p] \in Nat /\ g[p] \in Nat
  <2>1. \A p \in Places : l[p] \in [Categories -> Nat] /\ k[p] \in [Categories -> Nat]
    BY <1>2 DEF LossTypes
  <2> HIDE DEF k
  <2> QED BY <1>4, <2>1
<1>6. g[place] = f[place] + Len(s) /\ \A p \in Places \ {place} : g[p] = f[p]
  <2> HIDE DEF k
  <2> QED BY <1>1, <1>2
<1>7. LossTotal(l) = SumFunctionOnSet(f, Places) /\ LossTotal(k) = SumFunctionOnSet(g, Places)
  <2>1. DOMAIN f = Places /\ DOMAIN g = Places
    OBVIOUS
  <2>2. LossTotal(l) = SumFunction(f) /\ LossTotal(k) = SumFunction(g)
    BY DEF LossTotal
  <2> HIDE DEF f, g, k
  <2> QED BY <2>1, <2>2 DEF SumFunction, SumFunctionOnSet, FoldFunction
<1> HIDE DEF f, g
<1>8. SumFunctionOnSet(f, Places) \in Nat /\ SumFunctionOnSet(g, Places) \in Nat
  BY <1>3, <1>5, SumType
<1>9. SumFunctionOnSet(g, Places) + f[place] = SumFunctionOnSet(f, Places) + g[place]
  <2>1. g[place] \in Int /\ \A p \in Places : f[p] \in Int
    BY <1>5
  <2> QED BY <1>3, <1>6, <2>1, SumChange
<1>10. Len(s) \in Nat /\ f[place] \in Nat
  BY <1>5
<1>11. SumFunctionOnSet(g, Places) = SumFunctionOnSet(f, Places) + Len(s)
  BY <1>6, <1>8, <1>9, <1>10
<1> QED BY <1>2, <1>7, <1>8, <1>11

\* What a publication counts as lost.
LEMMA PublicationLoss ==
    ASSUME TypeInv, NEW n \in 1..EventCap, NEW bad \in 0..1, publication(n, bad)
    PROVE  /\ loss' \in LossTypes
           /\ LossTotal(loss') = LossTotal(loss) + Len(Hole(n, bad)) + Len(Surplus(n))
                                   + Len(Displaced(n, bad))
           /\ RecordLosses(Len(Hole(n, bad)) + Len(Surplus(n)) + Len(Displaced(n, bad)))
<1> DEFINE a == Hole(n, bad)
           b == Surplus(n)
           d == Displaced(n, bad)
           mid == CountedAt(loss, "event_input", a)
<1>1. a \in Seq(Event) /\ b \in Seq(Event) /\ d \in Seq(Event) /\ loss \in LossTypes
  BY PublicationParts, BacklogKept DEF TypeInv, DiagnosticsTypes
<1>2. b \o d \in Seq(Event) /\ Len(b \o d) = Len(b) + Len(d)
  BY <1>1, ConcatProperties
<1>3. /\ loss' = [loss EXCEPT !["event_input"] = add_counts(loss["event_input"], a),
                              !["event_capacity"] = add_counts(loss["event_capacity"], b \o d)]
      /\ RecordLosses(Len(a) + Len(b) + Len(d))
  BY DEF publication, Hole, Surplus, Displaced, Fits, ProofGroup
<1>4. "event_input" \in Places /\ "event_capacity" \in Places
  BY DEF Places
<1> HIDE DEF a, b, d
<1>5. mid \in LossTypes /\ LossTotal(mid) = LossTotal(loss) + Len(a) /\ LossTotal(loss) \in Nat
  BY <1>1, <1>4, LossTotalGrows
<1>6. loss' = CountedAt(mid, "event_capacity", b \o d)
  <2>1. mid["event_capacity"] = loss["event_capacity"]
    BY <1>1, <1>4 DEF CountedAt, LossTypes
  <2>2. loss' = [mid EXCEPT !["event_capacity"] = add_counts(loss["event_capacity"], b \o d)]
    BY <1>3 DEF CountedAt
  <2> HIDE DEF mid
  <2> QED BY <2>1, <2>2 DEF CountedAt
<1> HIDE DEF mid
<1>7. loss' \in LossTypes /\ LossTotal(loss') = LossTotal(mid) + Len(b \o d)
  BY <1>2, <1>4, <1>5, <1>6, LossTotalGrows
<1>8. Len(a) \in Nat /\ Len(b) \in Nat /\ Len(d) \in Nat
  BY <1>1
<1>9. LossTotal(loss') = LossTotal(loss) + Len(a) + Len(b) + Len(d)
  BY <1>2, <1>5, <1>7, <1>8
<1> QED BY <1>3, <1>7, <1>9 DEF a, b, d

LEMMA PublicationTyped ==
    TypeInv /\ (\E n \in 1..EventCap, bad \in 0..1 : publication(n, bad)) => TypeInv'
<1> SUFFICES ASSUME TypeInv, NEW n \in 1..EventCap, NEW bad \in 0..1, publication(n, bad)
             PROVE  TypeInv'
  OBVIOUS
<1>1. publications' \in Seq(Group) /\ Len(publications') <= PublicationCap /\ Displaced(n, bad) \in Seq(Event)
  BY BacklogKept
<1> DEFINE lost == Len(Hole(n, bad)) + Len(Surplus(n)) + Len(Displaced(n, bad))
<1>2. lost \in Nat
  BY <1>1, PublicationParts
<1>3. loss' \in LossTypes /\ RecordLosses(lost)
  BY PublicationLoss
<1> HIDE DEF lost
<1>4. /\ dropped' \in Nat /\ dropped' >= dropped
      /\ watermark' \in [dropped : Nat, uncertain : Nat, since : BOOLEAN]
  BY <1>2, <1>3, RecordLossesTyped
<1>5. submitted' \in Nat
  BY DEF publication, TypeInv, DiagnosticsTypes
<1> QED BY <1>1, <1>3, <1>4, <1>5, ReportTyped DEF publication, TypeInv, DiagnosticsTypes, DiagnosticsTypeOK

\* The interval one collection makes, and whether a full queue refuses it.
NewInterval(gap) == [seq |-> sequence, events |-> TakenEvents, gap |-> RecordingGap(gap)]

Refused(gap) ==
    /\ Len(queue) = QueueCap
    /\ ~protected(NewInterval(gap))
    /\ \A i \in DOMAIN queue : protected(queue[i])

LEMMA TakenTyped ==
    TypeInv =>
        /\ TakenEvents \in Seq(Event)
        /\ RemainingEvents \in Seq(Event) /\ Len(RemainingEvents) <= Len(events)
        /\ LET left == SubSeq(publications, GroupsTaken + 1, Len(publications))
           IN  /\ left \in Seq(Group) /\ Len(left) <= PublicationCap
               /\ Len(TakenEvents) + Len(RemainingEvents) + Len(FlattenSeq(left))
                    = Len(events) + Len(FlattenSeq(publications))
        /\ CollectedNow \in [Keys -> Scopes \cup {NONE}]
<1> SUFFICES ASSUME TypeInv
             PROVE  /\ TakenEvents \in Seq(Event)
                    /\ RemainingEvents \in Seq(Event) /\ Len(RemainingEvents) <= Len(events)
                    /\ LET left == SubSeq(publications, GroupsTaken + 1, Len(publications))
                       IN  /\ left \in Seq(Group) /\ Len(left) <= PublicationCap
                           /\ Len(TakenEvents) + Len(RemainingEvents) + Len(FlattenSeq(left))
                                = Len(events) + Len(FlattenSeq(publications))
                    /\ CollectedNow \in [Keys -> Scopes \cup {NONE}]
  OBVIOUS
<1> DEFINE front == FlattenSeq(SubSeq(publications, 1, GroupsTaken))
           left == SubSeq(publications, GroupsTaken + 1, Len(publications))
<1>1. /\ publications \in Seq(Group) /\ publications \in Seq(Seq(Event))
      /\ Len(publications) <= PublicationCap /\ events \in Seq(Event)
      /\ collected \in [Keys -> Scopes \cup {NONE}]
  <2>1. publications \in Seq(Group)
    BY DEF TypeInv, DiagnosticsTypes
  <2>2. Group \subseteq Seq(Event)
    BY DEF Group
  <2> QED BY <2>1, <2>2, SeqMonotonic DEF TypeInv, DiagnosticsTypes, DiagnosticsTypeOK
<1>2. /\ front \in Seq(Event) /\ FlattenSeq(left) \in Seq(Event) /\ Len(left) <= Len(publications)
      /\ Len(front) + Len(FlattenSeq(left)) = Len(FlattenSeq(publications))
      /\ left \in Seq(Seq(Event))
  BY <1>1, GroupsSplit
<1>3. left \in Seq(Group)
  <2>1. GroupsTaken \in 0..Len(publications) /\ Len(publications) \in Nat
    BY <1>1, GroupsTakenInRange
  <2>2. /\ GroupsTaken + 1 \in Int /\ Len(publications) \in Int
        /\ \A i \in (GroupsTaken + 1)..Len(publications) : publications[i] \in Group
    BY <1>1, <2>1
  <2> QED BY <2>2, SubSeqProperties
<1>4. /\ TakenAt \in SUBSET (DOMAIN events) /\ EventsTaken \in Seq(Event)
      /\ RemainingEvents \in Seq(Event) /\ Len(EventsTaken) + Len(RemainingEvents) = Len(events)
  BY <1>1, EventsSplit
<1>5. TakenEvents = front \o EventsTaken
  BY DEF TakenEvents
<1>6. CollectedNow \in [Keys -> Scopes \cup {NONE}]
  <2> DEFINE taken(k) == {i \in TakenAt : events[i].kind = k}
             value(k) == IF taken(k) = {} THEN collected[k] ELSE events[CHOOSE i \in taken(k) : TRUE].scope
  <2>1. CollectedNow = [k \in Keys |-> value(k)]
    BY DEF CollectedNow
  <2>2. \A k \in Keys : value(k) \in Scopes \cup {NONE}
    <3> SUFFICES ASSUME NEW k \in Keys, taken(k) # {}
                 PROVE  events[CHOOSE i \in taken(k) : TRUE].scope \in Scopes
      BY <1>1
    <3> DEFINE i == CHOOSE i \in taken(k) : TRUE
    <3>1. i \in taken(k)
      OBVIOUS
    <3>2. i \in DOMAIN events /\ events[i].kind = k
      BY <1>4, <3>1
    <3> HIDE DEF i
    <3>3. events[i] \in Event
      BY <1>1, <3>2
    <3>4. events[i].scope \in Scopes
      BY <3>2, <3>3 DEF Event
    <3> QED BY <3>4 DEF i
  <2> HIDE DEF value
  <2> QED BY <2>1, <2>2
<1> HIDE DEF front, left
<1>7. TakenEvents \in Seq(Event) /\ Len(TakenEvents) = Len(front) + Len(EventsTaken)
  BY <1>2, <1>4, <1>5, ConcatProperties
<1>8. /\ Len(front) \in Nat /\ Len(EventsTaken) \in Nat /\ Len(RemainingEvents) \in Nat
      /\ Len(FlattenSeq(left)) \in Nat /\ Len(publications) \in Nat /\ PublicationCap \in Nat
      /\ Len(left) \in Nat
  BY <1>1, <1>2, <1>3, <1>4, DiagnosticsBounds
<1>9. /\ Len(RemainingEvents) <= Len(events) /\ Len(left) <= PublicationCap
      /\ Len(TakenEvents) + Len(RemainingEvents) + Len(FlattenSeq(left))
          = Len(events) + Len(FlattenSeq(publications))
  <2> DEFINE a == Len(TakenEvents)
             b == Len(front)
             c == Len(EventsTaken)
             d == Len(FlattenSeq(left))
             e == Len(FlattenSeq(publications))
             f == Len(RemainingEvents)
             g == Len(events)
  <2>1. a = b + c
    BY <1>7
  <2>2. b + d = e /\ c + f = g
    BY <1>2, <1>4
  <2>3. /\ Len(RemainingEvents) <= Len(events)
        /\ Len(TakenEvents) + Len(RemainingEvents) + Len(FlattenSeq(left))
            = Len(events) + Len(FlattenSeq(publications))
    <3>1. b \in Nat /\ c \in Nat /\ d \in Nat /\ f \in Nat
      BY <1>8
    <3> HIDE DEF a, b, c, d, e, f, g
    <3>2. f <= g /\ a + f + d = g + e
      BY <2>1, <2>2, <3>1
    <3> QED BY <3>2 DEF a, b, c, d, e, f, g
  <2>4. Len(left) <= PublicationCap
    BY <1>1, <1>2, <1>8
  <2> QED BY <2>3, <2>4
<1> QED BY <1>3, <1>4, <1>6, <1>7, <1>9 DEF left

LEMMA NewIntervalTyped == \A gap \in Gaps : TypeInv => NewInterval(gap) \in Interval
<1> SUFFICES ASSUME NEW gap \in Gaps, TypeInv
             PROVE  NewInterval(gap) \in Interval
  OBVIOUS
<1>1. sequence \in Nat /\ TakenEvents \in Seq(Event)
  BY TakenTyped DEF TypeInv, DiagnosticsTypes
<1>2. RecordingGap(gap) \in BOOLEAN
  <2>1. gap \in BOOLEAN /\ watermark.since \in BOOLEAN
    BY DiagnosticsBounds DEF TypeInv, DiagnosticsTypes
  <2> QED BY <2>1, Zenon DEF RecordingGap
<1> QED BY <1>1, <1>2 DEF NewInterval, Interval

\* What a collection that can be serialised does to the queue.
LEMMA CollectQueue ==
    ASSUME TypeInv, NEW gap \in Gaps, collect(gap, TRUE)
    PROVE  LET r == NewInterval(gap)
               v == QueueVictim(queue)
           IN  \/ /\ Refused(gap)
                  /\ queue' = queue /\ loss' = CountedAt(loss, "handoff", r.events)
               \/ /\ Len(queue) = QueueCap /\ ~Refused(gap) /\ v \in DOMAIN queue
                  /\ queue' = Append(RemoveAt(queue, v), r)
                  /\ loss' = CountedAt(loss, "handoff", queue[v].events)
               \/ /\ Len(queue) < QueueCap
                  /\ queue' = Append(queue, r) /\ loss' = loss
<1> DEFINE r == NewInterval(gap)
           v == QueueVictim(queue)
<1>1. queue \in Seq(Interval) /\ Len(queue) <= QueueCap /\ QueueCap \in Nat \ {0} /\ Len(queue) \in Nat
  BY DiagnosticsBounds DEF TypeInv, DiagnosticsTypes, DiagnosticsTypeOK
<1>2. /\ queue' = IF Refused(gap) THEN queue
                  ELSE Append(IF Len(queue) = QueueCap THEN RemoveAt(queue, v) ELSE queue, r)
      /\ loss' = IF Refused(gap) THEN CountedAt(loss, "handoff", r.events)
                 ELSE IF Len(queue) = QueueCap THEN CountedAt(loss, "handoff", queue[v].events)
                 ELSE loss
  BY DEF collect, NewInterval, Refused, CountedAt, Lost
<1>3. Len(queue) = QueueCap => v \in DOMAIN queue
  <2> SUFFICES ASSUME Len(queue) = QueueCap
               PROVE  v \in DOMAIN queue
    OBVIOUS
  <2>1. queue # <<>>
    BY <1>1
  <2> QED BY <1>1, <2>1, QueueVictimProperties
<1>4. Refused(gap) => Len(queue) = QueueCap
  BY DEF Refused
<1> HIDE DEF r, v
<1> QED BY <1>1, <1>2, <1>3, <1>4 DEF r, v

LEMMA CollectTyped ==
    TypeInv /\ (\E gap \in Gaps, fits \in BOOLEAN : collect(gap, fits)) => TypeInv'
<1> SUFFICES ASSUME TypeInv, NEW gap \in Gaps, NEW fits \in BOOLEAN, collect(gap, fits)
             PROVE  TypeInv'
  OBVIOUS
<1> DEFINE r == NewInterval(gap)
<1>1. /\ reading \in Nat /\ reading <= total_dropped /\ dropped \in Nat /\ rejected \in Nat
      /\ sequence \in Nat /\ uncertain \in Nat /\ loss \in LossTypes
      /\ queue \in Seq(Interval) /\ Len(queue) <= QueueCap /\ QueueCap \in Nat \ {0}
      /\ events \in Seq(Event) /\ Len(events) <= EventCap /\ EventCap \in Nat
      /\ flagged \in [dropped : Nat, uncertain : Nat]
  BY DiagnosticsBounds DEF collect, TypeInv, DiagnosticsTypes, DiagnosticsTypeOK
<1>2. r \in Interval
  BY NewIntervalTyped
<1>3. \E lost \in 0..1 :
          /\ dropped' = dropped + lost
          /\ watermark' = [dropped |-> reading, uncertain |-> uncertain, since |-> lost > 0]
  <2> DEFINE lost == IF ~fits \/ Len(queue) = QueueCap THEN 1 ELSE 0
  <2>1. lost \in 0..1
    OBVIOUS
  <2>2. dropped' = dropped + lost
    BY DEF collect
  <2>3. watermark' = [dropped |-> reading, uncertain |-> uncertain, since |-> lost > 0]
    BY DEF collect, NextWatermark
  <2> HIDE DEF lost
  <2> QED BY <2>1, <2>2, <2>3
<1>4. dropped' \in Nat /\ watermark' \in [dropped : Nat, uncertain : Nat, since : BOOLEAN]
  <2>1. PICK lost \in 0..1 :
          /\ dropped' = dropped + lost
          /\ watermark' = [dropped |-> reading, uncertain |-> uncertain, since |-> lost > 0]
    BY <1>3
  <2>2. dropped' \in Nat
    BY <1>1, <2>1
  <2>3. (lost > 0) \in BOOLEAN
    OBVIOUS
  <2>4. watermark' \in [dropped : Nat, uncertain : Nat, since : BOOLEAN]
    BY <1>1, <2>1, <2>3
  <2> QED BY <2>2, <2>4
<1>5. flagged' \in [dropped : Nat, uncertain : Nat]
  <2>1. flagged' = [dropped |-> reading, uncertain |-> uncertain] \/ flagged' = flagged
    BY DEF collect
  <2> QED BY <1>1, <2>1
<1>6. /\ events' \in Seq(Event) /\ Len(events') <= EventCap
      /\ publications' \in Seq(Group) /\ Len(publications') <= PublicationCap
      /\ collected' \in [Keys -> Scopes \cup {NONE}]
  <2>1. CASE fits
    <3>1. /\ publications' = SubSeq(publications, GroupsTaken + 1, Len(publications))
          /\ events' = RemainingEvents /\ collected' = CollectedNow
      BY <2>1 DEF collect
    <3>2. Len(RemainingEvents) \in Nat /\ Len(events) \in Nat
      BY <1>1, TakenTyped
    <3> QED BY <1>1, <3>1, <3>2, TakenTyped
  <2>2. CASE ~fits
    <3>1. UNCHANGED <<publications, events, collected>>
      BY <2>2 DEF collect
    <3> QED BY <1>1, <3>1 DEF TypeInv, DiagnosticsTypes, DiagnosticsTypeOK
  <2> QED BY <2>1, <2>2
<1>7. queue' \in Seq(Interval) /\ Len(queue') <= QueueCap /\ loss' \in LossTypes
  <2>1. CASE fits
    <3> DEFINE v == QueueVictim(queue)
    <3>1. collect(gap, TRUE)
      <4>1. fits = TRUE
        BY <2>1
      <4> QED BY <4>1
    <3>2. "handoff" \in Places
      BY DEF Places
    <3>3. \A x \in Interval : CountedAt(loss, "handoff", x.events) \in LossTypes
      <4> TAKE x \in Interval
      <4>1. x.events \in Seq(Event)
        BY DEF Interval
      <4> QED BY <1>1, <3>2, <4>1, LossTotalGrows
    <3>4. CASE queue' = queue /\ loss' = CountedAt(loss, "handoff", r.events)
      BY <1>1, <1>2, <3>3, <3>4
    <3>5. CASE /\ Len(queue) = QueueCap /\ v \in DOMAIN queue
               /\ queue' = Append(RemoveAt(queue, v), r)
               /\ loss' = CountedAt(loss, "handoff", queue[v].events)
      <4> DEFINE rest == RemoveAt(queue, v)
      <4>1. rest \in Seq(Interval) /\ Len(rest) = Len(queue) - 1
        BY <1>1, <3>5, RemoveAtProperties
      <4>2. queue[v] \in Interval
        BY <1>1, <3>5
      <4>3. loss' \in LossTypes
        BY <3>3, <3>5, <4>2
      <4>4. queue' = Append(rest, r)
        BY <3>5
      <4> HIDE DEF rest, r
      <4>5. queue' \in Seq(Interval) /\ Len(queue') = Len(rest) + 1
        BY <1>2, <4>1, <4>4, AppendProperties
      <4> QED BY <1>1, <3>5, <4>1, <4>3, <4>5
    <3>6. CASE Len(queue) < QueueCap /\ queue' = Append(queue, r) /\ loss' = loss
      <4> HIDE DEF r
      <4> QED BY <1>1, <1>2, <3>6
    <3> HIDE DEF v, r
    <3> QED BY <3>1, <3>4, <3>5, <3>6, CollectQueue DEF v, r
  <2>2. CASE ~fits
    <3>1. UNCHANGED <<queue, loss>>
      BY <2>2 DEF collect
    <3> QED BY <1>1, <3>1
  <2> QED BY <2>1, <2>2
<1>8. sequence' \in Nat /\ reading' = NONE
  BY <1>1 DEF collect
<1>9. UNCHANGED <<started, stopped, submitted, coalesced, sharedVars, writerVars, unknown>>
  BY DEF collect
<1> HIDE DEF r
<1>10. DiagnosticsTypes'
  BY <1>4, <1>5, <1>6, <1>7, <1>8, <1>9 DEF TypeInv, DiagnosticsTypes, sharedVars, writerVars
<1>11. DiagnosticsTypeOK'
  BY <1>6, <1>7, <1>8, <1>9 DEF TypeInv, DiagnosticsTypeOK, sharedVars, writerVars
<1> QED BY <1>10, <1>11 DEF TypeInv

\* What a stop finds: the reports in queued intervals, the pending ones and the
\* interval left in the mailbox.
Waiting == FlattenSeq([i \in DOMAIN queue |-> queue[i].events])
Pending == FlattenSeq(publications) \o events
UnreadEvents == IF started /\ Posted THEN messages[1].events ELSE <<>>

LEMMA StopFinds ==
    TypeInv =>
        /\ [i \in DOMAIN queue |-> queue[i].events] \in Seq(Seq(Event))
        /\ Waiting \in Seq(Event) /\ Pending \in Seq(Event) /\ UnreadEvents \in Seq(Event)
        /\ Len(Pending) = Len(FlattenSeq(publications)) + Len(events)
<1> SUFFICES ASSUME TypeInv
             PROVE  /\ [i \in DOMAIN queue |-> queue[i].events] \in Seq(Seq(Event))
                    /\ Waiting \in Seq(Event) /\ Pending \in Seq(Event) /\ UnreadEvents \in Seq(Event)
                    /\ Len(Pending) = Len(FlattenSeq(publications)) + Len(events)
  OBVIOUS
<1> DEFINE m == [i \in DOMAIN queue |-> queue[i].events]
<1>1. /\ queue \in Seq(Interval) /\ events \in Seq(Event) /\ publications \in Seq(Seq(Event))
      /\ messages \in Seq(Interval \cup {NONE}) /\ Len(messages) <= 1
  <2>1. publications \in Seq(Group)
    BY DEF TypeInv, DiagnosticsTypes
  <2>2. Group \subseteq Seq(Event)
    BY DEF Group
  <2> QED BY <2>1, <2>2, SeqMonotonic DEF TypeInv, DiagnosticsTypes, DiagnosticsTypeOK
<1>2. m \in Seq(Seq(Event))
  <2>1. \A i \in DOMAIN queue : queue[i].events \in Seq(Event)
    <3>1. \A i \in DOMAIN queue : queue[i] \in Interval
      BY <1>1
    <3>2. \A x \in Interval : x.events \in Seq(Event)
      BY DEF Interval
    <3> QED BY <3>1, <3>2
  <2>2. DOMAIN queue = 1..Len(queue) /\ Len(queue) \in Nat
    BY <1>1
  <2>3. m \in [1..Len(queue) -> Seq(Event)]
    BY <2>1, <2>2
  <2> QED BY <2>2, <2>3
<1>3. Waiting \in Seq(Event)
  BY <1>2, FlattenType DEF Waiting
<1>4. FlattenSeq(publications) \in Seq(Event)
  BY <1>1, FlattenType
<1>5. Pending \in Seq(Event) /\ Len(Pending) = Len(FlattenSeq(publications)) + Len(events)
  BY <1>1, <1>4, ConcatProperties DEF Pending
<1>6. UnreadEvents \in Seq(Event)
  <2>1. CASE Posted
    <3>1. messages[1] \in Interval
      BY <1>1, <2>1, PostedInterval
    <3>2. messages[1].events \in Seq(Event)
      BY <3>1 DEF Interval
    <3> QED BY <3>2 DEF UnreadEvents
  <2>2. CASE ~Posted
    BY <2>2 DEF UnreadEvents
  <2> QED BY <2>1, <2>2
<1> QED BY <1>2, <1>3, <1>5, <1>6

LEMMA StopLoss ==
    ASSUME TypeInv, stop
    PROVE  /\ loss' \in LossTypes
           /\ LossTotal(loss') = LossTotal(loss) + Len(Waiting) + Len(Pending) + Len(UnreadEvents)
           /\ RecordLosses(Len(queue) + Len(Pending))
           /\ rejected' = rejected + IF started /\ Posted THEN 1 ELSE 0
<1> DEFINE w == Waiting
           p == Pending
           u == UnreadEvents
           one == CountedAt(loss, "handoff", w)
           two == CountedAt(one, "event_shutdown", p)
<1>1. w \in Seq(Event) /\ p \in Seq(Event) /\ u \in Seq(Event) /\ loss \in LossTypes
  BY StopFinds DEF TypeInv, DiagnosticsTypes
<1>2. "handoff" \in Places /\ "event_shutdown" \in Places /\ "writer" \in Places
  BY DEF Places
<1>3. RecordLosses(Len(queue) + Len(p))
  BY DEF stop, Pending
<1>4. /\ rejected' = rejected + IF started /\ Posted THEN 1 ELSE 0
      /\ loss' = [loss EXCEPT !["handoff"] = add_counts(loss["handoff"], w),
                              !["event_shutdown"] = add_counts(loss["event_shutdown"], p),
                              !["writer"] = IF started /\ Posted THEN add_counts(loss["writer"], u)
                                            ELSE loss["writer"]]
  <2>1. CASE started /\ Posted
    <3> DEFINE unread == <<messages[1]>>
    <3>1. Len(unread) = 1 /\ unread # <<>> /\ unread[1].events = u
      BY <2>1 DEF UnreadEvents
    <3>2. /\ rejected' = rejected + Len(unread)
          /\ loss' = [loss EXCEPT !["handoff"] = add_counts(loss["handoff"], w),
                                  !["event_shutdown"] = add_counts(loss["event_shutdown"], p),
                                  !["writer"] = IF unread = <<>> THEN loss["writer"]
                                                ELSE add_counts(loss["writer"], unread[1].events)]
      BY <2>1 DEF stop, Waiting, Pending, Posted
    <3> HIDE DEF unread, w, p, u
    <3> QED BY <2>1, <3>1, <3>2
  <2>2. CASE ~ (started /\ Posted)
    <3> DEFINE unread == <<>>
    <3>1. Len(unread) = 0
      OBVIOUS
    <3>2. /\ rejected' = rejected + Len(unread)
          /\ loss' = [loss EXCEPT !["handoff"] = add_counts(loss["handoff"], w),
                                  !["event_shutdown"] = add_counts(loss["event_shutdown"], p),
                                  !["writer"] = loss["writer"]]
      BY <2>2 DEF stop, Waiting, Pending, Posted
    <3> HIDE DEF unread, w, p, u
    <3> QED BY <2>2, <3>1, <3>2
  <2> QED BY <2>1, <2>2
<1> HIDE DEF w, p, u
<1>5. one \in LossTypes /\ LossTotal(one) = LossTotal(loss) + Len(w) /\ LossTotal(loss) \in Nat
  BY <1>1, <1>2, LossTotalGrows
<1>6. /\ one["event_shutdown"] = loss["event_shutdown"] /\ one["writer"] = loss["writer"]
      /\ one["handoff"] = add_counts(loss["handoff"], w)
  BY <1>1, <1>2 DEF CountedAt, LossTypes
<1>7. two \in LossTypes /\ LossTotal(two) = LossTotal(one) + Len(p)
  <2> HIDE DEF one
  <2> QED BY <1>1, <1>2, <1>5, LossTotalGrows
<1>8. two["writer"] = loss["writer"]
  <2> HIDE DEF one
  <2> QED BY <1>2, <1>5, <1>6 DEF CountedAt, LossTypes
<1>9. two = [loss EXCEPT !["handoff"] = add_counts(loss["handoff"], w),
                         !["event_shutdown"] = add_counts(loss["event_shutdown"], p)]
  <2>1. two = [one EXCEPT !["event_shutdown"] = add_counts(loss["event_shutdown"], p)]
    <3> HIDE DEF one
    <3> QED BY <1>6 DEF CountedAt
  <2> QED BY <2>1 DEF CountedAt
<1>10. loss' = [two EXCEPT !["writer"] = IF started /\ Posted THEN add_counts(loss["writer"], u)
                                         ELSE loss["writer"]]
  <2> HIDE DEF two
  <2> QED BY <1>4, <1>9
<1> HIDE DEF one, two
<1>11. loss' \in LossTypes /\ LossTotal(loss') = LossTotal(two) + Len(u)
  <2>1. CASE started /\ Posted
    <3>1. loss' = CountedAt(two, "writer", u)
      BY <1>8, <1>10, <2>1 DEF CountedAt
    <3> QED BY <1>1, <1>2, <1>7, <3>1, LossTotalGrows
  <2>2. CASE ~ (started /\ Posted)
    <3>1. loss' = two
      <4>1. loss' = [two EXCEPT !["writer"] = two["writer"]]
        BY <1>8, <1>10, <2>2
      <4> QED BY <1>7, <4>1 DEF LossTypes
    <3>2. Len(u) = 0
      BY <2>2 DEF u, UnreadEvents
    <3>3. LossTotal(two) \in Nat
      BY <1>1, <1>2, <1>7, LossTotalGrows
    <3> QED BY <1>7, <3>1, <3>2, <3>3
  <2> QED BY <2>1, <2>2
<1>12. Len(w) \in Nat /\ Len(p) \in Nat /\ Len(u) \in Nat
  BY <1>1
<1>13. LossTotal(loss') = LossTotal(loss) + Len(w) + Len(p) + Len(u)
  BY <1>5, <1>7, <1>11, <1>12
<1> QED BY <1>3, <1>4, <1>11, <1>13 DEF w, p, u

LEMMA StopTyped == TypeInv /\ stop => TypeInv'
<1> SUFFICES ASSUME TypeInv, stop
             PROVE  TypeInv'
  OBVIOUS
<1>1. /\ queue \in Seq(Interval) /\ rejected \in Nat /\ Len(queue) \in Nat
      /\ EventCap \in Nat /\ QueueCap \in Nat /\ PublicationCap \in Nat
  BY DiagnosticsBounds DEF TypeInv, DiagnosticsTypes
<1>2. /\ loss' \in LossTypes /\ RecordLosses(Len(queue) + Len(Pending))
      /\ rejected' = rejected + IF started /\ Posted THEN 1 ELSE 0
  BY StopLoss
<1>3. Len(queue) + Len(Pending) \in Nat
  BY <1>1, StopFinds
<1>4. /\ dropped' \in Nat /\ dropped' >= dropped
      /\ watermark' \in [dropped : Nat, uncertain : Nat, since : BOOLEAN]
  BY <1>2, <1>3, RecordLossesTyped
<1>5. rejected' \in Nat /\ rejected' >= rejected
  BY <1>1, <1>2
<1>6. reading' # NONE => reading' <= total_dropped'
  BY <1>4, <1>5, ReadingStaysBehind DEF stop, TypeInv, DiagnosticsTypes, DiagnosticsTypeOK
<1>7. messages' \in Seq(Interval \cup {NONE}) /\ Len(messages') <= 1 /\ stopping' \in BOOLEAN
  <2>1. CASE started
    <3>1. messages' = <<NONE>> /\ stopping' = TRUE
      BY <2>1 DEF stop, AfterStop
    <3> QED BY <3>1
  <2>2. CASE ~started
    <3>1. UNCHANGED <<messages, stopping>>
      BY <2>2 DEF stop
    <3> QED BY <3>1 DEF TypeInv, DiagnosticsTypes, DiagnosticsTypeOK
  <2> QED BY <2>1, <2>2
<1>8. /\ queue' = <<>> /\ publications' = <<>> /\ events' = <<>> /\ stopped' = TRUE
      /\ UNCHANGED <<started, submitted, collected, sequence, reading, coalesced, allowed,
                     uncertain, writerVars, historyVars>>
  BY DEF stop
<1>9. DiagnosticsTypes'
  BY <1>2, <1>4, <1>5, <1>7, <1>8 DEF TypeInv, DiagnosticsTypes, writerVars, historyVars
<1>10. DiagnosticsTypeOK'
  BY <1>1, <1>6, <1>7, <1>8 DEF TypeInv, DiagnosticsTypeOK, writerVars
<1> QED BY <1>9, <1>10 DEF TypeInv

LEMMA InitTyped == Init => TypeInv
<1> SUFFICES ASSUME Init
             PROVE  TypeInv
  OBVIOUS
<1>1. IsFiniteSet({})
  BY FS_EmptySet
<1>2. loss \in LossTypes
  BY DEF Init, LossTypes
<1>3. DiagnosticsTypes
  <2>1. /\ events \in Seq(Event) /\ publications \in Seq(Group) /\ queue \in Seq(Interval)
        /\ messages \in Seq(Interval \cup {NONE})
    BY DEF Init
  <2>2. /\ watermark \in [dropped : Nat, uncertain : Nat, since : BOOLEAN]
        /\ flagged \in [dropped : Nat, uncertain : Nat]
    BY DEF Init
  <2>3. /\ stored \in SUBSET Interval /\ IsFiniteSet(stored)
        /\ unknown \in SUBSET Interval /\ IsFiniteSet(unknown)
    BY <1>1 DEF Init
  <2>4. /\ started \in BOOLEAN /\ stopped \in BOOLEAN /\ stopping \in BOOLEAN
        /\ allowed \in BOOLEAN /\ submitted \in Nat /\ sequence \in Nat /\ dropped \in Nat
        /\ coalesced \in Nat /\ rejected \in Nat /\ uncertain \in Nat /\ saved \in Nat
        /\ raw = NONE /\ reading = NONE
    BY DEF Init
  <2> QED BY <1>2, <2>1, <2>2, <2>3, <2>4 DEF DiagnosticsTypes
<1>4. DiagnosticsTypeOK
  BY DiagnosticsBounds DEF Init, DiagnosticsTypeOK, total_dropped
<1> QED BY <1>3, <1>4 DEF TypeInv

LEMMA NextTyped == TypeInv /\ [Next]_vars => TypeInv'
<1> SUFFICES ASSUME TypeInv, [Next]_vars
             PROVE  TypeInv'
  OBVIOUS
<1>1. CASE WriterStep
  BY <1>1, WriterTyped
<1>2. CASE RecorderStep
  BY <1>2, StartTyped, RecordingFailedTyped, StopTyped, CollectWatermarkTyped, EventTyped,
     OptionalEventsTyped, OptionalEventRefusedTyped, CadenceElapsesTyped, PublicationTyped,
     CollectTyped, FlushOneTyped DEF RecorderStep
<1>3. CASE UNCHANGED vars
  BY <1>3 DEF vars, recorderVars, sharedVars, writerVars, historyVars, TypeInv, DiagnosticsTypes,
              DiagnosticsTypeOK, total_dropped
<1> QED BY <1>1, <1>2, <1>3 DEF Next

-----------------------------------------------------------------------------
(* The writer and the loop never wait for each other in vain.              *)

MailboxInv == EndedIsStopping /\ WriterNeverStranded

LEMMA MailboxInitially == Init => MailboxInv
BY DEF Init, MailboxInv, EndedIsStopping, WriterNeverStranded, NothingStranded, StopWakesWriter

LEMMA MailboxPreserved == TypeInv /\ MailboxInv /\ [Next]_vars => MailboxInv'
<1> SUFFICES ASSUME TypeInv, MailboxInv, [Next]_vars
             PROVE  MailboxInv'
  OBVIOUS
<1> USE DEF MailboxInv, EndedIsStopping, WriterNeverStranded, NothingStranded, StopWakesWriter
<1>1. CASE UNCHANGED <<messages, stopping, pc>>
  BY <1>1
<1>2. CASE WriterStep
  <2> USE DEF WriterFrame
  <2>1. CASE writer_open \/ writer_gate \/ writer_append \/ writer_verify
    BY <2>1 DEF writer_open, writer_gate, writer_append, writer_verify
  <2>2. CASE writer_top
    BY <2>2 DEF writer_top
  <2>3. CASE writer_get
    BY <2>3 DEF writer_get
  <2>4. CASE writer_exit \/ writer_dead
    BY <2>4 DEF writer_exit, writer_dead
  <2>5. CASE writer_drain
    BY <2>5 DEF writer_drain
  <2> QED BY <1>2, <2>1, <2>2, <2>3, <2>4, <2>5 DEF WriterStep
<1>3. CASE start
  BY <1>3 DEF start, sharedVars
<1>4. CASE stop
  <2>1. pc' = pc /\ ((messages' = <<NONE>> /\ stopping' = TRUE) \/ UNCHANGED <<messages, stopping>>)
    BY <1>4 DEF stop, AfterStop, writerVars
  <2> QED BY <2>1
<1>5. CASE \E permit \in BOOLEAN : flush_one(permit)
  <2>1. pc' = pc /\ stopping' = stopping
    BY <1>5 DEF flush_one, writerVars
  <2>2. CASE messages' = messages
    BY <2>1, <2>2
  <2>3. CASE Offered /\ messages' = <<Head(queue)>>
    <3>1. pc \notin {"ended", "dead"}
      BY <2>3 DEF Offered
    <3>2. messages' # <<>>
      BY <2>3
    <3> QED BY <2>1, <3>1, <3>2
  <2> QED BY <1>5, <2>2, <2>3 DEF flush_one
<1>6. CASE recording_failed \/ collect_watermark \/ \E kind \in {"proof", "storage"} : event(kind)
  BY <1>1, <1>6 DEF recording_failed, collect_watermark, event, sharedVars, writerVars
<1>7. CASE \/ \E k \in Keys, s \in Scopes : optional_events(k, s)
           \/ \E k \in Keys : optional_event_refused(k) \/ CadenceElapses(k)
  BY <1>1, <1>7 DEF optional_events, optional_event_refused, CadenceElapses, sharedVars, writerVars
<1>8. CASE \/ \E n \in 1..EventCap, bad \in 0..1 : publication(n, bad)
           \/ \E gap \in Gaps, fits \in BOOLEAN : collect(gap, fits)
  BY <1>1, <1>8 DEF publication, collect, sharedVars, writerVars
<1>9. CASE UNCHANGED vars
  BY <1>1, <1>9 DEF vars, sharedVars, writerVars
<1> QED BY <1>2, <1>3, <1>4, <1>5, <1>6, <1>7, <1>8, <1>9 DEF Next, RecorderStep

\* The writer thread and the event loop never strand each other: an ended writer has an empty
\* mailbox, and a stop request always finds its way to a waiting writer, whichever of the two
\* threads moves first (DiagnosticsWriter._run against offer and request_stop).
THEOREM WriterNeverStrandedAlways == Spec => []WriterNeverStranded
<1>1. Init => TypeInv /\ MailboxInv
  BY InitTyped, MailboxInitially
<1>2. TypeInv /\ MailboxInv /\ [Next]_vars => TypeInv' /\ MailboxInv'
  BY NextTyped, MailboxPreserved
<1>3. MailboxInv => WriterNeverStranded
  BY DEF MailboxInv
<1> QED BY <1>1, <1>2, <1>3, PTL DEF Spec

-----------------------------------------------------------------------------
(* Intervals keep their order.                                             *)

LEMMA SeqOfInterval == \A x \in Interval : x.seq \in Nat /\ x.events \in Seq(Event)
BY DEF Interval

\* Steps that take intervals out of the queue, the mailbox or the writer's hands, or none.
LEMMA OrderReduced ==
    ASSUME IntervalsInOrder, sequence' = sequence, UNCHANGED <<stored, unknown, saved>>,
           queue' = queue \/ queue' = <<>>,
           messages' = messages \/ messages' = <<>> \/ messages' = <<NONE>>,
           raw' = raw \/ raw' = NONE,
           raw' = raw /\ pc = "verify" => pc' = "verify"
    PROVE  IntervalsInOrder'
<1>1. \A r : Fresh(r)' <=> Fresh(r)
  BY DEF Fresh
<1>2. StoreInOrder'
  BY DEF IntervalsInOrder, StoreInOrder
<1>3. QueueInOrder' /\ (queue' = <<>> => DOMAIN queue' = {})
  <2>1. CASE queue' = <<>>
    <3>1. DOMAIN queue' = {}
      BY <2>1
    <3> QED BY <3>1 DEF QueueInOrder
  <2>2. CASE queue' = queue
    BY <1>1, <2>2 DEF IntervalsInOrder, QueueInOrder
  <2> QED BY <2>1, <2>2
<1>4. Posted' => messages' = messages /\ Posted
  BY DEF Posted
<1>5. MailInOrder'
  BY <1>1, <1>3, <1>4 DEF IntervalsInOrder, MailInOrder
<1>6. HandInOrder'
  <2> SUFFICES ASSUME raw' # NONE
               PROVE  HandInOrder'
    BY DEF HandInOrder
  <2>1. raw' = raw /\ raw # NONE
    OBVIOUS
  <2>2. CommittedInHand => CommittedInHand'
    BY <2>1 DEF CommittedInHand
  <2> QED BY <1>1, <1>3, <1>4, <2>1, <2>2 DEF IntervalsInOrder, HandInOrder
<1> QED BY <1>2, <1>3, <1>5, <1>6 DEF IntervalsInOrder

\* The interval in hand becomes the last one stored.
LEMMA OrderCommitted ==
    ASSUME TypeInv, IntervalsInOrder, raw \in Interval, Fresh(raw), Commit,
           UNCHANGED <<sequence, queue, messages, unknown>>
    PROVE  /\ StoreInOrder' /\ QueueInOrder' /\ MailInOrder'
           /\ \E x \in stored' : x.seq = raw.seq /\ x.events = raw.events
<1> DEFINE n == raw.seq
<1>1. /\ n \in Nat /\ saved \in Nat /\ sequence \in Nat /\ stored \in SUBSET Interval
      /\ unknown \in SUBSET Interval /\ IsFiniteSet(stored)
  BY SeqOfInterval DEF TypeInv, DiagnosticsTypes
<1>2. saved <= n /\ (\A x \in stored \cup unknown : x.seq < n)
  BY DEF Fresh
<1>3. PICK x \in Interval : x.seq = n /\ x.events = raw.events /\ stored' = stored \cup {x}
                            /\ saved' = n + 1
  <2>1. ~ (n < saved)
    BY <1>1, <1>2
  <2> QED BY <1>1, <2>1, CommitTyped
<1>4. raw # NONE /\ n < sequence
  BY DiagnosticsBounds DEF IntervalsInOrder, HandInOrder
<1>5. \A y \in stored' : y.seq \in Nat /\ y.seq <= n
  <2> SUFFICES ASSUME NEW y \in stored'
               PROVE  y.seq \in Nat /\ y.seq <= n
    OBVIOUS
  <2>1. CASE y = x
    BY <1>1, <1>3, <2>1
  <2>2. CASE y \in stored
    <3>1. y.seq \in Nat /\ y.seq < n
      BY <1>1, <1>2, <2>2, SeqOfInterval
    <3> QED BY <1>1, <3>1
  <2> QED BY <1>3, <2>1, <2>2
<1>6. \A r \in Interval : Fresh(r) /\ n < r.seq => Fresh(r)'
  <2> SUFFICES ASSUME NEW r \in Interval, Fresh(r), n < r.seq
               PROVE  Fresh(r)'
    OBVIOUS
  <2>1. r.seq \in Nat
    BY SeqOfInterval
  <2>2. \A y \in stored' : y.seq < r.seq
    BY <1>1, <1>5, <2>1
  <2>3. saved' <= r.seq
    BY <1>1, <1>3, <2>1
  <2> QED BY <2>2, <2>3 DEF Fresh
<1>7. StoreInOrder'
  <2>1. \A y \in stored' : y.seq < saved' /\ y.seq < sequence'
    BY <1>1, <1>3, <1>4, <1>5
  <2>2. saved' <= sequence' /\ saved' - 1 = n
    BY <1>1, <1>3, <1>4
  <2>3. x \in stored' /\ x.seq = saved' - 1
    BY <1>3, <2>2
  <2>4. \A y \in unknown' : y.seq < sequence'
    BY DEF IntervalsInOrder, StoreInOrder
  <2> QED BY <2>1, <2>2, <2>3, <2>4 DEF StoreInOrder
<1>8. QueueInOrder'
  <2>1. \A i \in DOMAIN queue : queue[i] \in Interval /\ Fresh(queue[i]) /\ n < queue[i].seq
    BY <1>4 DEF IntervalsInOrder, HandInOrder, QueueInOrder, TypeInv, DiagnosticsTypes
  <2>2. \A i \in DOMAIN queue : Fresh(queue[i])'
    BY <1>6, <2>1
  <2> QED BY <2>2 DEF IntervalsInOrder, QueueInOrder
<1>9. MailInOrder'
  <2> SUFFICES ASSUME Posted'
               PROVE  MailInOrder'
    BY DEF MailInOrder
  <2>1. Posted
    BY DEF Posted
  <2>2. messages[1] \in Interval
    BY <2>1, PostedInterval DEF TypeInv, DiagnosticsTypes, DiagnosticsTypeOK
  <2>3. Fresh(messages[1]) /\ n < messages[1].seq
    BY <1>4, <2>1 DEF IntervalsInOrder, HandInOrder, MailInOrder
  <2>4. Fresh(messages[1])'
    BY <1>6, <2>2, <2>3
  <2> QED BY <2>1, <2>4 DEF IntervalsInOrder, MailInOrder
<1> QED BY <1>3, <1>7, <1>8, <1>9

LEMMA OrderWriter == TypeInv /\ IntervalsInOrder /\ WriterStep => IntervalsInOrder'
<1> SUFFICES ASSUME TypeInv, IntervalsInOrder, WriterStep
             PROVE  IntervalsInOrder'
  OBVIOUS
<1> USE DEF WriterFrame, recorderVars, historyVars
<1>1. CASE writer_open \/ writer_top \/ writer_gate \/ writer_dead
  BY <1>1, OrderReduced DEF writer_open, writer_top, writer_gate, writer_dead
<1>2. CASE writer_get
  <2>1. CASE messages[1] = NONE
    BY <1>2, <2>1, OrderReduced DEF writer_get
  <2>2. CASE messages[1] # NONE
    <3>1. Posted /\ raw' = messages[1] /\ ~Posted'
      BY <1>2, <2>2 DEF writer_get, Posted
    <3>2. \A r : Fresh(r)' <=> Fresh(r)
      BY <1>2 DEF writer_get, Fresh
    <3>3. MailInOrder' /\ StoreInOrder'
      BY <1>2, <3>1 DEF writer_get, MailInOrder, IntervalsInOrder, StoreInOrder
    <3>4. queue' = queue /\ sequence' = sequence
      BY <1>2 DEF writer_get
    <3>5. QueueInOrder'
      BY <3>2, <3>4 DEF IntervalsInOrder, QueueInOrder
    <3>6. HandInOrder'
      BY <3>1, <3>2, <3>4 DEF IntervalsInOrder, HandInOrder, MailInOrder
    <3> QED BY <3>3, <3>5, <3>6 DEF IntervalsInOrder
  <2> QED BY <2>1, <2>2
<1>3. CASE writer_append
  <2>1. raw \in Interval /\ raw # NONE /\ pc = "append"
    BY <1>3 DEF writer_append, TypeInv, DiagnosticsTypes, DiagnosticsTypeOK
  <2>2. Fresh(raw)
    BY <2>1 DEF IntervalsInOrder, HandInOrder, CommittedInHand
  <2>3. CASE Commit
    <3>1. UNCHANGED <<sequence, queue, messages, unknown>>
      BY <1>3 DEF writer_append
    <3>2. /\ StoreInOrder' /\ QueueInOrder' /\ MailInOrder'
          /\ \E x \in stored' : x.seq = raw.seq /\ x.events = raw.events
      BY <2>1, <2>2, <2>3, <3>1, OrderCommitted
    <3>3. raw' = NONE \/ (raw' = raw /\ pc' = "verify")
      BY <1>3 DEF writer_append
    <3>4. HandInOrder'
      <4>1. CASE raw' = NONE
        BY <4>1 DEF HandInOrder
      <4>2. CASE raw' = raw /\ pc' = "verify"
        <5>1. CommittedInHand'
          BY <3>2, <4>2 DEF CommittedInHand
        <5>2. Posted' => Posted
          BY <3>1 DEF Posted
        <5> QED BY <2>1, <3>1, <4>2, <5>1, <5>2 DEF IntervalsInOrder, HandInOrder
      <4> QED BY <3>3, <4>1, <4>2
    <3> QED BY <3>2, <3>4 DEF IntervalsInOrder
  <2>4. CASE UNCHANGED <<stored, saved>>
    BY <1>3, <2>1, <2>4, OrderReduced DEF writer_append
  <2> QED BY <1>3, <2>3, <2>4 DEF writer_append
<1>4. CASE writer_verify
  <2>1. CASE unknown' = unknown
    <3>1. raw # NONE
      BY <1>4 DEF writer_verify, TypeInv, DiagnosticsTypeOK
    <3> QED BY <1>4, <2>1, <3>1, OrderReduced DEF writer_verify
  <2>2. CASE unknown' = unknown \cup {raw}
    <3>1. /\ raw' = NONE /\ raw # NONE
          /\ UNCHANGED <<sequence, queue, messages, stored, saved>>
      BY <1>4, <2>2 DEF writer_verify, TypeInv, DiagnosticsTypeOK
    <3>2. \A r : Fresh(r) /\ raw.seq < r.seq => Fresh(r)'
      BY <2>2, <3>1 DEF Fresh
    <3>3. StoreInOrder'
      BY <2>2, <3>1 DEF IntervalsInOrder, StoreInOrder, HandInOrder
    <3>4. QueueInOrder'
      BY <3>1, <3>2 DEF IntervalsInOrder, QueueInOrder, HandInOrder
    <3>5. MailInOrder'
      BY <3>1, <3>2 DEF IntervalsInOrder, MailInOrder, HandInOrder, Posted
    <3>6. HandInOrder'
      BY <3>1 DEF HandInOrder
    <3> QED BY <3>3, <3>4, <3>5, <3>6 DEF IntervalsInOrder
  <2>3. unknown' = unknown \/ unknown' = unknown \cup {raw}
    BY <1>4 DEF writer_verify
  <2> QED BY <2>1, <2>2, <2>3
<1>5. CASE writer_exit
  BY <1>5, OrderReduced DEF writer_exit
<1>6. CASE writer_drain
  BY <1>6, OrderReduced DEF writer_drain
<1> QED BY <1>1, <1>2, <1>3, <1>4, <1>5, <1>6 DEF WriterStep

\* What a full queue keeps stays in order.
LEMMA OrderWithout ==
    \A v \in DOMAIN queue :
        TypeInv /\ QueueInOrder =>
            LET kept == RemoveAt(queue, v)
            IN  /\ kept \in Seq(Interval)
                /\ \A i \in DOMAIN kept : \E j \in DOMAIN queue : kept[i] = queue[j]
                /\ \A i, j \in DOMAIN kept : i < j => kept[i].seq < kept[j].seq
<1> SUFFICES ASSUME NEW v \in DOMAIN queue, TypeInv, QueueInOrder
             PROVE  LET kept == RemoveAt(queue, v)
                    IN  /\ kept \in Seq(Interval)
                        /\ \A i \in DOMAIN kept : \E j \in DOMAIN queue : kept[i] = queue[j]
                        /\ \A i, j \in DOMAIN kept : i < j => kept[i].seq < kept[j].seq
  OBVIOUS
<1> DEFINE kept == RemoveAt(queue, v)
           from(i) == IF i < v THEN i ELSE i + 1
           n == Len(queue)
<1>1. queue \in Seq(Interval) /\ n \in Nat /\ DOMAIN queue = 1..n /\ v \in 1..n
  BY DEF TypeInv, DiagnosticsTypes
<1>2. /\ kept \in Seq(Interval) /\ Len(kept) = n - 1
      /\ \A i \in 1..(n - 1) : kept[i] = queue[from(i)]
  BY <1>1, RemoveAtProperties
<1> HIDE DEF kept, n
<1>3. DOMAIN kept = 1..(n - 1)
  BY <1>1, <1>2
<1>4. \A i \in 1..(n - 1) : from(i) \in 1..n
  BY <1>1
<1>5. \A i, j \in 1..(n - 1) : i < j => from(i) < from(j)
  BY <1>1
<1>6. \A i, j \in 1..n : i < j => queue[i].seq < queue[j].seq
  BY <1>1 DEF QueueInOrder
<1> HIDE DEF from
<1>7. \A i \in DOMAIN kept : \E j \in DOMAIN queue : kept[i] = queue[j]
  BY <1>1, <1>2, <1>3, <1>4
<1>8. \A i, j \in DOMAIN kept : i < j => kept[i].seq < kept[j].seq
  BY <1>2, <1>3, <1>4, <1>5, <1>6
<1> QED BY <1>2, <1>7, <1>8 DEF kept

\* A collected interval is the newest of all.
LEMMA OrderAppended ==
    ASSUME TypeInv, IntervalsInOrder, NEW kept \in Seq(Interval), NEW r \in Interval,
           \A i \in DOMAIN kept : \E j \in DOMAIN queue : kept[i] = queue[j],
           \A i, j \in DOMAIN kept : i < j => kept[i].seq < kept[j].seq,
           r.seq = sequence, sequence' = sequence + 1, queue' = Append(kept, r),
           UNCHANGED <<messages, raw, pc, stored, unknown, saved>>
    PROVE  IntervalsInOrder'
<1> DEFINE n == Len(kept)
<1>1. /\ sequence \in Nat /\ saved \in Nat /\ n \in Nat /\ DOMAIN kept = 1..n
      /\ stored \in SUBSET Interval /\ unknown \in SUBSET Interval
  BY DEF TypeInv, DiagnosticsTypes
<1>2. \A x \in Interval : x.seq \in Nat
  BY SeqOfInterval
<1>3. DOMAIN queue' = 1..(n + 1) /\ queue'[n + 1] = r /\ \A i \in 1..n : queue'[i] = kept[i]
  BY <1>1
<1> HIDE DEF n
<1>4. \A r1 : Fresh(r1)' <=> Fresh(r1)
  BY DEF Fresh
<1>5. Fresh(r)
  BY <1>1 DEF Fresh, IntervalsInOrder, StoreInOrder
<1>6. StoreInOrder'
  <2>1. \A x \in stored \cup unknown : x.seq < sequence + 1
    BY <1>1, <1>2 DEF IntervalsInOrder, StoreInOrder
  <2>2. saved <= sequence + 1
    BY <1>1 DEF IntervalsInOrder, StoreInOrder
  <2> QED BY <2>1, <2>2 DEF IntervalsInOrder, StoreInOrder
<1>7. \A i \in 1..n : Fresh(kept[i]) /\ kept[i].seq \in Nat /\ kept[i].seq < sequence
  <2> SUFFICES ASSUME NEW i \in 1..n
               PROVE  Fresh(kept[i]) /\ kept[i].seq \in Nat /\ kept[i].seq < sequence
    OBVIOUS
  <2>1. PICK j \in DOMAIN queue : kept[i] = queue[j]
    BY <1>1
  <2>2. kept[i] \in Interval
    BY <1>1
  <2> QED BY <1>2, <2>1, <2>2 DEF IntervalsInOrder, QueueInOrder
<1>8. \A i \in 1..(n + 1) : queue'[i].seq \in Nat /\ queue'[i].seq < sequence + 1 /\ Fresh(queue'[i])
  <2> SUFFICES ASSUME NEW i \in 1..(n + 1)
               PROVE  queue'[i].seq \in Nat /\ queue'[i].seq < sequence + 1 /\ Fresh(queue'[i])
    OBVIOUS
  <2>1. CASE i = n + 1
    BY <1>1, <1>3, <1>5, <2>1
  <2>2. CASE i \in 1..n
    BY <1>1, <1>3, <1>7, <2>2
  <2> QED BY <1>1, <2>1, <2>2
<1>9. \A i, j \in 1..(n + 1) : i < j => queue'[i].seq < queue'[j].seq
  <2> SUFFICES ASSUME NEW i \in 1..(n + 1), NEW j \in 1..(n + 1), i < j
               PROVE  queue'[i].seq < queue'[j].seq
    OBVIOUS
  <2>1. i \in 1..n
    BY <1>1
  <2>2. CASE j = n + 1
    BY <1>3, <1>7, <2>1, <2>2
  <2>3. CASE j \in 1..n
    BY <1>1, <1>3, <2>1, <2>3
  <2> QED BY <1>1, <2>2, <2>3
<1>10. QueueInOrder'
  <2>1. (\A i \in DOMAIN queue : Fresh(queue[i]))'
    BY <1>3, <1>8 DEF Fresh
  <2>2. \A i \in DOMAIN queue' : queue'[i].seq < sequence'
    BY <1>3, <1>8
  <2> QED BY <1>3, <1>9, <2>1, <2>2 DEF QueueInOrder
<1>11. \A m \in Nat : m < sequence /\ (\A i \in DOMAIN queue : m < queue[i].seq)
                      => m < sequence' /\ \A i \in DOMAIN queue' : m < queue'[i].seq
  <2> SUFFICES ASSUME NEW m \in Nat, m < sequence, \A i \in DOMAIN queue : m < queue[i].seq,
                      NEW i \in 1..(n + 1)
               PROVE  m < sequence' /\ m < queue'[i].seq
    BY <1>1, <1>3
  <2>1. m < sequence'
    BY <1>1
  <2>2. CASE i = n + 1
    <3>1. queue'[i] = r
      BY <1>3, <2>2
    <3> QED BY <2>1, <3>1
  <2>3. CASE i \in 1..n
    <3>1. PICK j \in DOMAIN queue : kept[i] = queue[j]
      BY <1>1, <2>3
    <3>2. queue'[i] = kept[i]
      BY <1>3, <2>3
    <3> QED BY <2>1, <3>1, <3>2
  <2> QED BY <1>1, <2>1, <2>2, <2>3
<1>12. Posted' <=> Posted
  BY DEF Posted
<1>13. MailInOrder'
  <2> SUFFICES ASSUME Posted
               PROVE  MailInOrder'
    BY <1>12 DEF MailInOrder
  <2>1. messages[1].seq \in Nat
    BY <1>2, PostedInterval DEF TypeInv, DiagnosticsTypes, DiagnosticsTypeOK
  <2>2. /\ Fresh(messages[1]) /\ messages[1].seq < sequence
        /\ \A i \in DOMAIN queue : messages[1].seq < queue[i].seq
    BY DEF IntervalsInOrder, MailInOrder
  <2>3. messages'[1] = messages[1] /\ Fresh(messages[1])'
    BY <1>4, <2>2
  <2>4. messages[1].seq < sequence' /\ \A i \in DOMAIN queue' : messages[1].seq < queue'[i].seq
    BY <1>11, <2>1, <2>2
  <2> QED BY <2>3, <2>4 DEF MailInOrder
<1>14. HandInOrder'
  <2> SUFFICES ASSUME raw # NONE
               PROVE  HandInOrder'
    BY DEF HandInOrder
  <2>1. raw.seq \in Nat
    BY <1>2 DEF TypeInv, DiagnosticsTypes
  <2>2. raw.seq < sequence /\ \A i \in DOMAIN queue : raw.seq < queue[i].seq
    BY DEF IntervalsInOrder, HandInOrder
  <2>3. raw.seq < sequence' /\ \A i \in DOMAIN queue' : raw.seq < queue'[i].seq
    BY <1>11, <2>1, <2>2
  <2>4. CommittedInHand' <=> CommittedInHand
    BY DEF CommittedInHand
  <2>5. Fresh(raw)' <=> Fresh(raw)
    BY DEF Fresh
  <2> QED BY <1>12, <2>3, <2>4, <2>5 DEF IntervalsInOrder, HandInOrder
<1> QED BY <1>6, <1>10, <1>13, <1>14 DEF IntervalsInOrder

LEMMA OrderCollect ==
    TypeInv /\ IntervalsInOrder /\ (\E gap \in Gaps, fits \in BOOLEAN : collect(gap, fits))
    => IntervalsInOrder'
<1> SUFFICES ASSUME TypeInv, IntervalsInOrder, NEW gap \in Gaps, NEW fits \in BOOLEAN,
                    collect(gap, fits)
             PROVE  IntervalsInOrder'
  OBVIOUS
<1> DEFINE r == NewInterval(gap)
<1>1. /\ sequence' = sequence + 1
      /\ UNCHANGED <<messages, raw, pc, stored, unknown, saved>>
      /\ fits = FALSE => queue' = queue
  BY DEF collect, sharedVars, writerVars
<1>2. r \in Interval /\ r.seq = sequence
  BY NewIntervalTyped DEF NewInterval
<1>3. queue \in Seq(Interval)
  BY DEF TypeInv, DiagnosticsTypes
<1> HIDE DEF r
<1>4. CASE queue' = queue
  <2>1. sequence \in Nat /\ saved \in Nat /\ \A x \in Interval : x.seq \in Nat
    BY SeqOfInterval DEF TypeInv, DiagnosticsTypes
  <2>2. \A r1 : Fresh(r1)' <=> Fresh(r1)
    BY <1>1 DEF Fresh
  <2>3. \A x \in Interval : x.seq < sequence => x.seq < sequence + 1
    BY <2>1
  <2>4. StoreInOrder'
    <3>1. stored \cup unknown \in SUBSET Interval
      BY DEF TypeInv, DiagnosticsTypes
    <3>2. saved <= sequence + 1
      BY <2>1 DEF IntervalsInOrder, StoreInOrder
    <3> QED BY <1>1, <2>3, <3>1, <3>2 DEF IntervalsInOrder, StoreInOrder
  <2>5. QueueInOrder'
    <3>1. \A i \in DOMAIN queue : queue[i] \in Interval
      BY <1>3
    <3> QED BY <1>1, <1>4, <2>2, <2>3, <3>1 DEF IntervalsInOrder, QueueInOrder
  <2>6. Posted' <=> Posted
    BY <1>1 DEF Posted
  <2>7. MailInOrder'
    <3>1. Posted => messages[1] \in Interval
      BY PostedInterval DEF TypeInv, DiagnosticsTypes, DiagnosticsTypeOK
    <3> QED BY <1>1, <1>4, <2>2, <2>3, <2>6, <3>1 DEF IntervalsInOrder, MailInOrder
  <2>8. HandInOrder'
    <3>1. raw # NONE => raw \in Interval
      BY DEF TypeInv, DiagnosticsTypes
    <3>2. CommittedInHand' <=> CommittedInHand
      BY <1>1 DEF CommittedInHand
    <3>3. Fresh(raw)' <=> Fresh(raw)
      BY <1>1 DEF Fresh
    <3> QED BY <1>1, <1>4, <2>3, <2>6, <3>1, <3>2, <3>3 DEF IntervalsInOrder, HandInOrder
  <2> QED BY <2>4, <2>5, <2>7, <2>8 DEF IntervalsInOrder
<1>5. CASE queue' = Append(queue, r)
  <2>1. /\ \A i \in DOMAIN queue : \E j \in DOMAIN queue : queue[i] = queue[j]
        /\ \A i, j \in DOMAIN queue : i < j => queue[i].seq < queue[j].seq
    BY DEF IntervalsInOrder, QueueInOrder
  <2> QED BY <1>1, <1>2, <1>3, <1>5, <2>1, OrderAppended
<1>6. CASE \E v \in DOMAIN queue : queue' = Append(RemoveAt(queue, v), r)
  <2>1. PICK v \in DOMAIN queue : queue' = Append(RemoveAt(queue, v), r)
    BY <1>6
  <2> DEFINE kept == RemoveAt(queue, v)
  <2>2. /\ kept \in Seq(Interval)
        /\ \A i \in DOMAIN kept : \E j \in DOMAIN queue : kept[i] = queue[j]
        /\ \A i, j \in DOMAIN kept : i < j => kept[i].seq < kept[j].seq
    BY OrderWithout DEF IntervalsInOrder
  <2>3. queue' = Append(kept, r)
    BY <2>1
  <2> HIDE DEF kept
  <2> QED BY <1>1, <1>2, <2>2, <2>3, OrderAppended
<1>7. CASE fits = TRUE
  <2>1. collect(gap, TRUE)
    BY <1>7
  <2> QED BY <1>4, <1>5, <1>6, <2>1, CollectQueue DEF r
<1> QED BY <1>1, <1>4, <1>7

\* The oldest interval of the queue moves to the mailbox.
LEMMA OrderFlush ==
    TypeInv /\ IntervalsInOrder /\ (\E permit \in BOOLEAN : flush_one(permit))
    => IntervalsInOrder'
<1> SUFFICES ASSUME TypeInv, IntervalsInOrder, NEW permit \in BOOLEAN, flush_one(permit)
             PROVE  IntervalsInOrder'
  OBVIOUS
<1>1. UNCHANGED <<sequence, raw, pc, stored, unknown, saved>>
  BY DEF flush_one, writerVars, historyVars
<1>2. CASE UNCHANGED <<messages, queue>>
  BY <1>1, <1>2, OrderReduced
<1>3. CASE queue # <<>> /\ messages = <<>> /\ messages' = <<Head(queue)>> /\ queue' = Tail(queue)
  <2> DEFINE n == Len(queue)
  <2>1. queue \in Seq(Interval) /\ n \in Nat \ {0} /\ DOMAIN queue = 1..n
    <3>1. queue \in Seq(Interval)
      BY DEF TypeInv, DiagnosticsTypes
    <3> QED BY <1>3, <3>1, EmptySeq
  <2>2. /\ Head(queue) = queue[1] /\ DOMAIN Tail(queue) = 1..(n - 1)
        /\ \A i \in 1..(n - 1) : Tail(queue)[i] = queue[i + 1] /\ i + 1 \in 1..n /\ 1 < i + 1
    BY <1>3, <2>1
  <2> HIDE DEF n
  <2>3. messages'[1] = queue[1] /\ 1 \in DOMAIN queue
    BY <1>3, <2>1, <2>2
  <2>4. \A r : Fresh(r)' <=> Fresh(r)
    BY <1>1 DEF Fresh
  <2>5. \A i \in DOMAIN queue' : \E j \in DOMAIN queue : queue'[i] = queue[j] /\ 1 < j /\ j = i + 1
    BY <1>3, <2>1, <2>2
  <2>6. StoreInOrder'
    BY <1>1 DEF IntervalsInOrder, StoreInOrder
  <2>7. QueueInOrder'
    <3>1. \A i \in DOMAIN queue' : Fresh(queue'[i]) /\ queue'[i].seq < sequence
      BY <2>5 DEF IntervalsInOrder, QueueInOrder
    <3>2. (\A i \in DOMAIN queue : Fresh(queue[i]))'
      BY <1>1, <3>1 DEF Fresh
    <3>3. \A i, j \in 1..(n - 1) : i < j => i + 1 < j + 1
      BY <2>1
    <3>4. \A i, j \in DOMAIN queue' : i < j => queue'[i].seq < queue'[j].seq
      BY <1>3, <2>1, <2>2, <3>3 DEF IntervalsInOrder, QueueInOrder
    <3> QED BY <1>1, <3>1, <3>2, <3>4 DEF QueueInOrder
  <2>8. MailInOrder'
    <3>1. Fresh(queue[1]) /\ queue[1].seq < sequence
      BY <2>3 DEF IntervalsInOrder, QueueInOrder
    <3>2. \A i \in DOMAIN queue' : queue[1].seq < queue'[i].seq
      BY <2>3, <2>5 DEF IntervalsInOrder, QueueInOrder
    <3>3. Fresh(messages[1])'
      BY <1>1, <2>3, <3>1 DEF Fresh
    <3> QED BY <1>1, <2>3, <3>1, <3>2, <3>3 DEF MailInOrder
  <2>9. HandInOrder'
    <3> SUFFICES ASSUME raw # NONE
                 PROVE  HandInOrder'
      BY <1>1 DEF HandInOrder
    <3>1. /\ raw.seq < sequence /\ \A i \in DOMAIN queue : raw.seq < queue[i].seq
          /\ Fresh(raw) \/ CommittedInHand
      BY DEF IntervalsInOrder, HandInOrder
    <3>2. raw.seq < messages'[1].seq /\ \A i \in DOMAIN queue' : raw.seq < queue'[i].seq
      BY <2>3, <2>5, <3>1
    <3>3. (Fresh(raw) \/ CommittedInHand)'
      BY <1>1, <3>1 DEF Fresh, CommittedInHand
    <3> QED BY <1>1, <3>1, <3>2, <3>3 DEF HandInOrder
  <2> QED BY <2>6, <2>7, <2>8, <2>9 DEF IntervalsInOrder
<1> QED BY <1>2, <1>3 DEF flush_one, Offered

LEMMA OrderInitially == Init => IntervalsInOrder
BY DEF Init, IntervalsInOrder, StoreInOrder, QueueInOrder, MailInOrder, HandInOrder, Posted

LEMMA OrderPreserved == TypeInv /\ IntervalsInOrder /\ [Next]_vars => IntervalsInOrder'
<1> SUFFICES ASSUME TypeInv, IntervalsInOrder, [Next]_vars
             PROVE  IntervalsInOrder'
  OBVIOUS
<1>1. CASE WriterStep
  BY <1>1, OrderWriter
<1>2. CASE \E gap \in Gaps, fits \in BOOLEAN : collect(gap, fits)
  BY <1>2, OrderCollect
<1>3. CASE \E permit \in BOOLEAN : flush_one(permit)
  BY <1>3, OrderFlush
<1>4. CASE stop
  <2>1. /\ UNCHANGED <<sequence, stored, unknown, saved, raw, pc>> /\ queue' = <<>>
        /\ messages' = messages \/ messages' = <<NONE>>
    BY <1>4 DEF stop, AfterStop, writerVars, historyVars
  <2> QED BY <2>1, OrderReduced
<1>5. CASE start
  <2>1. pc # "verify" /\ UNCHANGED <<sequence, stored, unknown, saved, raw, queue, messages>>
    BY <1>5 DEF start, sharedVars, historyVars
  <2> QED BY <2>1, OrderReduced
<1>6. CASE UNCHANGED <<sequence, stored, unknown, saved, raw, pc, queue, messages>>
  BY <1>6, OrderReduced
<1>7. CASE recording_failed \/ collect_watermark \/ \E kind \in {"proof", "storage"} : event(kind)
  BY <1>6, <1>7 DEF recording_failed, collect_watermark, event, sharedVars, writerVars, historyVars
<1>8. CASE \/ \E k \in Keys, s \in Scopes : optional_events(k, s)
           \/ \E k \in Keys : optional_event_refused(k) \/ CadenceElapses(k)
  BY <1>6, <1>8 DEF optional_events, optional_event_refused, CadenceElapses, sharedVars, writerVars,
                    historyVars
<1>9. CASE \E n \in 1..EventCap, bad \in 0..1 : publication(n, bad)
  BY <1>6, <1>9 DEF publication, sharedVars, writerVars, historyVars
<1>10. CASE UNCHANGED vars
  BY <1>6, <1>10 DEF vars, recorderVars, sharedVars, writerVars, historyVars
<1> QED BY <1>1, <1>2, <1>3, <1>4, <1>5, <1>7, <1>8, <1>9, <1>10 DEF Next, RecorderStep

-----------------------------------------------------------------------------
(* No loss goes unsaid.                                                    *)

LossesInv == LossesAdmitted /\ WatermarkBehind

\* Losses counted outside a collection.
LEMMA LossesMore ==
    ASSUME TypeInv, LossesFlagged, WatermarkBehind, flagged' = flagged,
           dropped' \in Nat, rejected' \in Nat, uncertain' \in Nat,
           dropped' >= dropped, rejected' >= rejected, uncertain' >= uncertain,
           watermark' = watermark \/ watermark' = [watermark EXCEPT !.since = TRUE],
           dropped' > dropped => watermark' = [watermark EXCEPT !.since = TRUE]
    PROVE  LossesFlagged' /\ WatermarkBehind'
<1> DEFINE total == dropped + rejected
           more == dropped' + rejected'
<1>1. /\ dropped \in Nat /\ rejected \in Nat /\ uncertain \in Nat
      /\ watermark \in [dropped : Nat, uncertain : Nat, since : BOOLEAN]
      /\ flagged \in [dropped : Nat, uncertain : Nat]
  BY DEF TypeInv, DiagnosticsTypes
<1>2. watermark.dropped \in Nat /\ watermark.uncertain \in Nat
  BY <1>1
<1>3. total \in Nat /\ more \in Nat /\ more >= total
  BY <1>1
<1>4. /\ watermark'.dropped = watermark.dropped /\ watermark'.uncertain = watermark.uncertain
      /\ watermark' = watermark \/ watermark'.since = TRUE
  BY <1>1
<1>5. watermark.dropped <= total /\ watermark.uncertain <= uncertain
  BY DEF WatermarkBehind, total_dropped
<1>6. WatermarkBehind'
  <2>1. watermark.dropped <= more /\ watermark.uncertain <= uncertain'
    <3> HIDE DEF more, total
    <3> QED BY <1>1, <1>2, <1>3, <1>5
  <2> QED BY <1>4, <2>1 DEF WatermarkBehind, total_dropped
<1>7. CASE watermark'.since = TRUE
  BY <1>6, <1>7 DEF LossesFlagged
<1>8. CASE watermark' = watermark /\ ~ (watermark'.since = TRUE)
  <2>1. dropped' = dropped
    <3>1. watermark' # [watermark EXCEPT !.since = TRUE]
      BY <1>1, <1>8
    <3> QED BY <1>1, <3>1
  <2>2. CASE rejected' = rejected /\ uncertain' = uncertain
    BY <1>6, <1>8, <2>1, <2>2 DEF LossesFlagged, total_dropped
  <2>3. CASE rejected' > rejected
    <3>1. more > watermark.dropped
      BY <1>1, <1>2, <1>5, <2>1, <2>3
    <3> QED BY <1>4, <1>6, <3>1 DEF LossesFlagged, total_dropped
  <2>4. CASE uncertain' > uncertain
    <3>1. uncertain' > watermark.uncertain
      BY <1>1, <1>2, <1>5, <2>4
    <3> QED BY <1>4, <1>6, <3>1 DEF LossesFlagged
  <2> QED BY <1>1, <2>2, <2>3, <2>4
<1> QED BY <1>4, <1>7, <1>8

\* n losses of the recorder and m rejections.
LEMMA LossesRecorded ==
    ASSUME TypeInv, TypeInv', LossesFlagged, WatermarkBehind, NEW n \in Nat, RecordLosses(n),
           flagged' = flagged, rejected' >= rejected, uncertain' = uncertain
    PROVE  LossesFlagged' /\ WatermarkBehind'
<1>1. /\ dropped \in Nat /\ dropped' \in Nat /\ rejected' \in Nat /\ uncertain' \in Nat
      /\ uncertain \in Nat
  BY DEF TypeInv, DiagnosticsTypes
<1>2. dropped' = dropped + n
  BY DEF RecordLosses
<1>3. /\ watermark' = watermark \/ watermark' = [watermark EXCEPT !.since = TRUE]
      /\ dropped' > dropped => watermark' = [watermark EXCEPT !.since = TRUE]
  BY <1>1, <1>2 DEF RecordLosses
<1>4. dropped' >= dropped /\ uncertain' >= uncertain
  BY <1>1, <1>2
<1> QED BY <1>1, <1>3, <1>4, LossesMore

LEMMA LossesWriter ==
    TypeInv /\ TypeInv' /\ LossesFlagged /\ WatermarkBehind /\ WriterStep
    => LossesFlagged' /\ WatermarkBehind'
<1> SUFFICES ASSUME TypeInv, TypeInv', LossesFlagged, WatermarkBehind, WriterStep
             PROVE  LossesFlagged' /\ WatermarkBehind'
  OBVIOUS
<1>1. /\ dropped' = dropped /\ watermark' = watermark /\ flagged' = flagged
  BY DEF WriterStep, writer_open, writer_top, writer_get, writer_gate, writer_append,
         writer_verify, writer_exit, writer_drain, writer_dead, WriterFrame, recorderVars,
         historyVars
<1>2. /\ rejected' = rejected \/ rejected' = rejected + 1
      /\ uncertain' = uncertain \/ uncertain' = uncertain + 1
  BY DEF WriterStep, writer_open, writer_top, writer_get, writer_gate, writer_append,
         writer_verify, writer_exit, writer_drain, writer_dead, Reject
<1>3. /\ dropped \in Nat /\ rejected \in Nat /\ uncertain \in Nat
      /\ dropped' \in Nat /\ rejected' \in Nat /\ uncertain' \in Nat
  BY DEF TypeInv, DiagnosticsTypes
<1>4. dropped' >= dropped /\ rejected' >= rejected /\ uncertain' >= uncertain /\ ~ (dropped' > dropped)
  BY <1>1, <1>2, <1>3
<1> QED BY <1>1, <1>3, <1>4, LossesMore

\* What one collection does not flag, the next one will.
LEMMA LossesCollect ==
    TypeInv /\ TypeInv' /\ LossesFlagged
        /\ (\E gap \in Gaps, fits \in BOOLEAN : collect(gap, fits))
    => LossesFlagged' /\ WatermarkBehind'
<1> SUFFICES ASSUME TypeInv, TypeInv', LossesFlagged,
                    NEW gap \in Gaps, NEW fits \in BOOLEAN, collect(gap, fits)
             PROVE  LossesFlagged' /\ WatermarkBehind'
  OBVIOUS
<1>1. /\ reading \in Nat /\ reading <= dropped + rejected
      /\ dropped \in Nat /\ rejected \in Nat /\ uncertain \in Nat
      /\ watermark.dropped \in Nat /\ watermark.uncertain \in Nat
      /\ flagged.dropped \in Nat /\ flagged.uncertain \in Nat
  BY DEF collect, TypeInv, DiagnosticsTypes, DiagnosticsTypeOK, total_dropped
<1>2. PICK lost \in 0..1 :
          /\ dropped' = dropped + lost
          /\ watermark' = [dropped |-> reading, uncertain |-> uncertain, since |-> lost > 0]
  BY DEF collect, NextWatermark
<1>3. rejected' = rejected /\ uncertain' = uncertain
  BY DEF collect, sharedVars
<1>4. flagged' = IF RecordingGap(gap) THEN [dropped |-> reading, uncertain |-> uncertain] ELSE flagged
  BY DEF collect
<1>5. WatermarkBehind'
  <2>1. reading <= dropped' + rejected /\ uncertain <= uncertain
    BY <1>1, <1>2
  <2> QED BY <1>2, <1>3, <2>1 DEF WatermarkBehind, total_dropped
<1>6. CASE lost > 0
  <2>1. watermark'.since
    BY <1>2, <1>6
  <2> QED BY <1>5, <2>1 DEF LossesFlagged
<1>7. CASE RecordingGap(gap)
  BY <1>2, <1>3, <1>4, <1>5, <1>7 DEF LossesFlagged, total_dropped
<1>8. CASE ~ (lost > 0) /\ ~RecordingGap(gap)
  <2>1. ~watermark.since /\ reading <= watermark.dropped /\ uncertain <= watermark.uncertain
    BY <1>1, <1>8 DEF RecordingGap
  <2>2. dropped' = dropped
    BY <1>1, <1>2, <1>8
  <2>3. dropped + rejected > flagged.dropped \/ uncertain > flagged.uncertain
        => dropped + rejected > watermark.dropped
    BY <1>1, <2>1 DEF LossesFlagged, total_dropped
  <2>4. dropped + rejected > flagged.dropped \/ uncertain > flagged.uncertain
        => dropped + rejected > reading
    <3> DEFINE total == dropped + rejected
    <3>1. total \in Nat
      BY <1>1
    <3> HIDE DEF total
    <3>2. total > watermark.dropped => total > reading
      BY <1>1, <2>1, <3>1
    <3> QED BY <2>3, <3>2 DEF total
  <2> QED BY <1>2, <1>3, <1>4, <1>5, <1>8, <2>2, <2>4 DEF LossesFlagged, total_dropped
<1> QED BY <1>6, <1>7, <1>8

\* A hole in the boot's sequence is marked by the interval that follows it.
LEMMA HolesFlagged ==
    ASSUME TypeInv, IntervalsInOrder, StoredHolesFlagged, [Next]_vars
    PROVE  StoredHolesFlagged'
<1>1. CASE stored' = stored
  BY <1>1 DEF StoredHolesFlagged
<1>2. CASE writer_append /\ Commit
  <2>1. raw \in Interval /\ raw # NONE /\ pc = "append"
    BY <1>2 DEF writer_append, TypeInv, DiagnosticsTypes, DiagnosticsTypeOK
  <2>2. Fresh(raw)
    BY <2>1 DEF IntervalsInOrder, HandInOrder, CommittedInHand
  <2>3. /\ raw.seq \in Nat /\ saved \in Nat /\ saved <= raw.seq
        /\ saved > 0 => \E y \in stored : y.seq = saved - 1
    BY <2>1, <2>2, SeqOfInterval DEF Fresh, TypeInv, DiagnosticsTypes, IntervalsInOrder, StoreInOrder
  <2>4. PICK x \in Interval : /\ x.seq = raw.seq /\ (raw.seq > saved => x.gap)
                              /\ stored' = stored \cup {x}
    <3>1. ~ (raw.seq < saved)
      BY <2>3
    <3>2. saved \in Nat /\ stored \in SUBSET Interval /\ IsFiniteSet(stored)
      BY DEF TypeInv, DiagnosticsTypes
    <3> QED BY <1>2, <2>1, <3>1, <3>2, CommitTyped
  <2> SUFFICES ASSUME NEW z \in stored', z.seq > 0, \A y \in stored' : y.seq # z.seq - 1
               PROVE  z.gap
    BY DEF StoredHolesFlagged
  <2>5. CASE z \in stored
    BY <2>4, <2>5 DEF StoredHolesFlagged
  <2>6. CASE z = x
    <3>1. raw.seq > 0 /\ \A y \in stored : y.seq # raw.seq - 1
      BY <2>4, <2>6
    <3>2. raw.seq # saved
      BY <2>3, <3>1
    <3>3. raw.seq > saved
      BY <2>3, <3>2
    <3> QED BY <2>4, <2>6, <3>3
  <2> QED BY <2>4, <2>5, <2>6
<1>3. WriterStep => stored' = stored \/ (writer_append /\ Commit)
  BY DEF WriterStep, writer_open, writer_top, writer_get, writer_gate, writer_append,
         writer_verify, writer_exit, writer_drain, writer_dead, historyVars
<1>4. RecorderStep => stored' = stored
  BY DEF RecorderStep, start, recording_failed, stop, collect_watermark, event, optional_events,
         optional_event_refused, CadenceElapses, publication, collect, flush_one, writerVars
<1>5. UNCHANGED vars => stored' = stored
  BY DEF vars, writerVars
<1> QED BY <1>1, <1>2, <1>3, <1>4, <1>5 DEF Next

LEMMA LossesInitially == Init => LossesInv
BY DEF Init, LossesInv, LossesAdmitted, StoredHolesFlagged, LossesFlagged, WatermarkBehind,
       total_dropped

LEMMA LossesPreserved ==
    TypeInv /\ TypeInv' /\ IntervalsInOrder /\ LossesInv /\ [Next]_vars => LossesInv'
<1> SUFFICES ASSUME TypeInv, TypeInv', IntervalsInOrder, LossesInv, [Next]_vars
             PROVE  LossesInv'
  OBVIOUS
<1>1. StoredHolesFlagged'
  BY HolesFlagged DEF LossesInv, LossesAdmitted
<1>2. LossesFlagged /\ WatermarkBehind
  BY DEF LossesInv, LossesAdmitted
<1> SUFFICES LossesFlagged' /\ WatermarkBehind'
  BY <1>1 DEF LossesInv, LossesAdmitted
<1>3. rejected \in Nat /\ rejected >= rejected
  BY DEF TypeInv, DiagnosticsTypes
<1>4. CASE WriterStep
  BY <1>2, <1>4, LossesWriter
<1>5. CASE \E gap \in Gaps, fits \in BOOLEAN : collect(gap, fits)
  BY <1>2, <1>5, LossesCollect
<1>6. CASE stop
  <2>1. /\ RecordLosses(Len(queue) + Len(Pending)) /\ flagged' = flagged /\ uncertain' = uncertain
    BY <1>6 DEF stop, Pending, historyVars
  <2>2. Len(queue) + Len(Pending) \in Nat
    BY <1>6, StopFinds DEF TypeInv, DiagnosticsTypes
  <2>3. rejected' >= rejected
    <3>1. rejected' = rejected \/ rejected' = rejected + 1
      BY <1>6, <1>3 DEF stop
    <3> QED BY <1>3, <3>1
  <2> QED BY <1>2, <2>1, <2>2, <2>3, LossesRecorded
<1>7. CASE UNCHANGED <<dropped, rejected, uncertain, watermark, flagged>>
  BY <1>2, <1>7 DEF LossesFlagged, WatermarkBehind, total_dropped
<1>8. CASE start \/ collect_watermark \/ \E permit \in BOOLEAN : flush_one(permit)
  BY <1>7, <1>8 DEF start, collect_watermark, flush_one, sharedVars, historyVars
<1>9. CASE \/ \E k \in Keys, s \in Scopes : optional_events(k, s)
           \/ \E k \in Keys : CadenceElapses(k)
  BY <1>7, <1>9 DEF optional_events, CadenceElapses, sharedVars, historyVars
<1>10. CASE \E n \in Nat : RecordLosses(n) /\ UNCHANGED <<flagged, rejected, uncertain>>
  BY <1>2, <1>3, <1>10, LossesRecorded
<1>11. CASE recording_failed
  BY <1>10, <1>11 DEF recording_failed, sharedVars, historyVars
<1>12. CASE \E kind \in {"proof", "storage"} : event(kind)
  BY <1>10, <1>12 DEF event, sharedVars, historyVars
<1>13. CASE \E k \in Keys : optional_event_refused(k)
  BY <1>10, <1>13 DEF optional_event_refused, sharedVars, historyVars
<1>14. CASE \E n \in 1..EventCap, bad \in 0..1 : publication(n, bad)
  <2>1. PICK n \in 1..EventCap, bad \in 0..1 : publication(n, bad)
    BY <1>14
  <2> DEFINE lost == Len(Hole(n, bad)) + Len(Surplus(n)) + Len(Displaced(n, bad))
  <2>2. RecordLosses(lost) /\ lost \in Nat
    <3>1. RecordLosses(lost)
      BY <2>1, PublicationLoss
    <3>2. Hole(n, bad) \in Seq(Event) /\ Surplus(n) \in Seq(Event) /\ Displaced(n, bad) \in Seq(Event)
      BY <2>1, PublicationParts, BacklogKept
    <3> QED BY <3>1, <3>2
  <2>3. UNCHANGED <<flagged, rejected, uncertain>>
    BY <2>1 DEF publication, sharedVars, historyVars
  <2> HIDE DEF lost
  <2> QED BY <1>10, <2>2, <2>3
<1>15. CASE UNCHANGED vars
  BY <1>7, <1>15 DEF vars, recorderVars, sharedVars, historyVars
<1> QED BY <1>4, <1>5, <1>6, <1>8, <1>9, <1>11, <1>12, <1>13, <1>14, <1>15 DEF Next, RecorderStep

\* No loss goes unsaid: whatever the recorder or the writer thread lost, the next interval
\* collected says so, although the thread counts its rejections while collect() runs; and a
\* stored interval after a hole in the sequence is marked (diagnostics.py 660-700, append in
\* diagnostics_store.py).
THEOREM LossesAlwaysAdmitted == Spec => []LossesAdmitted
<1>1. Init => TypeInv /\ IntervalsInOrder /\ LossesInv
  BY InitTyped, OrderInitially, LossesInitially
<1>2. TypeInv /\ IntervalsInOrder /\ LossesInv /\ [Next]_vars
      => TypeInv' /\ IntervalsInOrder' /\ LossesInv'
  BY NextTyped, OrderPreserved, LossesPreserved
<1>3. LossesInv => LossesAdmitted
  BY DEF LossesInv
<1> QED BY <1>1, <1>2, <1>3, PTL DEF Spec

-----------------------------------------------------------------------------
(* Every event is accounted for.                                           *)

\* An interval without its mark: what the queue, the mailbox, the writer's hands and the store
\* hold of it is one copy.
Copy == [seq : Nat, events : Seq(Event)]
CopyOf(x) == [seq |-> x.seq, events |-> x.events]

Held == {x \in ToSet(queue) \cup ToSet(messages) \cup {raw} \cup stored \cup unknown : x # NONE}
CopiesOf(H) == {CopyOf(x) : x \in H}
Weight(C) == SumFunctionOnSet([x \in C |-> Len(x.events)], C)

LEMMA Conserved ==
    EventsConserved <=>
        Weight(CopiesOf(Held)) + (Len(events) + Len(FlattenSeq(publications))) + LossTotal(loss) + coalesced
            = submitted
BY DEF EventsConserved, Weight, CopiesOf, CopyOf, Held, LossTotal

LEMMA WeightRemove ==
    \A C \in SUBSET Copy : IsFiniteSet(C) =>
        /\ Weight(C) \in Nat
        /\ \A x \in C : Weight(C) = Weight(C \ {x}) + Len(x.events)
<1> SUFFICES ASSUME NEW C \in SUBSET Copy, IsFiniteSet(C)
             PROVE  /\ Weight(C) \in Nat
                    /\ \A x \in C : Weight(C) = Weight(C \ {x}) + Len(x.events)
  OBVIOUS
<1> DEFINE f == [x \in C |-> Len(x.events)]
<1>1. \A x \in C : f[x] \in Nat /\ f[x] = Len(x.events)
  BY DEF Copy
<1>2. Weight(C) = SumFunctionOnSet(f, C)
  BY DEF Weight
<1> HIDE DEF f
<1>3. Weight(C) \in Nat
  BY <1>1, <1>2, SumType
<1>4. ASSUME NEW x \in C
      PROVE  Weight(C) = Weight(C \ {x}) + Len(x.events)
  <2> DEFINE D == C \ {x}
             g == [y \in D |-> Len(y.events)]
  <2>1. IsFiniteSet(D) /\ D \subseteq C
    BY FS_RemoveElement
  <2>2. Weight(D) = SumFunctionOnSet(g, D)
    BY DEF Weight
  <2>3. \A y \in D : f[y] = g[y]
    BY <1>1
  <2> HIDE DEF D, g
  <2>4. SumFunctionOnSet(f, D) = SumFunctionOnSet(g, D)
    BY <2>1, <2>3, SumAgrees
  <2>5. SumFunctionOnSet(f, C) = f[x] + SumFunctionOnSet(f, D)
    <3>1. \A y \in C : f[y] \in Int
      BY <1>1
    <3> QED BY <3>1, SumRemove DEF D
  <2>6. SumFunctionOnSet(g, D) \in Nat /\ f[x] \in Nat /\ f[x] = Len(x.events)
    <3>1. \A y \in D : g[y] \in Nat
      BY <1>1, <2>3 DEF D
    <3> QED BY <1>1, <2>1, <3>1, SumType
  <2> DEFINE a == SumFunctionOnSet(g, D)
             b == f[x]
  <2>7. Weight(C) = b + a /\ Weight(D) = a /\ a \in Nat /\ b \in Nat /\ b = Len(x.events)
    BY <1>2, <2>2, <2>4, <2>5, <2>6
  <2> HIDE DEF a, b
  <2>8. Weight(C) = Weight(D) + b
    BY <2>7
  <2> QED BY <2>7, <2>8 DEF D
<1> QED BY <1>3, <1>4

LEMMA WeightAdd ==
    \A C \in SUBSET Copy : IsFiniteSet(C) =>
        \A x \in Copy \ C : Weight(C \cup {x}) = Weight(C) + Len(x.events)
<1> SUFFICES ASSUME NEW C \in SUBSET Copy, IsFiniteSet(C), NEW x \in Copy \ C
             PROVE  Weight(C \cup {x}) = Weight(C) + Len(x.events)
  OBVIOUS
<1> DEFINE D == C \cup {x}
<1>1. D \in SUBSET Copy /\ IsFiniteSet(D) /\ x \in D /\ D \ {x} = C
  BY FS_AddElement
<1> HIDE DEF D
<1>2. Weight(D) = Weight(D \ {x}) + Len(x.events)
  BY <1>1, WeightRemove
<1> QED BY <1>1, <1>2 DEF D

\* The intervals that are somewhere.
HeldIsSomewhere ==
    \A x : x \in Held <=> \/ \E i \in DOMAIN queue : x = queue[i]
                          \/ Posted /\ x = messages[1]
                          \/ raw # NONE /\ x = raw
                          \/ x \in stored \cup unknown

LEMMA HeldMembers == TypeInv => HeldIsSomewhere /\ Held \in SUBSET Interval
<1> SUFFICES ASSUME TypeInv
             PROVE  HeldIsSomewhere /\ Held \in SUBSET Interval
  OBVIOUS
<1>1. /\ queue \in Seq(Interval) /\ messages \in Seq(Interval \cup {NONE}) /\ Len(messages) <= 1
      /\ raw \in Interval \cup {NONE} /\ stored \in SUBSET Interval /\ unknown \in SUBSET Interval
  BY DEF TypeInv, DiagnosticsTypes, DiagnosticsTypeOK
<1>2. NONE \notin Interval
  BY DiagnosticsBounds
<1>3. ToSet(queue) = {queue[i] : i \in DOMAIN queue} /\ ToSet(messages) = {messages[i] : i \in DOMAIN messages}
  BY DEF ToSet
<1>4. \A i \in DOMAIN queue : queue[i] \in Interval
  BY <1>1
<1>5. \A x : x # NONE => (x \in ToSet(messages) <=> Posted /\ x = messages[1])
  <2>1. CASE Posted
    <3> DEFINE m == messages[1]
    <3>1. m \in Interval /\ messages = <<m>>
      BY <1>1, <2>1, PostedInterval
    <3>2. ToSet(messages) = {m}
      <4> HIDE DEF m
      <4>1. DOMAIN <<m>> = {1} /\ <<m>>[1] = m
        OBVIOUS
      <4> QED BY <1>3, <3>1, <4>1
    <3> QED BY <2>1, <3>2
  <2>2. CASE messages = <<>>
    <3>1. DOMAIN messages = {}
      BY <2>2
    <3> QED BY <1>3, <2>2, <3>1 DEF Posted
  <2>3. CASE messages = <<NONE>>
    <3>1. DOMAIN messages = {1} /\ messages[1] = NONE
      BY <2>3
    <3> QED BY <1>3, <2>3, <3>1 DEF Posted
  <2> QED BY <2>1, <2>2, <2>3 DEF Posted
<1>6. Posted => messages[1] \in Interval
  BY <1>1, PostedInterval
<1>7. HeldIsSomewhere
  BY <1>1, <1>2, <1>3, <1>4, <1>5, <1>6 DEF Held, HeldIsSomewhere
<1> QED BY <1>1, <1>4, <1>6, <1>7 DEF HeldIsSomewhere

LEMMA HeldMembersAfter == TypeInv' => HeldIsSomewhere' /\ (Held \in SUBSET Interval)'
BY HeldMembers, PTL

LEMMA HeldFinite == TypeInv => IsFiniteSet(Held)
<1> SUFFICES ASSUME TypeInv
             PROVE  IsFiniteSet(Held)
  OBVIOUS
<1> DEFINE all == ToSet(queue) \cup ToSet(messages) \cup {raw} \cup stored \cup unknown
<1>1. /\ queue \in Seq(Interval) /\ messages \in Seq(Interval \cup {NONE})
      /\ IsFiniteSet(stored) /\ IsFiniteSet(unknown)
  BY DEF TypeInv, DiagnosticsTypes
<1>2. \A S : \A s \in Seq(S) : IsFiniteSet(ToSet(s))
  <2> TAKE S
  <2> TAKE s \in Seq(S)
  <2>1. IsFiniteSet(DOMAIN s)
    <3>1. DOMAIN s = 1..Len(s) /\ Len(s) \in Nat /\ 1 \in Int
      OBVIOUS
    <3> QED BY <3>1, FS_Interval
  <2> DEFINE image == {s[i] : i \in DOMAIN s}
  <2>2. IsFiniteSet(image)
    <3> DEFINE D == DOMAIN s
               T == {s[i] : i \in D}
    <3>1. IsFiniteSet(D)
      BY <2>1
    <3>2. s \in Surjection(D, T)
      BY DEF Surjection
    <3> HIDE DEF D, T
    <3>3. IsFiniteSet(T)
      BY <3>1, <3>2, FS_Surjection
    <3> QED BY <3>3 DEF D, T
  <2> QED BY <2>2 DEF ToSet
<1>3. IsFiniteSet(ToSet(queue)) /\ IsFiniteSet(ToSet(messages)) /\ IsFiniteSet({raw})
  BY <1>1, <1>2, FS_Singleton
<1>4. IsFiniteSet(all)
  BY <1>1, <1>3, FS_Union
<1>5. Held \subseteq all
  BY DEF Held
<1> HIDE DEF all
<1> QED BY <1>4, <1>5, FS_Subset

\* Intervals of different number are different copies.
LEMMA CopiesChange ==
    \A H \in SUBSET Interval : IsFiniteSet(H) =>
        /\ CopiesOf(H) \in SUBSET Copy /\ IsFiniteSet(CopiesOf(H)) /\ Weight(CopiesOf(H)) \in Nat
        /\ \A r \in H : (\A x \in H : x # r => x.seq # r.seq) =>
               Weight(CopiesOf(H)) = Weight(CopiesOf(H \ {r})) + Len(r.events)
        /\ \A r \in Interval : (\A x \in H : x.seq # r.seq) =>
               Weight(CopiesOf(H \cup {r})) = Weight(CopiesOf(H)) + Len(r.events)
<1> SUFFICES ASSUME NEW H \in SUBSET Interval, IsFiniteSet(H)
             PROVE  /\ /\ CopiesOf(H) \in SUBSET Copy /\ IsFiniteSet(CopiesOf(H))
                       /\ Weight(CopiesOf(H)) \in Nat
                    /\ \A r \in H : (\A x \in H : x # r => x.seq # r.seq) =>
                           Weight(CopiesOf(H)) = Weight(CopiesOf(H \ {r})) + Len(r.events)
                    /\ \A r \in Interval : (\A x \in H : x.seq # r.seq) =>
                           Weight(CopiesOf(H \cup {r})) = Weight(CopiesOf(H)) + Len(r.events)
  OBVIOUS
<1>1. \A x \in Interval : CopyOf(x) \in Copy /\ CopyOf(x).seq = x.seq /\ CopyOf(x).events = x.events
  BY DEF CopyOf, Copy, Interval
<1>2. CopiesOf(H) \in SUBSET Copy
  BY <1>1 DEF CopiesOf
<1>3. IsFiniteSet(CopiesOf(H))
  <2> DEFINE f == [x \in H |-> CopyOf(x)]
             T == CopiesOf(H)
  <2>1. f \in Surjection(H, T)
    BY DEF Surjection, CopiesOf
  <2> HIDE DEF f, T
  <2>2. IsFiniteSet(T)
    BY <2>1, FS_Surjection
  <2> QED BY <2>2 DEF T
<1>4. ASSUME NEW r \in H, \A x \in H : x # r => x.seq # r.seq
      PROVE  Weight(CopiesOf(H)) = Weight(CopiesOf(H \ {r})) + Len(r.events)
  <2>1. \A x \in H : x # r => CopyOf(x) # CopyOf(r)
    <3> SUFFICES ASSUME NEW x \in H, x # r, CopyOf(x) = CopyOf(r)
                 PROVE  FALSE
      OBVIOUS
    <3>1. CopyOf(x).seq = x.seq /\ CopyOf(r).seq = r.seq
      BY <1>1
    <3> QED BY <1>4, <3>1
  <2>2. CopiesOf(H \ {r}) = CopiesOf(H) \ {CopyOf(r)} /\ CopyOf(r) \in CopiesOf(H)
    BY <2>1 DEF CopiesOf
  <2>3. Weight(CopiesOf(H)) = Weight(CopiesOf(H) \ {CopyOf(r)}) + Len(CopyOf(r).events)
    BY <1>2, <1>3, <2>2, WeightRemove
  <2>4. CopyOf(r).events = r.events
    BY <1>1
  <2> QED BY <2>2, <2>3, <2>4
<1>5. ASSUME NEW r \in Interval, \A x \in H : x.seq # r.seq
      PROVE  Weight(CopiesOf(H \cup {r})) = Weight(CopiesOf(H)) + Len(r.events)
  <2>1. CopyOf(r) \notin CopiesOf(H)
    <3> SUFFICES ASSUME NEW x \in H, CopyOf(x) = CopyOf(r)
                 PROVE  FALSE
      BY DEF CopiesOf
    <3>1. CopyOf(x).seq = x.seq /\ CopyOf(r).seq = r.seq
      BY <1>1
    <3> QED BY <1>5, <3>1
  <2>2. CopiesOf(H \cup {r}) = CopiesOf(H) \cup {CopyOf(r)}
    BY DEF CopiesOf
  <2>3. CopyOf(r) \in Copy \ CopiesOf(H) /\ CopyOf(r).events = r.events
    BY <1>1, <2>1
  <2>4. Weight(CopiesOf(H) \cup {CopyOf(r)}) = Weight(CopiesOf(H)) + Len(CopyOf(r).events)
    BY <1>2, <1>3, <2>3, WeightAdd
  <2> QED BY <2>2, <2>3, <2>4
<1>6. Weight(CopiesOf(H)) \in Nat
  BY <1>2, <1>3, WeightRemove
<1> QED BY <1>2, <1>3, <1>4, <1>5, <1>6

\* Intervals in different places have different numbers.
LEMMA SeqsDistinct ==
    TypeInv /\ IntervalsInOrder =>
        /\ \A x \in Held : x.seq < sequence /\ x.seq \in Nat
        /\ \A i \in DOMAIN queue : \A x \in Held : x # queue[i] => x.seq # queue[i].seq
        /\ Posted => \A x \in Held : x # messages[1] => x.seq # messages[1].seq
        /\ raw # NONE /\ Fresh(raw) => \A x \in Held : x # raw => x.seq # raw.seq
<1> SUFFICES ASSUME TypeInv, IntervalsInOrder
             PROVE  /\ \A x \in Held : x.seq < sequence /\ x.seq \in Nat
                    /\ \A i \in DOMAIN queue : \A x \in Held : x # queue[i] => x.seq # queue[i].seq
                    /\ Posted => \A x \in Held : x # messages[1] => x.seq # messages[1].seq
                    /\ raw # NONE /\ Fresh(raw) => \A x \in Held : x # raw => x.seq # raw.seq
  OBVIOUS
<1>1. HeldIsSomewhere /\ \A x \in Held : x.seq \in Nat
  BY HeldMembers, SeqOfInterval
<1>2. \A x \in stored \cup unknown : x.seq < sequence
  BY DEF IntervalsInOrder, StoreInOrder
<1>3. /\ \A i \in DOMAIN queue : Fresh(queue[i]) /\ queue[i].seq < sequence
      /\ \A i, j \in DOMAIN queue : i < j => queue[i].seq < queue[j].seq
  BY DEF IntervalsInOrder, QueueInOrder
<1>4. Posted => /\ Fresh(messages[1]) /\ messages[1].seq < sequence
                /\ \A i \in DOMAIN queue : messages[1].seq < queue[i].seq
  BY DEF IntervalsInOrder, MailInOrder
<1>5. raw # NONE => /\ raw.seq < sequence
                    /\ \A i \in DOMAIN queue : raw.seq < queue[i].seq
                    /\ Posted => raw.seq < messages[1].seq
  BY DEF IntervalsInOrder, HandInOrder
<1>6. \A r : Fresh(r) => \A x \in stored \cup unknown : x.seq < r.seq
  BY DEF Fresh
<1>7. \A x \in Held : x.seq < sequence
  BY <1>1, <1>2, <1>3, <1>4, <1>5 DEF HeldIsSomewhere
<1>8. \A i \in DOMAIN queue : queue[i] \in Held
  BY <1>1 DEF HeldIsSomewhere
<1>9. Posted => messages[1] \in Held
  BY <1>1 DEF HeldIsSomewhere
<1>10. raw # NONE => raw \in Held
  BY <1>1 DEF HeldIsSomewhere
<1>11. ASSUME NEW i \in DOMAIN queue, NEW x \in Held, x # queue[i]
       PROVE  x.seq # queue[i].seq
  <2>1. x.seq \in Nat /\ queue[i].seq \in Nat
    BY <1>1, <1>8
  <2>2. CASE \E j \in DOMAIN queue : x = queue[j]
    <3>1. PICK j \in DOMAIN queue : x = queue[j]
      BY <2>2
    <3>2. i \in Nat /\ j \in Nat /\ i # j
      BY <1>11, <3>1 DEF TypeInv, DiagnosticsTypes
    <3>3. i < j \/ j < i
      BY <3>2
    <3>4. queue[i].seq < queue[j].seq \/ queue[j].seq < queue[i].seq
      BY <1>3, <3>3
    <3> QED BY <2>1, <3>1, <3>4
  <2>3. CASE (Posted /\ x = messages[1]) \/ (raw # NONE /\ x = raw) \/ x \in stored \cup unknown
    <3>1. x.seq < queue[i].seq
      BY <1>3, <1>4, <1>5, <1>6, <2>3
    <3> QED BY <2>1, <3>1
  <2> QED BY <1>1, <2>2, <2>3 DEF HeldIsSomewhere
<1>12. ASSUME Posted, NEW x \in Held, x # messages[1]
       PROVE  x.seq # messages[1].seq
  <2>1. x.seq \in Nat /\ messages[1].seq \in Nat
    BY <1>1, <1>9, <1>12
  <2>2. x.seq < messages[1].seq \/ messages[1].seq < x.seq
    BY <1>1, <1>4, <1>5, <1>6, <1>12 DEF HeldIsSomewhere
  <2> QED BY <2>1, <2>2
<1>13. ASSUME raw # NONE, Fresh(raw), NEW x \in Held, x # raw
       PROVE  x.seq # raw.seq
  <2>1. x.seq \in Nat /\ raw.seq \in Nat
    BY <1>1, <1>10, <1>13
  <2>2. x.seq < raw.seq \/ raw.seq < x.seq
    BY <1>1, <1>5, <1>6, <1>13 DEF HeldIsSomewhere
  <2> QED BY <2>1, <2>2
<1> QED BY <1>1, <1>7, <1>11, <1>12, <1>13

\* What the copies weigh, now and after a step.
Carried == Weight(CopiesOf(Held))

LEMMA ConservedNow ==
    /\ EventsConserved <=>
           Carried + (Len(events) + Len(FlattenSeq(publications))) + LossTotal(loss) + coalesced
               = submitted
    /\ EventsConserved' <=>
           Carried' + (Len(events') + Len(FlattenSeq(publications'))) + LossTotal(loss') + coalesced'
               = submitted'
<1>1. EventsConserved <=>
           Carried + (Len(events) + Len(FlattenSeq(publications))) + LossTotal(loss) + coalesced
               = submitted
  BY Conserved DEF Carried
<1>2. (EventsConserved <=>
           Carried + (Len(events) + Len(FlattenSeq(publications))) + LossTotal(loss) + coalesced
               = submitted)'
  BY <1>1, PTL
<1> QED BY <1>1, <1>2

LEMMA HeldKept ==
    ASSUME TypeInv, TypeInv',
           \A x \in Held : \E y \in Held' : CopyOf(y) = CopyOf(x),
           \A y \in Held' : \E x \in Held : CopyOf(x) = CopyOf(y)
    PROVE  Carried' = Carried
<1>1. CopiesOf(Held') = CopiesOf(Held)
  BY DEF CopiesOf
<1> QED BY <1>1 DEF Carried

\* An interval that is counted as lost leaves the copies.
LEMMA HeldLost ==
    ASSUME TypeInv, TypeInv', NEW r \in Held, Held' = Held \ {r},
           \A x \in Held : x # r => x.seq # r.seq
    PROVE  Carried = Carried' + Len(r.events) /\ Len(r.events) \in Nat
<1>1. Held \in SUBSET Interval /\ IsFiniteSet(Held)
  BY HeldMembers, HeldFinite
<1>2. Carried = Weight(CopiesOf(Held \ {r})) + Len(r.events)
  BY <1>1, CopiesChange DEF Carried
<1>3. Carried' = Weight(CopiesOf(Held \ {r}))
  BY DEF Carried
<1> QED BY <1>1, <1>2, <1>3, SeqOfInterval

LEMMA CarriedTyped == TypeInv => Carried \in Nat
BY HeldMembers, HeldFinite, CopiesChange DEF Carried

LEMMA CarriedTypedAfter == TypeInv' => Carried' \in Nat
<1>1. (TypeInv => Carried \in Nat)'
  BY CarriedTyped, PTL
<1> QED BY <1>1

\* The writer hands an interval on, stores it or counts it as lost.
WriterBalanced == Carried' + LossTotal(loss') = Carried + LossTotal(loss)

LEMMA WriterBalancedHeld ==
    ASSUME TypeInv, TypeInv', Carried' = Carried, loss' = loss
    PROVE  WriterBalanced
BY DEF WriterBalanced

LEMMA WriterBalancedLost ==
    ASSUME TypeInv, TypeInv', IntervalsInOrder, NEW r \in Held, Held' = Held \ {r}, Reject(r),
           \A x \in Held : x # r => x.seq # r.seq
    PROVE  WriterBalanced
<1>1. r.events \in Seq(Event) /\ loss \in LossTypes /\ "writer" \in Places
  BY HeldMembers, SeqOfInterval DEF TypeInv, DiagnosticsTypes, Places
<1>2. loss' = CountedAt(loss, "writer", r.events)
  BY DEF Reject, Lost, CountedAt
<1>3. LossTotal(loss) \in Nat /\ LossTotal(loss') = LossTotal(loss) + Len(r.events)
  BY <1>1, <1>2, LossTotalGrows
<1>4. Carried = Carried' + Len(r.events) /\ Len(r.events) \in Nat /\ Carried' \in Nat
  <2>1. Carried' \in Nat
    BY CarriedTypedAfter
  <2>2. Carried = Carried' + Len(r.events) /\ Len(r.events) \in Nat
    BY HeldLost
  <2> QED BY <2>1, <2>2
<1> DEFINE a == LossTotal(loss)
           b == LossTotal(loss')
           c == Len(r.events)
<1> HIDE DEF a, b, c
<1>5. a \in Nat /\ b = a + c /\ c \in Nat
  BY <1>3, <1>4 DEF a, b, c
<1>6. Carried' + b = Carried + a
  BY <1>4, <1>5 DEF c
<1> QED BY <1>6 DEF WriterBalanced, a, b

\* A rejected interval was in the writer's hands and nowhere else.
LEMMA RejectBalanced ==
    ASSUME TypeInv, TypeInv', IntervalsInOrder, raw # NONE, Fresh(raw), Reject(raw), raw' = NONE,
           UNCHANGED <<queue, messages, stored, unknown>>
    PROVE  WriterBalanced
<1>1. /\ HeldIsSomewhere /\ HeldIsSomewhere'
      /\ \A x \in Held : x # raw => x.seq # raw.seq
  BY HeldMembers, HeldMembersAfter, SeqsDistinct
<1>2. raw \in Held
  BY <1>1 DEF HeldIsSomewhere
<1>3. raw \in Interval /\ raw.seq \in Nat
  BY SeqOfInterval DEF TypeInv, DiagnosticsTypes
<1>4. /\ \A i \in DOMAIN queue : raw # queue[i]
      /\ Posted => raw # messages[1]
      /\ raw \notin stored \cup unknown
  <2>1. \A i \in DOMAIN queue : raw.seq < queue[i].seq
    BY DEF IntervalsInOrder, HandInOrder
  <2>2. Posted => raw.seq < messages[1].seq
    BY DEF IntervalsInOrder, HandInOrder
  <2>3. \A x \in stored \cup unknown : x.seq < raw.seq
    BY DEF Fresh
  <2> QED BY <1>3, <2>1, <2>2, <2>3
<1>5. Held' = Held \ {raw}
  <2>1. Posted' <=> Posted
    BY DEF Posted
  <2> QED BY <1>1, <1>4, <2>1 DEF HeldIsSomewhere
<1> QED BY <1>1, <1>2, <1>5, WriterBalancedLost

LEMMA UnchangedBalanced ==
    ASSUME TypeInv, TypeInv', Held' = Held, loss' = loss
    PROVE  WriterBalanced
<1>1. Carried' = Carried
  BY HeldKept
<1> QED BY <1>1, WriterBalancedHeld

LEMMA WriterStepBalanced ==
    ASSUME TypeInv, TypeInv', IntervalsInOrder, WriterStep
    PROVE  WriterBalanced
<1> USE DEF WriterFrame, recorderVars, historyVars
<1>1. HeldIsSomewhere /\ HeldIsSomewhere'
  BY HeldMembers, HeldMembersAfter
<1>2. CASE writer_open \/ writer_top \/ writer_gate \/ writer_dead
  <2>1. Held' = Held /\ loss' = loss
    BY <1>2 DEF writer_open, writer_top, writer_gate, writer_dead, Held
  <2> QED BY <2>1, UnchangedBalanced
<1>3. CASE writer_get
  <2>1. loss' = loss /\ UNCHANGED <<queue, stored, unknown>> /\ raw = NONE /\ messages # <<>> /\ messages' = <<>>
    BY <1>3 DEF writer_get, TypeInv, DiagnosticsTypeOK
  <2>2. ~Posted' /\ (Posted <=> messages[1] # NONE)
    <3>1. messages = <<messages[1]>>
      BY <2>1, OneSlot DEF TypeInv, DiagnosticsTypes, DiagnosticsTypeOK
    <3>2. messages[1] # NONE => Posted
      BY <2>1 DEF Posted
    <3> QED BY <2>1, <3>1, <3>2 DEF Posted
  <2>3. raw' = IF messages[1] = NONE THEN NONE ELSE messages[1]
    BY <1>3, <2>1 DEF writer_get
  <2>4. Held' = Held
    BY <1>1, <2>1, <2>2, <2>3 DEF HeldIsSomewhere
  <2> QED BY <2>1, <2>4, UnchangedBalanced
<1>4. CASE writer_append
  <2>1. /\ raw \in Interval /\ raw # NONE /\ pc = "append"
        /\ UNCHANGED <<queue, messages, unknown>>
    BY <1>4 DEF writer_append, TypeInv, DiagnosticsTypes, DiagnosticsTypeOK
  <2>2. Fresh(raw)
    BY <2>1 DEF IntervalsInOrder, HandInOrder, CommittedInHand
  <2>3. CASE Reject(raw) /\ raw' = NONE /\ stored' = stored
    BY <2>1, <2>2, <2>3, RejectBalanced
  <2>4. CASE loss' = loss /\ stored' = stored /\ raw' = raw
    <3>1. Held' = Held
      BY <2>1, <2>4 DEF Held
    <3> QED BY <2>4, <3>1, UnchangedBalanced
  <2>5. CASE loss' = loss /\ Commit /\ (raw' = raw \/ raw' = NONE)
    <3>1. raw.seq \in Nat /\ saved \in Nat /\ saved <= raw.seq
      BY <2>1, <2>2, SeqOfInterval DEF Fresh, TypeInv, DiagnosticsTypes
    <3>2. PICK x \in Interval : /\ x.seq = raw.seq /\ x.events = raw.events
                                /\ stored' = stored \cup {x}
      <4>1. ~ (raw.seq < saved)
        BY <3>1
      <4>2. saved \in Nat /\ stored \in SUBSET Interval /\ IsFiniteSet(stored)
        BY DEF TypeInv, DiagnosticsTypes
      <4> QED BY <2>1, <2>5, <4>1, <4>2, CommitTyped
    <3>3. CopyOf(x) = CopyOf(raw)
      BY <3>2 DEF CopyOf
    <3>4. Posted' <=> Posted
      BY <2>1 DEF Posted
    <3>5. Held' \subseteq Held \cup {x} /\ Held \ {raw} \subseteq Held' /\ x \in Held' /\ raw \in Held
      BY <1>1, <2>1, <2>5, <3>2, <3>4 DEF HeldIsSomewhere
    <3>6. Carried' = Carried
      BY <3>3, <3>5, HeldKept
    <3> QED BY <2>5, <3>6, WriterBalancedHeld
  <2> QED BY <1>4, <2>3, <2>4, <2>5 DEF writer_append
<1>5. CASE writer_verify
  <2>1. /\ raw \in Interval /\ raw # NONE /\ raw' = NONE
        /\ UNCHANGED <<queue, messages, stored>>
    BY <1>5 DEF writer_verify, TypeInv, DiagnosticsTypes, DiagnosticsTypeOK
  <2>2. raw.seq \in Nat /\ (Fresh(raw) \/ CommittedInHand)
    BY <2>1, SeqOfInterval DEF IntervalsInOrder, HandInOrder
  <2>3. Posted' <=> Posted
    BY <2>1 DEF Posted
  <2>4. CASE unknown' = unknown \cup {raw} /\ loss' = loss
    <3>1. Held' = Held
      BY <1>1, <2>1, <2>3, <2>4 DEF HeldIsSomewhere
    <3> QED BY <2>4, <3>1, UnchangedBalanced
  <2>5. CASE ContainsInterval /\ unknown' = unknown /\ loss' = loss
    <3>1. ~Fresh(raw)
      <4>1. PICK x \in stored : x.seq = raw.seq
        BY <2>5 DEF ContainsInterval
      <4> QED BY <2>2, <4>1 DEF Fresh
    <3>2. PICK x \in stored : x.seq = raw.seq /\ x.events = raw.events
      BY <2>2, <3>1 DEF CommittedInHand
    <3>3. CopyOf(x) = CopyOf(raw)
      BY <3>2 DEF CopyOf
    <3>4. Held' \subseteq Held /\ Held \ {raw} \subseteq Held' /\ x \in Held'
      BY <1>1, <2>1, <2>3, <2>5 DEF HeldIsSomewhere
    <3>5. Carried' = Carried
      BY <3>3, <3>4, HeldKept
    <3> QED BY <2>5, <3>5, WriterBalancedHeld
  <2>6. CASE ~ContainsInterval /\ unknown' = unknown /\ Reject(raw)
    <3>1. Fresh(raw)
      BY <2>2, <2>6 DEF CommittedInHand, ContainsInterval
    <3> QED BY <2>1, <2>6, <3>1, RejectBalanced
  <2> QED BY <1>5, <2>4, <2>5, <2>6 DEF writer_verify
<1>6. CASE writer_exit
  <2>1. UNCHANGED <<queue, messages, stored, unknown>> /\ raw' = NONE
    BY <1>6 DEF writer_exit
  <2>2. CASE raw # NONE
    <3>1. Fresh(raw) /\ Reject(raw)
      BY <1>6, <2>2 DEF writer_exit, IntervalsInOrder, HandInOrder, CommittedInHand
    <3> QED BY <2>1, <2>2, <3>1, RejectBalanced
  <2>3. CASE raw = NONE
    <3>1. Held' = Held /\ loss' = loss
      BY <1>6, <2>1, <2>3 DEF writer_exit, Held
    <3> QED BY <3>1, UnchangedBalanced
  <2> QED BY <2>2, <2>3
<1>7. CASE writer_drain
  <2>1. UNCHANGED <<queue, raw, stored, unknown>> /\ raw = NONE /\ messages' = <<>> /\ ~Posted'
    BY <1>7 DEF writer_drain, Posted, TypeInv, DiagnosticsTypeOK
  <2>2. CASE ~Posted
    <3>1. loss' = loss
      BY <1>7, <2>2 DEF writer_drain, Posted
    <3>2. Held' = Held
      BY <1>1, <2>1, <2>2 DEF HeldIsSomewhere
    <3> QED BY <3>1, <3>2, UnchangedBalanced
  <2>3. CASE Posted
    <3> DEFINE r == messages[1]
    <3>1. Reject(r) /\ r \in Interval
      BY <1>7, <2>3, PostedInterval DEF writer_drain, Posted, TypeInv, DiagnosticsTypes,
                                        DiagnosticsTypeOK
    <3>2. r \in Held /\ r.seq \in Nat
      BY <1>1, <2>3, <3>1, SeqOfInterval DEF HeldIsSomewhere
    <3>3. /\ \A i \in DOMAIN queue : r.seq < queue[i].seq
          /\ \A x \in stored \cup unknown : x.seq < r.seq
      BY <2>3 DEF IntervalsInOrder, MailInOrder, Fresh
    <3>4. \A x \in Held : x # r => x.seq # r.seq
      BY <2>3, SeqsDistinct
    <3>5. (\A i \in DOMAIN queue : r # queue[i]) /\ r \notin stored \cup unknown
      BY <3>2, <3>3
    <3> HIDE DEF r
    <3>6. \A x : x \in Held <=> \/ \E i \in DOMAIN queue : x = queue[i]
                                \/ x = r
                                \/ x \in stored \cup unknown
      BY <1>1, <2>1, <2>3 DEF HeldIsSomewhere, r
    <3>7. \A x : x \in Held' <=> (\E i \in DOMAIN queue : x = queue[i]) \/ x \in stored \cup unknown
      BY <1>1, <2>1 DEF HeldIsSomewhere
    <3>8. Held' = Held \ {r}
      BY <3>5, <3>6, <3>7
    <3> QED BY <3>1, <3>2, <3>4, <3>8, WriterBalancedLost
  <2> QED BY <2>2, <2>3
<1> QED BY <1>2, <1>3, <1>4, <1>5, <1>6, <1>7 DEF WriterStep

\* A step keeps the books when what it adds is what the recorder was handed.
PendingCount == Len(events) + Len(FlattenSeq(publications))
OnTheBooks == Carried + PendingCount + LossTotal(loss) + coalesced

LEMMA BooksTyped ==
    TypeInv =>
        /\ Carried \in Nat /\ PendingCount \in Nat /\ LossTotal(loss) \in Nat /\ coalesced \in Nat
        /\ submitted \in Nat /\ Len(events) \in Nat /\ Len(FlattenSeq(publications)) \in Nat
<1> SUFFICES ASSUME TypeInv
             PROVE  /\ Carried \in Nat /\ PendingCount \in Nat /\ LossTotal(loss) \in Nat
                    /\ coalesced \in Nat /\ submitted \in Nat /\ Len(events) \in Nat
                    /\ Len(FlattenSeq(publications)) \in Nat
  OBVIOUS
<1>1. /\ events \in Seq(Event) /\ publications \in Seq(Group) /\ loss \in LossTypes
      /\ coalesced \in Nat /\ submitted \in Nat
  BY DEF TypeInv, DiagnosticsTypes
<1>2. FlattenSeq(publications) \in Seq(Event)
  <2>1. publications \in Seq(Seq(Event))
    BY <1>1, SeqMonotonic DEF Group
  <2> QED BY <2>1, FlattenType
<1>3. LossTotal(loss) \in Nat
  <2>1. "writer" \in Places /\ <<>> \in Seq(Event)
    BY DEF Places
  <2> QED BY <1>1, <2>1, LossTotalGrows
<1>4. Len(events) \in Nat /\ Len(FlattenSeq(publications)) \in Nat
  BY <1>1, <1>2
<1> QED BY <1>1, <1>3, <1>4, CarriedTyped DEF PendingCount

LEMMA BooksTypedAfter ==
    TypeInv' => /\ Carried' \in Nat /\ PendingCount' \in Nat /\ LossTotal(loss') \in Nat
                /\ coalesced' \in Nat /\ Len(FlattenSeq(publications')) \in Nat
<1>1. TypeInv => /\ Carried \in Nat /\ PendingCount \in Nat /\ LossTotal(loss) \in Nat
                 /\ coalesced \in Nat /\ Len(FlattenSeq(publications)) \in Nat
  BY BooksTyped
<1>2. (TypeInv => /\ Carried \in Nat /\ PendingCount \in Nat /\ LossTotal(loss) \in Nat
                  /\ coalesced \in Nat /\ Len(FlattenSeq(publications)) \in Nat)'
  BY <1>1, PTL
<1> QED BY <1>2

LEMMA BooksKept ==
    ASSUME TypeInv, TypeInv', EventsConserved, NEW k \in Nat, submitted' = submitted + k,
           OnTheBooks' = OnTheBooks + k
    PROVE  EventsConserved'
<1>1. EventsConserved <=> OnTheBooks = submitted
  BY ConservedNow DEF OnTheBooks, PendingCount
<1>2. EventsConserved' <=> OnTheBooks' = submitted'
  BY ConservedNow DEF OnTheBooks, PendingCount
<1> QED BY <1>1, <1>2

\* Steps that change neither the intervals nor the pending events.
LEMMA BooksUntouched ==
    ASSUME TypeInv, TypeInv', EventsConserved, Held' = Held,
           UNCHANGED <<events, publications, loss, coalesced, submitted>>
    PROVE  EventsConserved'
<1>1. Carried' = Carried
  BY HeldKept
<1>2. OnTheBooks' = OnTheBooks /\ OnTheBooks \in Nat /\ submitted \in Nat
  BY <1>1, BooksTyped DEF OnTheBooks, PendingCount
<1>3. submitted' = submitted + 0 /\ OnTheBooks' = OnTheBooks + 0 /\ 0 \in Nat
  BY <1>2
<1> QED BY <1>3, BooksKept

LEMMA BooksWriter == TypeInv /\ TypeInv' /\ IntervalsInOrder /\ EventsConserved /\ WriterStep => EventsConserved'
<1> SUFFICES ASSUME TypeInv, TypeInv', IntervalsInOrder, EventsConserved, WriterStep
             PROVE  EventsConserved'
  OBVIOUS
<1>1. UNCHANGED <<events, publications, coalesced, submitted>>
  BY DEF WriterStep, writer_open, writer_top, writer_get, writer_gate, writer_append,
         writer_verify, writer_exit, writer_drain, writer_dead, WriterFrame, recorderVars
<1> DEFINE a == Carried
           b == LossTotal(loss)
           c == Carried'
           d == LossTotal(loss')
           p == PendingCount
           k == coalesced
<1>2. c + d = a + b
  BY WriterStepBalanced DEF WriterBalanced
<1>3. a \in Nat /\ b \in Nat /\ p \in Nat /\ k \in Nat /\ submitted \in Nat
  BY BooksTyped
<1>4. c \in Nat /\ d \in Nat
  BY BooksTypedAfter
<1>5. OnTheBooks = a + p + b + k /\ OnTheBooks' = c + p + d + k
  BY <1>1 DEF OnTheBooks, PendingCount
<1> HIDE DEF a, b, c, d, p, k
<1>6. OnTheBooks' = OnTheBooks + 0 /\ submitted' = submitted + 0 /\ 0 \in Nat
  BY <1>1, <1>2, <1>3, <1>4, <1>5
<1> QED BY <1>6, BooksKept

\* A report that is not collected yet: it waits, it replaces another or something is lost.
LEMMA BooksReport ==
    ASSUME TypeInv, TypeInv', EventsConserved, NEW k \in Nat, submitted' = submitted + k,
           UNCHANGED <<queue, messages, raw, stored, unknown>>,
           PendingCount' + LossTotal(loss') + coalesced'
                = PendingCount + LossTotal(loss) + coalesced + k
    PROVE  EventsConserved'
<1>1. Held' = Held
  BY DEF Held
<1>2. Carried' = Carried
  BY <1>1, HeldKept
<1> DEFINE a == Carried
           p == PendingCount
           q == PendingCount'
           b == LossTotal(loss)
           d == LossTotal(loss')
<1>3. a \in Nat /\ b \in Nat /\ p \in Nat /\ coalesced \in Nat
  BY BooksTyped
<1>4. q \in Nat /\ d \in Nat /\ coalesced' \in Nat
  BY BooksTypedAfter
<1>5. OnTheBooks = a + p + b + coalesced /\ OnTheBooks' = a + q + d + coalesced'
  BY <1>2 DEF OnTheBooks
<1>6. q + d + coalesced' = p + b + coalesced + k /\ k \in Nat
  OBVIOUS
<1> DEFINE m == coalesced
           r == coalesced'
<1>7. OnTheBooks = a + p + b + m /\ OnTheBooks' = a + q + d + r
  BY <1>5
<1>8. q + d + r = p + b + m + k /\ m \in Nat /\ r \in Nat
  BY <1>3, <1>4, <1>6
<1> HIDE DEF a, b, d, p, q, m, r
<1>9. a + q + d + r = a + p + b + m + k
  BY <1>3, <1>4, <1>6, <1>8
<1>10. OnTheBooks' = OnTheBooks + k
  BY <1>7, <1>9
<1> QED BY <1>10, BooksKept

\* One report waits, replaces another, or is lost or displaces another.
LEMMA BooksOneReport ==
    ASSUME TypeInv, TypeInv', EventsConserved, submitted' = submitted + 1,
           UNCHANGED <<publications, queue, messages, raw, stored, unknown>>,
           \/ /\ Len(events') = Len(events) /\ coalesced' = coalesced
              /\ \E place \in Places : \E e : loss' = Lost(place, <<e>>)
           \/ Len(events') = Len(events) /\ coalesced' = coalesced + 1 /\ loss' = loss
           \/ Len(events') = Len(events) + 1 /\ coalesced' = coalesced /\ loss' = loss
    PROVE  EventsConserved'
<1> DEFINE p == Len(FlattenSeq(publications))
           n == Len(events)
           m == Len(events')
           b == LossTotal(loss)
           d == LossTotal(loss')
           j == coalesced
           k == coalesced'
<1>1. p \in Nat /\ n \in Nat /\ b \in Nat /\ j \in Nat
  BY BooksTyped
<1>2. PendingCount = n + p /\ PendingCount' = m + p
  BY DEF PendingCount
<1>3. \/ m = n /\ k = j /\ d = b + 1
      \/ m = n /\ k = j + 1 /\ d = b
      \/ m = n + 1 /\ k = j /\ d = b
  <2>1. ASSUME NEW place \in Places, NEW e, loss' = Lost(place, <<e>>)
        PROVE  d = b + 1
    <3>1. <<e>> \in Seq({e}) /\ Len(<<e>>) = 1
      OBVIOUS
    <3>2. loss' = CountedAt(loss, place, <<e>>) /\ loss \in LossTypes
      BY <2>1 DEF Lost, CountedAt, TypeInv, DiagnosticsTypes
    <3>3. LossTotal(CountedAt(loss, place, <<e>>)) = LossTotal(loss) + Len(<<e>>)
      BY <3>1, <3>2, LossTotalGrows
    <3> QED BY <3>1, <3>2, <3>3
  <2> QED BY <2>1
<1> HIDE DEF p, n, m, b, d, j, k
<1>4. (m + p) + d + k = (n + p) + b + j + 1
  BY <1>1, <1>3
<1>5. PendingCount' + LossTotal(loss') + coalesced' = PendingCount + LossTotal(loss) + coalesced + 1
  BY <1>2, <1>4 DEF b, d, j, k
<1>6. 1 \in Nat
  OBVIOUS
<1> QED BY <1>5, <1>6, BooksReport

LEMMA BooksEvent ==
    TypeInv /\ TypeInv' /\ EventsConserved /\ (\E kind \in {"proof", "storage"} : event(kind))
    => EventsConserved'
<1> SUFFICES ASSUME TypeInv, TypeInv', EventsConserved, NEW kind \in {"proof", "storage"}, event(kind)
             PROVE  EventsConserved'
  OBVIOUS
<1> DEFINE e == NewEvent(kind, NONE)
           v == Victim(events)
<1>1. /\ submitted' = submitted + 1
      /\ UNCHANGED <<publications, queue, messages, raw, stored, unknown, coalesced>>
  BY DEF event, sharedVars, writerVars, historyVars
<1>2. /\ submitted \in Nat /\ events \in Seq(Event) /\ EventCap \in Nat \ {0, 1}
      /\ "event_input" \in Places /\ "event_capacity" \in Places
  BY DiagnosticsBounds DEF TypeInv, DiagnosticsTypes, Places
<1>3. e \in Event
  BY <1>2, NewEventTyped
<1>4. \/ events' = events /\ loss' = Lost("event_input", <<e>>)
      \/ events' = events /\ loss' = Lost("event_capacity", <<e>>)
      \/ /\ Len(events) = EventCap /\ loss' = Lost("event_capacity", <<events[v]>>)
         /\ events' = Append(RemoveAt(events, v), e)
      \/ events' = Append(events, e) /\ loss' = loss
  BY DEF event
<1> HIDE DEF e, v
<1>5. CASE events' = events /\ (\E place \in Places : loss' = Lost(place, <<e>>))
  BY <1>1, <1>5, BooksOneReport
<1>6. CASE /\ Len(events) = EventCap /\ loss' = Lost("event_capacity", <<events[v]>>)
           /\ events' = Append(RemoveAt(events, v), e)
  <2>1. v \in DOMAIN events
    <3>1. events # <<>>
      BY <1>2, <1>6
    <3> QED BY <1>2, <3>1, VictimProperties DEF v
  <2> DEFINE rest == RemoveAt(events, v)
  <2>2. rest \in Seq(Event) /\ Len(rest) = Len(events) - 1 /\ Len(events) \in Nat
    BY <1>2, <2>1, RemoveAtProperties
  <2> HIDE DEF rest
  <2>3. Len(events') = Len(events)
    <3>1. Len(Append(rest, e)) = Len(rest) + 1
      BY <1>3, <2>2
    <3> QED BY <1>6, <2>2, <3>1 DEF rest
  <2> QED BY <1>1, <1>2, <1>6, <2>3, BooksOneReport
<1>7. CASE events' = Append(events, e) /\ loss' = loss
  <2>1. Len(events') = Len(events) + 1
    BY <1>2, <1>3, <1>7
  <2> QED BY <1>1, <1>7, <2>1, BooksOneReport
<1> QED BY <1>2, <1>4, <1>5, <1>6, <1>7

LEMMA BooksOptionalEvents ==
    TypeInv /\ TypeInv' /\ EventsConserved /\ (\E k \in Keys, s \in Scopes : optional_events(k, s))
    => EventsConserved'
<1> SUFFICES ASSUME TypeInv, TypeInv', EventsConserved, NEW k \in Keys, NEW s \in Scopes,
                    optional_events(k, s)
             PROVE  EventsConserved'
  OBVIOUS
<1> DEFINE e == NewEvent(k, s)
<1>1. /\ submitted' = submitted + 1
      /\ UNCHANGED <<publications, queue, messages, raw, stored, unknown, loss>>
  BY DEF optional_events, sharedVars, writerVars, historyVars
<1>2. submitted \in Nat /\ events \in Seq(Event)
  BY DEF TypeInv, DiagnosticsTypes
<1>3. e \in Event
  BY <1>2, NewEventTyped
<1> HIDE DEF e
<1>4. CASE coalesced' = coalesced + 1 /\ \E i \in DOMAIN events : events' = [events EXCEPT ![i] = e]
  <2>1. Len(events') = Len(events)
    BY <1>2, <1>3, <1>4, ExceptSeq
  <2> QED BY <1>1, <1>4, <2>1, BooksOneReport
<1>5. CASE events' = Append(events, e) /\ coalesced' = coalesced
  <2>1. Len(events') = Len(events) + 1
    BY <1>2, <1>3, <1>5
  <2> QED BY <1>1, <1>5, <2>1, BooksOneReport
<1> QED BY <1>4, <1>5 DEF optional_events, QueuedAt, e

LEMMA BooksRefused ==
    TypeInv /\ TypeInv' /\ EventsConserved /\ (\E k \in Keys : optional_event_refused(k))
    => EventsConserved'
<1> SUFFICES ASSUME TypeInv, TypeInv', EventsConserved, NEW k \in Keys, optional_event_refused(k)
             PROVE  EventsConserved'
  OBVIOUS
<1>1. /\ submitted' = submitted + 1
      /\ UNCHANGED <<events, publications, queue, messages, raw, stored, unknown, coalesced>>
  BY DEF optional_event_refused, sharedVars, writerVars, historyVars
<1>2. loss' = Lost("event_input", <<NewEvent(k, NONE)>>) /\ "event_input" \in Places
  BY DEF optional_event_refused, Places
<1> QED BY <1>1, <1>2, BooksOneReport

LEMMA BooksPublication ==
    TypeInv /\ TypeInv' /\ EventsConserved
        /\ (\E n \in 1..EventCap, bad \in 0..1 : publication(n, bad))
    => EventsConserved'
<1> SUFFICES ASSUME TypeInv, TypeInv', EventsConserved,
                    NEW n \in 1..EventCap, NEW bad \in 0..1, publication(n, bad)
             PROVE  EventsConserved'
  OBVIOUS
<1>1. /\ submitted' = submitted + n
      /\ UNCHANGED <<events, queue, messages, raw, stored, unknown, coalesced>>
  BY DEF publication, sharedVars, writerVars, historyVars
<1> DEFINE a == Len(Hole(n, bad))
           b == Len(Surplus(n))
           c == Len(Displaced(n, bad))
           d == Len(Fits(n, bad))
           l == LossTotal(loss)
           m == LossTotal(loss')
           p == Len(FlattenSeq(publications))
           q == Len(FlattenSeq(publications'))
           v == Len(events)
           k == coalesced
<1>2. a \in Nat /\ b \in Nat /\ c \in Nat /\ d \in Nat /\ a + d + b = n
  <2>1. /\ Hole(n, bad) \in Seq(Event) /\ Fits(n, bad) \in Seq(Event) /\ Surplus(n) \in Seq(Event)
        /\ a + d + b = n
    BY PublicationParts
  <2>2. Displaced(n, bad) \in Seq(Event)
    BY BacklogKept
  <2> QED BY <2>1, <2>2
<1>3. q + c = p + d /\ m = l + a + b + c
  BY BacklogKept, PublicationLoss
<1>4. l \in Nat /\ p \in Nat /\ v \in Nat /\ k \in Nat
  BY BooksTyped
<1>5. PendingCount = v + p /\ PendingCount' = v + q
  BY <1>1 DEF PendingCount
<1>6. q \in Nat
  BY BooksTypedAfter
<1> HIDE DEF a, b, c, d, l, m, p, q, v, k
<1>7. (v + q) + m + k = (v + p) + l + k + n
  BY <1>2, <1>3, <1>4, <1>6
<1>8. PendingCount' + LossTotal(loss') + coalesced' = PendingCount + LossTotal(loss) + coalesced + n
  BY <1>1, <1>5, <1>7 DEF l, m, k
<1>9. n \in Nat
  BY DiagnosticsBounds
<1> QED BY <1>1, <1>8, <1>9, BooksReport

LEMMA RemoveAtMembers ==
    \A S : \A s \in Seq(S) : \A i \in DOMAIN s :
        \A x : (\E k \in DOMAIN RemoveAt(s, i) : x = RemoveAt(s, i)[k])
               <=> (\E j \in DOMAIN s : j # i /\ x = s[j])
<1> SUFFICES ASSUME NEW S, NEW s \in Seq(S), NEW i \in DOMAIN s, NEW x
             PROVE  (\E k \in DOMAIN RemoveAt(s, i) : x = RemoveAt(s, i)[k])
                    <=> (\E j \in DOMAIN s : j # i /\ x = s[j])
  OBVIOUS
<1> DEFINE r == RemoveAt(s, i)
           n == Len(s)
<1>1. n \in Nat /\ i \in 1..n /\ DOMAIN s = 1..n
  OBVIOUS
<1>2. /\ r \in Seq(S) /\ Len(r) = n - 1
      /\ \A j \in 1..(n - 1) : r[j] = IF j < i THEN s[j] ELSE s[j + 1]
  BY RemoveAtProperties
<1> HIDE DEF r, n
<1>3. DOMAIN r = 1..(n - 1)
  BY <1>1, <1>2
<1>4. ASSUME NEW k \in 1..(n - 1), x = r[k]
      PROVE  \E j \in 1..n : j # i /\ x = s[j]
  <2>1. CASE k < i
    <3>1. k \in 1..n /\ k # i /\ x = s[k]
      BY <1>1, <1>2, <1>4, <2>1
    <3> QED BY <3>1
  <2>2. CASE ~ (k < i)
    <3>1. k + 1 \in 1..n /\ k + 1 # i /\ x = s[k + 1]
      BY <1>1, <1>2, <1>4, <2>2
    <3> QED BY <3>1
  <2> QED BY <2>1, <2>2
<1>5. ASSUME NEW j \in 1..n, j # i, x = s[j]
      PROVE  \E k \in 1..(n - 1) : x = r[k]
  <2>1. CASE j < i
    <3>1. j \in 1..(n - 1)
      BY <1>1, <2>1
    <3>2. r[j] = s[j]
      BY <1>2, <2>1, <3>1
    <3> QED BY <1>5, <3>1, <3>2
  <2>2. CASE j > i
    <3>1. j - 1 \in 1..(n - 1) /\ ~ (j - 1 < i) /\ (j - 1) + 1 = j
      BY <1>1, <2>2
    <3>2. r[j - 1] = s[(j - 1) + 1]
      BY <1>2, <3>1
    <3>3. r[j - 1] = s[j]
      BY <3>1, <3>2
    <3> QED BY <1>5, <3>1, <3>3
  <2> QED BY <1>1, <1>5, <2>1, <2>2
<1> QED BY <1>1, <1>3, <1>4, <1>5 DEF r

LEMMA BooksFlush ==
    TypeInv /\ TypeInv' /\ EventsConserved /\ (\E permit \in BOOLEAN : flush_one(permit))
    => EventsConserved'
<1> SUFFICES ASSUME TypeInv, TypeInv', EventsConserved, NEW permit \in BOOLEAN, flush_one(permit)
             PROVE  EventsConserved'
  OBVIOUS
<1>1. UNCHANGED <<events, publications, loss, coalesced, submitted, raw, stored, unknown>>
  BY DEF flush_one, writerVars, historyVars
<1>2. HeldIsSomewhere /\ HeldIsSomewhere'
  BY HeldMembers, HeldMembersAfter
<1>3. CASE UNCHANGED <<messages, queue>>
  <2>1. Held' = Held
    BY <1>1, <1>3 DEF Held
  <2> QED BY <1>1, <2>1, BooksUntouched
<1>4. CASE queue # <<>> /\ messages = <<>> /\ messages' = <<Head(queue)>> /\ queue' = Tail(queue)
  <2> DEFINE n == Len(queue)
  <2>1. queue \in Seq(Interval) /\ n \in Nat \ {0} /\ DOMAIN queue = 1..n
    <3>1. queue \in Seq(Interval)
      BY DEF TypeInv, DiagnosticsTypes
    <3> QED BY <1>4, <3>1, EmptySeq
  <2>2. /\ Head(queue) = queue[1] /\ DOMAIN Tail(queue) = 1..(n - 1)
        /\ \A i \in 1..(n - 1) : Tail(queue)[i] = queue[i + 1] /\ i + 1 \in 1..n
    BY <1>4, <2>1
  <2> HIDE DEF n
  <2>3. \A i \in 1..n : i = 1 \/ (i - 1 \in 1..(n - 1) /\ (i - 1) + 1 = i)
    BY <2>1
  <2>4. ~Posted /\ messages'[1] = queue[1]
    BY <1>4, <2>2 DEF Posted
  <2>5. Posted'
    <3>1. queue[1] \in Interval /\ queue[1] # NONE
      <4>1. 1 \in 1..n
        BY <2>1
      <4> QED BY <2>1, <4>1, DiagnosticsBounds
    <3>2. messages' = <<queue[1]>>
      BY <1>4, <2>2
    <3>3. <<queue[1]>> # <<>> /\ <<queue[1]>> # <<NONE>>
      BY <3>1
    <3> QED BY <3>2, <3>3 DEF Posted
  <2>6. \A x : (\E i \in DOMAIN queue : x = queue[i])
               <=> x = queue[1] \/ (\E i \in DOMAIN queue' : x = queue'[i])
    <3>1. \A x : \A i \in 1..n : x = queue[i] => x = queue[1] \/ \E k \in 1..(n - 1) : x = queue'[k]
      <4> SUFFICES ASSUME NEW x, NEW i \in 1..n, x = queue[i], x # queue[1]
                   PROVE  \E k \in 1..(n - 1) : x = queue'[k]
        OBVIOUS
      <4>1. i - 1 \in 1..(n - 1) /\ (i - 1) + 1 = i
        BY <2>3
      <4>2. queue'[i - 1] = queue[i]
        BY <1>4, <2>2, <4>1
      <4> QED BY <4>1, <4>2
    <3>2. \A x : \A k \in 1..(n - 1) : x = queue'[k] => \E i \in 1..n : x = queue[i]
      BY <1>4, <2>2
    <3>3. 1 \in 1..n
      BY <2>1
    <3> QED BY <1>4, <2>1, <2>2, <3>1, <3>2, <3>3
  <2>7. \A x : x \in Held <=> x \in Held'
    BY <1>1, <1>2, <2>4, <2>5, <2>6 DEF HeldIsSomewhere
  <2>8. Held' = Held
    BY <2>7
  <2> QED BY <1>1, <2>8, BooksUntouched
<1> QED BY <1>3, <1>4 DEF flush_one, Offered

\* A collection moves reports into an interval; a full queue loses one of its intervals.
CollectedBalanced(gap) ==
    Carried' + LossTotal(loss') = Carried + LossTotal(loss) + Len(NewInterval(gap).events)

LEMMA CollectBalanced ==
    ASSUME TypeInv, TypeInv', IntervalsInOrder, NEW gap \in Gaps, collect(gap, TRUE)
    PROVE  CollectedBalanced(gap)
<1> DEFINE r == NewInterval(gap)
           v == QueueVictim(queue)
           a == Carried
           b == LossTotal(loss)
           c == Carried'
           d == LossTotal(loss')
           k == Len(r.events)
<1>1. UNCHANGED <<messages, raw, stored, unknown>>
  BY DEF collect, sharedVars, writerVars
<1>2. HeldIsSomewhere /\ HeldIsSomewhere' /\ (Posted' <=> Posted)
  BY <1>1, HeldMembers, HeldMembersAfter DEF Posted
<1>3. Held \in SUBSET Interval /\ IsFiniteSet(Held)
  BY HeldMembers, HeldFinite
<1>4. r \in Interval /\ r.seq = sequence /\ r.events \in Seq(Event) /\ k \in Nat
  <2>1. r \in Interval /\ r.seq = sequence
    BY NewIntervalTyped DEF NewInterval
  <2> HIDE DEF r
  <2> QED BY <2>1, SeqOfInterval
<1>5. \A x \in Held : x.seq # r.seq
  <2>1. sequence \in Nat /\ \A x \in Held : x.seq < sequence /\ x.seq \in Nat
    BY SeqsDistinct DEF TypeInv, DiagnosticsTypes
  <2> QED BY <1>4, <2>1
<1>6. queue \in Seq(Interval) /\ loss \in LossTypes /\ "handoff" \in Places
  BY DEF TypeInv, DiagnosticsTypes, Places
<1>7. a \in Nat /\ b \in Nat /\ c \in Nat /\ d \in Nat
  BY BooksTyped, BooksTypedAfter
<1>8. \A q \in Seq(Interval) : queue' = Append(q, r) =>
          \A x : (\E i \in DOMAIN queue' : x = queue'[i]) <=> x = r \/ (\E i \in DOMAIN q : x = q[i])
  <2> SUFFICES ASSUME NEW q \in Seq(Interval), queue' = Append(q, r), NEW x
               PROVE  (\E i \in DOMAIN queue' : x = queue'[i])
                      <=> x = r \/ (\E i \in DOMAIN q : x = q[i])
    OBVIOUS
  <2> DEFINE n == Len(q)
  <2>1. n \in Nat /\ DOMAIN q = 1..n
    OBVIOUS
  <2> HIDE DEF r
  <2>2. DOMAIN queue' = 1..(n + 1) /\ queue'[n + 1] = r /\ \A i \in 1..n : queue'[i] = q[i]
    BY <1>4
  <2> HIDE DEF n
  <2>3. \A i : i \in 1..(n + 1) <=> i = n + 1 \/ i \in 1..n
    BY <2>1
  <2> QED BY <2>1, <2>2, <2>3
<1>9. CASE Refused(gap) /\ queue' = queue /\ loss' = CountedAt(loss, "handoff", r.events)
  <2>1. c = a
    <3>1. Held' = Held
      BY <1>1, <1>9 DEF Held
    <3> QED BY <3>1 DEF Carried
  <2>2. d = b + k
    BY <1>4, <1>6, <1>9, LossTotalGrows
  <2> HIDE DEF a, b, c, d, k
  <2>3. c + d = a + b + k
    BY <1>4, <1>7, <2>1, <2>2
  <2> QED BY <2>3 DEF a, b, c, d, k, CollectedBalanced
<1>10. CASE queue' = Append(queue, r) /\ loss' = loss
  <2>1. Held' = Held \cup {r}
    <3>1. \A x : (\E i \in DOMAIN queue' : x = queue'[i])
                 <=> x = r \/ (\E i \in DOMAIN queue : x = queue[i])
      BY <1>6, <1>8, <1>10
    <3> HIDE DEF r
    <3> QED BY <1>1, <1>2, <3>1 DEF HeldIsSomewhere
  <2>2. c = a + k
    <3> HIDE DEF r
    <3> QED BY <1>3, <1>4, <1>5, <2>1, CopiesChange DEF Carried
  <2>3. d = b
    BY <1>10
  <2> HIDE DEF a, b, c, d, k
  <2>4. c + d = a + b + k
    BY <1>4, <1>7, <2>2, <2>3
  <2> QED BY <2>4 DEF a, b, c, d, k, CollectedBalanced
<1>11. CASE /\ v \in DOMAIN queue /\ queue' = Append(RemoveAt(queue, v), r)
            /\ loss' = CountedAt(loss, "handoff", queue[v].events)
  <2> DEFINE w == queue[v]
             H == Held \ {w}
             m == Len(w.events)
             h == Weight(CopiesOf(H))
  <2>1. w \in Held /\ w \in Interval /\ w.events \in Seq(Event) /\ m \in Nat
    <3>1. w \in Held
      BY <1>2, <1>11 DEF HeldIsSomewhere
    <3> HIDE DEF w
    <3> QED BY <1>3, <3>1, SeqOfInterval
  <2>2. \A x \in Held : x # w => x.seq # w.seq
    BY <1>11, SeqsDistinct
  <2>3. w.seq \in Nat
    BY <2>1, SeqOfInterval
  <2>4. Held' = H \cup {r}
    <3>1. \A x : (\E i \in DOMAIN queue' : x = queue'[i])
                 <=> x = r \/ (\E j \in DOMAIN queue : j # v /\ x = queue[j])
      <4>1. v \in DOMAIN queue
        BY <1>11
      <4> DEFINE kept == RemoveAt(queue, v)
      <4> HIDE DEF r, v
      <4>2. kept \in Seq(Interval)
        BY <1>6, <4>1, RemoveAtProperties
      <4>3. \A x : (\E i \in DOMAIN kept : x = kept[i])
                   <=> (\E j \in DOMAIN queue : j # v /\ x = queue[j])
        <5>1. queue \in Seq(Interval)
          BY <1>6
        <5>2. \A s \in Seq(Interval) : \A i \in DOMAIN s :
                 \A x : (\E k1 \in DOMAIN RemoveAt(s, i) : x = RemoveAt(s, i)[k1])
                        <=> (\E j \in DOMAIN s : j # i /\ x = s[j])
          BY RemoveAtMembers
        <5>3. \A x : (\E k1 \in DOMAIN RemoveAt(queue, v) : x = RemoveAt(queue, v)[k1])
                        <=> (\E j \in DOMAIN queue : j # v /\ x = queue[j])
          BY <4>1, <5>1, <5>2
        <5> QED BY <5>3 DEF kept
      <4>4. queue' = Append(kept, r)
        BY <1>11
      <4> HIDE DEF kept
      <4>5. \A x : (\E i \in DOMAIN queue' : x = queue'[i])
                   <=> x = r \/ (\E i \in DOMAIN kept : x = kept[i])
        BY <1>8, <4>2, <4>4
      <4> QED BY <4>3, <4>5
    <3>2. \A j \in DOMAIN queue : j # v => queue[j] # w
      <4> SUFFICES ASSUME NEW j \in DOMAIN queue, j # v
                   PROVE  queue[j] # w
        OBVIOUS
      <4>1. j \in Nat /\ v \in Nat
        BY <1>6, <1>11
      <4>2. j < v \/ v < j
        BY <4>1
      <4>3. queue[j].seq < w.seq \/ w.seq < queue[j].seq
        BY <1>11, <4>2 DEF IntervalsInOrder, QueueInOrder
      <4> QED BY <2>3, <4>3
    <3>3. /\ Posted => messages[1] # w
          /\ raw # NONE => raw # w
          /\ w \notin stored \cup unknown
      <4>1. Posted => messages[1].seq < w.seq
        BY <1>11 DEF IntervalsInOrder, MailInOrder
      <4>2. raw # NONE => raw.seq < w.seq
        BY <1>11 DEF IntervalsInOrder, HandInOrder
      <4>3. \A x \in stored \cup unknown : x.seq < w.seq
        BY <1>11 DEF IntervalsInOrder, QueueInOrder, Fresh
      <4> QED BY <2>3, <4>1, <4>2, <4>3
    <3>4. w = queue[v] /\ v \in DOMAIN queue
      BY <1>11
    <3> HIDE DEF r, v, w
    <3>5. \A x : x \in Held' <=> x = r \/ (x \in Held /\ x # w)
      BY <1>1, <1>2, <3>1, <3>2, <3>3, <3>4 DEF HeldIsSomewhere
    <3> QED BY <3>5
  <2>5. a = h + m
    <3> HIDE DEF w
    <3> QED BY <1>3, <2>1, <2>2, CopiesChange DEF Carried
  <2>6. H \in SUBSET Interval /\ IsFiniteSet(H) /\ \A x \in H : x.seq # r.seq
    <3>1. IsFiniteSet(H)
      BY <1>3, FS_Subset
    <3> QED BY <1>3, <1>5, <3>1
  <2>7. Weight(CopiesOf(H \cup {r})) = h + k /\ h \in Nat
    <3> HIDE DEF H, r
    <3> QED BY <1>4, <2>6, CopiesChange
  <2>8. c = h + k
    BY <2>4, <2>7 DEF Carried
  <2>9. d = b + m
    <3> HIDE DEF w
    <3>1. loss' = CountedAt(loss, "handoff", w.events)
      BY <1>11 DEF w
    <3> QED BY <1>6, <2>1, <3>1, LossTotalGrows
  <2> HIDE DEF a, b, c, d, k, h, m
  <2>10. c + d = a + b + k
    BY <1>4, <1>7, <2>1, <2>5, <2>7, <2>8, <2>9
  <2> QED BY <2>10 DEF a, b, c, d, k, CollectedBalanced
<1> QED BY <1>9, <1>10, <1>11, CollectQueue

LEMMA BooksCollect ==
    TypeInv /\ TypeInv' /\ IntervalsInOrder /\ EventsConserved
        /\ (\E gap \in Gaps, fits \in BOOLEAN : collect(gap, fits))
    => EventsConserved'
<1> SUFFICES ASSUME TypeInv, TypeInv', IntervalsInOrder, EventsConserved,
                    NEW gap \in Gaps, NEW fits \in BOOLEAN, collect(gap, fits)
             PROVE  EventsConserved'
  OBVIOUS
<1>1. UNCHANGED <<messages, raw, stored, unknown, coalesced, submitted>>
  BY DEF collect, sharedVars, writerVars
<1>2. CASE fits = FALSE
  <2>1. UNCHANGED <<publications, events, queue, loss>>
    BY <1>2 DEF collect
  <2>2. Held' = Held
    BY <1>1, <2>1 DEF Held
  <2> QED BY <1>1, <2>1, <2>2, BooksUntouched
<1>3. CASE fits = TRUE
  <2>1. collect(gap, TRUE)
    BY <1>3
  <2> DEFINE a == Carried
             b == LossTotal(loss)
             c == Carried'
             d == LossTotal(loss')
             k == Len(TakenEvents)
             p == PendingCount
             q == PendingCount'
             m == coalesced
             left == SubSeq(publications, GroupsTaken + 1, Len(publications))
  <2>2. c + d = a + b + k
    <3>1. NewInterval(gap).events = TakenEvents
      BY DEF NewInterval
    <3> QED BY <2>1, <3>1, CollectBalanced DEF CollectedBalanced
  <2>3. events' = RemainingEvents /\ publications' = left
    BY <2>1 DEF collect
  <2>4. /\ k + Len(RemainingEvents) + Len(FlattenSeq(left)) = Len(events) + Len(FlattenSeq(publications))
        /\ TakenEvents \in Seq(Event) /\ RemainingEvents \in Seq(Event)
    BY TakenTyped
  <2>5. /\ a \in Nat /\ b \in Nat /\ c \in Nat /\ d \in Nat /\ p \in Nat /\ q \in Nat /\ m \in Nat
        /\ submitted \in Nat /\ Len(FlattenSeq(publications')) \in Nat
    BY BooksTyped, BooksTypedAfter
  <2>6. k + q = p
    <3> DEFINE u == Len(RemainingEvents)
               v == Len(FlattenSeq(left))
               w == Len(events) + Len(FlattenSeq(publications))
    <3>1. k \in Nat /\ u \in Nat /\ v \in Nat
      BY <2>3, <2>4, <2>5
    <3>2. q = u + v /\ p = w /\ k + u + v = w
      BY <2>3, <2>4 DEF PendingCount
    <3> HIDE DEF k, u, v, w, p, q
    <3> QED BY <3>1, <3>2
  <2>7. k \in Nat
    BY <2>4
  <2>8. OnTheBooks = a + p + b + m /\ OnTheBooks' = c + q + d + m
    BY <1>1 DEF OnTheBooks
  <2> HIDE DEF a, b, c, d, k, p, q, m
  <2>9. c + q + d + m = a + p + b + m + 0
    BY <2>2, <2>5, <2>6, <2>7
  <2>10. OnTheBooks' = OnTheBooks + 0
    BY <2>8, <2>9
  <2>11. submitted' = submitted + 0 /\ 0 \in Nat
    BY <1>1, <2>5
  <2> QED BY <2>10, <2>11, BooksKept
<1> QED BY <1>2, <1>3

\* The first k intervals of the queue.
FrontOf(k) == {queue[i] : i \in 1..k}

\* The whole queue carries what its flattened events say.
LEMMA QueueCarries ==
    ASSUME TypeInv, IntervalsInOrder
    PROVE  /\ Carried = Weight(CopiesOf(Held \ FrontOf(Len(queue)))) + Len(Waiting)
           /\ Len(Waiting) \in Nat
<1> DEFINE n == Len(queue)
           m == [i \in DOMAIN queue |-> queue[i].events]
           rest(k) == Weight(CopiesOf(Held \ FrontOf(k)))
<1>1. queue \in Seq(Interval) /\ n \in Nat /\ DOMAIN queue = 1..n
  BY DEF TypeInv, DiagnosticsTypes
<1>2. m \in Seq(Seq(Event)) /\ Waiting \in Seq(Event) /\ Waiting = FlattenSeq(m)
  BY StopFinds DEF Waiting
<1>3. Held \in SUBSET Interval /\ IsFiniteSet(Held) /\ HeldIsSomewhere
  BY HeldMembers, HeldFinite
<1>4. Len(m) = n /\ \A i \in 1..n : m[i] = queue[i].events
  BY <1>1
<1>5. CASE n = 0
  <2>1. m = <<>>
    BY <1>2, <1>4, <1>5, EmptySeq
  <2>2. Waiting = <<>>
    <3>1. FlattenSeq(m) = <<>>
      BY <1>2, <2>1, FlattenIsFlat
    <3> QED BY <1>2, <3>1
  <2>3. FrontOf(n) = {}
    BY <1>5 DEF FrontOf
  <2>4. Held \ FrontOf(n) = Held
    BY <2>3
  <2>5. Carried = rest(n) /\ Carried \in Nat
    BY <2>4, CarriedTyped DEF Carried
  <2>6. Len(Waiting) = 0
    BY <2>2
  <2> QED BY <2>5, <2>6
<1>6. CASE n # 0
  <2>1. m # <<>>
    BY <1>4, <1>6
  <2>2. PICK g : IsFlat(g, m, n) /\ FlattenSeq(m) = g[n]
    BY <1>2, <1>4, <2>1, FlattenIsFlat
  <2>3. \A i \in 1..n : g[i] = IF i = 1 THEN m[i] ELSE g[i-1] \o m[i]
    BY <2>2 DEF IsFlat
  <2> HIDE DEF m
  <2>4. \A k \in 0..(n - 1) :
            /\ rest(k) = rest(k + 1) + Len(m[k + 1]) /\ rest(k + 1) \in Nat
            /\ m[k + 1] \in Seq(Event)
    <3> SUFFICES ASSUME NEW k \in 0..(n - 1)
                 PROVE  /\ rest(k) = rest(k + 1) + Len(m[k + 1]) /\ rest(k + 1) \in Nat
                        /\ m[k + 1] \in Seq(Event)
      OBVIOUS
    <3> DEFINE w == queue[k + 1]
               H == Held \ FrontOf(k)
    <3>1. k \in Nat /\ k + 1 \in 1..n
      BY <1>1
    <3>2. w \in Held /\ w \in Interval /\ w.seq \in Nat /\ m[k + 1] = w.events /\ w.events \in Seq(Event)
      <4>1. w \in Held
        BY <1>1, <1>3, <3>1 DEF HeldIsSomewhere
      <4>2. m[k + 1] = w.events
        BY <1>4, <3>1
      <4> HIDE DEF w
      <4> QED BY <1>3, <4>1, <4>2, SeqOfInterval
    <3>3. w \in H
      <4> SUFFICES ASSUME NEW i \in 1..k, queue[i] = w
                   PROVE  FALSE
        BY <3>2 DEF FrontOf
      <4>1. i \in 1..n /\ i < k + 1
        BY <1>1, <3>1
      <4>2. queue[i].seq < w.seq
        BY <1>1, <3>1, <4>1 DEF IntervalsInOrder, QueueInOrder
      <4> QED BY <3>2, <4>2
    <3>4. \A x \in Held : x # w => x.seq # w.seq
      BY <1>1, <3>1, SeqsDistinct
    <3>5. H \in SUBSET Interval /\ IsFiniteSet(H)
      BY <1>3, FS_Subset
    <3>6. FrontOf(k + 1) = FrontOf(k) \cup {w}
      <4>1. \A i : i \in 1..(k + 1) <=> i \in 1..k \/ i = k + 1
        BY <3>1
      <4> QED BY <4>1 DEF FrontOf
    <3>7. H \ {w} = Held \ FrontOf(k + 1)
      BY <3>6
    <3> HIDE DEF w
    <3>8. \A x \in H : x # w => x.seq # w.seq
      BY <3>4
    <3>9. Weight(CopiesOf(H)) = Weight(CopiesOf(H \ {w})) + Len(w.events)
      <4> HIDE DEF H
      <4> QED BY <3>3, <3>5, <3>8, CopiesChange
    <3>10. H \ {w} \in SUBSET Interval /\ IsFiniteSet(H \ {w})
      BY <3>5, FS_RemoveElement
    <3>11. Weight(CopiesOf(H \ {w})) \in Nat
      BY <3>10, CopiesChange
    <3> QED BY <3>2, <3>7, <3>9, <3>11
  <2> DEFINE T == {k \in Nat : k + 1 \in 1..n => Carried = rest(k + 1) + Len(g[k + 1]) /\ g[k + 1] \in Seq(Event)}
  <2>5. Carried = rest(0)
    <3>1. Held \ FrontOf(0) = Held
      BY DEF FrontOf
    <3> QED BY <3>1 DEF Carried
  <2> HIDE DEF rest, n
  <2>6. 0 \in T
    <3>1. 0 \in 0..(n - 1) /\ 1 \in 1..n
      BY <1>1, <1>6
    <3>2. g[1] = m[1]
      BY <2>3, <3>1
    <3>3. rest(0) = rest(0 + 1) + Len(m[0 + 1]) /\ m[0 + 1] \in Seq(Event)
      BY <2>4, <3>1
    <3>4. 0 + 1 = 1
      OBVIOUS
    <3>5. Carried = rest(1) + Len(m[1]) /\ m[1] \in Seq(Event)
      BY <2>5, <3>3, <3>4
    <3>6. Carried = rest(0 + 1) + Len(g[0 + 1]) /\ g[0 + 1] \in Seq(Event)
      BY <3>2, <3>4, <3>5
    <3> QED BY <3>6
  <2>7. \A k \in T : k + 1 \in T
    <3> SUFFICES ASSUME NEW k \in T, (k + 1) + 1 \in 1..n
                 PROVE  /\ Carried = rest((k + 1) + 1) + Len(g[(k + 1) + 1])
                        /\ g[(k + 1) + 1] \in Seq(Event)
      OBVIOUS
    <3> DEFINE j == k + 1
    <3>1. j \in 0..(n - 1) /\ j \in 1..n /\ j + 1 \in 1..n /\ j + 1 # 1 /\ (j + 1) - 1 = j
      BY <1>1
    <3>2. Carried = rest(j) + Len(g[j]) /\ g[j] \in Seq(Event)
      <4>1. k + 1 \in 1..n => Carried = rest(k + 1) + Len(g[k + 1]) /\ g[k + 1] \in Seq(Event)
        OBVIOUS
      <4> QED BY <3>1, <4>1
    <3> HIDE DEF T, j
    <3>3. rest(j) = rest(j + 1) + Len(m[j + 1]) /\ rest(j + 1) \in Nat /\ m[j + 1] \in Seq(Event)
      BY <2>4, <3>1
    <3>4. g[j + 1] = g[j] \o m[j + 1]
      BY <2>3, <3>1
    <3>5. g[j + 1] \in Seq(Event) /\ Len(g[j + 1]) = Len(g[j]) + Len(m[j + 1])
      BY <3>2, <3>3, <3>4, ConcatProperties
    <3> DEFINE x == Len(g[j])
               y == Len(m[j + 1])
               z == Len(g[j + 1])
               u == rest(j)
               v == rest(j + 1)
    <3>6. x \in Nat /\ y \in Nat /\ v \in Nat /\ z = x + y /\ u = v + y /\ Carried = u + x
      BY <3>2, <3>3, <3>5
    <3> HIDE DEF x, y, z, u, v
    <3>7. Carried = v + z
      BY <3>6
    <3>8. Carried = rest(j + 1) + Len(g[j + 1])
      BY <3>7 DEF v, z
    <3> QED BY <3>5, <3>8 DEF j
  <2>8. T = Nat
    <3>1. T \in SUBSET Nat
      OBVIOUS
    <3> HIDE DEF T
    <3> QED BY <2>6, <2>7, <3>1, NaturalInduction, Zenon
  <2>9. Carried = rest(n) + Len(g[n])
    <3>1. n - 1 \in Nat /\ (n - 1) + 1 = n /\ n \in 1..n
      BY <1>1, <1>6
    <3>2. n - 1 \in T
      <4> HIDE DEF T
      <4> QED BY <2>8, <3>1
    <3>3. (n - 1) + 1 \in 1..n => Carried = rest((n - 1) + 1) + Len(g[(n - 1) + 1])
      BY <3>2
    <3> QED BY <3>1, <3>3
  <2>10. g[n] = Waiting
    BY <1>2, <2>2
  <2> QED BY <1>2, <2>9, <2>10 DEF rest, n
<1> QED BY <1>5, <1>6

LEMMA BooksStop ==
    TypeInv /\ TypeInv' /\ IntervalsInOrder /\ EventsConserved /\ stop => EventsConserved'
<1> SUFFICES ASSUME TypeInv, TypeInv', IntervalsInOrder, EventsConserved, stop
             PROVE  EventsConserved'
  OBVIOUS
<1> DEFINE w == messages[1]
           H == Held \ FrontOf(Len(queue))
           a == Carried
           b == LossTotal(loss)
           c == Carried'
           d == LossTotal(loss')
           p == PendingCount
           h == Weight(CopiesOf(H))
           x == Len(Waiting)
           y == Len(UnreadEvents)
           m == coalesced
<1>1. /\ UNCHANGED <<raw, stored, unknown, coalesced, submitted>>
      /\ queue' = <<>> /\ events' = <<>> /\ publications' = <<>>
      /\ IF started THEN messages' = <<NONE>> ELSE messages' = messages
  BY DEF stop, AfterStop, writerVars, historyVars
<1>2. HeldIsSomewhere /\ HeldIsSomewhere' /\ Held \in SUBSET Interval /\ IsFiniteSet(Held)
  BY HeldMembers, HeldMembersAfter, HeldFinite
<1>3. \A z : z \in FrontOf(Len(queue)) <=> \E i \in DOMAIN queue : z = queue[i]
  <2>1. DOMAIN queue = 1..Len(queue)
    BY DEF TypeInv, DiagnosticsTypes
  <2> QED BY <2>1 DEF FrontOf
<1>4. a = h + x /\ x \in Nat
  BY QueueCarries
<1>5. H \in SUBSET Interval /\ IsFiniteSet(H)
  BY <1>2, FS_Subset
<1>6. \A z : z \in H <=> \/ Posted /\ z = w
                         \/ raw # NONE /\ z = raw
                         \/ z \in stored \cup unknown
  <2>1. ASSUME NEW i \in DOMAIN queue
        PROVE  /\ Posted => w # queue[i]
               /\ raw # NONE => raw # queue[i]
               /\ queue[i] \notin stored \cup unknown
    <3>1. queue \in Seq(Interval)
      BY DEF TypeInv, DiagnosticsTypes
    <3>2. queue[i].seq \in Nat
      BY <3>1, SeqOfInterval
    <3>3. Posted => w.seq < queue[i].seq
      BY DEF IntervalsInOrder, MailInOrder
    <3>4. raw # NONE => raw.seq < queue[i].seq
      BY DEF IntervalsInOrder, HandInOrder
    <3>5. \A z \in stored \cup unknown : z.seq < queue[i].seq
      BY DEF IntervalsInOrder, QueueInOrder, Fresh
    <3>6. /\ Posted => w # queue[i]
          /\ raw # NONE => raw # queue[i]
      BY <3>2, <3>3, <3>4
    <3>7. queue[i] \notin stored \cup unknown
      BY <3>2, <3>5
    <3> QED BY <3>6, <3>7
  <2> HIDE DEF w
  <2>2. \A z : z \in Held <=> \/ \E i \in DOMAIN queue : z = queue[i]
                              \/ Posted /\ z = w
                              \/ raw # NONE /\ z = raw
                              \/ z \in stored \cup unknown
    BY <1>2 DEF HeldIsSomewhere, w
  <2> QED BY <1>3, <2>1, <2>2
<1>7. \A z : z \in Held' <=> \/ Posted' /\ z = messages'[1]
                             \/ raw # NONE /\ z = raw
                             \/ z \in stored \cup unknown
  <2>1. DOMAIN queue' = {}
    BY <1>1
  <2> QED BY <1>1, <1>2, <2>1 DEF HeldIsSomewhere
<1> HIDE DEF H
<1>8. a = c + x + y /\ y \in Nat
  <2>1. CASE started /\ Posted
    <3>1. ~Posted' /\ y = Len(w.events)
      BY <1>1, <2>1 DEF Posted, UnreadEvents
    <3>2. w \in H /\ w \in Interval /\ w.seq \in Nat /\ Len(w.events) \in Nat
      <4>1. w \in H
        BY <1>6, <2>1
      <4> HIDE DEF w
      <4> QED BY <1>5, <4>1, SeqOfInterval
    <3>3. \A z \in H : z # w => z.seq # w.seq
      BY <2>1, SeqsDistinct DEF H
    <3>4. (raw # NONE => raw # w) /\ w \notin stored \cup unknown
      <4>1. raw # NONE => raw.seq < w.seq
        BY <2>1 DEF IntervalsInOrder, HandInOrder
      <4>2. \A z \in stored \cup unknown : z.seq < w.seq
        BY <2>1 DEF IntervalsInOrder, MailInOrder, Fresh
      <4> QED BY <3>2, <4>1, <4>2
    <3> HIDE DEF w
    <3>5. Held' = H \ {w}
      <4>1. \A z : z \in Held' <=> z \in H /\ z # w
        BY <1>6, <1>7, <2>1, <3>1, <3>4
      <4> QED BY <4>1
    <3>6. h = Weight(CopiesOf(H \ {w})) + Len(w.events)
      BY <1>5, <3>2, <3>3, CopiesChange
    <3>7. c = Weight(CopiesOf(H \ {w}))
      BY <3>5 DEF Carried
    <3>8. h = c + y /\ c \in Nat /\ y \in Nat
      BY <3>1, <3>2, <3>6, <3>7, BooksTypedAfter
    <3> HIDE DEF a, c, h, x, y
    <3> QED BY <1>4, <3>8
  <2>2. CASE ~ (started /\ Posted)
    <3>1. y = 0
      BY <2>2 DEF UnreadEvents
    <3>2. Held' = H
      <4>1. Posted' <=> Posted
        BY <1>1, <2>2 DEF Posted
      <4>2. Posted => messages' = messages
        BY <1>1, <2>2
      <4>3. \A z : z \in Held' <=> z \in H
        BY <1>6, <1>7, <4>1, <4>2
      <4> QED BY <4>3
    <3>3. h = c /\ c \in Nat
      BY <3>2, BooksTypedAfter DEF Carried
    <3> HIDE DEF a, c, h, x, y
    <3> QED BY <1>4, <3>1, <3>3
  <2> QED BY <2>1, <2>2
<1>9. d = b + x + p + y
  <2>1. d = b + x + Len(Pending) + y
    BY StopLoss
  <2>2. Len(Pending) = Len(FlattenSeq(publications)) + Len(events)
    BY StopFinds
  <2>3. Len(FlattenSeq(publications)) \in Nat /\ Len(events) \in Nat
    BY BooksTyped
  <2>4. Len(Pending) = p
    BY <2>2, <2>3 DEF PendingCount
  <2> QED BY <2>1, <2>4
<1>10. PendingCount' = 0
  <2>1. FlattenSeq(<<>>) = <<>>
    BY DEF FlattenSeq
  <2>2. Len(events') = 0 /\ Len(FlattenSeq(publications')) = 0
    BY <1>1, <2>1
  <2> QED BY <2>2 DEF PendingCount
<1>11. /\ a \in Nat /\ b \in Nat /\ c \in Nat /\ d \in Nat /\ p \in Nat /\ m \in Nat
       /\ submitted \in Nat
  BY BooksTyped, BooksTypedAfter
<1>12. OnTheBooks = a + p + b + m /\ OnTheBooks' = c + 0 + d + m
  BY <1>1, <1>10 DEF OnTheBooks
<1> HIDE DEF a, b, c, d, p, h, x, y, m
<1>13. c + 0 + d + m = a + p + b + m + 0
  BY <1>4, <1>8, <1>9, <1>11
<1>14. OnTheBooks' = OnTheBooks + 0
  BY <1>12, <1>13
<1>15. submitted' = submitted + 0 /\ 0 \in Nat
  BY <1>1, <1>11
<1> QED BY <1>14, <1>15, BooksKept

LEMMA BooksPreserved ==
    TypeInv /\ TypeInv' /\ IntervalsInOrder /\ EventsConserved /\ [Next]_vars => EventsConserved'
<1> SUFFICES ASSUME TypeInv, TypeInv', IntervalsInOrder, EventsConserved, [Next]_vars
             PROVE  EventsConserved'
  OBVIOUS
<1>1. CASE WriterStep
  BY <1>1, BooksWriter
<1>2. CASE UNCHANGED <<queue, messages, raw, stored, unknown, events, publications, loss,
                       coalesced, submitted>>
  <2>1. Held' = Held
    BY <1>2 DEF Held
  <2> QED BY <1>2, <2>1, BooksUntouched
<1>3. CASE start \/ recording_failed \/ collect_watermark
  BY <1>2, <1>3 DEF start, recording_failed, collect_watermark, sharedVars, writerVars, historyVars
<1>4. CASE \E k \in Keys : CadenceElapses(k)
  BY <1>2, <1>4 DEF CadenceElapses, sharedVars, writerVars, historyVars
<1>5. CASE UNCHANGED vars
  BY <1>2, <1>5 DEF vars, recorderVars, sharedVars, writerVars, historyVars
<1>6. CASE stop
  BY <1>6, BooksStop
<1>7. CASE \E kind \in {"proof", "storage"} : event(kind)
  BY <1>7, BooksEvent
<1>8. CASE \E k \in Keys, s \in Scopes : optional_events(k, s)
  BY <1>8, BooksOptionalEvents
<1>9. CASE \E k \in Keys : optional_event_refused(k)
  BY <1>9, BooksRefused
<1>10. CASE \E n \in 1..EventCap, bad \in 0..1 : publication(n, bad)
  BY <1>10, BooksPublication
<1>11. CASE \E gap \in Gaps, fits \in BOOLEAN : collect(gap, fits)
  BY <1>11, BooksCollect
<1>12. CASE \E permit \in BOOLEAN : flush_one(permit)
  BY <1>12, BooksFlush
<1> QED BY <1>1, <1>3, <1>4, <1>5, <1>6, <1>7, <1>8, <1>9, <1>10, <1>11, <1>12
        DEF Next, RecorderStep

\* Each optional stream occurs once.
OneEach(s) == \A i, j \in DOMAIN s : IsOptional(s[i]) /\ s[i].kind = s[j].kind => i = j

LEMMA OneEachAppend ==
    \A s \in Seq(Event), e \in Event :
        OneEach(s) /\ (IsOptional(e) => \A i \in DOMAIN s : s[i].kind # e.kind)
        => OneEach(Append(s, e))
<1> SUFFICES ASSUME NEW s \in Seq(Event), NEW e \in Event, OneEach(s),
                    IsOptional(e) => \A i \in DOMAIN s : s[i].kind # e.kind
             PROVE  OneEach(Append(s, e))
  OBVIOUS
<1> DEFINE t == Append(s, e)
           n == Len(s)
<1>1. n \in Nat /\ DOMAIN s = 1..n /\ DOMAIN t = 1..(n + 1) /\ t[n + 1] = e /\ \A i \in 1..n : t[i] = s[i]
  OBVIOUS
<1> HIDE DEF t, n
<1>2. \A i : i \in 1..(n + 1) => i = n + 1 \/ i \in 1..n
  BY <1>1
<1>3. ASSUME NEW i \in 1..(n + 1), NEW j \in 1..(n + 1), IsOptional(t[i]), t[i].kind = t[j].kind
      PROVE  i = j
  <2>1. CASE i \in 1..n /\ j \in 1..n
    BY <1>1, <1>3, <2>1 DEF OneEach
  <2>2. CASE i = n + 1 /\ j \in 1..n
    BY <1>1, <1>3, <2>2
  <2>3. CASE i \in 1..n /\ j = n + 1
    <3>1. s[i].kind = e.kind /\ IsOptional(e)
      BY <1>1, <1>3, <2>3 DEF IsOptional
    <3> QED BY <1>1, <2>3, <3>1
  <2> QED BY <1>2, <1>3, <2>1, <2>2, <2>3
<1> QED BY <1>1, <1>3 DEF OneEach, t

LEMMA OneEachPart ==
    \A s, t, p :
        /\ OneEach(s) /\ p \in [DOMAIN t -> DOMAIN s]
        /\ (\A n \in DOMAIN t : t[n] = s[p[n]])
        /\ (\A n, k \in DOMAIN t : p[n] = p[k] => n = k)
        => OneEach(t)
<1> SUFFICES ASSUME NEW s, NEW t, NEW p \in [DOMAIN t -> DOMAIN s], OneEach(s),
                    \A n \in DOMAIN t : t[n] = s[p[n]],
                    \A n, k \in DOMAIN t : p[n] = p[k] => n = k,
                    NEW i \in DOMAIN t, NEW j \in DOMAIN t, IsOptional(t[i]), t[i].kind = t[j].kind
             PROVE  i = j
  BY DEF OneEach
<1>1. p[i] \in DOMAIN s /\ p[j] \in DOMAIN s
  OBVIOUS
<1>2. IsOptional(s[p[i]]) /\ s[p[i]].kind = s[p[j]].kind
  OBVIOUS
<1>3. p[i] = p[j]
  BY <1>1, <1>2 DEF OneEach
<1> QED BY <1>3

LEMMA OneEachRemoved ==
    \A s \in Seq(Event) : \A v \in DOMAIN s : OneEach(s) => OneEach(RemoveAt(s, v))
<1> SUFFICES ASSUME NEW s \in Seq(Event), NEW v \in DOMAIN s, OneEach(s)
             PROVE  OneEach(RemoveAt(s, v))
  OBVIOUS
<1> DEFINE t == RemoveAt(s, v)
           n == Len(s)
           p == [k \in 1..(n - 1) |-> IF k < v THEN k ELSE k + 1]
<1>1. n \in Nat /\ DOMAIN s = 1..n /\ v \in 1..n
  OBVIOUS
<1>2. /\ t \in Seq(Event) /\ Len(t) = n - 1
      /\ \A k \in 1..(n - 1) : t[k] = IF k < v THEN s[k] ELSE s[k + 1]
  BY RemoveAtProperties
<1> HIDE DEF t, n
<1>3. DOMAIN t = 1..(n - 1)
  BY <1>1, <1>2
<1>4. p \in [DOMAIN t -> DOMAIN s] /\ \A j, k \in DOMAIN t : p[j] = p[k] => j = k
  BY <1>1, <1>3
<1>5. \A k \in DOMAIN t : t[k] = s[p[k]]
  BY <1>1, <1>2, <1>3
<1> HIDE DEF p
<1> QED BY <1>4, <1>5, OneEachPart DEF t

LEMMA OnePendingPreserved ==
    TypeInv /\ TypeInv' /\ OnePendingPerStream /\ [Next]_vars => OnePendingPerStream'
<1> SUFFICES ASSUME TypeInv, TypeInv', OnePendingPerStream, [Next]_vars
             PROVE  OnePendingPerStream'
  OBVIOUS
<1>1. OneEach(events) /\ events \in Seq(Event) /\ submitted \in Nat
  BY DEF OnePendingPerStream, OneEach, TypeInv, DiagnosticsTypes
<1> SUFFICES OneEach(events')
  BY DEF OnePendingPerStream, OneEach
<1>2. CASE events' = events
  BY <1>1, <1>2
<1>3. WriterStep \/ UNCHANGED vars => events' = events
  BY DEF WriterStep, writer_open, writer_top, writer_get, writer_gate, writer_append,
         writer_verify, writer_exit, writer_drain, writer_dead, WriterFrame, recorderVars, vars
<1>4. \/ start \/ recording_failed \/ collect_watermark
      \/ \E k \in Keys : optional_event_refused(k) \/ CadenceElapses(k)
      \/ \E n \in 1..EventCap, bad \in 0..1 : publication(n, bad)
      \/ \E permit \in BOOLEAN : flush_one(permit)
      => events' = events
  BY DEF start, recording_failed, collect_watermark, optional_event_refused, CadenceElapses,
         publication, flush_one
<1>5. CASE stop
  <2>1. events' = <<>>
    BY <1>5 DEF stop
  <2> QED BY <2>1 DEF OneEach
<1>6. CASE \E kind \in {"proof", "storage"} : event(kind)
  <2>1. PICK kind \in {"proof", "storage"} : event(kind)
    BY <1>6
  <2> DEFINE e == NewEvent(kind, NONE)
             v == Victim(events)
  <2>2. e \in Event /\ ~IsOptional(e)
    <3>1. e.kind = kind
      BY DEF NewEvent
    <3> QED BY <1>1, <3>1, NewEventTyped, DiagnosticsBounds DEF IsOptional
  <2>3. \/ events' = events \/ events' = Append(events, e)
        \/ Len(events) = EventCap /\ events' = Append(RemoveAt(events, v), e)
    BY <2>1 DEF event
  <2> HIDE DEF e
  <2>4. CASE events' = Append(events, e)
    BY <1>1, <2>2, <2>4, OneEachAppend
  <2>5. CASE Len(events) = EventCap /\ events' = Append(RemoveAt(events, v), e)
    <3> DEFINE rest == RemoveAt(events, v)
    <3>1. v \in DOMAIN events
      <4>1. events # <<>>
        BY <2>5, DiagnosticsBounds
      <4> QED BY <1>1, <4>1, VictimProperties
    <3>2. rest \in Seq(Event) /\ OneEach(rest)
      <4> HIDE DEF v
      <4> QED BY <1>1, <3>1, RemoveAtProperties, OneEachRemoved
    <3>3. events' = Append(rest, e)
      BY <2>5
    <3> HIDE DEF rest
    <3> QED BY <2>2, <3>2, <3>3, OneEachAppend
  <2> QED BY <1>2, <2>3, <2>4, <2>5
<1>7. CASE \E k \in Keys, s \in Scopes : optional_events(k, s)
  <2>1. PICK k \in Keys, s \in Scopes : optional_events(k, s)
    BY <1>7
  <2> DEFINE e == NewEvent(k, s)
  <2>2. e \in Event /\ e.kind = k
    BY <1>1, NewEventTyped DEF NewEvent
  <2>3. \/ \E i \in DOMAIN events : events[i].kind = k /\ events' = [events EXCEPT ![i] = e]
        \/ (\A i \in DOMAIN events : events[i].kind # k) /\ events' = Append(events, e)
    BY <2>1 DEF optional_events, QueuedAt
  <2> HIDE DEF e
  <2>4. CASE \E i \in DOMAIN events : events[i].kind = k /\ events' = [events EXCEPT ![i] = e]
    <3>1. PICK i \in DOMAIN events : events[i].kind = k /\ events' = [events EXCEPT ![i] = e]
      BY <2>4
    <3>2. DOMAIN events' = DOMAIN events /\ \A j \in DOMAIN events : events'[j].kind = events[j].kind
      BY <1>1, <2>2, <3>1
    <3> QED BY <1>1, <3>2 DEF OneEach, IsOptional
  <2>5. CASE (\A i \in DOMAIN events : events[i].kind # k) /\ events' = Append(events, e)
    BY <1>1, <2>2, <2>5, OneEachAppend
  <2> QED BY <2>3, <2>4, <2>5
<1>8. CASE \E gap \in Gaps, fits \in BOOLEAN : collect(gap, fits)
  <2>1. events' = events \/ events' = RemainingEvents
    BY <1>8 DEF collect
  <2> DEFINE t == RemainingEvents
  <2>2. t \in Seq(Event)
        /\ \E p \in [1..Len(t) -> DOMAIN events] :
              /\ \A n \in 1..Len(t) : t[n] = events[p[n]]
              /\ \A n, k \in 1..Len(t) : p[n] = p[k] => n = k
    BY <1>1, EventsSplit
  <2> HIDE DEF t
  <2>3. DOMAIN t = 1..Len(t)
    BY <2>2
  <2>4. PICK p \in [1..Len(t) -> DOMAIN events] :
              /\ \A n \in 1..Len(t) : t[n] = events[p[n]]
              /\ \A n, k \in 1..Len(t) : p[n] = p[k] => n = k
    BY <2>2
  <2>5. /\ p \in [DOMAIN t -> DOMAIN events]
        /\ \A n \in DOMAIN t : t[n] = events[p[n]]
        /\ \A n, k \in DOMAIN t : p[n] = p[k] => n = k
    BY <2>3, <2>4
  <2>6. OneEach(events)
    BY <1>1
  <2>7. OneEach(t)
    BY <2>5, <2>6, OneEachPart, Zenon
  <2> QED BY <1>2, <2>1, <2>7 DEF t
<1> QED BY <1>2, <1>3, <1>4, <1>5, <1>6, <1>7, <1>8 DEF Next, RecorderStep

LEMMA AccountedInitially == Init => EventsAccounted
<1> SUFFICES ASSUME Init
             PROVE  EventsAccounted
  OBVIOUS
<1>1. TypeInv
  BY InitTyped
<1>2. OnePendingPerStream
  BY DEF Init, OnePendingPerStream
<1>3. EventsConserved
  <2>1. /\ events = <<>> /\ publications = <<>> /\ coalesced = 0 /\ submitted = 0
        /\ queue = <<>> /\ messages = <<>> /\ raw = NONE /\ stored = {} /\ unknown = {}
        /\ loss = [p \in Places |-> [c \in Categories |-> 0]]
    BY DEF Init
  <2>2. Len(events) = 0 /\ Len(FlattenSeq(publications)) = 0
    <3>1. FlattenSeq(<<>>) = <<>>
      BY DEF FlattenSeq
    <3> QED BY <2>1, <3>1
  <2>3. Carried = 0
    <3>1. Held = {}
      <4>1. DOMAIN queue = {} /\ ~Posted
        BY <2>1 DEF Posted
      <4>2. HeldIsSomewhere
        BY <1>1, HeldMembers
      <4>3. \A x : x \notin Held
        BY <2>1, <4>1, <4>2 DEF HeldIsSomewhere
      <4> QED BY <4>3
    <3>2. CopiesOf(Held) = {}
      BY <3>1 DEF CopiesOf
    <3> DEFINE f == [x \in {} |-> Len(x.events)]
    <3>3. Carried = SumFunctionOnSet(f, {})
      BY <3>2 DEF Carried, Weight
    <3> HIDE DEF f
    <3> QED BY <3>3, FS_EmptySet, SumType
  <2>4. LossTotal(loss) = 0
    <3> DEFINE f == [p \in Places |-> loss[p]["protected"] + loss[p]["other"]]
    <3>1. \A p \in Places : f[p] = 0
      BY <2>1 DEF Categories
    <3>2. DOMAIN f = Places
      OBVIOUS
    <3>3. IsFiniteSet(Places)
      BY PlacesFinite
    <3>4. LossTotal(loss) = SumFunctionOnSet(f, Places)
      BY <3>2 DEF LossTotal, SumFunction
    <3> HIDE DEF f
    <3> QED BY <3>1, <3>3, <3>4, SumType
  <2> QED BY <2>1, <2>2, <2>3, <2>4, ConservedNow
<1> QED BY <1>1, <1>2, <1>3 DEF EventsAccounted, TypeInv

\* Every event handed to the recorder is accounted for exactly once, whichever thread has it:
\* pending, in an interval on its way, saved, replaced by a newer sample, of unknown fate or
\* counted as lost in its category, also when a save raises after its commit and when the loop
\* stops the writer in the middle of a record (DiagnosticsRecorder, DiagnosticsWriter._run).
THEOREM EventsAlwaysAccounted == Spec => []EventsAccounted
<1>1. Init => TypeInv /\ IntervalsInOrder /\ EventsAccounted
  BY InitTyped, OrderInitially, AccountedInitially
<1>2. TypeInv /\ IntervalsInOrder /\ EventsAccounted /\ [Next]_vars
      => TypeInv' /\ IntervalsInOrder' /\ EventsAccounted'
  <2> SUFFICES ASSUME TypeInv, IntervalsInOrder, EventsAccounted, [Next]_vars
               PROVE  TypeInv' /\ IntervalsInOrder' /\ EventsAccounted'
    OBVIOUS
  <2>1. TypeInv' /\ IntervalsInOrder'
    BY NextTyped, OrderPreserved
  <2>2. EventsConserved' /\ OnePendingPerStream'
    BY <2>1, BooksPreserved, OnePendingPreserved DEF EventsAccounted
  <2> QED BY <2>1, <2>2 DEF EventsAccounted, TypeInv
<1> QED BY <1>1, <1>2, PTL DEF Spec

-----------------------------------------------------------------------------
(* What pressure displaces.                                                *)

ProtectedEvents == {x \in Event : Protected(x)}
ProtectedIntervals == {x \in Interval : protected(x)}

\* The two halves of ProtectedLast.
DetailFirst ==
    loss'["event_capacity"]["protected"] > loss["event_capacity"]["protected"] /\ events' # events
    => \A i \in DOMAIN events' : Protected(events'[i])
DetailIntervalsFirst ==
    loss'["handoff"]["protected"] > loss["handoff"]["protected"]
    => \A i \in DOMAIN queue' : protected(queue'[i])

\* Replacing a member of a sequence over a set by another of that set.
LEMMA ReplacedWithin ==
    \A S, T : \A s \in Seq(S) : \A v \in DOMAIN s, e \in T :
        (\A i \in DOMAIN s : s[i] \in T)
        => \A i \in DOMAIN Append(RemoveAt(s, v), e) : Append(RemoveAt(s, v), e)[i] \in T
<1> SUFFICES ASSUME NEW S, NEW T, NEW s \in Seq(S), NEW v \in DOMAIN s, NEW e \in T,
                    \A i \in DOMAIN s : s[i] \in T
             PROVE  \A i \in DOMAIN Append(RemoveAt(s, v), e) : Append(RemoveAt(s, v), e)[i] \in T
  OBVIOUS
<1> DEFINE rest == RemoveAt(s, v)
<1>1. s \in Seq(T)
  <2>1. s \in [1..Len(s) -> T] /\ Len(s) \in Nat
    OBVIOUS
  <2> QED BY <2>1
<1>2. rest \in Seq(T)
  BY <1>1, RemoveAtProperties
<1> HIDE DEF rest
<1>3. Append(rest, e) \in Seq(T)
  BY <1>2
<1> QED BY <1>3 DEF rest

\* A sequence raises the count of protected losses only when it holds a protected event, and
\* leaves the counts of other places alone.
LEMMA CountedProtected ==
    \A l \in LossTypes, place \in Places, s \in Seq(Event) :
        /\ \A p \in Places : p # place => CountedAt(l, place, s)[p] = l[p]
        /\ CountedAt(l, place, s)[place]["protected"]
            = l[place]["protected"] + event_counts(s)["protected"]
        /\ event_counts(s)["protected"] \in Nat /\ l[place]["protected"] \in Nat
<1> SUFFICES ASSUME NEW l \in LossTypes, NEW place \in Places, NEW s \in Seq(Event)
             PROVE  /\ \A p \in Places : p # place => CountedAt(l, place, s)[p] = l[p]
                    /\ CountedAt(l, place, s)[place]["protected"]
                        = l[place]["protected"] + event_counts(s)["protected"]
                    /\ event_counts(s)["protected"] \in Nat /\ l[place]["protected"] \in Nat
  OBVIOUS
<1>1. "protected" \in Categories
  BY DEF Categories
<1>2. event_counts(s) \in [Categories -> Nat]
  BY CountsEveryEvent
<1>3. l[place] \in [Categories -> Nat] /\ DOMAIN l = Places
  BY DEF LossTypes
<1>4. CountedAt(l, place, s) = [l EXCEPT ![place] = add_counts(l[place], s)]
  BY DEF CountedAt
<1>5. add_counts(l[place], s)["protected"] = l[place]["protected"] + event_counts(s)["protected"]
  BY <1>1 DEF add_counts
<1> QED BY <1>1, <1>2, <1>3, <1>4, <1>5

\* One event counts as protected only when it is.
LEMMA OneCounted ==
    \A e \in Event : event_counts(<<e>>)["protected"] > 0 => Protected(e)
<1> SUFFICES ASSUME NEW e \in Event, event_counts(<<e>>)["protected"] > 0, ~Protected(e)
             PROVE  FALSE
  OBVIOUS
<1>1. {i \in DOMAIN <<e>> : Category(<<e>>[i]) = "protected"} = {}
  BY DEF Category
<1>2. event_counts(<<e>>)["protected"] = Cardinality({})
  BY <1>1 DEF event_counts, Categories
<1> QED BY <1>2, FS_EmptySet

\* A step that keeps the deque and the handoff count displaces nothing.
LEMMA NothingDisplaced ==
    ASSUME TypeInv, events' = events \/ loss' = loss, loss'["handoff"] = loss["handoff"]
    PROVE  DetailFirst /\ DetailIntervalsFirst
<1>1. loss["handoff"]["protected"] \in Nat /\ loss["event_capacity"]["protected"] \in Nat
  BY DEF TypeInv, DiagnosticsTypes, LossTypes, Places, Categories
<1>2. DetailIntervalsFirst
  BY <1>1 DEF DetailIntervalsFirst
<1>3. DetailFirst
  <2>1. CASE events' = events
    BY <2>1 DEF DetailFirst
  <2>2. CASE loss' = loss
    BY <1>1, <2>2 DEF DetailFirst
  <2> QED BY <2>1, <2>2
<1> QED BY <1>2, <1>3

\* event() gives up a protected event only when its deque holds nothing else.
LEMMA EventDisplaces ==
    ASSUME TypeInv, NEW kind \in {"proof", "storage"}, event(kind)
    PROVE  DetailFirst /\ DetailIntervalsFirst
<1> DEFINE e == NewEvent(kind, NONE)
           v == Victim(events)
           isFull == Len(events) = EventCap
           noRoom == isFull /\ ~Protected(e) /\ \A i \in DOMAIN events : Protected(events[i])
<1>1. /\ events \in Seq(Event) /\ loss \in LossTypes /\ EventCap \in Nat \ {0, 1}
      /\ submitted \in Nat
  BY DiagnosticsBounds DEF TypeInv, DiagnosticsTypes
<1>2. e \in Event
  BY <1>1, NewEventTyped
<1>3. DOMAIN loss = Places /\ "handoff" \in Places /\ "event_capacity" \in Places
      /\ "event_input" \in Places
  BY <1>1 DEF LossTypes, Places
<1>4. \/ events' = events /\ \E p \in {"event_input", "event_capacity"}, s \in {<<e>>} : loss' = Lost(p, s)
      \/ /\ isFull /\ ~noRoom
         /\ loss' = Lost("event_capacity", <<events[v]>>)
         /\ events' = Append(RemoveAt(events, v), e)
      \/ loss' = loss
  BY DEF event
<1>5. CASE events' = events /\ \E p \in {"event_input", "event_capacity"}, s \in {<<e>>} : loss' = Lost(p, s)
  <2> HIDE DEF e
  <2>1. loss'["handoff"] = loss["handoff"]
    BY <1>3, <1>5 DEF Lost
  <2> QED BY <1>5, <2>1, NothingDisplaced
<1>6. CASE loss' = loss
  BY <1>6, NothingDisplaced
<1>7. CASE /\ isFull /\ ~noRoom
           /\ loss' = Lost("event_capacity", <<events[v]>>)
           /\ events' = Append(RemoveAt(events, v), e)
  <2>1. v \in DOMAIN events /\ (Protected(events[v]) => \A i \in DOMAIN events : Protected(events[i]))
    <3>1. events # <<>>
      BY <1>1, <1>7
    <3> QED BY <1>1, <3>1, VictimProperties
  <2>2. events[v] \in Event /\ <<events[v]>> \in Seq(Event)
    <3> HIDE DEF v
    <3> QED BY <1>1, <2>1
  <2>3. loss' = CountedAt(loss, "event_capacity", <<events[v]>>)
    BY <1>7 DEF CountedAt, Lost
  <2> DEFINE s == <<events[v]>>
  <2> HIDE DEF s
  <2>4. /\ loss'["handoff"] = loss["handoff"]
        /\ loss'["event_capacity"]["protected"]
            = loss["event_capacity"]["protected"] + event_counts(s)["protected"]
        /\ event_counts(s)["protected"] \in Nat /\ loss["event_capacity"]["protected"] \in Nat
    <3>1. s \in Seq(Event) /\ loss' = CountedAt(loss, "event_capacity", s)
      BY <2>2, <2>3 DEF s
    <3> QED BY <1>1, <1>3, <3>1, CountedProtected
  <2>5. ASSUME loss'["event_capacity"]["protected"] > loss["event_capacity"]["protected"]
        PROVE  \A i \in DOMAIN events' : Protected(events'[i])
    <3>1. event_counts(s)["protected"] > 0
      BY <2>4, <2>5
    <3>2. Protected(events[v])
      BY <2>2, <3>1, OneCounted DEF s
    <3>3. \A i \in DOMAIN events : Protected(events[i])
      BY <2>1, <3>2
    <3>4. Protected(e)
      BY <1>7, <3>3
    <3>5. e \in ProtectedEvents /\ \A i \in DOMAIN events : events[i] \in ProtectedEvents
      BY <1>1, <1>2, <3>3, <3>4 DEF ProtectedEvents
    <3>6. \A i \in DOMAIN events' : events'[i] \in ProtectedEvents
      <4> HIDE DEF e, v
      <4> QED BY <1>1, <1>7, <2>1, <3>5, ReplacedWithin
    <3> QED BY <3>6 DEF ProtectedEvents
  <2>6. loss["handoff"]["protected"] \in Nat
    BY <1>1 DEF LossTypes, Places, Categories
  <2>7. DetailIntervalsFirst
    BY <2>4, <2>6 DEF DetailIntervalsFirst
  <2>8. DetailFirst
    BY <2>5 DEF DetailFirst
  <2> QED BY <2>7, <2>8
<1> QED BY <1>4, <1>5, <1>6, <1>7

\* A collection gives up an interval with protected evidence only when all queued ones have
\* some.
LEMMA CollectDisplaces ==
    ASSUME TypeInv, NEW gap \in Gaps, NEW fits \in BOOLEAN, collect(gap, fits)
    PROVE  DetailFirst /\ DetailIntervalsFirst
<1> DEFINE r == NewInterval(gap)
           v == QueueVictim(queue)
<1>1. /\ queue \in Seq(Interval) /\ loss \in LossTypes /\ Len(queue) <= QueueCap
      /\ QueueCap \in Nat \ {0} /\ Len(queue) \in Nat
  BY DiagnosticsBounds DEF TypeInv, DiagnosticsTypes, DiagnosticsTypeOK
<1>2. r \in Interval /\ r.events \in Seq(Event)
  BY NewIntervalTyped DEF Interval
<1>3. /\ loss["handoff"]["protected"] \in Nat /\ loss["event_capacity"]["protected"] \in Nat
      /\ "handoff" \in Places /\ "event_capacity" \in Places
  BY <1>1 DEF LossTypes, Places, Categories
<1>4. CASE fits = FALSE
  <2>1. loss' = loss
    BY <1>4 DEF collect
  <2> QED BY <2>1, NothingDisplaced
<1>5. CASE fits = TRUE
  <2>1. collect(gap, TRUE)
    BY <1>5
  <2>2. \/ /\ Refused(gap)
           /\ queue' = queue /\ loss' = CountedAt(loss, "handoff", r.events)
        \/ /\ Len(queue) = QueueCap /\ ~Refused(gap) /\ v \in DOMAIN queue
           /\ queue' = Append(RemoveAt(queue, v), r)
           /\ loss' = CountedAt(loss, "handoff", queue[v].events)
        \/ loss' = loss
    BY <2>1, CollectQueue
  <2>3. CASE loss' = loss
    BY <2>3, NothingDisplaced
  <2>4. ASSUME NEW s \in Seq(Event), loss' = CountedAt(loss, "handoff", s),
               event_counts(s)["protected"] > 0 => \A i \in DOMAIN queue' : protected(queue'[i])
        PROVE  DetailFirst /\ DetailIntervalsFirst
    <3>1. /\ loss'["event_capacity"] = loss["event_capacity"]
          /\ loss'["handoff"]["protected"]
              = loss["handoff"]["protected"] + event_counts(s)["protected"]
          /\ event_counts(s)["protected"] \in Nat
      BY <1>1, <1>3, <2>4, CountedProtected
    <3>2. DetailFirst
      BY <1>3, <3>1 DEF DetailFirst
    <3>3. DetailIntervalsFirst
      <4>1. loss'["handoff"]["protected"] > loss["handoff"]["protected"]
            => event_counts(s)["protected"] > 0
        BY <1>3, <3>1
      <4> QED BY <2>4, <4>1 DEF DetailIntervalsFirst
    <3> QED BY <3>2, <3>3
  <2>5. CASE Refused(gap) /\ queue' = queue /\ loss' = CountedAt(loss, "handoff", r.events)
    <3>1. ~ (event_counts(r.events)["protected"] > 0)
      BY <2>5 DEF Refused, protected
    <3> HIDE DEF r
    <3> QED BY <1>2, <2>4, <2>5, <3>1
  <2>6. CASE /\ Len(queue) = QueueCap /\ ~Refused(gap) /\ v \in DOMAIN queue
             /\ queue' = Append(RemoveAt(queue, v), r)
             /\ loss' = CountedAt(loss, "handoff", queue[v].events)
    <3>1. queue # <<>>
      BY <1>1, <2>6
    <3>2. protected(queue[v]) => \A i \in DOMAIN queue : protected(queue[i])
      BY <1>1, <3>1, QueueVictimProperties
    <3>3. queue[v].events \in Seq(Event)
      <4> HIDE DEF v
      <4>1. queue[v] \in Interval
        BY <1>1, <2>6
      <4> QED BY <4>1 DEF Interval
    <3>4. ASSUME event_counts(queue[v].events)["protected"] > 0
          PROVE  \A i \in DOMAIN queue' : protected(queue'[i])
      <4>1. protected(queue[v])
        BY <3>4 DEF protected
      <4>2. \A i \in DOMAIN queue : protected(queue[i])
        BY <3>2, <4>1
      <4>3. protected(r)
        BY <2>6, <4>2 DEF Refused
      <4>4. r \in ProtectedIntervals /\ \A i \in DOMAIN queue : queue[i] \in ProtectedIntervals
        BY <1>1, <1>2, <4>2, <4>3 DEF ProtectedIntervals
      <4>5. \A i \in DOMAIN queue' : queue'[i] \in ProtectedIntervals
        <5> HIDE DEF r, v
        <5> QED BY <1>1, <2>6, <4>4, ReplacedWithin
      <4> QED BY <4>5 DEF ProtectedIntervals
    <3> HIDE DEF r, v
    <3> QED BY <2>4, <2>6, <3>3, <3>4
  <2> QED BY <2>2, <2>3, <2>5, <2>6
<1> QED BY <1>4, <1>5

LEMMA NextDisplaces ==
    ASSUME TypeInv, Next
    PROVE  DetailFirst /\ DetailIntervalsFirst
<1>1. DOMAIN loss = Places /\ "handoff" \in Places /\ loss["event_capacity"]["protected"] \in Nat
      /\ "event_capacity" \in Places
  BY DEF TypeInv, DiagnosticsTypes, LossTypes, Places, Categories
<1>2. CASE WriterStep
  <2>1. events' = events
    BY <1>2 DEF WriterStep, writer_open, writer_top, writer_get, writer_gate, writer_append,
         writer_verify, writer_exit, writer_drain, writer_dead, WriterFrame, recorderVars
  <2>2. loss' = loss \/ \E s : loss' = Lost("writer", s)
    BY <1>2 DEF WriterStep, writer_open, writer_top, writer_get, writer_gate, writer_append,
         writer_verify, writer_exit, writer_drain, writer_dead, Reject
  <2>3. loss'["handoff"] = loss["handoff"]
    BY <1>1, <2>2 DEF Lost
  <2> QED BY <2>1, <2>3, NothingDisplaced
<1>3. CASE start \/ recording_failed \/ collect_watermark
            \/ (\E k \in Keys : CadenceElapses(k)) \/ (\E permit \in BOOLEAN : flush_one(permit))
            \/ (\E k \in Keys, s \in Scopes : optional_events(k, s))
  <2>1. loss' = loss
    BY <1>3 DEF start, recording_failed, collect_watermark, CadenceElapses, flush_one, optional_events
  <2> QED BY <2>1, NothingDisplaced
<1>4. CASE \E k \in Keys : optional_event_refused(k)
  <2>1. events' = events /\ \E s : loss' = Lost("event_input", s)
    BY <1>4 DEF optional_event_refused
  <2>2. loss'["handoff"] = loss["handoff"]
    BY <1>1, <2>1 DEF Lost
  <2> QED BY <2>1, <2>2, NothingDisplaced
<1>5. CASE \E n \in 1..EventCap, bad \in 0..1 : publication(n, bad)
  <2>1. events' = events /\ loss'["handoff"] = loss["handoff"]
    BY <1>1, <1>5 DEF publication
  <2> QED BY <2>1, NothingDisplaced
<1>6. CASE \E kind \in {"proof", "storage"} : event(kind)
  BY <1>6, EventDisplaces
<1>7. CASE \E gap \in Gaps, fits \in BOOLEAN : collect(gap, fits)
  BY <1>7, CollectDisplaces
<1>8. CASE stop
  <2>1. queue' = <<>> /\ loss'["event_capacity"] = loss["event_capacity"]
    BY <1>1, <1>8 DEF stop
  <2>2. DetailFirst
    BY <1>1, <2>1 DEF DetailFirst
  <2>3. DetailIntervalsFirst
    BY <2>1 DEF DetailIntervalsFirst
  <2> QED BY <2>2, <2>3
<1> QED BY <1>2, <1>3, <1>4, <1>5, <1>6, <1>7, <1>8 DEF Next, RecorderStep

\* Under pressure ordinary detail goes first: event() gives up a protected event only when the
\* deque holds nothing else, and collect() an interval with protected evidence only when every
\* queued one has some, for any capacities (diagnostics.py 534-552, 732-741).
THEOREM ProtectedAlwaysLast == Spec => ProtectedLast
<1>1. Init => TypeInv
  BY InitTyped
<1>2. TypeInv /\ [Next]_vars => TypeInv'
  BY NextTyped
<1>3. TypeInv /\ [Next]_vars
      => [/\ loss'["event_capacity"]["protected"] > loss["event_capacity"]["protected"]
             /\ events' # events
             => \A i \in DOMAIN events' : Protected(events'[i])
          /\ loss'["handoff"]["protected"] > loss["handoff"]["protected"]
             => \A i \in DOMAIN queue' : protected(queue'[i])]_vars
  BY NextDisplaces DEF DetailFirst, DetailIntervalsFirst
<1> QED BY <1>1, <1>2, <1>3, PTL DEF Spec, ProtectedLast

=============================================================================
