------------------------------- MODULE Counting --------------------------------
(***************************************************************************)
(* Facts about sequences, finite sets of numbers and sums that the proofs  *)
(* of the scheduler and of the digest index need: which expressions are    *)
(* sequences, that a finite set has a largest element and that sorting it  *)
(* lists it, that every place in a total order is taken, how a total grows *)
(* and where the parts of a flattened sequence lie.                        *)
(***************************************************************************)
EXTENDS Numbers, SequencesExt, FiniteSetsExt, FiniteSetTheorems, SequenceTheorems,
        WellFoundedInduction, TLAPS

IsSeq(s) == s \in Seq(ToSet(s))

-----------------------------------------------------------------------------
(* Sequences.                                                               *)

\* A function on 1 .. n is a sequence of length n.
LEMMA FunctionIsSeq ==
    ASSUME NEW n \in Nat, NEW f, f = [k \in 1 .. n |-> f[k]]
    PROVE  IsSeq(f) /\ Len(f) = n /\ DOMAIN f = 1 .. n
<1>1. DOMAIN f = 1 .. n
  OBVIOUS
<1>2. f \in [1 .. n -> ToSet(f)]
  BY <1>1 DEF ToSet
<1>3. f \in Seq(ToSet(f))
  BY <1>2
<1> QED
  BY <1>1, <1>2, <1>3 DEF IsSeq

LEMMA SeqFacts ==
    ASSUME NEW s, IsSeq(s)
    PROVE  /\ Len(s) \in Nat /\ DOMAIN s = 1 .. Len(s)
           /\ s = [k \in 1 .. Len(s) |-> s[k]]
           /\ IsFiniteSet(DOMAIN s)
<1>1. s \in Seq(ToSet(s))
  BY DEF IsSeq
<1>2. Len(s) \in Nat /\ DOMAIN s = 1 .. Len(s) /\ s \in [1 .. Len(s) -> ToSet(s)]
  BY <1>1
<1>3. IsFiniteSet(1 .. Len(s))
  BY <1>2, FS_Interval
<1> QED
  BY <1>2, <1>3

\* Membership in any Seq(S) makes a sequence.
LEMMA InSeqIsSeq == ASSUME NEW S, NEW s \in Seq(S) PROVE IsSeq(s)
<1>1. Len(s) \in Nat /\ s = [k \in 1 .. Len(s) |-> s[k]]
  OBVIOUS
<1> QED
  BY <1>1, FunctionIsSeq

LEMMA SubSeqIsSeq ==
    ASSUME NEW s, NEW m \in Int, NEW n \in Int
    PROVE  /\ IsSeq(SubSeq(s, m, n))
           /\ Len(SubSeq(s, m, n)) = IF m <= n THEN n - m + 1 ELSE 0
           /\ DOMAIN SubSeq(s, m, n) = 1 .. n - m + 1
           /\ \A k \in 1 .. n - m + 1 : SubSeq(s, m, n)[k] = s[m + k - 1]
<1> DEFINE S == {s[i] : i \in m .. n}
<1>1. \A i \in m .. n : s[i] \in S
  OBVIOUS
<1> HIDE DEF S
<1>2. /\ SubSeq(s, m, n) \in Seq(S)
      /\ Len(SubSeq(s, m, n)) = IF m <= n THEN n - m + 1 ELSE 0
      /\ \A k \in 1 .. n - m + 1 : SubSeq(s, m, n)[k] = s[m + k - 1]
  BY <1>1, SubSeqProperties
<1>3. IsSeq(SubSeq(s, m, n))
  BY <1>2, InSeqIsSeq
<1>4. DOMAIN SubSeq(s, m, n) = 1 .. Len(SubSeq(s, m, n))
  BY <1>3, SeqFacts
<1> QED
  BY <1>2, <1>3, <1>4

LEMMA ConcatIsSeq ==
    ASSUME NEW s, NEW t, IsSeq(s), IsSeq(t)
    PROVE  /\ IsSeq(s \o t) /\ Len(s \o t) = Len(s) + Len(t)
           /\ \A k \in 1 .. Len(s) + Len(t) :
                 (s \o t)[k] = IF k <= Len(s) THEN s[k] ELSE t[k - Len(s)]
<1> DEFINE S == ToSet(s) \cup ToSet(t)
<1>1. s \in Seq(S) /\ t \in Seq(S)
  BY SeqMonotonic DEF IsSeq
<1> HIDE DEF S
<1>2. s \o t \in Seq(S)
  BY <1>1
<1> QED
  BY <1>1, <1>2, InSeqIsSeq, ConcatProperties

LEMMA AppendIsSeq ==
    ASSUME NEW s, NEW e, IsSeq(s)
    PROVE  /\ IsSeq(Append(s, e)) /\ Len(Append(s, e)) = Len(s) + 1
           /\ DOMAIN Append(s, e) = 1 .. Len(s) + 1
           /\ \A k \in 1 .. Len(s) : Append(s, e)[k] = s[k]
           /\ Append(s, e)[Len(s) + 1] = e
<1> DEFINE S == ToSet(s) \cup {e}
<1>1. s \in Seq(S)
  BY SeqMonotonic DEF IsSeq
<1>2. e \in S
  OBVIOUS
<1> HIDE DEF S
<1>3. Append(s, e) \in Seq(S) /\ Len(Append(s, e)) = Len(s) + 1
  BY <1>1, <1>2
<1>4. IsSeq(Append(s, e)) /\ DOMAIN Append(s, e) = 1 .. Len(s) + 1
  BY <1>3, InSeqIsSeq, SeqFacts
<1>5. \A k \in 1 .. Len(s) : Append(s, e)[k] = s[k]
  BY <1>1, <1>2
<1>6. Append(s, e)[Len(s) + 1] = e
  BY <1>1, <1>2
<1> QED
  BY <1>3, <1>4, <1>5, <1>6

-----------------------------------------------------------------------------
(* Finite sets.                                                             *)

\* R orders T strictly and totally
Orders(R, T) ==
    /\ \A x \in T : <<x, x>> \notin R
    /\ \A x, y \in T : x # y => <<x, y>> \in R \/ <<y, x>> \in R
    /\ \A x, y, z \in T : <<x, y>> \in R /\ <<y, z>> \in R => <<x, z>> \in R
Before(R, T, x) == Cardinality({y \in T : <<y, x>> \in R})

LEMMA BeforeGrows ==
    ASSUME NEW R, NEW T, IsFiniteSet(T), Orders(R, T),
           NEW x \in T, NEW y \in T, <<x, y>> \in R
    PROVE  Before(R, T, x) < Before(R, T, y)
<1> DEFINE X == {z \in T : <<z, x>> \in R}
           Y == {z \in T : <<z, y>> \in R}
<1>1. X \subseteq Y /\ x \in Y /\ x \notin X
  BY DEF Orders
<1>2. IsFiniteSet(Y)
  BY FS_Subset
<1>3. /\ IsFiniteSet(X) /\ Cardinality(X) <= Cardinality(Y)
      /\ Cardinality(X) # Cardinality(Y)
  <2> HIDE DEF X, Y
  <2> QED
    BY <1>1, <1>2, FS_Subset
<1>4. Cardinality(X) \in Nat /\ Cardinality(Y) \in Nat
  BY <1>2, <1>3, FS_CardinalityType
<1> QED
  BY <1>3, <1>4 DEF Before

\* Every place in the order is taken, by exactly one element.
LEMMA EveryPlaceTaken ==
    ASSUME NEW R, NEW T, IsFiniteSet(T), Orders(R, T)
    PROVE  /\ \A x \in T : Before(R, T, x) \in 0 .. Cardinality(T) - 1
           /\ \A x, y \in T : Before(R, T, x) = Before(R, T, y) => x = y
           /\ \A n \in 0 .. Cardinality(T) - 1 : \E x \in T : Before(R, T, x) = n
<1> DEFINE N == Cardinality(T)
           f == [x \in T |-> Before(R, T, x)]
<1>1. N \in Nat
  BY FS_CardinalityType
<1>2. ASSUME NEW x \in T PROVE Before(R, T, x) \in 0 .. N - 1
  <2> DEFINE X == {y \in T : <<y, x>> \in R}
  <2>1. X \subseteq T /\ x \notin X
    BY DEF Orders
  <2>2. /\ IsFiniteSet(X) /\ Cardinality(X) <= N /\ Cardinality(X) # N
    <3> HIDE DEF X
    <3> QED
      BY <2>1, FS_Subset
  <2>3. Cardinality(X) \in Nat
    BY <2>2, FS_CardinalityType
  <2> QED
    BY <1>1, <2>2, <2>3 DEF Before
<1>3. ASSUME NEW x \in T, NEW y \in T, Before(R, T, x) = Before(R, T, y) PROVE x = y
  <2>1. Before(R, T, x) \in Int
    BY <1>1, <1>2
  <2>2. <<x, y>> \notin R /\ <<y, x>> \notin R
    BY <1>3, <2>1, BeforeGrows
  <2> QED
    BY <2>2 DEF Orders
<1>4. f \in Injection(T, 0 .. N - 1)
  BY <1>2, <1>3 DEF Injection, IsInjective
<1>5. IsFiniteSet(0 .. N - 1) /\ Cardinality(0 .. N - 1) = N
  BY <1>1, FS_Interval
<1>6. f \in Surjection(T, 0 .. N - 1)
  <2> HIDE DEF f
  <2> QED
    BY <1>4, <1>5, FS_Injection
<1>7. ASSUME NEW n \in 0 .. N - 1 PROVE \E x \in T : Before(R, T, x) = n
  BY <1>6 DEF Surjection
<1> QED
  BY <1>2, <1>3, <1>7

\* The n-th of a set of numbers is one of them, and no other is the m-th.
LEMMA NthFacts ==
    ASSUME NEW T, IsFiniteSet(T), T \subseteq Int
    PROVE  /\ \A n \in 1 .. Cardinality(T) : Nth(T, n) \in T
           /\ \A m, n \in 1 .. Cardinality(T) : Nth(T, m) = Nth(T, n) => m = n
<1> DEFINE R == {p \in T \X T : p[1] < p[2]}
<1>1. Orders(R, T)
  BY DEF Orders
<1>2. \A x \in T : Before(R, T, x) = Cardinality({y \in T : y < x})
  <2>1. \A x \in T : {y \in T : <<y, x>> \in R} = {y \in T : y < x}
    OBVIOUS
  <2> QED
    BY <2>1 DEF Before
<1>3. Cardinality(T) \in Nat
  BY FS_CardinalityType
<1>4. ASSUME NEW n \in 1 .. Cardinality(T)
      PROVE  Nth(T, n) \in T /\ Cardinality({y \in T : y < Nth(T, n)}) = n - 1
  <2>1. n - 1 \in 0 .. Cardinality(T) - 1
    BY <1>3
  <2>2. \E x \in T : Before(R, T, x) = n - 1
    <3> HIDE DEF R
    <3>1. \A m \in 0 .. Cardinality(T) - 1 : \E x \in T : Before(R, T, x) = m
      BY <1>1, EveryPlaceTaken
    <3> QED
      BY <2>1, <3>1
  <2>3. \E x \in T : Cardinality({y \in T : y < x}) = n - 1
    BY <1>2, <2>2
  <2> QED
    BY <2>3 DEF Nth
<1>5. ASSUME NEW m \in 1 .. Cardinality(T), NEW n \in 1 .. Cardinality(T),
             Nth(T, m) = Nth(T, n)
      PROVE  m = n
  <2>1. m - 1 = n - 1
    BY <1>4, <1>5
  <2> QED
    BY <2>1
<1> QED
  BY <1>4, <1>5

\* A finite set of numbers has a largest element.
LEMMA MaxFacts ==
    ASSUME NEW T, IsFiniteSet(T), T \subseteq Int, T # {}
    PROVE  Max(T) \in T /\ \A y \in T : y <= Max(T)
<1> DEFINE R == {p \in T \X T : p[1] > p[2]}
<1>1. Orders(R, T)
  BY DEF Orders
<1>2. Cardinality(T) \in Nat /\ Cardinality(T) # 0
  BY FS_CardinalityType, FS_EmptySet
<1>3. PICK x \in T : Before(R, T, x) = 0
  <2>1. 0 \in 0 .. Cardinality(T) - 1
    BY <1>2
  <2> HIDE DEF R
  <2> QED
    BY <1>1, <2>1, EveryPlaceTaken
<1>4. {y \in T : <<y, x>> \in R} = {}
  <2>1. IsFiniteSet({y \in T : <<y, x>> \in R})
    BY FS_Subset
  <2> QED
    BY <1>3, <2>1, FS_EmptySet DEF Before
<1>5. ASSUME NEW y \in T PROVE y <= x
  <2>1. ~ (y > x)
    BY <1>4
  <2> QED
    BY <2>1
<1> QED
  BY <1>5 DEF Max

LEMMA TotalIsNat ==
    ASSUME NEW f, IsFiniteSet(DOMAIN f), \A x \in DOMAIN f : f[x] \in Int
    PROVE  Total(f) \in Nat
<1> DEFINE some == {{x} \X (1 .. f[x]) : x \in DOMAIN f}
<1>1. IsFiniteSet(some)
  <2> DEFINE g == [x \in DOMAIN f |-> {x} \X (1 .. f[x])]
  <2>1. g \in Surjection(DOMAIN f, some)
    BY DEF Surjection
  <2> HIDE DEF g, some
  <2> QED
    BY <2>1, FS_Surjection
<1>2. ASSUME NEW S \in some PROVE IsFiniteSet(S)
  <2>1. PICK x \in DOMAIN f : S = {x} \X (1 .. f[x])
    OBVIOUS
  <2> QED
    <3>1. f[x] \in Int /\ 1 \in Int
      OBVIOUS
    <3>2. IsFiniteSet(1 .. f[x])
      BY <3>1, FS_Interval
    <3>3. IsFiniteSet({x})
      BY FS_Singleton
    <3> QED
      BY <2>1, <3>2, <3>3, FS_Product
<1>3. IsFiniteSet(UNION some)
  <2> HIDE DEF some
  <2> QED
    BY <1>1, <1>2, FS_UNION
<1> QED
  BY <1>3, FS_CardinalityType DEF Total

-----------------------------------------------------------------------------
(* Numbers, sums and sequences put together.                                *)

\* A set with 0 and the successor of each of its numbers has every number.
LEMMA EveryNumber ==
    ASSUME NEW T, 0 \in T, \A n \in Nat : n \in T => n + 1 \in T
    PROVE  \A n \in Nat : n \in T
<1> DEFINE R == OpToRel(<, Nat)
           B == {n \in Nat : n \notin T}
<1> SUFFICES ASSUME B # {} PROVE FALSE
  OBVIOUS
<1>1. IsWellFoundedOn(R, Nat)
  BY NatLessThanWellFounded
<1>2. PICK x \in B : \A y \in B : <<y, x>> \notin R
  <2> HIDE DEF R
  <2> QED
    BY <1>1, WFMin
<1>3. x \in Nat /\ x # 0 /\ x - 1 \in Nat
  OBVIOUS
<1>4. <<x - 1, x>> \in R
  BY <1>3 DEF OpToRel
<1>5. x - 1 \in T
  BY <1>2, <1>3, <1>4
<1>6. x \in T
  BY <1>3, <1>5
<1> QED
  BY <1>6

\* A function that never falls from a number to the next never falls.
LEMMA NeverFalls ==
    ASSUME NEW n \in Nat, NEW off, \A d \in 0 .. n : off[d] \in Int,
           \A d \in 1 .. n : off[d - 1] <= off[d]
    PROVE  \A d, e \in 0 .. n : d <= e => off[d] <= off[e]
<1> DEFINE T == {k \in Nat : \A d \in 0 .. n : d + k <= n => off[d] <= off[d + k]}
<1>1. 0 \in T
  OBVIOUS
<1>2. ASSUME NEW k \in Nat, k \in T PROVE k + 1 \in T
  <2>1. SUFFICES ASSUME NEW d \in 0 .. n, d + (k + 1) <= n PROVE off[d] <= off[d + (k + 1)]
    OBVIOUS
  <2>2. off[d] <= off[d + k] /\ d + k \in 0 .. n
    BY <1>2, <2>1
  <2>3. d + k + 1 \in 1 .. n /\ (d + k + 1) - 1 = d + k /\ d + (k + 1) = d + k + 1
    BY <2>1
  <2>4. off[d + k] <= off[d + k + 1]
    BY <2>3
  <2> QED
    BY <2>1, <2>2, <2>3, <2>4
<1>3. \A k \in Nat : k \in T
  <2> HIDE DEF T
  <2> QED
    BY <1>1, <1>2, EveryNumber
<1>4. ASSUME NEW d \in 0 .. n, NEW e \in 0 .. n, d <= e PROVE off[d] <= off[e]
  <2>1. e - d \in Nat /\ d + (e - d) = e
    BY <1>4
  <2>2. e - d \in T
    BY <1>3, <2>1
  <2> QED
    BY <2>1, <2>2
<1> QED
  BY <1>4

\* Its steps cover every number up to its last value.
LEMMA StepOf ==
    ASSUME NEW n \in Nat, NEW off, \A d \in 0 .. n : off[d] \in Int
    PROVE  \A k \in Int : off[0] < k /\ k <= off[n] =>
               \E d \in 1 .. n : off[d - 1] < k /\ k <= off[d]
<1> DEFINE T == {m \in Nat : m <= n => \A k \in Int : off[0] < k /\ k <= off[m] =>
                     \E d \in 1 .. m : off[d - 1] < k /\ k <= off[d]}
<1>1. 0 \in T
  OBVIOUS
<1>2. ASSUME NEW m \in Nat, m \in T PROVE m + 1 \in T
  <2>1. SUFFICES ASSUME m + 1 <= n, NEW k \in Int, off[0] < k, k <= off[m + 1]
                 PROVE  \E d \in 1 .. m + 1 : off[d - 1] < k /\ k <= off[d]
    OBVIOUS
  <2>2. m \in 0 .. n /\ m + 1 \in 1 .. m + 1 /\ (m + 1) - 1 = m /\ off[m] \in Int
    BY <2>1
  <2>3. CASE k <= off[m]
    <3>1. PICK d \in 1 .. m : off[d - 1] < k /\ k <= off[d]
      BY <1>2, <2>1, <2>2, <2>3
    <3> QED
      BY <3>1
  <2>4. CASE ~ (k <= off[m])
    <3>1. off[(m + 1) - 1] < k
      BY <2>2, <2>4
    <3> QED
      BY <2>1, <2>2, <3>1
  <2> QED
    BY <2>3, <2>4
<1>3. n \in T
  <2> HIDE DEF T
  <2> QED
    BY <1>1, <1>2, EveryNumber
<1> QED
  BY <1>3

\* The sum of a sequence of naturals grows by its last element.
LEMMA TotalStep ==
    ASSUME NEW n \in Nat, NEW g, \A j \in 1 .. n + 1 : g[j] \in Nat
    PROVE  /\ Total([j \in 1 .. n |-> g[j]]) \in Nat
           /\ Total([j \in 1 .. n + 1 |-> g[j]])
                  = Total([j \in 1 .. n |-> g[j]]) + g[n + 1]
<1> DEFINE U(m) == UNION {{x} \X (1 .. g[x]) : x \in 1 .. m}
           new  == {n + 1} \X (1 .. g[n + 1])
<1>1. Total([j \in 1 .. n |-> g[j]]) = Cardinality(U(n))
  <2>1. {{x} \X (1 .. [j \in 1 .. n |-> g[j]][x]) : x \in DOMAIN [j \in 1 .. n |-> g[j]]}
            = {{x} \X (1 .. g[x]) : x \in 1 .. n}
    OBVIOUS
  <2> QED
    BY <2>1 DEF Total
<1>2. Total([j \in 1 .. n + 1 |-> g[j]]) = Cardinality(U(n + 1))
  <2>1. {{x} \X (1 .. [j \in 1 .. n + 1 |-> g[j]][x]) : x \in DOMAIN [j \in 1 .. n + 1 |-> g[j]]}
            = {{x} \X (1 .. g[x]) : x \in 1 .. n + 1}
    OBVIOUS
  <2> QED
    BY <2>1 DEF Total
<1>3. U(n + 1) = U(n) \cup new
  <2>1. 1 .. n + 1 = (1 .. n) \cup {n + 1}
    OBVIOUS
  <2> QED
    BY <2>1, Zenon
<1>4. U(n) \cap new = {}
  <2>1. n + 1 \notin 1 .. n
    OBVIOUS
  <2> QED
    BY <2>1
<1>5. IsFiniteSet(new) /\ Cardinality(new) = g[n + 1]
  <2>1. g[n + 1] \in Nat /\ 1 \in Int
    OBVIOUS
  <2>2. IsFiniteSet(1 .. g[n + 1])
    BY <2>1, FS_Interval
  <2>4. Cardinality(1 .. g[n + 1]) = IF 1 > g[n + 1] THEN 0 ELSE g[n + 1] - 1 + 1
    BY <2>1, FS_Interval
  <2>5. Cardinality(1 .. g[n + 1]) = g[n + 1]
    BY <2>1, <2>4
  <2>3. IsFiniteSet({n + 1}) /\ Cardinality({n + 1}) = 1
    BY FS_Singleton
  <2>6. IsFiniteSet(new) /\ Cardinality(new) = 1 * g[n + 1]
    BY <2>2, <2>3, <2>5, FS_Product
  <2> QED
    BY <2>1, <2>6
<1>6. IsFiniteSet(U(n)) /\ Total([j \in 1 .. n |-> g[j]]) \in Nat
  <2>1. IsFiniteSet(1 .. n)
    BY FS_Interval
  <2>2. \A x \in 1 .. n : g[x] \in Nat
    OBVIOUS
  <2>3. Total([j \in 1 .. n |-> g[j]]) \in Nat
    BY <2>1, <2>2, TotalIsNat
  <2>4. U(n) \subseteq (1 .. n) \X (UNION {1 .. g[x] : x \in 1 .. n})
    OBVIOUS
  <2>5. IsFiniteSet(UNION {1 .. g[x] : x \in 1 .. n})
    <3> DEFINE some == {1 .. g[x] : x \in 1 .. n}
               f == [x \in 1 .. n |-> 1 .. g[x]]
    <3>1. f \in Surjection(1 .. n, some)
      BY DEF Surjection
    <3>2. \A S \in some : IsFiniteSet(S)
      BY <2>2, FS_Interval
    <3> HIDE DEF some, f
    <3>3. IsFiniteSet(some)
      BY <2>1, <3>1, FS_Surjection
    <3> QED
      BY <3>2, <3>3, FS_UNION DEF some
  <2>6. IsFiniteSet((1 .. n) \X (UNION {1 .. g[x] : x \in 1 .. n}))
    BY <2>1, <2>5, FS_Product
  <2> QED
    BY <2>3, <2>4, <2>6, FS_Subset
<1>7. Cardinality(U(n) \cup new) = Cardinality(U(n)) + g[n + 1]
  <2> HIDE DEF U, new
  <2>1. Cardinality(U(n)) \in Nat /\ Cardinality({}) = 0
    BY <1>1, <1>6, FS_EmptySet
  <2>2. Cardinality(U(n) \cup new)
            = Cardinality(U(n)) + Cardinality(new) - Cardinality(U(n) \cap new)
    BY <1>5, <1>6, FS_Union
  <2>3. g[n + 1] \in Nat
    OBVIOUS
  <2>4. Cardinality(U(n) \cap new) = 0
    BY <1>4, <2>1, Zenon
  <2> QED
    BY <1>5, <2>1, <2>2, <2>3, <2>4
<1> HIDE DEF U, new
<1> QED
  BY <1>1, <1>2, <1>3, <1>6, <1>7

LEMMA TotalEmpty == ASSUME NEW g PROVE Total([j \in 1 .. 0 |-> g[j]]) = 0
<1>1. {{x} \X (1 .. [j \in 1 .. 0 |-> g[j]][x]) : x \in DOMAIN [j \in 1 .. 0 |-> g[j]]} = {}
  OBVIOUS
<1>2. UNION {} = {}
  OBVIOUS
<1> QED
  BY <1>1, <1>2, FS_EmptySet DEF Total

\* whole is the n sequences seqs one after the other, and off where each ends
Laid(whole, seqs, n, off) ==
    /\ off[0] = 0
    /\ \A d \in 0 .. n : off[d] \in Nat
    /\ \A d \in 1 .. n : off[d] = off[d - 1] + Len(seqs[d])
    /\ IsSeq(whole) /\ Len(whole) = off[n]
    /\ \A d \in 1 .. n : \A t \in 1 .. Len(seqs[d]) :
          whole[off[d - 1] + t] = seqs[d][t]

\* Flattening puts each sequence after the ones before it.
LEMMA FlattenFacts ==
    ASSUME NEW n \in Nat, NEW seqs, seqs = [d \in 1 .. n |-> seqs[d]],
           \A d \in 1 .. n : IsSeq(seqs[d])
    PROVE  \E off : Laid(FlattenSeq(seqs), seqs, n, off)
<1>1. IsSeq(seqs) /\ Len(seqs) = n /\ DOMAIN seqs = 1 .. n
  BY FunctionIsSeq
<1>2. CASE n = 0
  <2> DEFINE off == [d \in {0} |-> 0]
  <2>1. FlattenSeq(seqs) = seqs
    BY <1>1, <1>2 DEF FlattenSeq
  <2>2. 0 .. n = {0} /\ 1 .. n = {}
    BY <1>2
  <2>3. off[0] = 0 /\ off[n] = 0
    BY <1>2
  <2> HIDE DEF off
  <2>4. Laid(seqs, seqs, n, off)
    BY <1>1, <1>2, <2>2, <2>3 DEF Laid
  <2> QED
    BY <2>1, <2>4
<1>3. CASE n # 0
  <2> DEFINE Is(f, m) == f = [k \in 1 .. m |-> IF k = 1 THEN seqs[k] ELSE f[k - 1] \o seqs[k]]
             T == {m \in Nat : \E f : Is(f, m)}
  <2>1. 0 \in T
    <3>1. Is([k \in 1 .. 0 |-> 0], 0)
      OBVIOUS
    <3> QED
      BY <3>1
  <2>2. ASSUME NEW m \in Nat, m \in T PROVE m + 1 \in T
    <3>1. PICK f : Is(f, m)
      BY <2>2
    <3> DEFINE last == IF m + 1 = 1 THEN seqs[m + 1] ELSE f[m] \o seqs[m + 1]
               g == [k \in 1 .. m + 1 |-> IF k = m + 1 THEN last ELSE f[k]]
    <3>2. ASSUME NEW k \in 1 .. m + 1
          PROVE  g[k] = IF k = 1 THEN seqs[k] ELSE g[k - 1] \o seqs[k]
      <4>1. CASE k = m + 1
        <5>1. k # 1 => g[k - 1] = f[m]
          BY <4>1
        <5> QED
          BY <4>1, <5>1
      <4>2. CASE k # m + 1
        <5>1. k \in 1 .. m
          BY <4>2
        <5>2. f[k] = IF k = 1 THEN seqs[k] ELSE f[k - 1] \o seqs[k]
          BY <3>1, <5>1
        <5>3. k # 1 => g[k - 1] = f[k - 1]
          BY <5>1
        <5>4. g[k] = f[k]
          BY <5>1
        <5> HIDE DEF g
        <5> QED
          BY <5>2, <5>3, <5>4
      <4> QED
        BY <4>1, <4>2
    <3>3. g = [k \in 1 .. m + 1 |-> g[k]]
      OBVIOUS
    <3> HIDE DEF g
    <3>4. Is(g, m + 1)
      BY <3>2, <3>3
    <3> HIDE DEF Is
    <3> QED
      BY <3>4
  <2>3. \E f : Is(f, n)
    <3> HIDE DEF T
    <3>1. n \in T
      BY <2>1, <2>2, EveryNumber
    <3> QED
      BY <3>1 DEF T
  <2> DEFINE flat == CHOOSE f : Is(f, n)
  <2>4. Is(flat, n)
    <3> HIDE DEF Is
    <3> QED
      BY <2>3
  <2>5. FlattenSeq(seqs) = flat[n]
    BY <1>1, <1>3, Zenon DEF FlattenSeq
  <2> HIDE DEF flat
  <2> DEFINE off == [d \in 0 .. n |-> IF d = 0 THEN 0 ELSE Len(flat[d])]
             Good(m) == /\ IsSeq(flat[m])
                        /\ \A d \in 0 .. m : off[d] \in Nat /\ off[d] <= off[m]
                        /\ \A d \in 1 .. m : off[d] = off[d - 1] + Len(seqs[d])
                        /\ \A d \in 1 .. m : \A t \in 1 .. Len(seqs[d]) :
                              flat[m][off[d - 1] + t] = seqs[d][t]
  <2>6. \A d \in 1 .. n : off[d] = Len(flat[d])
    OBVIOUS
  <2>7. off[0] = 0
    OBVIOUS
  <2>8. flat[1] = seqs[1]
    BY <1>3, <2>4
  <2>9. ASSUME NEW m \in 1 .. n, m # 1 PROVE flat[m] = flat[m - 1] \o seqs[m]
    BY <2>4, <2>9
  <2> HIDE DEF off, Is
  <2>10. Good(1)
    <3>1. Len(seqs[1]) \in Nat /\ IsSeq(seqs[1])
      BY <1>3, SeqFacts
    <3>2. off[1] = Len(seqs[1])
      BY <1>3, <2>6, <2>8
    <3>3. \A t \in 1 .. Len(seqs[1]) : flat[1][off[1 - 1] + t] = seqs[1][t]
      BY <2>7, <2>8
    <3>4. \A d \in 0 .. 1 : d = 0 \/ d = 1
      OBVIOUS
    <3> QED
      BY <2>7, <2>8, <3>1, <3>2, <3>3, <3>4
  <2>11. ASSUME NEW m \in Nat, m >= 1, m + 1 <= n, Good(m) PROVE Good(m + 1)
    <3>1. m + 1 \in 1 .. n /\ m \in 1 .. n /\ m + 1 # 1 /\ (m + 1) - 1 = m /\ m \in 0 .. m
      BY <2>11
    <3>2. flat[m + 1] = flat[m] \o seqs[m + 1]
      BY <2>9, <3>1
    <3>3. IsSeq(seqs[m + 1]) /\ Len(seqs[m + 1]) \in Nat
      BY <3>1, SeqFacts
    <3> DEFINE a == off[m]
               l == Len(seqs[m + 1])
    <3>4. a = Len(flat[m]) /\ a \in Nat /\ l \in Nat
      BY <2>6, <2>11, <3>1, <3>3
    <3>5. /\ IsSeq(flat[m + 1])
          /\ Len(flat[m + 1]) = a + l
          /\ \A k \in 1 .. a + l :
                flat[m + 1][k] = IF k <= a THEN flat[m][k] ELSE seqs[m + 1][k - a]
      <4> DEFINE p == flat[m]
                 q == seqs[m + 1]
      <4>1. IsSeq(p) /\ IsSeq(q) /\ flat[m + 1] = p \o q /\ a = Len(p) /\ l = Len(q)
        BY <2>11, <3>2, <3>3, <3>4 DEF l
      <4> HIDE DEF p, q
      <4>2. /\ IsSeq(p \o q) /\ Len(p \o q) = Len(p) + Len(q)
            /\ \A k \in 1 .. Len(p) + Len(q) :
                  (p \o q)[k] = IF k <= Len(p) THEN p[k] ELSE q[k - Len(p)]
        BY <4>1, ConcatIsSeq
      <4>3. /\ IsSeq(flat[m + 1])
            /\ Len(flat[m + 1]) = a + l
            /\ \A k \in 1 .. a + l : flat[m + 1][k] = IF k <= a THEN p[k] ELSE q[k - a]
        BY <4>1, <4>2
      <4> QED
        BY <4>3 DEF p, q
    <3>6. off[m + 1] = a + l
      BY <2>6, <3>1, <3>5
    <3> HIDE DEF a, l
    <3>7. \A d \in 0 .. m + 1 : off[d] \in Nat /\ off[d] <= off[m + 1]
      <4>1. ASSUME NEW d \in 0 .. m PROVE off[d] \in Nat /\ off[d] <= off[m + 1]
        <5>1. off[d] \in Nat /\ off[d] <= a
          BY <2>11 DEF a
        <5> QED
          BY <3>4, <3>6, <5>1
      <4>2. \A d \in 0 .. m + 1 : d \in 0 .. m \/ d = m + 1
        OBVIOUS
      <4>3. off[m + 1] \in Nat
        BY <3>4, <3>6
      <4> QED
        BY <4>1, <4>2, <4>3
    <3>8. \A d \in 1 .. m + 1 : off[d] = off[d - 1] + Len(seqs[d])
      <4>1. \A d \in 1 .. m + 1 : d \in 1 .. m \/ d = m + 1
        OBVIOUS
      <4>2. off[m + 1] = off[(m + 1) - 1] + Len(seqs[m + 1])
        BY <3>1, <3>6 DEF a, l
      <4> QED
        BY <2>11, <4>1, <4>2
    <3>9. ASSUME NEW d \in 1 .. m + 1, NEW t \in 1 .. Len(seqs[d])
          PROVE  flat[m + 1][off[d - 1] + t] = seqs[d][t]
      <4>1. CASE d = m + 1
        <5>1. off[d - 1] = a
          BY <3>1, <4>1 DEF a
        <5>2. t \in 1 .. l
          BY <4>1 DEF l
        <5>3. a + t \in 1 .. a + l /\ ~ (a + t <= a) /\ (a + t) - a = t
          BY <3>4, <5>2
        <5> QED
          BY <3>5, <4>1, <5>1, <5>3
      <4>2. CASE d # m + 1
        <5>1. d \in 1 .. m /\ d - 1 \in 0 .. m /\ d \in 0 .. m /\ d \in 1 .. n
          BY <3>1, <4>2
        <5>2. /\ off[d - 1] \in Nat /\ off[d] <= a
              /\ off[d] = off[d - 1] + Len(seqs[d]) /\ off[d] \in Nat
          BY <2>11, <5>1 DEF a
        <5>3. Len(seqs[d]) \in Nat
          BY <5>1, SeqFacts
        <5> DEFINE b == off[d - 1]
                   c == Len(seqs[d])
        <5>6. b \in Nat /\ c \in Nat /\ b + c <= a /\ t \in 1 .. c
          BY <5>2, <5>3
        <5> HIDE DEF b, c
        <5>7. b + t \in 1 .. a + l /\ b + t <= a
          BY <3>4, <5>6
        <5>4. off[d - 1] + t \in 1 .. a + l /\ off[d - 1] + t <= a
          BY <5>7 DEF b
        <5>5. flat[m][off[d - 1] + t] = seqs[d][t]
          BY <2>11, <5>1
        <5> QED
          BY <3>5, <5>4, <5>5
      <4> QED
        BY <4>1, <4>2
    <3> HIDE DEF Is
    <3> QED
      BY <3>5, <3>7, <3>8, <3>9
  <2>12. Good(n)
    <3> DEFINE S == {m \in Nat : m >= 1 /\ m <= n => Good(m)}
    <3> HIDE DEF Good
    <3>1. 0 \in S
      OBVIOUS
    <3>2. ASSUME NEW m \in Nat, m \in S PROVE m + 1 \in S
      <4>1. CASE m = 0
        BY <2>10, <4>1
      <4>2. CASE m # 0 /\ m + 1 <= n
        <5>1. m >= 1 /\ m <= n
          BY <4>2
        <5>2. Good(m)
          BY <3>2, <5>1
        <5> QED
          BY <2>11, <4>2, <5>1, <5>2
      <4>3. CASE ~ (m + 1 <= n)
        BY <4>3
      <4> QED
        BY <4>1, <4>2, <4>3
    <3> HIDE DEF S
    <3>3. n \in S
      BY <3>1, <3>2, EveryNumber
    <3> QED
      BY <1>3, <3>3 DEF S
  <2>13. Len(flat[n]) = off[n]
    BY <1>3, <2>6
  <2>14. /\ off[0] = 0
         /\ \A d \in 0 .. n : off[d] \in Nat
         /\ \A d \in 1 .. n : off[d] = off[d - 1] + Len(seqs[d])
         /\ IsSeq(flat[n]) /\ Len(flat[n]) = off[n]
         /\ \A d \in 1 .. n : \A t \in 1 .. Len(seqs[d]) :
               flat[n][off[d - 1] + t] = seqs[d][t]
    BY <2>7, <2>12, <2>13
  <2>15. Laid(flat[n], seqs, n, off)
    BY <2>14 DEF Laid
  <2> QED
    BY <2>5, <2>15
<1> QED
  BY <1>2, <1>3

LEMMA LaidFacts ==
    ASSUME NEW n \in Nat, NEW whole, NEW seqs, NEW off, Laid(whole, seqs, n, off),
           \A d \in 1 .. n : Len(seqs[d]) \in Nat
    PROVE  /\ \A d, e \in 0 .. n : d <= e => off[d] <= off[e]
           /\ \A k \in 1 .. Len(whole) : \E d \in 1 .. n : \E t \in 1 .. Len(seqs[d]) :
                 k = off[d - 1] + t /\ whole[k] = seqs[d][t]
<1>1. \A d \in 0 .. n : off[d] \in Int
  BY DEF Laid
<1>2. \A d \in 1 .. n : off[d - 1] <= off[d]
  <2>1. ASSUME NEW d \in 1 .. n PROVE off[d - 1] <= off[d]
    <3>1. d - 1 \in 0 .. n /\ d \in 0 .. n
      OBVIOUS
    <3> QED
      BY <1>1, <3>1 DEF Laid
  <2> QED
    BY <2>1
<1>3. ASSUME NEW k \in 1 .. Len(whole)
      PROVE  \E d \in 1 .. n : \E t \in 1 .. Len(seqs[d]) :
                 k = off[d - 1] + t /\ whole[k] = seqs[d][t]
  <2>1. Len(whole) = off[n] /\ off[0] = 0
    BY DEF Laid
  <2>2. PICK d \in 1 .. n : off[d - 1] < k /\ k <= off[d]
    BY <1>1, <2>1, StepOf
  <2>3. d - 1 \in 0 .. n /\ d \in 0 .. n
    OBVIOUS
  <2>4. off[d] = off[d - 1] + Len(seqs[d]) /\ off[d - 1] \in Int /\ Len(seqs[d]) \in Nat
    BY <2>3 DEF Laid
  <2>5. k - off[d - 1] \in 1 .. Len(seqs[d]) /\ k = off[d - 1] + (k - off[d - 1])
    BY <2>2, <2>4
  <2>6. whole[off[d - 1] + (k - off[d - 1])] = seqs[d][k - off[d - 1]]
    BY <2>5 DEF Laid
  <2> QED
    BY <2>5, <2>6
<1> QED
  BY <1>1, <1>2, <1>3, NeverFalls

LEMMA LaidPlace ==
    ASSUME NEW n \in Nat, NEW whole, NEW seqs, NEW off, Laid(whole, seqs, n, off),
           \A d \in 1 .. n : Len(seqs[d]) \in Nat, NEW k \in 1 .. Len(whole)
    PROVE  \E d \in 1 .. n : \E t \in 1 .. Len(seqs[d]) :
               k = off[d - 1] + t /\ whole[k] = seqs[d][t]
BY LaidFacts

\* Sequences of the same length with the same elements are the same.
LEMMA SameSeq ==
    ASSUME NEW s, NEW t, IsSeq(s), IsSeq(t), Len(s) = Len(t),
           \A k \in 1 .. Len(s) : s[k] = t[k]
    PROVE  s = t
<1>1. s = [k \in 1 .. Len(s) |-> s[k]] /\ t = [k \in 1 .. Len(t) |-> t[k]]
  BY SeqFacts
<1> QED
  BY <1>1

\* Sorting a finite set of numbers lists each of them once, in rising order.
LEMMA SortedFacts ==
    ASSUME NEW T, IsFiniteSet(T), T \subseteq Int
    PROVE  /\ IsSeq(Sorted(T)) /\ Len(Sorted(T)) = Cardinality(T) /\ Cardinality(T) \in Nat
           /\ \A n \in 1 .. Cardinality(T) : Sorted(T)[n] \in T
           /\ \A m, n \in 1 .. Cardinality(T) : m < n => Sorted(T)[m] < Sorted(T)[n]
           /\ \A x \in T : \E n \in 1 .. Cardinality(T) : Sorted(T)[n] = x
<1> DEFINE R == {p \in T \X T : p[1] < p[2]}
           N == Cardinality(T)
           s == Sorted(T)
<1>1. N \in Nat
  BY FS_CardinalityType
<1>2. IsSeq(s) /\ Len(s) = N /\ \A n \in 1 .. N : s[n] = Nth(T, n)
  <2>1. s = [n \in 1 .. N |-> s[n]] /\ \A n \in 1 .. N : s[n] = Nth(T, n)
    BY DEF Sorted
  <2> HIDE DEF s
  <2> QED
    BY <1>1, <2>1, FunctionIsSeq
<1>3. Orders(R, T)
  BY DEF Orders
<1>4. \A x, y \in T : <<x, y>> \in R <=> x < y
  OBVIOUS
<1>5. \A x \in T : Before(R, T, x) = Cardinality({y \in T : y < x})
  <2>1. \A x \in T : {y \in T : <<y, x>> \in R} = {y \in T : y < x}
    OBVIOUS
  <2> QED
    BY <2>1 DEF Before
<1> HIDE DEF R
<1>6. ASSUME NEW n \in 1 .. N
      PROVE  s[n] \in T /\ Before(R, T, s[n]) = n - 1
  <2>1. n - 1 \in 0 .. N - 1
    BY <1>1
  <2>2. \E x \in T : Before(R, T, x) = n - 1
    <3>1. \A m \in 0 .. Cardinality(T) - 1 : \E x \in T : Before(R, T, x) = m
      BY <1>3, EveryPlaceTaken
    <3> QED
      BY <2>1, <3>1
  <2>3. \E x \in T : Cardinality({y \in T : y < x}) = n - 1
    BY <1>5, <2>2
  <2>4. Nth(T, n) \in T /\ Cardinality({y \in T : y < Nth(T, n)}) = n - 1
    BY <2>3 DEF Nth
  <2> QED
    BY <1>2, <1>5, <2>4
<1>7. ASSUME NEW m \in 1 .. N, NEW n \in 1 .. N, m < n PROVE s[m] < s[n]
  <2>1. s[m] \in T /\ s[n] \in T /\ Before(R, T, s[m]) = m - 1 /\ Before(R, T, s[n]) = n - 1
    BY <1>6
  <2>2. ~ (Before(R, T, s[n]) < Before(R, T, s[m])) /\ s[m] # s[n]
    BY <1>7, <2>1
  <2>3. <<s[n], s[m]>> \notin R
    <3> DEFINE x == s[n]
               y == s[m]
    <3>1. x \in T /\ y \in T /\ ~ (Before(R, T, x) < Before(R, T, y))
      BY <2>1, <2>2
    <3> HIDE DEF x, y
    <3>2. <<x, y>> \notin R
      BY <1>3, <3>1, BeforeGrows
    <3> QED
      BY <3>2 DEF x, y
  <2>4. ~ (s[n] < s[m])
    BY <1>4, <2>1, <2>3
  <2>5. s[n] \in Int /\ s[m] \in Int
    BY <2>1
  <2> QED
    BY <2>2, <2>4, <2>5
<1>8. ASSUME NEW x \in T PROVE \E n \in 1 .. N : s[n] = x
  <2>1. Before(R, T, x) \in 0 .. N - 1
    BY <1>3, EveryPlaceTaken
  <2> DEFINE n == Before(R, T, x) + 1
  <2>2. n \in 1 .. N /\ n - 1 = Before(R, T, x)
    BY <1>1, <2>1
  <2> HIDE DEF n
  <2>3. s[n] \in T /\ Before(R, T, s[n]) = Before(R, T, x)
    BY <1>6, <2>2
  <2>4. s[n] = x
    BY <1>3, <2>3, EveryPlaceTaken
  <2> QED
    BY <2>2, <2>4
<1> HIDE DEF s, N
<1> QED
  BY <1>1, <1>2, <1>6, <1>7, <1>8 DEF s, N

-----------------------------------------------------------------------------
(* Sums over any finite set.                                                *)

Units(f) == UNION {{x} \X (1 .. f[x]) : x \in DOMAIN f}
NatValued(f) == IsFiniteSet(DOMAIN f) /\ \A x \in DOMAIN f : f[x] \in Nat

LEMMA UnitsFacts ==
    ASSUME NEW f, NatValued(f)
    PROVE  /\ IsFiniteSet(Units(f)) /\ Total(f) = Cardinality(Units(f)) /\ Total(f) \in Nat
           /\ \A p : p \in Units(f) <=> \E x \in DOMAIN f : \E k \in 1 .. f[x] : p = <<x, k>>
<1>1. ASSUME NEW p
      PROVE  p \in Units(f) <=> \E x \in DOMAIN f : \E k \in 1 .. f[x] : p = <<x, k>>
  BY DEF Units
<1>2. IsFiniteSet(Units(f))
  <2> DEFINE some == {{x} \X (1 .. f[x]) : x \in DOMAIN f}
             g == [x \in DOMAIN f |-> {x} \X (1 .. f[x])]
  <2>1. IsFiniteSet(some)
    <3>1. g \in Surjection(DOMAIN f, some)
      BY DEF Surjection
    <3> HIDE DEF g, some
    <3> QED
      BY <3>1, FS_Surjection DEF NatValued
  <2>2. ASSUME NEW S \in some PROVE IsFiniteSet(S)
    <3>1. PICK x \in DOMAIN f : S = {x} \X (1 .. f[x])
      OBVIOUS
    <3>2. IsFiniteSet(1 .. f[x])
      <4>1. f[x] \in Int /\ 1 \in Int
        BY DEF NatValued
      <4> QED
        BY <4>1, FS_Interval
    <3>3. IsFiniteSet({x})
      BY FS_Singleton
    <3> QED
      BY <3>1, <3>2, <3>3, FS_Product
  <2> HIDE DEF some
  <2>3. IsFiniteSet(UNION some)
    BY <2>1, <2>2, FS_UNION
  <2> QED
    BY <2>3 DEF Units, some
<1>3. Total(f) = Cardinality(Units(f))
  BY DEF Total, Units
<1> QED
  BY <1>1, <1>2, <1>3, FS_CardinalityType

\* A sum does not get smaller where every term has a place of its own for a
\* term at least as large.
LEMMA TotalGrows ==
    ASSUME NEW f, NatValued(f), NEW g, NatValued(g), NEW h,
           \A x \in DOMAIN f : h[x] \in DOMAIN g /\ f[x] <= g[h[x]],
           \A x, y \in DOMAIN f : h[x] = h[y] => x = y
    PROVE  Total(f) <= Total(g)
<1> DEFINE U == Units(f)
           V == Units(g)
           i == [p \in U |-> <<h[p[1]], p[2]>>]
<1>1. \A p : p \in U <=> \E x \in DOMAIN f : \E k \in 1 .. f[x] : p = <<x, k>>
  BY UnitsFacts
<1>2. \A p : p \in V <=> \E x \in DOMAIN g : \E k \in 1 .. g[x] : p = <<x, k>>
  BY UnitsFacts
<1> HIDE DEF U, V
<1>3. i \in [U -> V]
  <2> SUFFICES ASSUME NEW p \in U PROVE <<h[p[1]], p[2]>> \in V
    OBVIOUS
  <2>1. PICK x \in DOMAIN f : \E k \in 1 .. f[x] : p = <<x, k>>
    BY <1>1
  <2>2. PICK k \in 1 .. f[x] : p = <<x, k>>
    BY <2>1
  <2>3. h[x] \in DOMAIN g /\ f[x] <= g[h[x]] /\ f[x] \in Nat /\ g[h[x]] \in Nat
    BY DEF NatValued
  <2>4. k \in 1 .. g[h[x]]
    BY <2>3
  <2> QED
    BY <1>2, <2>2, <2>3, <2>4
<1>4. ASSUME NEW p \in U, NEW q \in U, i[p] = i[q] PROVE p = q
  <2>1. PICK x \in DOMAIN f : \E k \in 1 .. f[x] : p = <<x, k>>
    BY <1>1
  <2>2. PICK y \in DOMAIN f : \E k \in 1 .. f[y] : q = <<y, k>>
    BY <1>1
  <2>3. h[x] = h[y] /\ p[2] = q[2]
    BY <1>4, <2>1, <2>2
  <2> QED
    BY <2>1, <2>2, <2>3
<1>5. i \in Injection(U, V)
  BY <1>3, <1>4 DEF Injection, IsInjective
<1> HIDE DEF i
<1>6. IsFiniteSet(V) /\ Total(f) = Cardinality(U) /\ Total(g) = Cardinality(V)
  BY UnitsFacts DEF U, V
<1> QED
  BY <1>5, <1>6, FS_Injection

\* One of the terms can be taken out.
LEMMA TotalAt ==
    ASSUME NEW f, NatValued(f), NEW x \in DOMAIN f, NEW g,
           DOMAIN g = DOMAIN f \ {x}, \A y \in DOMAIN g : g[y] = f[y]
    PROVE  /\ NatValued(g) /\ Total(g) \in Nat /\ Total(f) \in Nat
           /\ Total(f) = Total(g) + f[x]
<1>1. NatValued(g)
  <2>1. IsFiniteSet(DOMAIN f \ {x})
    BY FS_RemoveElement DEF NatValued
  <2> QED
    BY <2>1 DEF NatValued
<1> DEFINE U == Units(f)
           V == Units(g)
           W == {x} \X (1 .. f[x])
<1>2. /\ IsFiniteSet(U) /\ Total(f) = Cardinality(U)
      /\ \A p : p \in U <=> \E y \in DOMAIN f : \E k \in 1 .. f[y] : p = <<y, k>>
  BY UnitsFacts
<1>3. /\ IsFiniteSet(V) /\ Total(g) = Cardinality(V)
      /\ \A p : p \in V <=> \E y \in DOMAIN g : \E k \in 1 .. g[y] : p = <<y, k>>
  BY <1>1, UnitsFacts
<1>4. f[x] \in Nat
  BY DEF NatValued
<1>5. IsFiniteSet(W) /\ Cardinality(W) = f[x]
  <2>1. 1 \in Int /\ f[x] \in Int
    BY <1>4
  <2>2. IsFiniteSet(1 .. f[x])
    BY <2>1, FS_Interval
  <2>3. Cardinality(1 .. f[x]) = IF 1 > f[x] THEN 0 ELSE f[x] - 1 + 1
    BY <2>1, FS_Interval
  <2>4. Cardinality(1 .. f[x]) = f[x]
    BY <1>4, <2>3
  <2>5. IsFiniteSet({x}) /\ Cardinality({x}) = 1
    BY FS_Singleton
  <2>6. IsFiniteSet(W) /\ Cardinality(W) = Cardinality({x}) * Cardinality(1 .. f[x])
    BY <2>2, <2>5, FS_Product
  <2>7. 1 * f[x] = f[x]
    BY <1>4
  <2> QED
    BY <2>4, <2>5, <2>6, <2>7
<1> HIDE DEF U, V
<1>6. U = V \cup W
  <2>1. \A y : y \in DOMAIN f <=> y \in DOMAIN g \/ y = x
    OBVIOUS
  <2>2. \A p : p \in W <=> \E k \in 1 .. f[x] : p = <<x, k>>
    OBVIOUS
  <2> HIDE DEF W
  <2>3. ASSUME NEW p PROVE p \in U <=> p \in V \/ p \in W
    <3>1. p \in U <=> \E y \in DOMAIN f : \E k \in 1 .. f[y] : p = <<y, k>>
      BY <1>2
    <3>2. p \in V <=> \E y \in DOMAIN g : \E k \in 1 .. f[y] : p = <<y, k>>
      BY <1>3
    <3>3. p \in W <=> \E k \in 1 .. f[x] : p = <<x, k>>
      BY <2>2
    <3> QED
      BY <2>1, <3>1, <3>2, <3>3
  <2> QED
    BY <2>3
<1>7. V \cap W = {}
  <2>1. ASSUME NEW p \in V, p \in W PROVE FALSE
    <3>1. p[1] = x
      BY <2>1
    <3>2. PICK y \in DOMAIN g : \E k \in 1 .. g[y] : p = <<y, k>>
      BY <1>3
    <3>3. p[1] = y
      BY <3>2
    <3> QED
      BY <3>1, <3>3
  <2> QED
    BY <2>1
<1> HIDE DEF W
<1>8. Cardinality(V \cup W) = Cardinality(V) + Cardinality(W) - Cardinality(V \cap W)
  BY <1>3, <1>5, FS_Union
<1>9. Cardinality(V \cap W) = 0 /\ Cardinality(V) \in Nat
  BY <1>3, <1>7, FS_EmptySet, FS_CardinalityType
<1>10. Total(f) = Total(g) + f[x]
  BY <1>2, <1>3, <1>4, <1>5, <1>6, <1>8, <1>9
<1> QED
  BY <1>1, <1>3, <1>4, <1>9, <1>10

\* A sum of nothing but zeros is 0.
LEMMA TotalZero ==
    ASSUME NEW f, NatValued(f), \A x \in DOMAIN f : f[x] = 0
    PROVE  Total(f) = 0
<1>1. \A p : p \in Units(f) <=> \E x \in DOMAIN f : \E k \in 1 .. f[x] : p = <<x, k>>
  BY UnitsFacts
<1>2. \A x \in DOMAIN f : 1 .. f[x] = {}
  OBVIOUS
<1>3. Units(f) = {}
  BY <1>1, <1>2
<1> QED
  BY <1>3, UnitsFacts, FS_EmptySet

\* The sum of two sequences put together.
LEMMA TotalConcat ==
    ASSUME NEW m \in Nat, NEW n \in Nat, NEW g, \A k \in 1 .. m + n : g[k] \in Nat
    PROVE  /\ Total([k \in 1 .. m |-> g[k]]) \in Nat
           /\ Total([k \in 1 .. n |-> g[m + k]]) \in Nat
           /\ Total([k \in 1 .. m + n |-> g[k]])
                = Total([k \in 1 .. m |-> g[k]]) + Total([k \in 1 .. n |-> g[m + k]])
<1> DEFINE A == Total([k \in 1 .. m |-> g[k]])
           B(i) == Total([k \in 1 .. i |-> g[m + k]])
           C(i) == Total([k \in 1 .. m + i |-> g[k]])
           T == {i \in Nat : i <= n => B(i) \in Nat /\ C(i) = A + B(i)}
<1>1. A \in Nat
  <2>1. NatValued([k \in 1 .. m |-> g[k]])
    <3>1. IsFiniteSet(1 .. m)
      BY FS_Interval
    <3> QED
      BY <3>1 DEF NatValued
  <2> QED
    BY <2>1, UnitsFacts
<1>2. 0 \in T
  <2>1. B(0) = 0
    <3> DEFINE d == [k \in Nat |-> g[m + k]]
    <3>1. [k \in 1 .. 0 |-> g[m + k]] = [k \in 1 .. 0 |-> d[k]]
      OBVIOUS
    <3> HIDE DEF d
    <3> QED
      BY <3>1, TotalEmpty
  <2>2. C(0) = A
    <3>1. m + 0 = m
      OBVIOUS
    <3> QED
      BY <3>1
  <2> QED
    BY <1>1, <2>1, <2>2
<1>3. ASSUME NEW i \in Nat, i \in T PROVE i + 1 \in T
  <2> SUFFICES ASSUME i + 1 <= n PROVE B(i + 1) \in Nat /\ C(i + 1) = A + B(i + 1)
    OBVIOUS
  <2>1. B(i) \in Nat /\ C(i) = A + B(i)
    BY <1>3
  <2>2. B(i + 1) = B(i) + g[m + (i + 1)]
    <3> DEFINE d == [k \in Nat |-> g[m + k]]
    <3>1. \A j \in 1 .. i + 1 : d[j] \in Nat
      <4> SUFFICES ASSUME NEW j \in 1 .. i + 1 PROVE g[m + j] \in Nat
        OBVIOUS
      <4>1. m + j \in 1 .. m + n
        OBVIOUS
      <4> QED
        BY <4>1
    <3>2. [k \in 1 .. i + 1 |-> g[m + k]] = [k \in 1 .. i + 1 |-> d[k]]
      OBVIOUS
    <3>3. [k \in 1 .. i |-> g[m + k]] = [k \in 1 .. i |-> d[k]]
      OBVIOUS
    <3>4. d[i + 1] = g[m + (i + 1)]
      OBVIOUS
    <3> HIDE DEF d
    <3> QED
      BY <3>1, <3>2, <3>3, <3>4, TotalStep
  <2>3. C(i + 1) = C(i) + g[(m + i) + 1]
    <3>1. m + i \in Nat /\ \A j \in 1 .. (m + i) + 1 : g[j] \in Nat
      OBVIOUS
    <3>2. m + (i + 1) = (m + i) + 1
      OBVIOUS
    <3> QED
      BY <3>1, <3>2, TotalStep
  <2>4. m + (i + 1) = (m + i) + 1 /\ m + (i + 1) \in 1 .. m + n
    OBVIOUS
  <2>5. g[m + (i + 1)] \in Nat /\ g[(m + i) + 1] = g[m + (i + 1)]
    BY <2>4
  <2> HIDE DEF A, B, C
  <2> QED
    BY <1>1, <2>1, <2>2, <2>3, <2>5
<1>4. n \in T
  <2> HIDE DEF T
  <2> QED
    BY <1>2, <1>3, EveryNumber
<1> QED
  BY <1>1, <1>4
=============================================================================
