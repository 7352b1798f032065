------------------------ MODULE SchedulerMemoryProofs -------------------------
(***************************************************************************)
(* Every action of the loop keeps MemInv, so with ChunkCache every KV slot *)
(* and every request row has exactly one owner or is free once, and no     *)
(* allocation ever fails.                                                  *)
(*                                                                         *)
(* First what a bag with one owner per element says of Freed, Rest and     *)
(* Taken; then, action by action, which conjuncts of MemInv it disturbs.   *)
(***************************************************************************)
EXTENDS SchedulerMemory, SchedulerProofs

-----------------------------------------------------------------------------
(* Free lists.                                                              *)

\* no entry is there twice
NoneTwice(bag) == IsFiniteSet(DOMAIN bag) /\ \A x \in DOMAIN bag : bag[x] \in {0, 1}
There(bag) == {x \in DOMAIN bag : bag[x] > 0}

\* A bag with nothing twice counts what is there.
LEMMA CountThere ==
    ASSUME NEW bag, NoneTwice(bag)
    PROVE  /\ Count(bag) = Cardinality(There(bag)) /\ Count(bag) \in Nat
           /\ IsFiniteSet(There(bag))
           /\ \A x : x \in There(bag) <=> x \in DOMAIN bag /\ bag[x] = 1
<1>1. NatValued(bag)
  BY DEF NoneTwice, NatValued
<1> DEFINE T == There(bag)
           U == Units(bag)
<1>2. \A x : x \in T <=> x \in DOMAIN bag /\ bag[x] = 1
  BY DEF NoneTwice, There
<1>3. IsFiniteSet(T)
  BY FS_Subset DEF NoneTwice, There
<1>4. /\ IsFiniteSet(U) /\ Total(bag) = Cardinality(U) /\ Total(bag) \in Nat
      /\ \A p : p \in U <=> \E x \in DOMAIN bag : \E k \in 1 .. bag[x] : p = <<x, k>>
  BY <1>1, UnitsFacts
<1> HIDE DEF T, U
<1>5. U = T \X {1}
  <2>1. ASSUME NEW p PROVE p \in U <=> \E x \in T : p = <<x, 1>>
    <3>1. ASSUME p \in U PROVE \E x \in T : p = <<x, 1>>
      <4>1. PICK x \in DOMAIN bag : \E k \in 1 .. bag[x] : p = <<x, k>>
        BY <1>4, <3>1
      <4>2. bag[x] = 1 /\ p = <<x, 1>>
        BY <4>1 DEF NoneTwice
      <4> QED
        BY <1>2, <4>2
    <3>2. ASSUME NEW x \in T, p = <<x, 1>> PROVE p \in U
      <4>1. x \in DOMAIN bag /\ 1 \in 1 .. bag[x]
        BY <1>2
      <4> QED
        BY <1>4, <3>2, <4>1
    <3> QED
      BY <3>1, <3>2
  <2> QED
    BY <2>1
<1>6. Cardinality(T \X {1}) = Cardinality(T) * Cardinality({1})
  BY <1>3, FS_Singleton, FS_Product
<1>7. Cardinality({1}) = 1 /\ Cardinality(T) \in Nat
  BY <1>3, FS_Singleton, FS_CardinalityType
<1>8. Cardinality(U) = Cardinality(T)
  BY <1>5, <1>6, <1>7
<1> QED
  BY <1>2, <1>3, <1>4, <1>8 DEF Count, T

\* A list without repetitions is as long as the set of what is in it.
LEMMA InjectiveCard ==
    ASSUME NEW s, IsSeq(s), Injective(s)
    PROVE  IsFiniteSet(ToSet(s)) /\ Cardinality(ToSet(s)) = Len(s) /\ Len(s) \in Nat
<1>1. Len(s) \in Nat /\ DOMAIN s = 1 .. Len(s)
  BY SeqFacts
<1> DEFINE f == [k \in 1 .. Len(s) |-> s[k]]
<1>2. f \in Bijection(1 .. Len(s), ToSet(s))
  BY <1>1 DEF Bijection, Injection, IsInjective, Surjection, ToSet, Injective
<1> HIDE DEF f
<1>3. IsFiniteSet(1 .. Len(s)) /\ Cardinality(1 .. Len(s)) = Len(s)
  <2>1. 1 \in Int /\ Len(s) \in Int
    BY <1>1
  <2>2. Cardinality(1 .. Len(s)) = IF 1 > Len(s) THEN 0 ELSE Len(s) - 1 + 1
    BY <2>1, FS_Interval
  <2> QED
    BY <1>1, <2>1, <2>2, FS_Interval, SMTT(20)
<1>4. ExistsBijection(1 .. Len(s), ToSet(s))
  BY <1>2 DEF ExistsBijection
<1> QED
  BY <1>1, <1>3, <1>4, FS_Bijection

\* and what is in it is in it once.
LEMMA TimesOne ==
    ASSUME NEW s, IsSeq(s), Injective(s), NEW x
    PROVE  Times(x, s) = One(x \in ToSet(s))
<1> DEFINE K == {k \in DOMAIN s : s[k] = x}
<1>1. CASE x \in ToSet(s)
  <2>1. PICK k \in DOMAIN s : s[k] = x
    BY <1>1 DEF ToSet
  <2>2. K = {k}
    BY <2>1 DEF Injective
  <2> HIDE DEF K
  <2>3. Cardinality(K) = 1
    BY <2>2, FS_Singleton
  <2> QED
    BY <1>1, <2>3 DEF Times, One, K
<1>2. CASE x \notin ToSet(s)
  <2>1. K = {}
    BY <1>2 DEF ToSet
  <2> HIDE DEF K
  <2>2. Cardinality(K) = 0
    BY <2>1, FS_EmptySet
  <2> QED
    BY <1>2, <2>2 DEF Times, One, K
<1> QED
  BY <1>1, <1>2

\* alloc gives n different entries of the free list, if it has them.
LEMMA TakenFacts ==
    ASSUME NEW bag, NoneTwice(bag), DOMAIN bag \subseteq Int, NEW n \in Nat
    PROVE  /\ IsSeq(Taken(bag, n)) /\ Injective(Taken(bag, n))
           /\ Len(Taken(bag, n)) = IF n <= Count(bag) THEN n ELSE Count(bag)
           /\ DOMAIN Taken(bag, n) = 1 .. Len(Taken(bag, n))
           /\ \A x \in ToSet(Taken(bag, n)) : x \in There(bag)
<1> DEFINE T == There(bag)
           m == Min({n, Cardinality(T)})
           s == [k \in 1 .. m |-> Nth(T, k)]
<1>1. Taken(bag, n) = s
  BY DEF Taken, There
<1>2. IsFiniteSet(T) /\ Count(bag) = Cardinality(T) /\ Count(bag) \in Nat
  BY CountThere
<1>3. T \subseteq Int
  BY DEF There
<1> HIDE DEF T
<1>4. m = IF n <= Count(bag) THEN n ELSE Count(bag)
  BY <1>2 DEF Min
<1>5. m \in Nat /\ m <= Cardinality(T)
  BY <1>2, <1>4
<1>6. /\ \A k \in 1 .. Cardinality(T) : Nth(T, k) \in T
      /\ \A j, k \in 1 .. Cardinality(T) : Nth(T, j) = Nth(T, k) => j = k
  BY <1>2, <1>3, NthFacts
<1>7. \A k \in 1 .. m : k \in 1 .. Cardinality(T)
  BY <1>2, <1>5
<1> HIDE DEF m
<1>8. IsSeq(s) /\ Len(s) = m /\ DOMAIN s = 1 .. m
  BY <1>5, FunctionIsSeq
<1>9. \A k \in 1 .. m : s[k] = Nth(T, k)
  OBVIOUS
<1> HIDE DEF s
<1>10. Injective(s)
  BY <1>6, <1>7, <1>8, <1>9 DEF Injective
<1>11. \A x \in ToSet(s) : x \in T
  BY <1>6, <1>7, <1>8, <1>9 DEF ToSet
<1> QED
  BY <1>1, <1>4, <1>8, <1>10, <1>11 DEF T

\* Giving back what was not there puts each of it there once ...
LEMMA FreedFacts ==
    ASSUME NEW bag, NoneTwice(bag), NEW s, IsSeq(s), Injective(s),
           \A x \in ToSet(s) : x \in DOMAIN bag /\ bag[x] = 0
    PROVE  /\ NoneTwice(Freed(bag, s)) /\ DOMAIN Freed(bag, s) = DOMAIN bag
           /\ \A x \in DOMAIN bag :
                 Freed(bag, s)[x] = IF x \in ToSet(s) THEN 1 ELSE bag[x]
           /\ Count(Freed(bag, s)) = Count(bag) + Len(s)
<1> DEFINE b == Freed(bag, s)
<1>1. DOMAIN b = DOMAIN bag /\ \A x \in DOMAIN bag : b[x] = bag[x] + One(x \in ToSet(s))
  BY TimesOne DEF Freed
<1>2. \A x \in DOMAIN bag : b[x] = IF x \in ToSet(s) THEN 1 ELSE bag[x]
  BY <1>1 DEF One, NoneTwice
<1> HIDE DEF b
<1>3. NoneTwice(b)
  BY <1>1, <1>2 DEF NoneTwice
<1> DEFINE T == There(bag)
           N == There(b)
           S == ToSet(s)
<1>4. /\ IsFiniteSet(T) /\ Count(bag) = Cardinality(T) /\ Count(bag) \in Nat
      /\ \A x : x \in T <=> x \in DOMAIN bag /\ bag[x] = 1
  BY CountThere
<1>5. Count(b) = Cardinality(N) /\ \A x : x \in N <=> x \in DOMAIN b /\ b[x] = 1
  BY <1>3, CountThere
<1>6. IsFiniteSet(S) /\ Cardinality(S) = Len(s) /\ Len(s) \in Nat
  BY InjectiveCard
<1>7. \A x \in S : x \in DOMAIN bag /\ bag[x] = 0
  OBVIOUS
<1>8. \A x \in DOMAIN bag : b[x] = IF x \in S THEN 1 ELSE bag[x]
  BY <1>2
<1> HIDE DEF T, N, S
<1>9. N = T \cup S /\ T \cap S = {}
  BY <1>1, <1>4, <1>5, <1>7, <1>8
<1>10. Cardinality(T \cap S) = 0
  BY <1>9, FS_EmptySet
<1>11. Cardinality(T \cup S) = Cardinality(T) + Cardinality(S) - Cardinality(T \cap S)
  BY <1>4, <1>6, FS_Union
<1>12. Count(b) = Count(bag) + Len(s)
  BY <1>4, <1>5, <1>6, <1>9, <1>10, <1>11
<1> QED
  BY <1>1, <1>2, <1>3, <1>12 DEF b

\* ... and taking what was there leaves the rest.
LEMMA RestFacts ==
    ASSUME NEW bag, NoneTwice(bag), NEW s, IsSeq(s), Injective(s),
           \A x \in ToSet(s) : x \in There(bag)
    PROVE  /\ NoneTwice(Rest(bag, s)) /\ DOMAIN Rest(bag, s) = DOMAIN bag
           /\ \A x \in DOMAIN bag :
                 Rest(bag, s)[x] = IF x \in ToSet(s) THEN 0 ELSE bag[x]
           /\ Count(Rest(bag, s)) = Count(bag) - Len(s)
<1> DEFINE b == Rest(bag, s)
           T == There(bag)
           N == There(b)
           S == ToSet(s)
<1>1. DOMAIN b = DOMAIN bag /\ \A x \in DOMAIN bag : b[x] = bag[x] - One(x \in S)
  BY TimesOne DEF Rest
<1>2. /\ IsFiniteSet(T) /\ Count(bag) = Cardinality(T) /\ Count(bag) \in Nat
      /\ \A x : x \in T <=> x \in DOMAIN bag /\ bag[x] = 1
  BY CountThere
<1>3. IsFiniteSet(S) /\ Cardinality(S) = Len(s) /\ Len(s) \in Nat
  BY InjectiveCard
<1>4. S \subseteq T
  OBVIOUS
<1> HIDE DEF b, T, S
<1>5. \A x \in DOMAIN bag : b[x] = IF x \in S THEN 0 ELSE bag[x]
  BY <1>1, <1>2, <1>4 DEF One, NoneTwice
<1>6. NoneTwice(b)
  BY <1>1, <1>5 DEF NoneTwice
<1>7. Count(b) = Cardinality(N) /\ \A x : x \in N <=> x \in DOMAIN b /\ b[x] = 1
  BY <1>6, CountThere
<1> HIDE DEF N
<1>8. N = T \ S /\ T \cap S = S
  BY <1>1, <1>2, <1>4, <1>5, <1>7
<1>9. Cardinality(T \ S) = Cardinality(T) - Cardinality(T \cap S)
  BY <1>2, FS_Difference
<1>10. Count(b) = Count(bag) - Len(s)
  BY <1>2, <1>3, <1>7, <1>8, <1>9
<1> QED
  BY <1>1, <1>5, <1>6, <1>10 DEF b, S

-----------------------------------------------------------------------------
(* One owner each.                                                          *)

\* Nothing is free twice, and what is owned is not free.
LEMMA OwnedOnce ==
    ASSUME NEW bag, NEW D, IsFiniteSet(D), NEW own, OneOwner(bag, D, own)
    PROVE  /\ NoneTwice(bag) /\ DOMAIN bag = D
           /\ \A r \in Reqs : \A x \in own[r] : x \in D /\ bag[x] = 0
BY DEF OneOwner, NoneTwice, One

\* Nothing changes hands.
LEMMA KeepsOwners ==
    ASSUME NEW bag, NEW D, NEW own, OneOwner(bag, D, own), NEW new,
           \A r \in Reqs : new[r] = own[r]
    PROVE  OneOwner(bag, D, new)
BY DEF OneOwner

\* A request gives back some of what it owns.
LEMMA GivesBack ==
    ASSUME NEW bag, NEW D, IsFiniteSet(D), NEW own, OneOwner(bag, D, own),
           NEW r \in Reqs, NEW s, IsSeq(s), Injective(s), ToSet(s) \subseteq own[r],
           NEW new, new[r] = own[r] \ ToSet(s), \A q \in Reqs : q # r => new[q] = own[q]
    PROVE  OneOwner(Freed(bag, s), D, new) /\ Count(Freed(bag, s)) = Count(bag) + Len(s)
<1>1. NoneTwice(bag) /\ DOMAIN bag = D /\ \A x \in ToSet(s) : x \in DOMAIN bag /\ bag[x] = 0
  BY OwnedOnce
<1> DEFINE b == Freed(bag, s)
           S == ToSet(s)
<1>2. /\ DOMAIN b = D /\ Count(b) = Count(bag) + Len(s)
      /\ \A x \in D : b[x] = IF x \in S THEN 1 ELSE bag[x]
  BY <1>1, FreedFacts
<1>3. S \subseteq own[r]
  OBVIOUS
<1>4. new[r] = own[r] \ S
  OBVIOUS
<1> HIDE DEF b, S
<1>5. \A q \in Reqs : new[q] \subseteq own[q]
  BY <1>4
<1>6. ASSUME NEW x \in D PROVE b[x] = One(\A q \in Reqs : x \notin new[q])
  <2>1. CASE x \in S
    <3>1. \A q \in Reqs : x \notin new[q]
      BY <1>3, <1>4, <2>1 DEF OneOwner
    <3> QED
      BY <1>2, <2>1, <3>1 DEF One
  <2>2. CASE x \notin S
    <3>1. \A q \in Reqs : x \in new[q] <=> x \in own[q]
      BY <1>4, <2>2
    <3>2. b[x] = bag[x] /\ bag[x] = One(\A q \in Reqs : x \notin own[q])
      BY <1>2, <2>2 DEF OneOwner
    <3>3. (\A q \in Reqs : x \notin own[q]) <=> (\A q \in Reqs : x \notin new[q])
      BY <3>1
    <3> QED
      BY <3>2, <3>3 DEF One
  <2> QED
    BY <2>1, <2>2
<1>7. OneOwner(b, D, new)
  <2>1. b = [x \in D |-> b[x]]
    BY <1>1 DEF b, Freed
  <2> QED
    BY <1>2, <1>5, <1>6, <2>1 DEF OneOwner
<1> QED
  BY <1>2, <1>7 DEF b

\* What is taken from the free list is given to some requests.
LEMMA IsGiven ==
    ASSUME NEW bag, NEW D, IsFiniteSet(D), NEW own, OneOwner(bag, D, own),
           NEW s, IsSeq(s), Injective(s), \A x \in ToSet(s) : x \in There(bag),
           NEW more, NEW new, \A r \in Reqs : new[r] = own[r] \cup more[r],
           \A r \in Reqs : more[r] \subseteq ToSet(s),
           \A q, r \in Reqs : \A x \in more[q] : x \in more[r] => q = r,
           \A x \in ToSet(s) : \E r \in Reqs : x \in more[r]
    PROVE  OneOwner(Rest(bag, s), D, new) /\ Count(Rest(bag, s)) = Count(bag) - Len(s)
<1>1. NoneTwice(bag) /\ DOMAIN bag = D
  BY OwnedOnce
<1> DEFINE b == Rest(bag, s)
           S == ToSet(s)
<1>2. /\ DOMAIN b = D /\ Count(b) = Count(bag) - Len(s)
      /\ \A x \in D : b[x] = IF x \in S THEN 0 ELSE bag[x]
  BY <1>1, RestFacts
<1>3. \A x \in S : x \in D /\ bag[x] = 1
  BY <1>1, CountThere
<1>4. /\ \A r \in Reqs : more[r] \subseteq S
      /\ \A x \in S : \E r \in Reqs : x \in more[r]
  OBVIOUS
<1> HIDE DEF b, S
<1>5. \A x \in S : \A r \in Reqs : x \notin own[r]
  BY <1>3 DEF OneOwner, One
<1>6. ASSUME NEW x \in D PROVE b[x] = One(\A q \in Reqs : x \notin new[q])
  <2>1. CASE x \in S
    <3>1. ~ \A q \in Reqs : x \notin new[q]
      BY <1>4, <2>1
    <3> QED
      BY <1>2, <2>1, <3>1 DEF One
  <2>2. CASE x \notin S
    <3>1. \A q \in Reqs : x \in new[q] <=> x \in own[q]
      BY <1>4, <2>2
    <3>2. b[x] = bag[x] /\ bag[x] = One(\A q \in Reqs : x \notin own[q])
      BY <1>2, <2>2 DEF OneOwner
    <3>3. (\A q \in Reqs : x \notin own[q]) <=> (\A q \in Reqs : x \notin new[q])
      BY <3>1
    <3> QED
      BY <3>2, <3>3 DEF One
  <2> QED
    BY <2>1, <2>2
<1>7. \A r \in Reqs : new[r] \subseteq D
  BY <1>3, <1>4 DEF OneOwner
<1>8. ASSUME NEW q \in Reqs, NEW r \in Reqs, NEW x \in new[q], x \in new[r] PROVE q = r
  <2>1. CASE x \in S
    <3>1. x \in more[q] /\ x \in more[r]
      BY <1>5, <1>8, <2>1
    <3> QED
      BY <3>1
  <2>2. CASE x \notin S
    <3>1. x \in own[q] /\ x \in own[r]
      BY <1>4, <1>8, <2>2
    <3> QED
      BY <3>1 DEF OneOwner
  <2> QED
    BY <2>1, <2>2
<1>9. OneOwner(b, D, new)
  <2>1. b = [x \in D |-> b[x]]
    BY <1>1 DEF b, Rest
  <2> QED
    BY <1>2, <1>6, <1>7, <1>8, <2>1 DEF OneOwner
<1> QED
  BY <1>2, <1>9 DEF b

-----------------------------------------------------------------------------
(* Sums of which finitely many terms are not 0.                             *)

\* One term changes, and the sum by as much.
LEMMA SumsPut ==
    ASSUME NEW n, NEW lens, Sums(n, lens), \A x \in DOMAIN lens : lens[x] \in Nat,
           NEW r \in DOMAIN lens, NEW new, DOMAIN new = DOMAIN lens, new[r] \in Nat,
           \A x \in DOMAIN lens : x # r => new[x] = lens[x]
    PROVE  n \in Nat /\ Sums(n - lens[r] + new[r], new)
<1>1. PICK A \in SUBSET DOMAIN lens :
        /\ IsFiniteSet(A)
        /\ \A x \in DOMAIN lens \ A : lens[x] = 0
        /\ n = Total([x \in A |-> lens[x]])
  BY DEF Sums
<1> DEFINE B == A \cup {r}
           f == [x \in A |-> lens[x]]
           fB == [x \in B |-> lens[x]]
           gB == [x \in B |-> new[x]]
           rest == [x \in B \ {r} |-> lens[x]]
<1>2. IsFiniteSet(B) /\ r \in B /\ B \subseteq DOMAIN lens
  BY <1>1, FS_AddElement
<1>3. NatValued(fB) /\ NatValued(gB) /\ NatValued(f)
  BY <1>1, <1>2 DEF NatValued
<1>4. Total(fB) = Total(rest) + lens[r] /\ Total(rest) \in Nat /\ Total(fB) \in Nat
  <2>1. /\ DOMAIN rest = DOMAIN fB \ {r} /\ \A y \in DOMAIN rest : rest[y] = fB[y]
        /\ r \in DOMAIN fB /\ fB[r] = lens[r]
    BY <1>2
  <2> HIDE DEF rest, fB
  <2> QED
    BY <1>3, <2>1, TotalAt
<1>5. Total(gB) = Total(rest) + new[r]
  <2>1. /\ DOMAIN rest = DOMAIN gB \ {r} /\ \A y \in DOMAIN rest : rest[y] = gB[y]
        /\ r \in DOMAIN gB /\ gB[r] = new[r]
    BY <1>2
  <2> HIDE DEF rest, gB
  <2> QED
    BY <1>3, <2>1, TotalAt
<1>6. n = Total(fB)
  <2>1. CASE r \in A
    <3>1. B = A
      BY <2>1
    <3> QED
      BY <1>1, <3>1
  <2>2. CASE r \notin A
    <3>1. lens[r] = 0
      BY <1>1, <2>2
    <3>2. B \ {r} = A
      BY <2>2
    <3>3. rest = f
      BY <3>2
    <3>4. n = Total(f)
      BY <1>1
    <3> HIDE DEF f, rest, fB
    <3> QED
      BY <1>4, <3>1, <3>3, <3>4
  <2> QED
    BY <2>1, <2>2
<1>7. n - lens[r] + new[r] = Total(gB)
  <2>1. lens[r] \in Nat /\ new[r] \in Nat
    OBVIOUS
  <2> HIDE DEF rest, fB, gB
  <2> QED
    BY <1>4, <1>5, <1>6, <2>1
<1>8. \A x \in DOMAIN new \ B : new[x] = 0
  BY <1>1
<1> QED
  BY <1>2, <1>4, <1>6, <1>7, <1>8 DEF Sums

\* No term but 0 sums up to 0.
LEMMA SumsZero ==
    ASSUME NEW n, NEW lens, Sums(n, lens), \A x \in DOMAIN lens : lens[x] = 0
    PROVE  n = 0
<1>1. PICK A \in SUBSET DOMAIN lens :
        /\ IsFiniteSet(A)
        /\ n = Total([x \in A |-> lens[x]])
  BY DEF Sums
<1> DEFINE f == [x \in A |-> lens[x]]
<1>2. NatValued(f) /\ \A x \in DOMAIN f : f[x] = 0
  BY <1>1 DEF NatValued
<1> HIDE DEF f
<1>3. Total(f) = 0
  BY <1>2, TotalZero
<1> QED
  BY <1>1, <1>3 DEF f

-----------------------------------------------------------------------------
(* Rows.                                                                    *)

\* A row up to its length is the row, ...
LEMMA UptoWhole ==
    ASSUME NEW s, IsSeq(s)
    PROVE  Upto(s, Len(s)) = s
<1>1. Len(s) \in Nat
  BY SeqFacts
<1> DEFINE u == Upto(s, Len(s))
<1>2. IsSeq(u) /\ Len(u) = Len(s) /\ \A k \in 1 .. Len(s) : u[k] = s[k]
  BY <1>1, UptoIsSeq
<1> HIDE DEF u
<1>3. u = s
  BY <1>1, <1>2, SameSeq
<1> QED
  BY <1>3 DEF u

\* ... and a row is its first slots with the others after them.
LEMMA UptoAndRest ==
    ASSUME NEW s, IsSeq(s), NEW n \in Nat, n <= Len(s)
    PROVE  Upto(s, n) \o SubSeq(s, n + 1, Len(s)) = s
<1>1. Len(s) \in Nat
  BY SeqFacts
<1> DEFINE u == Upto(s, n)
           v == SubSeq(s, n + 1, Len(s))
           w == u \o v
<1>2. IsSeq(u) /\ Len(u) = n /\ \A k \in 1 .. n : u[k] = s[k]
  BY <1>1, UptoIsSeq
<1>3. /\ IsSeq(v) /\ Len(v) = Len(s) - n
      /\ \A k \in 1 .. Len(s) - n : v[k] = s[n + k]
  <2>1. n + 1 \in Int /\ Len(s) \in Int
    BY <1>1
  <2>2. /\ IsSeq(v) /\ Len(v) = IF n + 1 <= Len(s) THEN Len(s) - (n + 1) + 1 ELSE 0
        /\ \A k \in 1 .. Len(s) - (n + 1) + 1 : v[k] = s[(n + 1) + k - 1]
    BY <2>1, SubSeqIsSeq
  <2> HIDE DEF v
  <2>3. Len(v) = Len(s) - n
    BY <1>1, <2>2
  <2>4. ASSUME NEW k \in 1 .. Len(s) - n PROVE v[k] = s[n + k]
    <3>1. k \in 1 .. Len(s) - (n + 1) + 1 /\ (n + 1) + k - 1 = n + k
      BY <1>1
    <3> QED
      BY <2>2, <3>1
  <2> QED
    BY <2>2, <2>3, <2>4
<1> HIDE DEF u, v
<1>4. /\ IsSeq(w) /\ Len(w) = Len(u) + Len(v)
      /\ \A k \in 1 .. Len(u) + Len(v) : w[k] = IF k <= Len(u) THEN u[k] ELSE v[k - Len(u)]
  BY <1>2, <1>3, ConcatIsSeq
<1> HIDE DEF w
<1>5. Len(w) = Len(s)
  BY <1>1, <1>2, <1>3, <1>4
<1>6. ASSUME NEW k \in 1 .. Len(w) PROVE w[k] = s[k]
  <2>1. w[k] = IF k <= n THEN u[k] ELSE v[k - n]
    BY <1>1, <1>2, <1>3, <1>4, <1>5
  <2>2. CASE k <= n
    BY <1>2, <2>1, <2>2
  <2>3. CASE ~ (k <= n)
    <3>1. k - n \in 1 .. Len(s) - n /\ n + (k - n) = k
      BY <1>1, <1>5, <2>3
    <3> QED
      BY <1>3, <2>1, <2>3, <3>1
  <2> QED
    BY <2>2, <2>3
<1>7. w = s
  BY <1>4, <1>5, <1>6, SameSeq
<1> QED
  BY <1>7 DEF w, u, v

\* The beginning of a sequence with no element twice.
LEMMA UptoInjective ==
    ASSUME NEW s, IsSeq(s), Injective(s), NEW n \in Nat, n <= Len(s)
    PROVE  /\ IsSeq(Upto(s, n)) /\ Len(Upto(s, n)) = n /\ Injective(Upto(s, n))
           /\ \A k \in 1 .. n : Upto(s, n)[k] = s[k]
           /\ \A k \in n + 1 .. Len(s) : s[k] \notin ToSet(Upto(s, n))
           /\ \A x \in ToSet(s) : x \in ToSet(Upto(s, n)) \/ \E k \in n + 1 .. Len(s) : s[k] = x
           /\ ToSet(Upto(s, n)) \subseteq ToSet(s)
<1> DEFINE u == Upto(s, n)
<1>1. Len(s) \in Nat /\ DOMAIN s = 1 .. Len(s)
  BY SeqFacts
<1>2. IsSeq(u) /\ Len(u) = n /\ \A k \in 1 .. n : u[k] = s[k]
  BY UptoIsSeq
<1>3. DOMAIN u = 1 .. n
  BY <1>2, SeqFacts
<1> HIDE DEF u
<1>4. \A k \in 1 .. n : k \in DOMAIN s
  BY <1>1
<1>5. Injective(u)
  BY <1>2, <1>3, <1>4 DEF Injective
<1>6. ToSet(u) = {s[k] : k \in 1 .. n}
  BY <1>2, <1>3 DEF ToSet
<1>7. ASSUME NEW k \in n + 1 .. Len(s) PROVE s[k] \notin ToSet(u)
  <2>1. \A j \in 1 .. n : j \in DOMAIN s /\ j # k
    BY <1>1
  <2>2. k \in DOMAIN s
    BY <1>1
  <2> QED
    BY <1>6, <2>1, <2>2 DEF Injective
<1>8. ASSUME NEW x \in ToSet(s)
      PROVE  x \in ToSet(u) \/ \E k \in n + 1 .. Len(s) : s[k] = x
  <2>1. PICK k \in 1 .. Len(s) : s[k] = x
    BY <1>1 DEF ToSet
  <2>2. k \in 1 .. n \/ k \in n + 1 .. Len(s)
    BY <1>1
  <2> QED
    BY <1>6, <2>1, <2>2
<1>9. ToSet(u) \subseteq ToSet(s)
  BY <1>4, <1>6 DEF ToSet
<1> QED
  BY <1>2, <1>5, <1>7, <1>8, <1>9 DEF u

-----------------------------------------------------------------------------
(* Steps that leave slots and rows with their owners.                       *)

\* the same requests at the same places, with the same slots
AlikeBatch(b, c) ==
    /\ c.kind = b.kind /\ c.loc = b.loc /\ c.chunked = b.chunked
    /\ Len(c.items) = Len(b.items) /\ DOMAIN c.items = DOMAIN b.items
    /\ \A k \in DOMAIN b.items : /\ c.items[k].r = b.items[k].r
                                 /\ c.items[k].row = b.items[k].row
                                 /\ c.items[k].len = b.items[k].len
KeepsPlace(r) ==
    /\ Active(r)' <=> Active(r)
    /\ Stashed(r)' <=> Stashed(r)
    /\ req'[r].out = req[r].out
    /\ Active(r) => req'[r].row = req[r].row /\ req'[r].pre = req[r].pre
    /\ req'[r].row \in {0, req[r].row}
    /\ Old(r) => req'[r].st = req[r].st /\ req'[r].retracted = req[r].retracted
Frame ==
    /\ UNCHANGED <<mode, free, rows, freeRows, todo>>
    /\ AlikeBatch(Pending, Pending') /\ AlikeBatch(After, After')
    /\ \A r \in Reqs : KeepsPlace(r)

\* What OrderInv says of a loop that is not dead.
LEMMA AliveLoop ==
    ASSUME OrderInv, pc # "dead"
    PROVE  /\ LiveInv /\ QueueInv
           /\ Items(Pending.items) /\ Items(After.items)
           /\ Items(running) /\ Items(cur.items) /\ Items(last.items)
           /\ DOMAIN Pending.items = 1 .. Len(Pending.items)
           /\ DOMAIN After.items = 1 .. Len(After.items)
           /\ Len(Pending.items) \in Nat /\ Len(After.items) \in Nat
           /\ todo \in 0 .. Len(Pending.items)
           /\ free \in [Slots -> Int] /\ Count(free) \in Nat
           /\ ReqsType /\ mode \in Modes
<1>1. LiveInv /\ QueueInv
  BY DEF OrderInv
<1>2. /\ Items(Pending.items) /\ Items(cur.items) /\ Items(running) /\ Items(last.items)
      /\ todo \in 0 .. Len(Pending.items)
      /\ free \in [Slots -> Int] /\ ReqsType /\ mode \in Modes
  BY <1>1 DEF LiveInv, TypesInv, BatchesType, BatchType, MemoryType
<1>3. Items(After.items)
  <2>1. NoBatch.items = <<>>
    BY DEF NoBatch
  <2>2. Items(<<>>)
    BY EmptyIsSeq DEF Items
  <2> QED
    BY <1>2, <2>1, <2>2 DEF After
<1>4. Count(free) \in Nat
  BY <1>2, CountIsNat
<1>5. /\ DOMAIN Pending.items = 1 .. Len(Pending.items) /\ Len(Pending.items) \in Nat
      /\ DOMAIN After.items = 1 .. Len(After.items) /\ Len(After.items) \in Nat
  BY <1>2, <1>3, ItemFacts
<1> QED
  BY <1>1, <1>2, <1>3, <1>4, <1>5

\* the parts of a request's record
LEMMA ReqFacts ==
    ASSUME OrderInv, pc # "dead", NEW r \in Reqs
    PROVE  /\ req[r].out \in Nat /\ req[r].out <= MaxNew(r)
           /\ req[r].st # "done" => req[r].out < MaxNew(r)
           /\ req[r].fill \in Int /\ req[r].chunks \in Nat
           /\ IsSeq(req[r].pre) /\ Len(req[r].pre) \in Nat
           /\ req[r].retracted => req[r].st = "waiting"
           /\ Len(Prompt[r]) \in Nat /\ MaxNew(r) \in Nat /\ TextLen(r) \in Nat
<1>1. ReqType(r, req[r])
  BY AliveLoop DEF ReqsType
<1>2. Len(req[r].pre) \in Nat
  BY <1>1, SeqFacts DEF ReqType
<1> QED
  BY <1>1, <1>2, Constants DEF ReqType, TextLen

\* A step that leaves the batches in flight leaves the late slots.
LEMMA FrameLate ==
    ASSUME OrderInv, pc # "dead", Frame, NEW r \in Reqs
    PROVE  Late(r)' = Late(r) /\ (Old(r)' <=> Old(r)) /\ (New(r)' <=> New(r))
<1>1. /\ DOMAIN After.items = 1 .. Len(After.items)
      /\ DOMAIN Pending.items = 1 .. Len(Pending.items)
      /\ Len(Pending.items) \in Nat /\ todo \in 0 .. Len(Pending.items)
  BY AliveLoop
<1>2. /\ UNCHANGED <<mode, rows, todo>>
      /\ AlikeBatch(Pending, Pending') /\ AlikeBatch(After, After')
      /\ req'[r].out = req[r].out
  BY DEF Frame, KeepsPlace
<1>3. Places0(r)' = Places0(r) /\ Places0(r) \subseteq DOMAIN Pending.items
  BY <1>1, <1>2 DEF Places0, AlikeBatch
<1>4. Places1(r)' = Places1(r)
  BY <1>2 DEF Places1, AlikeBatch
<1>5. ASSUME NEW k \in Places0(r) PROVE LateSlot(k)' = LateSlot(k)
  <2>1. /\ Pending.items[k].r = r /\ Pending'.items[k].r = r
        /\ Pending'.items[k].row = Pending.items[k].row
        /\ Pending'.kind = Pending.kind /\ Pending'.loc = Pending.loc
    BY <1>2, <1>3 DEF Places0, AlikeBatch
  <2> QED
    BY <1>2, <2>1 DEF LateSlot
<1>6. (UNION {ToSet(LateSlot(k)) : k \in Places0(r)})'
         = UNION {ToSet(LateSlot(k)) : k \in Places0(r)}
  BY <1>3, <1>5
<1>7. {After.loc[k] : k \in Places1(r)}' = {After.loc[k] : k \in Places1(r)}
  BY <1>2, <1>4 DEF AlikeBatch
<1>8. Old(r)' <=> Old(r)
  <2>1. Old(r) <=> Places0(r) # {}
    BY DEF Old, Places0
  <2>2. Old(r)' <=> Places0(r)' # {}
    BY DEF Old, Places0
  <2> QED
    BY <1>3, <2>1, <2>2
<1>9. New(r)' <=> New(r)
  BY <1>2 DEF New, ReqsOf, AlikeBatch
<1> QED
  BY <1>6, <1>7, <1>8, <1>9 DEF Late

\* A step that leaves the memory and what requests hold of it leaves the owners,
LEMMA FrameHolds ==
    ASSUME OrderInv, pc # "dead", Frame, SlotsInv, RowsInv
    PROVE  /\ SlotsInv' /\ RowsInv'
           /\ \A r \in Reqs : /\ Active(r)' <=> Active(r)
                              /\ Seated(r)' <=> Seated(r)
                              /\ req'[r].out = req[r].out
                              /\ Active(r) => /\ Held(r)' = Held(r) /\ Row(r)' = Row(r)
                                              /\ req'[r].row = req[r].row
                                              /\ req'[r].pre = req[r].pre
<1>1. /\ UNCHANGED <<mode, free, rows, freeRows, todo>>
      /\ \A r \in Reqs : KeepsPlace(r)
  BY DEF Frame
<1>2. ASSUME NEW r \in Reqs
      PROVE  /\ Active(r)' <=> Active(r)
             /\ Seated(r)' <=> Seated(r)
             /\ req'[r].out = req[r].out
             /\ Active(r) => /\ Held(r)' = Held(r) /\ Row(r)' = Row(r)
                             /\ req'[r].row = req[r].row
                             /\ req'[r].pre = req[r].pre
  <2>1. KeepsPlace(r)
    BY <1>1
  <2>2. Seated(r)' <=> Seated(r)
    BY <2>1 DEF Seated, KeepsPlace
  <2>3. Active(r) => Row(r)' = Row(r)
    BY <1>1, <2>1 DEF KeepsPlace, Row
  <2> QED
    BY <2>1, <2>2, <2>3 DEF KeepsPlace, Held
<1>3. ASSUME NEW r \in Reqs PROVE Owned(r)' = Owned(r) /\ Seat(r)' = Seat(r)
  <2>1. Late(r)' = Late(r)
    BY FrameLate
  <2>2. Owned(r)' = Owned(r)
    BY <1>2, <2>1 DEF Owned
  <2>3. Seat(r)' = Seat(r)
    BY <1>2 DEF Seat, Seated
  <2> QED
    BY <2>2, <2>3
<1>4. SlotsInv'
  <2>1. [r \in Reqs |-> Owned(r)]' = [r \in Reqs |-> Owned(r)]
    BY <1>3
  <2>2. OneOwner(free, Slots, [r \in Reqs |-> Owned(r)])'
    BY <1>1, <2>1 DEF SlotsInv, OneOwner, Slots
  <2>3. \A r \in Reqs : Active(r)' => Injective(Held(r)')
    BY <1>2 DEF SlotsInv
  <2>4. \A r \in Reqs : Injective(Held(r))' <=> Injective(Held(r)')
    BY DEF Injective
  <2> QED
    BY <2>2, <2>3, <2>4 DEF SlotsInv
<1>5. RowsInv'
  <2>1. [r \in Reqs |-> Seat(r)]' = [r \in Reqs |-> Seat(r)]
    BY <1>3
  <2>2. OneOwner(freeRows, Rows, [r \in Reqs |-> Seat(r)])'
    BY <1>1, <2>1 DEF RowsInv, OneOwner, Rows
  <2>3. \A r \in Reqs : req'[r].row \in {0} \cup Rows
    BY <1>1 DEF KeepsPlace, RowsInv
  <2> QED
    BY <1>1, <2>2, <2>3 DEF RowsInv, Rows, Slots
<1> QED
  BY <1>2, <1>4, <1>5

\* and what is in flight.
LEMMA FrameFlight ==
    ASSUME OrderInv, pc # "dead", Frame, SlotsInv, RowsInv, LateOldInv, LateNewInv
    PROVE  LateOldInv' /\ LateNewInv'
<1>1. /\ DOMAIN After.items = 1 .. Len(After.items)
      /\ DOMAIN Pending.items = 1 .. Len(Pending.items)
      /\ Items(Pending.items) /\ Items(After.items)
      /\ Len(Pending.items) \in Nat /\ todo \in 0 .. Len(Pending.items)
  BY AliveLoop
<1>2. /\ UNCHANGED <<mode, free, rows, freeRows, todo>>
      /\ AlikeBatch(Pending, Pending') /\ AlikeBatch(After, After')
      /\ \A r \in Reqs : KeepsPlace(r)
  BY DEF Frame
<1>3. \A r \in Reqs : /\ Active(r)' <=> Active(r)
                      /\ Seated(r)' <=> Seated(r)
                      /\ req'[r].out = req[r].out
                      /\ Active(r) => /\ Held(r)' = Held(r) /\ Row(r)' = Row(r)
                                      /\ req'[r].row = req[r].row
                                      /\ req'[r].pre = req[r].pre
  BY FrameHolds
<1>4. \A r \in Reqs : Seated(r) => Active(r)
  BY DEF Seated
<1>5. ASSUME NEW k \in todo + 1 .. Len(Pending.items), NEW i, i = Pending.items[k],
             NEW j, j = Pending'.items[k]
      PROVE  /\ ~ Active(i.r)' => mode.overlap /\ Delayed(j)'
             /\ Pending'.kind = "decode" =>
                    /\ k \in DOMAIN Pending'.loc
                    /\ j.len > Len(Prompt[i.r])
                    /\ Seated(i.r)' /\ ~ New(i.r)' =>
                         Pending'.loc[k] = Row(i.r)'[Len(Row(i.r)')]
             /\ Pending'.kind = "extend" /\ ~ Partial(Pending', i.r) /\ Seated(i.r)' =>
                    j.row = req'[i.r].row
             /\ Pending'.kind = "extend" /\ ~ Active(i.r)' =>
                    /\ j.row \in Rows
                    /\ req'[i.r].out > 0 => Len(rows'[j.row]) = TextLen(i.r)'
                    /\ \A q \in Reqs : Seated(q)' => req'[q].row # j.row
  <2>1. k \in DOMAIN Pending.items
    BY <1>1
  <2>2. /\ j.r = i.r /\ j.row = i.row /\ j.len = i.len /\ i.r \in Reqs
        /\ Pending'.kind = Pending.kind /\ Pending'.loc = Pending.loc
        /\ Pending'.chunked = Pending.chunked
    BY <1>1, <1>2, <1>5, <2>1, ItemFacts DEF AlikeBatch
  <2>3. Old(i.r)
    BY <1>5 DEF Old
  <2>4. req'[i.r].st = req[i.r].st /\ req'[i.r].retracted = req[i.r].retracted
    BY <1>2, <2>2, <2>3 DEF KeepsPlace
  <2>5. /\ ~ Active(i.r) => mode.overlap /\ Delayed(i)
        /\ Pending.kind = "decode" =>
              /\ k \in DOMAIN Pending.loc
              /\ i.len > Len(Prompt[i.r])
              /\ Seated(i.r) /\ ~ New(i.r) => Pending.loc[k] = Row(i.r)[Len(Row(i.r))]
        /\ Pending.kind = "extend" /\ ~ Partial(Pending, i.r) /\ Seated(i.r) =>
              i.row = req[i.r].row
        /\ Pending.kind = "extend" /\ ~ Active(i.r) =>
              /\ i.row \in Rows
              /\ req[i.r].out > 0 => Len(rows[i.row]) = TextLen(i.r)
              /\ \A q \in Reqs : Seated(q) => req[q].row # i.row
    BY <1>5 DEF LateOldInv
  <2>6. /\ Active(i.r)' <=> Active(i.r)
        /\ Seated(i.r)' <=> Seated(i.r)
        /\ New(i.r)' <=> New(i.r)
        /\ Seated(i.r) => Row(i.r)' = Row(i.r) /\ req'[i.r].row = req[i.r].row
        /\ req'[i.r].out = req[i.r].out
    BY <1>3, <1>4, <2>2, FrameLate
  <2>7. Delayed(j)' <=> Delayed(i)
    BY <2>2, <2>4 DEF Delayed
  <2>8. TextLen(i.r)' = TextLen(i.r) /\ rows' = rows
    BY <1>2, <2>6 DEF TextLen
  <2>9. Partial(Pending', i.r) <=> Partial(Pending, i.r)
    BY <2>2 DEF Partial
  <2>10. ~ Active(i.r)' => mode.overlap /\ Delayed(j)'
    BY <2>5, <2>6, <2>7
  <2>11. Pending'.kind = "decode" =>
                    /\ k \in DOMAIN Pending'.loc
                    /\ j.len > Len(Prompt[i.r])
                    /\ Seated(i.r)' /\ ~ New(i.r)' =>
                         Pending'.loc[k] = Row(i.r)'[Len(Row(i.r)')]
    BY <2>2, <2>5, <2>6
  <2>12. Pending'.kind = "extend" /\ ~ Partial(Pending', i.r) /\ Seated(i.r)' =>
                    j.row = req'[i.r].row
    BY <2>2, <2>5, <2>6, <2>9
  <2>13. \A q \in Reqs : Seated(q)' => Seated(q) /\ req'[q].row = req[q].row
    BY <1>3, <1>4
  <2> QED
    BY <2>2, <2>5, <2>6, <2>8, <2>10, <2>11, <2>12, <2>13
<1>6. LateOldInv'
  <2>1. Len(Pending'.items) = Len(Pending.items) /\ todo' = todo /\ mode' = mode
    BY <1>2 DEF AlikeBatch
  <2>2. \A k \in todo + 1 .. Len(Pending.items) : Pending'.items[k].r = Pending.items[k].r
    BY <1>1, <1>2 DEF AlikeBatch
  <2>3. \A i : Delayed(i)' <=> Delayed(i)'
    OBVIOUS
  <2> QED
    BY <1>5, <2>1, <2>2, SMTT(20) DEF LateOldInv, Partial, Rows
<1>7. LateNewInv'
  <2>1. /\ After'.kind = After.kind /\ After'.loc = After.loc
        /\ DOMAIN After'.items = DOMAIN After.items
    BY <1>2 DEF AlikeBatch
  <2>2. ASSUME NEW k \in DOMAIN After.items, NEW r, r = After.items[k].r
        PROVE  /\ After'.items[k].r = r
               /\ After'.kind = "decode" =>
                     /\ k \in DOMAIN After'.loc
                     /\ After'.items[k].len > Len(Prompt[r])
                     /\ Seated(r)' => After'.loc[k] = Row(r)'[Len(Row(r)')]
               /\ After'.kind # "decode" => Active(r)'
               /\ Old(r)' => Active(r)'
    <3>1. r \in Reqs /\ After'.items[k].r = r /\ After'.items[k].len = After.items[k].len
      BY <1>1, <1>2, <2>2, ItemFacts DEF AlikeBatch
    <3>2. /\ After.kind = "decode" =>
                /\ k \in DOMAIN After.loc
                /\ After.items[k].len > Len(Prompt[r])
                /\ Seated(r) => After.loc[k] = Row(r)[Len(Row(r))]
          /\ After.kind # "decode" => Active(r)
          /\ Old(r) => Active(r)
      BY <2>2 DEF LateNewInv
    <3>3. /\ Active(r)' <=> Active(r)
          /\ Seated(r)' <=> Seated(r)
          /\ Seated(r) => Row(r)' = Row(r)
          /\ Old(r)' <=> Old(r)
      BY <1>3, <1>4, <3>1, FrameLate
    <3> QED
      BY <2>1, <3>1, <3>2, <3>3
  <2> QED
    BY <2>1, <2>2 DEF LateNewInv
<1> QED
  BY <1>6, <1>7

AllItems == ToSet(running) \cup ToSet(Joiners)

\* Who waits for his place in the running batch, and who is in it.
LEMMA PlacesFrame ==
    ASSUME OrderInv, MemInv, Frame,
           \A i \in AllItems' : \E j \in AllItems :
               /\ j.r = i.r /\ j.row = i.row /\ j.len = i.len
               /\ i.r # chunked' => i.r # chunked,
           \A r \in Reqs : r \in ReqsOf(running) \cup ReqsOf(Joiners) /\ Seated(r)
               => r \in ReqsOf(running)' \cup ReqsOf(Joiners)',
           Len(running') + Extra' <= MaxRunning, Len(cur'.items) <= MaxRunning
    PROVE  PlacesInv'
<1>1. \A r \in Reqs : /\ Seated(r)' <=> Seated(r)
                      /\ Active(r) => Row(r)' = Row(r) /\ req'[r].row = req[r].row
  BY FrameHolds DEF MemInv
<1>2. /\ Items(running) /\ Items(last.items) /\ Items(cur.items)
  BY AliveLoop DEF MemInv
<1>3. \A j \in AllItems : j.r \in Reqs
  <2>1. \A k \in DOMAIN running : running[k].r \in Reqs
    BY <1>2, ItemFacts
  <2>2. Items(Joiners)
    <3>1. Items(<<>>)
      BY EmptyIsSeq DEF Items
    <3> QED
      BY <1>2, <3>1 DEF Joiners
  <2>3. \A k \in DOMAIN Joiners : Joiners[k].r \in Reqs
    BY <2>2, ItemFacts
  <2> QED
    BY <2>1, <2>3 DEF AllItems, ToSet
<1>4. ASSUME NEW i \in AllItems'
      PROVE  /\ Seated(i.r)' => i.row = req'[i.r].row /\ i.len = Len(Row(i.r)')
             /\ i.r # chunked' => i.len >= Len(Prompt[i.r])
  <2>1. PICK j \in AllItems : /\ j.r = i.r /\ j.row = i.row /\ j.len = i.len
                              /\ i.r # chunked' => i.r # chunked
    BY <1>4
  <2>2. PICK r \in Reqs : r = i.r
    BY <1>3, <2>1
  <2>3. /\ Seated(r) => i.row = req[r].row /\ i.len = Len(Row(r))
        /\ r # chunked => i.len >= Len(Prompt[r])
    BY <2>1, <2>2 DEF MemInv, PlacesInv, AllItems
  <2>4. Seated(r)' => /\ Seated(r) /\ Row(r)' = Row(r) /\ req'[r].row = req[r].row
    BY <1>1 DEF Seated
  <2>5. Seated(r)' => i.row = req'[r].row /\ i.len = Len(Row(r)')
    BY <2>3, <2>4
  <2> QED
    BY <2>1, <2>2, <2>3, <2>5
<1>5. \A r \in Reqs : Seated(r)' => r \in ReqsOf(running)' \cup ReqsOf(Joiners)'
  BY <1>1 DEF MemInv, PlacesInv
<1>6. Len(Pending'.items) <= MaxRunning
  BY DEF Frame, AlikeBatch, MemInv, PlacesInv
<1> QED
  BY <1>4, <1>5, <1>6 DEF PlacesInv, AllItems

-----------------------------------------------------------------------------
(* The tokens the running requests may still need.                          *)

\* the tokens the running requests may still answer
Left == Total([k \in DOMAIN running |-> MaxNew(running[k].r) - req[running[k].r].out])

\* Multiplication is monotonic.
LEMMA Scale ==
    ASSUME NEW a \in Nat, NEW x \in Nat, NEW y \in Nat, x <= y
    PROVE  a * x <= a * y /\ a * x \in Nat
OBVIOUS

\* What the adder keeps in reserve is a number of tenths of what is left to answer.
LEMMA ReserveFacts ==
    ASSUME OrderInv, pc # "dead", CountersInv
    PROVE  Left \in Nat /\ Reserve = ratio * Left /\ Reserve \in Nat
           /\ ratio \in Nat /\ ratio <= 10
<1> DEFINE f == [k \in DOMAIN running |-> MaxNew(running[k].r) - req[running[k].r].out]
<1>1. NatValued(f)
  <2>1. Items(running) /\ DOMAIN running = 1 .. Len(running) /\ IsFiniteSet(DOMAIN running)
    BY AliveLoop, SeqFacts DEF Items
  <2>2. ASSUME NEW k \in DOMAIN running PROVE f[k] \in Nat
    <3>1. running[k].r \in Reqs
      BY <2>1, ItemFacts
    <3>2. /\ MaxNew(running[k].r) \in Nat /\ req[running[k].r].out \in Nat
          /\ req[running[k].r].out <= MaxNew(running[k].r)
      BY <3>1, ReqFacts
    <3> QED
      BY <3>2
  <2>3. DOMAIN f = DOMAIN running
    OBVIOUS
  <2> HIDE DEF f
  <2> QED
    BY <2>1, <2>2, <2>3 DEF NatValued
<1> HIDE DEF f
<1>2. Total(f) \in Nat
  BY <1>1, UnitsFacts
<1>3. Left = Total(f) /\ Reserve = ratio * Total(f)
  BY DEF Left, Reserve, f
<1>4. ratio \in Nat /\ ratio <= 10
  BY SchedulerAssumption DEF CountersInv
<1> QED
  BY <1>2, <1>3, <1>4, Scale

\* It does not grow while they answer.
LEMMA ReserveFalls ==
    ASSUME OrderInv, pc # "dead", CountersInv, ratio' = ratio,
           DOMAIN running' = DOMAIN running,
           \A k \in DOMAIN running : running'[k].r = running[k].r,
           \A r \in Reqs : /\ req'[r].out \in Nat
                           /\ req[r].out <= req'[r].out /\ req'[r].out <= MaxNew(r)
    PROVE  Reserve' <= Reserve /\ Reserve' \in Nat
<1> DEFINE f == [k \in DOMAIN running |-> MaxNew(running[k].r) - req[running[k].r].out]
           g == [k \in DOMAIN running |-> MaxNew(running[k].r) - req'[running[k].r].out]
           h == [k \in DOMAIN running |-> k]
<1>1. /\ Items(running) /\ DOMAIN running = 1 .. Len(running) /\ IsFiniteSet(DOMAIN running)
      /\ \A k \in DOMAIN running : running[k].r \in Reqs
  BY AliveLoop, SeqFacts, ItemFacts DEF Items
<1>2. ASSUME NEW k \in DOMAIN running PROVE f[k] \in Nat /\ g[k] \in Nat /\ g[k] <= f[k]
  <2>1. PICK r \in Reqs : r = running[k].r
    BY <1>1
  <2>2. /\ MaxNew(r) \in Nat /\ req[r].out \in Nat /\ req[r].out <= MaxNew(r)
        /\ req'[r].out \in Nat /\ req[r].out <= req'[r].out /\ req'[r].out <= MaxNew(r)
    BY ReqFacts
  <2>3. f[k] = MaxNew(r) - req[r].out /\ g[k] = MaxNew(r) - req'[r].out
    BY <2>1
  <2> HIDE DEF f, g
  <2> QED
    BY <2>2, <2>3
<1>3. DOMAIN f = DOMAIN running /\ DOMAIN g = DOMAIN running
  OBVIOUS
<1>4. Left = Total(f)
  BY DEF Left
<1>5. Reserve' = ratio * Total(g)
  <2>1. [k \in DOMAIN running' |-> MaxNew(running'[k].r) - req'[running'[k].r].out] = g
    OBVIOUS
  <2> QED
    BY <2>1 DEF Reserve
<1> HIDE DEF f, g
<1>6. NatValued(f) /\ NatValued(g)
  BY <1>1, <1>2, <1>3 DEF NatValued
<1>7. Total(g) <= Total(f)
  <2>1. \A k \in DOMAIN g : h[k] \in DOMAIN f /\ g[k] <= f[h[k]]
    BY <1>2, <1>3
  <2>2. \A j, k \in DOMAIN g : h[j] = h[k] => j = k
    BY <1>3
  <2> HIDE DEF h
  <2> QED
    BY <1>6, <2>1, <2>2, TotalGrows
<1>8. Total(g) \in Nat /\ Total(f) \in Nat
  BY <1>6, UnitsFacts
<1>9. Reserve = ratio * Left /\ ratio \in Nat
  BY ReserveFacts
<1> QED
  BY <1>4, <1>5, <1>7, <1>8, <1>9, Scale

\* What the joining requests may answer.
LEMMA AnswersFacts ==
    ASSUME OrderInv, pc # "dead"
    PROVE  /\ Answers(Joiners) \in Nat
           /\ Items(Joiners) /\ DOMAIN Joiners = 1 .. Len(Joiners) /\ Len(Joiners) \in Nat
           /\ \A k \in DOMAIN Joiners : Joiners[k].r \in Reqs
<1>1. Items(Joiners)
  <2>1. Items(last.items) /\ Items(cur.items)
    BY AliveLoop
  <2>2. Items(<<>>)
    BY EmptyIsSeq DEF Items
  <2> QED
    BY <2>1, <2>2 DEF Joiners
<1>2. /\ DOMAIN Joiners = 1 .. Len(Joiners) /\ Len(Joiners) \in Nat
      /\ \A k \in DOMAIN Joiners : Joiners[k].r \in Reqs
      /\ IsFiniteSet(DOMAIN Joiners)
  BY <1>1, ItemFacts, SeqFacts DEF Items
<1> DEFINE f == [k \in DOMAIN Joiners |->
                    IF Joiners[k].r = chunked THEN 0 ELSE MaxNew(Joiners[k].r)]
<1>3. \A k \in DOMAIN f : f[k] \in Nat
  BY <1>2, Constants
<1>4. DOMAIN f = DOMAIN Joiners
  OBVIOUS
<1> HIDE DEF f
<1>5. NatValued(f)
  BY <1>2, <1>3, <1>4 DEF NatValued
<1>6. Total(f) \in Nat
  BY <1>5, UnitsFacts
<1> QED
  BY <1>1, <1>2, <1>6 DEF Answers, f

\* The same requests may answer as much as before.
LEMMA AnswersSame ==
    ASSUME DOMAIN Joiners' = DOMAIN Joiners, chunked' = chunked,
           \A k \in DOMAIN Joiners : Joiners'[k].r = Joiners[k].r
    PROVE  Answers(Joiners)' = Answers(Joiners)
BY DEF Answers

\* The room for late slots, between two batches.
LEMMA LateRoomFrame ==
    ASSUME OrderInv, MemInv, Frame, SomeLate',
           (Planning \/ pc = "retract") /\ (Planning' \/ pc' = "retract")
    PROVE  Count(free)' > 0
<1>1. /\ Items(Pending.items) /\ DOMAIN Pending.items = 1 .. Len(Pending.items)
      /\ Len(Pending.items) \in Nat /\ todo \in 0 .. Len(Pending.items)
  BY AliveLoop DEF MemInv
<1>2. /\ UNCHANGED <<free, todo>> /\ AlikeBatch(Pending, Pending')
      /\ \A r \in Reqs : Active(r)' <=> Active(r)
  BY DEF Frame, KeepsPlace
<1>3. \E k \in todo' + 1 .. Len(Pending'.items) : req'[Pending'.items[k].r].st # "active"
  BY DEF SomeLate, Active
<1>4. PICK k \in todo + 1 .. Len(Pending.items) : req'[Pending'.items[k].r].st # "active"
  BY <1>2, <1>3 DEF AlikeBatch
<1>5. k \in DOMAIN Pending.items
  BY <1>1
<1>6. PICK r \in Reqs : r = Pending.items[k].r /\ Pending'.items[k].r = r
  BY <1>1, <1>2, <1>5, ItemFacts DEF AlikeBatch
<1>7. ~ Active(r)
  BY <1>2, <1>4, <1>6 DEF Active
<1>8. SomeLate
  BY <1>6, <1>7 DEF SomeLate
<1>9. Count(free) > 0
  BY <1>8 DEF MemInv, RoomInv
<1> QED
  BY <1>2, <1>9 DEF Count

\* A step that changes no prefix keeps the sum of the protected sizes.
LEMMA CacheFrame ==
    ASSUME CacheInv, UNCHANGED <<mode, cache>>,
           \A r \in Reqs : Len(req'[r].pre) = Len(req[r].pre)
    PROVE  CacheInv'
<1>1. [r \in Reqs |-> Len(req'[r].pre)] = [r \in Reqs |-> Len(req[r].pre)]
  OBVIOUS
<1> QED
  BY <1>1 DEF CacheInv

-----------------------------------------------------------------------------
(* The actions, one by one.                                                 *)

\* A request arrives or is aborted between two iterations.
LEMMA ArrivalMem ==
    ASSUME OrderInv, MemInv, NEW r \in Reqs, Arrive(r) \/ Abort(r)
    PROVE  MemInv'
<1>1. /\ LiveInv /\ QueueInv /\ ReqsType /\ free \in [Slots -> Int]
      /\ Items(running) /\ DOMAIN running = 1 .. Len(running)
  BY AliveLoop, ItemFacts DEF MemInv
<1>2. /\ pc = "recv" /\ pc' = "recv"
      /\ UNCHANGED <<mode, pc, cache, free, rows, freeRows, running, full, chunked, last,
                     cur, queue, adder, futureCt, ratio, todo>>
  BY DEF Arrive, Abort, memory, batches
<1>3. /\ \A q \in Reqs : q # r => req'[q] = req[q]
      /\ Active(r)' <=> Active(r)
      /\ req'[r].out = req[r].out /\ req'[r].row \in {0, req[r].row}
      /\ Active(r) => /\ req'[r].row = req[r].row /\ req'[r].pre = req[r].pre
                      /\ req'[r].fill = req[r].fill /\ req'[r].st = req[r].st
                      /\ req'[r].retracted = req[r].retracted
      /\ ~ Active(r) => /\ req'[r].pre = <<>> /\ req'[r].fill \in {0, req[r].fill}
                        /\ ~ Alive(r)
  <2>1. r \in DOMAIN req /\ DOMAIN req[r] = DOMAIN NewReq
    BY <1>1 DEF ReqsType, ReqType
  <2>2. ~ Active(r) => req[r].pre = <<>>
    BY DEF MemInv, FillInv
  <2>3. CASE Arrive(r)
    BY <2>1, <2>2, <2>3 DEF Arrive, Active, Alive, NewReq
  <2>4. CASE req[r].st = "waiting"
             /\ req' = [req EXCEPT ![r] = [NewReq EXCEPT !.st = "done", !.out = req[r].out]]
    <3> DEFINE x == [NewReq EXCEPT !.st = "done", !.out = req[r].out]
    <3>1. x.st = "done" /\ x.out = req[r].out /\ x.row = 0 /\ x.pre = <<>> /\ x.fill = 0
      BY DEF NewReq
    <3>2. req'[r] = x /\ \A q \in Reqs : q # r => req'[q] = req[q]
      BY <2>1, <2>4
    <3>3. ~ Active(r) /\ ~ Alive(r)
      BY <2>4 DEF Active, Alive
    <3> HIDE DEF x
    <3>4. ~ Active(r)'
      BY <3>1, <3>2 DEF Active
    <3> QED
      BY <3>1, <3>2, <3>3, <3>4
  <2>5. CASE req[r].st = "active" /\ req' = [req EXCEPT ![r].abort = TRUE]
    BY <2>1, <2>5 DEF Active, Alive, NewReq
  <2> QED
    BY <2>3, <2>4, <2>5 DEF Abort
<1>4. Pending' = Pending /\ After' = After
  BY <1>2 DEF Pending, After
<1>5. \A q \in Reqs : ~ Stashed(q) /\ ~ Stashed(q)'
  BY <1>2 DEF Stashed
<1>6. Frame
  <2>1. Old(r) => Alive(r)
    <3> SUFFICES ASSUME Old(r) PROVE Alive(r)
      OBVIOUS
    <3>1. PICK k \in todo + 1 .. Len(Pending.items) : Pending.items[k].r = r
      BY DEF Old
    <3> QED
      BY <1>1, <1>2, <3>1 DEF LiveInv, OldInv, Planning
  <2>2. KeepsPlace(r)
    BY <1>3, <1>5, <2>1 DEF KeepsPlace
  <2>3. ASSUME NEW q \in Reqs, q # r PROVE KeepsPlace(q)
    BY <1>3, <1>5, <2>3 DEF KeepsPlace, Active
  <2>4. AlikeBatch(Pending, Pending') /\ AlikeBatch(After, After')
    BY <1>4 DEF AlikeBatch
  <2> QED
    BY <1>2, <2>2, <2>3, <2>4 DEF Frame
<1>7. /\ SlotsInv' /\ RowsInv' /\ LateOldInv' /\ LateNewInv'
      /\ \A q \in Reqs : /\ Active(q)' <=> Active(q)
                         /\ Seated(q)' <=> Seated(q)
                         /\ req'[q].out = req[q].out
                         /\ Active(q) => Row(q)' = Row(q)
  BY <1>6, FrameHolds, FrameFlight DEF MemInv
<1>8. FillInv'
  <2>1. ASSUME NEW q \in Reqs
        PROVE  /\ ~ Active(q)' => req'[q].pre = <<>>
               /\ ToSet(req'[q].pre) \subseteq Slots
               /\ Len(req'[q].pre) <= req'[q].fill /\ req'[q].fill <= TextLen(q)'
               /\ Seated(q)' => req'[q].fill <= Len(Row(q)')
               /\ Seated(q)' /\ q = chunked =>
                    req'[q].fill < TextLen(q)' /\ req'[q].fill = Len(Row(q)')
               /\ q = chunked => Active(q)
    <3>1. /\ ~ Active(q) => req[q].pre = <<>>
          /\ ToSet(req[q].pre) \subseteq Slots
          /\ Len(req[q].pre) <= req[q].fill /\ req[q].fill <= TextLen(q)
          /\ Seated(q) => req[q].fill <= Len(Row(q))
          /\ Seated(q) /\ q = chunked =>
                    req[q].fill < TextLen(q) /\ req[q].fill = Len(Row(q))
      BY <1>2 DEF MemInv, FillInv
    <3>2. TextLen(q)' = TextLen(q) /\ TextLen(q) \in Nat /\ Len(req[q].pre) \in Nat
      BY <1>7, ReqFacts DEF TextLen, MemInv
    <3>3. q = chunked => Active(q)
      BY <1>1, Constants DEF LiveInv, ChunkedInv, Active
    <3>4. CASE req'[q].pre = req[q].pre /\ req'[q].fill = req[q].fill
      <4>1. Seated(q)' => Row(q)' = Row(q)
        BY <1>7 DEF Seated
      <4> QED
        BY <1>7, <3>1, <3>2, <3>3, <3>4, <4>1
    <3>5. CASE q = r /\ ~ Active(r)
      <4>1. req'[q].pre = <<>> /\ req'[q].fill \in {0, req[q].fill} /\ req[q].pre = <<>>
        BY <1>3, <3>1, <3>5
      <4>2. Len(<<>>) = 0 /\ ToSet(<<>>) = {}
        BY DEF ToSet
      <4>3. ~ Active(q)' /\ ~ Seated(q)'
        BY <1>7, <3>5 DEF Seated
      <4>4. Len(req'[q].pre) <= req'[q].fill /\ req'[q].fill <= TextLen(q)'
        BY <3>1, <3>2, <4>1, <4>2
      <4> QED
        BY <3>3, <3>5, <4>1, <4>2, <4>3, <4>4
    <3> QED
      BY <1>3, <3>4, <3>5
  <2>2. \A q \in Reqs : q = chunked => Seated(q)'
    BY <1>5, <1>7, <2>1 DEF Seated
  <2> QED
    BY <1>2, <1>5, <2>1, <2>2 DEF FillInv
<1>9. Joiners' = Joiners /\ Extra' = Extra
  BY <1>2 DEF Joiners, Extra, Launched
<1>10. PlacesInv'
  <2>1. AllItems' = AllItems
    BY <1>2, <1>9 DEF AllItems
  <2>2. ReqsOf(running)' = ReqsOf(running) /\ ReqsOf(Joiners)' = ReqsOf(Joiners)
    BY <1>2, <1>9
  <2>3. Len(running') + Extra' <= MaxRunning /\ Len(cur'.items) <= MaxRunning
    BY <1>2, <1>9 DEF MemInv, PlacesInv
  <2> QED
    BY <1>2, <1>6, <2>1, <2>2, <2>3, PlacesFrame
<1>11. RoomInv'
  <2>1. SomeLate' => Count(free)' > 0
    BY <1>2, <1>6, LateRoomFrame DEF Planning
  <2>2. chunked # None => 10 * Count(free) - Reserve' - 10 * Answers(Joiners)'
                            >= 10 * (TextLen(chunked)' - req'[chunked].fill)
    <3> SUFFICES ASSUME chunked # None
                 PROVE  10 * Count(free) - Reserve' - 10 * Answers(Joiners)'
                            >= 10 * (TextLen(chunked)' - req'[chunked].fill)
      OBVIOUS
    <3>1. PICK c \in Reqs : c = chunked /\ Active(c)
      BY <1>1 DEF LiveInv, ChunkedInv, Active
    <3>2. 10 * Count(free) - Reserve - 10 * Answers(Joiners)
                            >= 10 * (TextLen(c) - req[c].fill)
      BY <1>2, <3>1, Constants DEF MemInv, RoomInv
    <3>3. TextLen(c)' = TextLen(c) /\ req'[c].fill = req[c].fill
      BY <1>3, <1>7, <3>1 DEF TextLen
    <3>4. Reserve' <= Reserve /\ Reserve' \in Nat
      <4>1. \A q \in Reqs : /\ req'[q].out \in Nat
                           /\ req[q].out <= req'[q].out /\ req'[q].out <= MaxNew(q)
        BY <1>7, ReqFacts DEF MemInv
      <4> QED
        BY <1>2, <4>1, ReserveFalls DEF MemInv
    <3>5. Answers(Joiners)' = Answers(Joiners)
      BY <1>2, <1>9, AnswersSame
    <3>6. /\ Answers(Joiners) \in Nat /\ Reserve \in Nat /\ Count(free) \in Nat
          /\ TextLen(c) \in Nat /\ req[c].fill \in Int
      BY AnswersFacts, ReserveFacts, AliveLoop, ReqFacts DEF MemInv
    <3>7. 10 * Count(free) - Reserve' - 10 * Answers(Joiners)'
                            >= 10 * (TextLen(c)' - req'[c].fill)
      BY <3>2, <3>3, <3>4, <3>5, <3>6
    <3>8. TextLen(chunked)' = TextLen(c)'
      BY <1>2, <3>1 DEF TextLen
    <3> QED
      BY <3>1, <3>7, <3>8
  <2> QED
    BY <1>2, <2>1, <2>2 DEF RoomInv, Count
<1>12. CacheInv'
  <2>1. \A q \in Reqs : Len(req'[q].pre) = Len(req[q].pre)
    <3>1. ~ Active(r) => req[r].pre = <<>>
      BY DEF MemInv, FillInv
    <3> QED
      BY <1>3, <3>1
  <2> QED
    BY <1>2, <2>1, CacheFrame DEF MemInv
<1>13. CountersInv'
  BY <1>2 DEF MemInv, CountersInv, FutureLimit
<1> QED
  BY <1>2, <1>7, <1>8, <1>10, <1>11, <1>12, <1>13 DEF MemInv

\* A step that changes no filled length, outside the admission.
LEMMA FillFrame ==
    ASSUME OrderInv, MemInv, Frame, chunked' = chunked, pc' # "admit",
           pc = "admit" => chunked = None /\ adder.can = <<>>,
           \A r \in Reqs : req'[r].fill = req[r].fill /\ req'[r].pre = req[r].pre
    PROVE  FillInv'
<1>1. \A r \in Reqs : /\ Active(r)' <=> Active(r)
                      /\ Seated(r)' <=> Seated(r)
                      /\ Active(r) => Row(r)' = Row(r)
                      /\ req'[r].out = req[r].out
  BY FrameHolds DEF MemInv
<1>2. \A r \in Reqs : Stashed(r)' <=> Stashed(r)
  BY DEF Frame, KeepsPlace
<1>3. ASSUME NEW r \in Reqs
      PROVE  /\ ~ Active(r)' => req'[r].pre = <<>>
             /\ ToSet(req'[r].pre) \subseteq Slots
             /\ Len(req'[r].pre) <= req'[r].fill /\ req'[r].fill <= TextLen(r)'
             /\ Seated(r)' => req'[r].fill <= Len(Row(r)')
             /\ Stashed(r)' => req'[r].fill = Len(req'[r].pre)
             /\ r = chunked' => req'[r].fill < TextLen(r)' /\ (Seated(r)' => req'[r].fill = Len(Row(r)'))
  <2>1. /\ ~ Active(r) => req[r].pre = <<>>
        /\ ToSet(req[r].pre) \subseteq Slots
        /\ Len(req[r].pre) <= req[r].fill /\ req[r].fill <= TextLen(r)
        /\ Seated(r) => req[r].fill <= Len(Row(r))
        /\ Stashed(r) /\ pc # "admit" => req[r].fill = Len(req[r].pre)
        /\ r = chunked /\ pc # "admit" =>
              req[r].fill < TextLen(r) /\ (Seated(r) => req[r].fill = Len(Row(r)))
    BY DEF MemInv, FillInv
  <2>2. TextLen(r)' = TextLen(r) /\ (Seated(r) => Active(r))
    BY <1>1 DEF TextLen, Seated
  <2>3. pc = "admit" => ~ Stashed(r) /\ r # chunked
    BY Constants DEF Stashed, ToSet
  <2> QED
    BY <1>1, <1>2, <2>1, <2>2, <2>3
<1> QED
  BY <1>3 DEF FillInv

\* Nothing is prefilled.
LEMMA NoPrefillMem ==
    ASSUME OrderInv, MemInv, SkipPrefill \/ NoPrefill
    PROVE  MemInv'
<1>1. /\ LiveInv /\ QueueInv
  BY AliveLoop DEF MemInv
<1>2. /\ pc \in {"plan", "admit"} /\ pc' = "decode"
      /\ UNCHANGED <<mode, req, cache, free, rows, freeRows, running, chunked, last,
                     cur, queue, futureCt, ratio, todo>>
  BY DEF SkipPrefill, NoPrefill, memory
<1>3. chunked = None /\ (pc = "admit" => adder.can = <<>>)
  BY <1>1 DEF SkipPrefill, NoPrefill, LiveInv, AdderInv, ToSet
<1>4. Pending' = Pending /\ After' = After
  BY <1>2 DEF Pending, After
<1>5. \A q \in Reqs : ~ Stashed(q) /\ ~ Stashed(q)'
  BY <1>2, <1>3, Constants DEF Stashed, ToSet
<1>6. Frame
  <2>1. ASSUME NEW q \in Reqs PROVE KeepsPlace(q)
    BY <1>2, <1>5 DEF KeepsPlace, Active
  <2>2. AlikeBatch(Pending, Pending') /\ AlikeBatch(After, After')
    BY <1>4 DEF AlikeBatch
  <2> QED
    BY <1>2, <2>1, <2>2 DEF Frame
<1>7. SlotsInv' /\ RowsInv' /\ LateOldInv' /\ LateNewInv'
  BY <1>6, FrameHolds, FrameFlight DEF MemInv
<1>8. FillInv'
  BY <1>2, <1>3, <1>6, FillFrame
<1>9. Joiners = <<>> /\ Joiners' = <<>>
  BY <1>2 DEF Joiners, Launched
<1>10. Extra = 0 /\ Extra' = 0
  BY <1>2, <1>3, <1>9 DEF Extra, One
<1>11. PlacesInv'
  <2>1. AllItems' = AllItems
    BY <1>2, <1>9 DEF AllItems
  <2>2. ReqsOf(running)' = ReqsOf(running) /\ ReqsOf(Joiners)' = ReqsOf(Joiners)
    BY <1>2, <1>9
  <2>3. Len(running') + Extra' <= MaxRunning /\ Len(cur'.items) <= MaxRunning
    BY <1>2, <1>10 DEF MemInv, PlacesInv
  <2> QED
    BY <1>2, <1>6, <2>1, <2>2, <2>3, PlacesFrame
<1>12. RoomInv'
  <2>1. SomeLate' => Count(free)' > 0
    BY <1>2, <1>6, LateRoomFrame DEF Planning
  <2> QED
    BY <1>2, <1>3, <2>1 DEF RoomInv
<1>13. CacheInv' /\ CountersInv'
  BY <1>2, CacheFrame DEF MemInv, CountersInv, FutureLimit
<1> QED
  BY <1>2, <1>7, <1>8, <1>11, <1>12, <1>13 DEF MemInv

\* Nothing happens.
LEMMA StutterMem ==
    ASSUME MemInv, UNCHANGED vars
    PROVE  MemInv'
<1>1. UNCHANGED <<mode, pc, req, cache, free, rows, freeRows, running, full, chunked, last,
                  cur, queue, adder, futureCt, ratio, todo>>
  BY DEF vars, memory, batches
<1>2. Pending' = Pending /\ After' = After
  BY <1>1 DEF Pending, After
<1>3. \A r : /\ Active(r)' = Active(r) /\ Stashed(r)' = Stashed(r) /\ Row(r)' = Row(r)
             /\ New(r)' = New(r) /\ Old(r)' = Old(r)
  BY <1>1, <1>2 DEF Active, Stashed, Row, New, Old
<1>4. \A r : Seated(r)' = Seated(r) /\ Held(r)' = Held(r)
  BY <1>1, <1>3 DEF Seated, Held
<1>5. \A k : LateSlot(k)' = LateSlot(k)
  BY <1>1, <1>2 DEF LateSlot
<1>6. \A r : Late(r)' = Late(r)
  BY <1>1, <1>2, <1>5 DEF Late, Places0, Places1
<1>7. \A r : Owned(r)' = Owned(r) /\ Seat(r)' = Seat(r)
  BY <1>1, <1>3, <1>4, <1>6 DEF Owned, Seat
<1>8. Joiners' = Joiners
  BY <1>1 DEF Joiners, Launched
<1>9. SlotsInv'
  BY <1>1, <1>3, <1>4, <1>7 DEF MemInv, SlotsInv, OneOwner, Slots, Injective
<1>10. RowsInv'
  BY <1>1, <1>7 DEF MemInv, RowsInv, OneOwner, Rows, Slots
<1>11. FillInv'
  BY <1>1, <1>3, <1>4 DEF MemInv, FillInv, Slots, TextLen
<1>12. PlacesInv'
  BY <1>1, <1>2, <1>3, <1>4, <1>8 DEF MemInv, PlacesInv, Extra
<1>13. LateOldInv'
  BY <1>1, <1>2, <1>3, <1>4 DEF MemInv, LateOldInv, Delayed, Partial, Rows, TextLen
<1>14. LateNewInv'
  BY <1>1, <1>2, <1>3, <1>4 DEF MemInv, LateNewInv
<1>15. RoomInv'
  <2>1. SomeLate' = SomeLate
    BY <1>1, <1>2, <1>3 DEF SomeLate, Planning, Launched
  <2>2. /\ Reserve' = Reserve /\ Answers(Joiners)' = Answers(Joiners)
        /\ \A n : AdderAnswers(n)' = AdderAnswers(n)
        /\ PartlyFilled' = PartlyFilled /\ Count(free)' = Count(free)
        /\ \A r : TextLen(r)' = TextLen(r)
        /\ Remaining(cache, adder.offset)' = Remaining(cache, adder.offset)
        /\ \A n : NewTokens(n)' = NewTokens(n)
    BY <1>1, <1>8 DEF Reserve, Answers, AdderAnswers, PartlyFilled, TextLen, Remaining,
       NewTokens, ExtendLen
  <2> QED
    BY <1>1, <2>1, <2>2 DEF MemInv, RoomInv
<1>16. CacheInv' /\ CountersInv'
  BY <1>1 DEF MemInv, CountersInv, FutureLimit, CacheInv
<1> QED
  BY <1>1, <1>9, <1>10, <1>11, <1>12, <1>13, <1>14, <1>15, <1>16 DEF MemInv

\* The room kept for the rest of a chunked prompt.
LEMMA ChunkedRoomFrame ==
    ASSUME OrderInv, MemInv, chunked # None, pc # "admit", chunked' = chunked,
           Count(free)' >= Count(free), Count(free)' \in Nat,
           Reserve' <= Reserve, Reserve' \in Nat,
           Answers(Joiners)' = Answers(Joiners),
           req'[chunked].out = req[chunked].out, req'[chunked].fill = req[chunked].fill
    PROVE  10 * Count(free)' - Reserve' - 10 * Answers(Joiners)'
               >= 10 * (TextLen(chunked)' - req'[chunked].fill)
<1>1. PICK c \in Reqs : c = chunked
  BY AliveLoop DEF MemInv, LiveInv, ChunkedInv
<1>2. 10 * Count(free) - Reserve - 10 * Answers(Joiners)
                        >= 10 * (TextLen(c) - req[c].fill)
  BY <1>1 DEF MemInv, RoomInv
<1>3. TextLen(c)' = TextLen(c) /\ req'[c].fill = req[c].fill
  BY <1>1 DEF TextLen
<1>4. /\ Answers(Joiners) \in Nat /\ Reserve \in Nat /\ Count(free) \in Nat
      /\ TextLen(c) \in Nat /\ req[c].fill \in Int
  BY AnswersFacts, ReserveFacts, AliveLoop, ReqFacts DEF MemInv
<1>5. 10 * Count(free)' - Reserve' - 10 * Answers(Joiners)'
                        >= 10 * (TextLen(c)' - req'[c].fill)
  BY <1>2, <1>3, <1>4
<1>6. TextLen(chunked)' = TextLen(c)'
  BY <1>1 DEF TextLen
<1> QED
  BY <1>1, <1>5, <1>6

\* The batch is launched.
LEMMA RunMem ==
    ASSUME OrderInv, MemInv, RunBatch
    PROVE  MemInv'
<1> DEFINE results == [k \in DOMAIN cur.items |-> TokenAt(cur.items[k].r, cur.items[k].len)]
           done == [k \in DOMAIN cur.items |->
                       [cur.items[k] EXCEPT !.token = results[k],
                                            !.future = IF mode.overlap THEN FutureOf(k) ELSE 0]]
           Same3(s, t) == /\ DOMAIN t = DOMAIN s /\ Len(t) = Len(s)
                          /\ \A k \in DOMAIN s : /\ t[k].r = s[k].r /\ t[k].row = s[k].row
                                                 /\ t[k].len = s[k].len
<1>1. /\ LiveInv /\ QueueInv /\ pc = "run" /\ pc' = "process"
      /\ cur' = [kind |-> cur.kind, items |-> done, loc |-> cur.loc, chunked |-> cur.chunked]
      /\ running' = IF cur.kind = "decode" THEN done
                    ELSE IF mode.overlap THEN Overwritten(running, results) ELSE running
      /\ queue' = IF mode.overlap THEN Append(queue, cur') ELSE queue
      /\ futureCt' = IF mode.overlap THEN NextFuture(Len(results)) ELSE futureCt
      /\ UNCHANGED <<mode, req, cache, free, rows, freeRows, chunked, last, adder, ratio, todo>>
  BY AliveLoop DEF RunBatch, memory, MemInv
<1>2. /\ Items(running) /\ Items(cur.items) /\ BatchType(cur) /\ BatchType(last)
      /\ BatchType(Pending) /\ todo = 0
      /\ DOMAIN cur.items = 1 .. Len(cur.items) /\ Len(cur.items) \in Nat
      /\ DOMAIN running = 1 .. Len(running) /\ Len(running) \in Nat
  BY <1>1, ItemFacts DEF LiveInv, TypesInv, BatchesType, BatchType
<1>3. /\ \A k \in DOMAIN cur.items : /\ DOMAIN done[k] = DOMAIN cur.items[k]
                                /\ done[k].r = cur.items[k].r
                                /\ done[k].row = cur.items[k].row
                                /\ done[k].len = cur.items[k].len
      /\ DOMAIN done = DOMAIN cur.items
      /\ done = [k \in DOMAIN cur.items |-> done[k]]
  BY <1>2 DEF Items, Item
<1> HIDE DEF done
<1>4. Alike(cur.items, done)
  <2> DEFINE s == cur.items
  <2>1. /\ \A k \in DOMAIN s : /\ DOMAIN done[k] = DOMAIN s[k]
                               /\ done[k].r = s[k].r /\ done[k].len = s[k].len
        /\ done = [k \in DOMAIN s |-> done[k]] /\ Items(s)
    BY <1>2, <1>3
  <2> HIDE DEF s
  <2>2. Alike(s, done)
    BY <2>1, FilledIsAlike
  <2> QED
    BY <2>2 DEF s
<1>5. Same3(cur.items, done)
  BY <1>2, <1>3, <1>4, AlikeFacts
<1> DEFINE over == Overwritten(running, results)
<1>6. /\ \A k \in DOMAIN running : /\ DOMAIN over[k] = DOMAIN running[k]
                                   /\ over[k].r = running[k].r
                                   /\ over[k].row = running[k].row
                                   /\ over[k].len = running[k].len
      /\ DOMAIN over = DOMAIN running
      /\ over = [k \in DOMAIN running |-> over[k]]
  <2> HIDE DEF results
  <2> QED
    BY <1>2 DEF Items, Item, Overwritten
<1> HIDE DEF over
<1>7. Alike(running, over)
  BY <1>2, <1>6, FilledIsAlike
<1>8. Same3(running, over)
  BY <1>2, <1>6, <1>7, AlikeFacts
<1>9. Same3(running, running')
  <2>1. CASE cur.kind = "decode"
    <3>1. running = cur.items
      BY <1>1, <2>1 DEF LiveInv, CurInv, Launched
    <3> QED
      BY <1>1, <1>5, <2>1, <3>1
  <2> QED
    BY <1>1, <1>8, <2>1 DEF over
<1>10. Len(results) \in Nat
  <2>1. Len(results) = Len(cur.items)
    BY <1>2, FunctionIsSeq
  <2> QED
    BY <1>2, <2>1
<1> HIDE DEF results
<1>11. /\ cur'.kind = cur.kind /\ cur'.items = done /\ cur'.chunked = cur.chunked
       /\ cur'.loc = cur.loc
  BY <1>1
<1>12. /\ Pending' = IF mode.overlap THEN Pending ELSE cur'
       /\ ~ mode.overlap => Pending = cur
  BY <1>1, <1>2, <1>4, <1>11, RunFlight
<1>13. AlikeBatch(Pending, Pending')
  <2>1. CASE mode.overlap
    BY <1>12, <2>1 DEF AlikeBatch
  <2>2. CASE ~ mode.overlap
    BY <1>5, <1>11, <1>12, <2>2 DEF AlikeBatch
  <2> QED
    BY <2>1, <2>2
<1>14. AlikeBatch(After, After')
  <2>1. CASE mode.overlap
    <3>1. After = cur /\ After' = cur'
      BY <1>1, <2>1 DEF After
    <3> QED
      BY <1>5, <1>11, <3>1 DEF AlikeBatch
  <2>2. CASE ~ mode.overlap
    <3>1. After = NoBatch /\ After' = NoBatch
      BY <1>1, <2>2 DEF After
    <3> QED
      BY <3>1 DEF AlikeBatch
  <2> QED
    BY <2>1, <2>2
<1>15. \A q \in Reqs : ~ Stashed(q) /\ ~ Stashed(q)'
  BY <1>1 DEF Stashed
<1>16. Frame
  <2>1. ASSUME NEW q \in Reqs PROVE KeepsPlace(q)
    BY <1>1, <1>15 DEF KeepsPlace, Active
  <2> QED
    BY <1>1, <1>13, <1>14, <2>1 DEF Frame
<1>17. SlotsInv' /\ RowsInv' /\ LateOldInv' /\ LateNewInv'
  BY <1>16, FrameHolds, FrameFlight DEF MemInv
<1>18. FillInv'
  BY <1>1, <1>16, FillFrame
<1>19. Same3(Joiners, Joiners')
  <2>1. Joiners = IF cur.kind = "extend" THEN cur.items ELSE <<>>
    BY <1>1 DEF Joiners, Launched
  <2>2. Joiners' = IF cur.kind = "extend" THEN done ELSE <<>>
    BY <1>1, <1>11 DEF Joiners, Launched
  <2> QED
    BY <1>5, <2>1, <2>2
<1>20. Extra' = Extra
  BY <1>1, <1>19 DEF Extra
<1>21. PlacesInv'
  <2>1. ASSUME NEW i \in AllItems'
        PROVE  \E j \in AllItems : j.r = i.r /\ j.row = i.row /\ j.len = i.len
    BY <1>9, <1>19 DEF AllItems, ToSet
  <2>2. ReqsOf(running)' = ReqsOf(running) /\ ReqsOf(Joiners)' = ReqsOf(Joiners)
    <3>1. ASSUME NEW s, NEW t, Same3(s, t) PROVE ReqsOf(t) = ReqsOf(s)
      BY <3>1 DEF ReqsOf
    <3> HIDE DEF Same3
    <3>2. ReqsOf(running') = ReqsOf(running) /\ ReqsOf(Joiners') = ReqsOf(Joiners)
      BY <1>9, <1>19, <3>1
    <3> QED
      BY <3>2 DEF ReqsOf
  <2>3. Len(running') + Extra' <= MaxRunning /\ Len(cur'.items) <= MaxRunning
    BY <1>5, <1>9, <1>11, <1>20 DEF MemInv, PlacesInv
  <2> QED
    BY <1>1, <1>16, <2>1, <2>2, <2>3, PlacesFrame
<1>22. RoomInv'
  <2>1. SomeLate' => Count(free)' > 0
    <3>1. SomeLate <=> \E k \in DOMAIN After.items : ~ Active(After.items[k].r)
      BY <1>1 DEF SomeLate, Launched, Planning
    <3>2. SomeLate' => \E k \in DOMAIN After'.items : req'[After'.items[k].r].st # "active"
      BY <1>1 DEF SomeLate, Launched, Planning, Active
    <3>3. \A k \in DOMAIN After.items : After'.items[k].r = After.items[k].r
      BY <1>14 DEF AlikeBatch
    <3>4. SomeLate' => SomeLate
      BY <1>1, <1>14, <3>1, <3>2, <3>3 DEF AlikeBatch, Active
    <3> QED
      BY <1>1, <3>4 DEF MemInv, RoomInv, Count
  <2>2. Reserve' <= Reserve /\ Reserve' \in Nat
    <3>1. \A q \in Reqs : /\ req'[q].out \in Nat
                         /\ req[q].out <= req'[q].out /\ req'[q].out <= MaxNew(q)
      BY <1>1, ReqFacts DEF MemInv
    <3> QED
      BY <1>1, <1>9, <3>1, ReserveFalls DEF MemInv
  <2>3. Answers(Joiners)' = Answers(Joiners)
    BY <1>1, <1>19, AnswersSame
  <2>4. Count(free)' = Count(free) /\ Count(free) \in Nat
    BY <1>1, AliveLoop DEF Count, MemInv
  <2>5. chunked # None => 10 * Count(free)' - Reserve' - 10 * Answers(Joiners)'
               >= 10 * (TextLen(chunked)' - req'[chunked].fill)
    BY <1>1, <2>2, <2>3, <2>4, ChunkedRoomFrame
  <2> QED
    BY <1>1, <2>1, <2>5 DEF RoomInv
<1>23. CacheInv'
  BY <1>1, CacheFrame DEF MemInv
<1>24. CountersInv'
  <2>1. MaxRunning \in Nat \ {0}
    BY SchedulerAssumption
  <2>2. 3 * MaxRunning \in Nat /\ 3 * MaxRunning > 0
    BY <2>1
  <2>3. futureCt \in Nat
    BY DEF MemInv, CountersInv
  <2> DEFINE m == 3 * MaxRunning
             n == futureCt + Len(results)
  <2>4. n \in Nat /\ m \in Nat /\ m > 0
    BY <1>10, <2>2, <2>3
  <2>5. NextFuture(Len(results)) = n % m /\ FutureLimit = m
    BY DEF NextFuture, FutureLimit
  <2> HIDE DEF n, m
  <2>6. n % m \in 0 .. m - 1
    BY <2>4
  <2>7. futureCt' \in 0 .. FutureLimit - 1
    BY <1>1, <2>5, <2>6 DEF MemInv, CountersInv
  <2>8. cur' # NoBatch
    BY <1>1, <1>11 DEF QueueInv, NoBatch
  <2> QED
    BY <1>1, <2>7, <2>8 DEF MemInv, CountersInv, FutureLimit
<1> QED
  BY <1>1, <1>17, <1>18, <1>21, <1>22, <1>23, <1>24 DEF MemInv

\* A free list that has everything.
LEMMA CountAll ==
    ASSUME NEW n \in Nat, NEW bag, DOMAIN bag = 1 .. n, \A x \in 1 .. n : bag[x] = 1
    PROVE  Count(bag) = n
<1>1. NoneTwice(bag)
  BY FS_Interval DEF NoneTwice
<1>2. Count(bag) = Cardinality(There(bag)) /\ \A x : x \in There(bag) <=> x \in 1 .. n
  BY <1>1, CountThere
<1>3. There(bag) = 1 .. n
  BY <1>2
<1>4. Cardinality(1 .. n) = n
  BY FS_Interval
<1> QED
  BY <1>2, <1>3, <1>4

\* Who has no place has no memory either.
LEMMA NothingOwned ==
    ASSUME OrderInv, MemInv, \A r \in Reqs : Owned(r) = {} /\ Seat(r) = {}
    PROVE  /\ \A s \in Slots : free[s] = 1
           /\ \A w \in Rows : freeRows[w] = 1
           /\ DOMAIN free = Slots /\ DOMAIN freeRows = Rows
           /\ Count(free) = Size /\ Count(freeRows) = MaxRunning
<1>1. /\ \A s \in Slots : free[s] = 1
      /\ \A w \in Rows : freeRows[w] = 1
      /\ DOMAIN free = Slots /\ DOMAIN freeRows = Rows
  BY DEF MemInv, SlotsInv, RowsInv, OneOwner, One
<1>2. Count(free) = Size /\ Count(freeRows) = MaxRunning
  BY <1>1, Constants, CountAll DEF Slots, Rows
<1> QED
  BY <1>1, <1>2

\* The loop is idle, and has lost nothing.
LEMMA IdleMem ==
    ASSUME OrderInv, MemInv, Idle
    PROVE  MemInv'
<1>1. /\ LiveInv /\ QueueInv /\ pc = "process" /\ pc' \in {"dead", "recv"}
      /\ Pending = NoBatch /\ cur = NoBatch
      /\ last' = NoBatch
      /\ ratio' \in {ratio, InitRatio}
      /\ UNCHANGED <<mode, req, cache, free, rows, freeRows, running, chunked, cur, queue,
                     futureCt, todo>>
      /\ pc' = "dead" => Leaks
  BY AliveLoop DEF Idle, memory, MemInv
<1>2. NoBatch.kind = "none" /\ NoBatch.chunked = None /\ NoBatch.items = <<>> /\ Len(<<>>) = 0
  BY DEF NoBatch
<1>3. After = NoBatch /\ After' = NoBatch /\ Pending' = NoBatch
  BY <1>1, <1>2 DEF After, Pending
<1>4. running = <<>> /\ chunked = None /\ todo = 0 /\ DOMAIN running = {}
  BY <1>1, <1>2 DEF MemInv, CountersInv, LiveInv, CurInv, Launched, TypesInv, BatchesType
<1>5. Joiners = <<>> /\ Joiners' = <<>> /\ ReqsOf(Joiners) = {} /\ ReqsOf(running) = {}
  BY <1>1, <1>2, <1>4 DEF Joiners, Launched, ReqsOf
<1>6. \A r \in Reqs : ~ Active(r) /\ ~ Seated(r) /\ ~ Stashed(r) /\ ~ Stashed(r)'
  <2>1. \A r \in Reqs : ~ Seated(r) /\ ~ Stashed(r)
    BY <1>1, <1>5 DEF MemInv, PlacesInv, Stashed
  <2>2. \A r \in Reqs : ~ Stashed(r)'
    BY <1>1, <1>4, Constants DEF Stashed
  <2> QED
    BY <2>1, <2>2 DEF Seated
<1>7. \A r \in Reqs : Owned(r) = {} /\ Seat(r) = {}
  <2>1. \A r : Places0(r) = {} /\ Places1(r) = {}
    <3>1. todo + 1 .. Len(Pending.items) = {} /\ DOMAIN After.items = {}
      BY <1>1, <1>2, <1>3, <1>4
    <3> QED
      BY <3>1 DEF Places0, Places1
  <2>2. \A r : Late(r) = {}
    BY <2>1 DEF Late
  <2> QED
    BY <1>6, <2>2 DEF Owned, Seat
<1>8. Count(free) = Size /\ Count(freeRows) = MaxRunning
  BY <1>7, NothingOwned
<1>9. cache.protected = 0 /\ cache.evictable = 0
  <2>1. \A r \in Reqs : Len(req[r].pre) = 0
    BY <1>2, <1>6 DEF MemInv, FillInv
  <2> DEFINE lens == [r \in Reqs |-> Len(req[r].pre)]
  <2>2. Sums(cache.protected, lens) /\ cache.evictable = 0
    BY DEF MemInv, CacheInv
  <2>3. \A r \in DOMAIN lens : lens[r] = 0
    BY <2>1
  <2> HIDE DEF lens
  <2> QED
    BY <2>2, <2>3, SumsZero
<1>10. pc' = "recv"
  BY <1>1, <1>8, <1>9, Constants DEF Leaks
<1>11. Frame
  <2>1. ASSUME NEW q \in Reqs PROVE KeepsPlace(q)
    BY <1>1, <1>6 DEF KeepsPlace, Active
  <2>2. AlikeBatch(Pending, Pending') /\ AlikeBatch(After, After')
    BY <1>1, <1>3 DEF AlikeBatch
  <2> QED
    BY <1>1, <2>1, <2>2 DEF Frame
<1>12. SlotsInv' /\ RowsInv' /\ LateOldInv' /\ LateNewInv'
  BY <1>11, FrameHolds, FrameFlight DEF MemInv
<1>13. FillInv'
  BY <1>1, <1>10, <1>11, FillFrame
<1>14. PlacesInv'
  <2>1. AllItems' = AllItems
    BY <1>1, <1>5 DEF AllItems
  <2>2. ReqsOf(running)' = ReqsOf(running) /\ ReqsOf(Joiners)' = ReqsOf(Joiners)
    BY <1>1, <1>5
  <2>3. Extra' = Extra
    BY <1>1, <1>5, <1>10 DEF Extra
  <2>4. Len(running') + Extra' <= MaxRunning /\ Len(cur'.items) <= MaxRunning
    BY <1>1, <2>3 DEF MemInv, PlacesInv
  <2> QED
    BY <1>1, <1>11, <2>1, <2>2, <2>4, PlacesFrame
<1>15. RoomInv'
  <2>1. ~ SomeLate'
    <3>1. todo' + 1 .. Len(Pending'.items) = {} /\ Planning'
      BY <1>1, <1>2, <1>3, <1>4, <1>10 DEF Planning
    <3> QED
      BY <3>1 DEF SomeLate
  <2> QED
    BY <1>1, <1>4, <1>10, <2>1 DEF RoomInv
<1>16. CacheInv'
  BY <1>1, CacheFrame DEF MemInv
<1>17. CountersInv'
  <2>1. InitRatio \in Ratios
    BY SchedulerAssumption
  <2> QED
    BY <1>1, <1>10, <2>1 DEF MemInv, CountersInv, FutureLimit
<1> QED
  BY <1>10, <1>12, <1>13, <1>14, <1>15, <1>16, <1>17 DEF MemInv

\* t lists the items of s whose places are in K, the n-th of t that at h[n]
Lists(t, s, K, h) ==
    /\ \A n \in DOMAIN t : h[n] \in K /\ t[n] = s[h[n]]
    /\ \A m, n \in DOMAIN t : h[m] = h[n] => m = n
    /\ \A k \in K : \E n \in DOMAIN t : h[n] = k

\* As many items as K, each one of those of K, are all of those of K.
LEMMA Rearranged ==
    ASSUME NEW s, Items(s), NEW t, Items(t), NEW K \in SUBSET DOMAIN s,
           Len(t) = Cardinality(K), \A n \in DOMAIN t : \E k \in K : t[n] = s[k]
    PROVE  \E h : Lists(t, s, K, h)
<1> DEFINE h == [n \in DOMAIN t |-> CHOOSE k \in K : t[n] = s[k]]
<1>1. \A n \in DOMAIN t : h[n] \in K /\ t[n] = s[h[n]]
  OBVIOUS
<1>2. h = [n \in DOMAIN t |-> h[n]]
  OBVIOUS
<1> HIDE DEF h
<1>3. ASSUME NEW m \in DOMAIN t, NEW n \in DOMAIN t, h[m] = h[n] PROVE m = n
  <2>1. t[m].r = t[n].r
    BY <1>1, <1>3
  <2> QED
    BY <2>1 DEF Items
<1>4. IsFiniteSet(K)
  BY FS_Subset, SeqFacts DEF Items
<1>5. IsFiniteSet(DOMAIN t) /\ Cardinality(DOMAIN t) = Len(t)
  <2>1. DOMAIN t = 1 .. Len(t) /\ Len(t) \in Nat
    BY ItemFacts
  <2>2. Cardinality(1 .. Len(t)) = Len(t) /\ IsFiniteSet(1 .. Len(t))
    BY <2>1, FS_Interval
  <2> QED
    BY <2>1, <2>2
<1>6. h \in Injection(DOMAIN t, K)
  BY <1>1, <1>2, <1>3 DEF Injection, IsInjective
<1>7. h \in Surjection(DOMAIN t, K)
  BY <1>4, <1>5, <1>6, FS_Injection
<1> QED
  BY <1>1, <1>3, <1>7 DEF Surjection, Lists

\* Kept lists the places that are kept, each once.
LEMMA KeptAll ==
    ASSUME NEW s, Items(s), NEW K \in SUBSET DOMAIN s, NEW t, t = Kept(s, K)
    PROVE  /\ Items(t) /\ Len(t) = Cardinality(K) /\ Len(t) \in Nat /\ DOMAIN t = 1 .. Len(t)
           /\ \E h : Lists(t, s, K, h)
<1>1. Items(t) /\ \A n \in DOMAIN t : \E k \in K : t[n] = s[k]
  BY KeptFacts
<1>2. Cardinality(K) \in Nat
  BY FS_Subset, FS_CardinalityType, SeqFacts DEF Items
<1>3. Len(t) = Cardinality(K)
  BY <1>2, FunctionIsSeq DEF Kept
<1>4. DOMAIN t = 1 .. Len(t)
  BY <1>1, ItemFacts
<1> HIDE DEF Kept
<1>5. \E h : Lists(t, s, K, h)
  BY <1>1, <1>3, Rearranged
<1> QED
  BY <1>1, <1>2, <1>3, <1>4, <1>5

\* ChunkCache has nothing to evict.
LEMMA NoEviction ==
    ASSUME NEW c, CacheType(c), ~ mode.radix, DOMAIN c.tree = {}, c.evictable = 0,
           NEW f \in [Slots -> Int], NEW n, NEW gone \in Reclaim(c, f, n)
    PROVE  /\ FreedByEviction(c, f, gone) = f
           /\ DOMAIN Evicted(c, gone).tree = {} /\ Evicted(c, gone).evictable = 0
           /\ Evicted(c, gone).protected = c.protected
<1>1. gone = {}
  BY DEF Reclaim
<1>2. SlotsIn(c.tree, gone) = {}
  BY <1>1 DEF SlotsIn
<1>3. FreedByEviction(c, f, gone) = f
  BY <1>2 DEF FreedByEviction
<1> DEFINE g == [p \in {} |-> KeyLen(c.tree, p)]
<1>4. DOMAIN g = {}
  OBVIOUS
<1>5. KeyLens(c.tree, gone) = 0
  <2>1. KeyLens(c.tree, gone) = Total(g)
    BY <1>1 DEF KeyLens
  <2> HIDE DEF g
  <2>2. NatValued(g) /\ \A x \in DOMAIN g : g[x] = 0
    BY <1>4, FS_EmptySet DEF NatValued
  <2> QED
    BY <2>1, <2>2, TotalZero
<1> HIDE DEF g
<1> DEFINE t == [p \in DOMAIN c.tree \ gone |-> c.tree[p]]
<1>6. DOMAIN t = {}
  OBVIOUS
<1>7. c = [tree |-> c.tree, evictable |-> c.evictable, protected |-> c.protected]
  BY DEF CacheType
<1>8. Evicted(c, gone) = [c EXCEPT !.tree = t, !.evictable = @ - 0]
  BY <1>5 DEF Evicted
<1> HIDE DEF t
<1>9. Evicted(c, gone) = [tree |-> t, evictable |-> c.evictable - 0, protected |-> c.protected]
  BY <1>7, <1>8
<1> QED
  BY <1>3, <1>6, <1>9

\* The running batch without those that ended.
LEMMA UpdateRunningMem ==
    ASSUME OrderInv, MemInv, UpdateRunning
    PROVE  MemInv'
<1>1. /\ LiveInv /\ QueueInv /\ pc = "decode" /\ chunked = None
      /\ UNCHANGED <<mode, req, rows, freeRows, chunked, last, cur, queue, adder, futureCt, todo>>
  BY AliveLoop DEF UpdateRunning, memory, MemInv, LiveInv, ChunkedInv
<1>2. /\ Items(running) /\ DOMAIN running = 1 .. Len(running) /\ Len(running) \in Nat
      /\ CacheType(cache) /\ free \in [Slots -> Int] /\ ReqsType
      /\ cur = NoBatch
  BY <1>1, ItemFacts, NothingNew DEF LiveInv, TypesInv, BatchesType, MemoryType
<1> DEFINE K == {k \in DOMAIN running : req[running[k].r].st = "active"}
<1>3. /\ K \in SUBSET DOMAIN running /\ Unfinished = Kept(running, K)
      /\ \A k \in DOMAIN running : Active(running[k].r) => k \in K
  BY DEF Unfinished, Active
<1> HIDE DEF K
<1> DEFINE t == Unfinished
<1>4. /\ Items(t) /\ Len(t) = Cardinality(K) /\ Len(t) \in Nat /\ DOMAIN t = 1 .. Len(t)
      /\ \E h : Lists(t, running, K, h)
  BY <1>2, <1>3, KeptAll
<1>5. /\ \A n \in DOMAIN t : \E k \in DOMAIN running : t[n] = running[k]
      /\ \A k \in K : \E n \in DOMAIN t : t[n] = running[k]
  BY <1>3, <1>4 DEF Lists
<1>6. Len(t) <= Len(running)
  <2>1. IsFiniteSet(DOMAIN running) /\ Cardinality(DOMAIN running) = Len(running)
    <3>1. Cardinality(1 .. Len(running)) = Len(running) /\ IsFiniteSet(1 .. Len(running))
      BY <1>2, FS_Interval
    <3> QED
      BY <1>2, <3>1
  <2>2. Cardinality(K) <= Cardinality(DOMAIN running)
    BY <1>3, <2>1, FS_Subset
  <2> QED
    BY <1>4, <2>1, <2>2
<1> HIDE DEF t
<1>7. \A w : w = RetractOrder(t) => /\ Items(w) /\ DOMAIN w = DOMAIN t /\ Len(w) = Len(t)
                                    /\ \A n \in DOMAIN w : \E k \in DOMAIN t : w[n] = t[k]
                                    /\ \A k \in DOMAIN t : \E n \in DOMAIN w : w[n] = t[k]
  <2> SUFFICES ASSUME NEW w, w = RetractOrder(t)
               PROVE  /\ Items(w) /\ DOMAIN w = DOMAIN t /\ Len(w) = Len(t)
                      /\ \A n \in DOMAIN w : \E k \in DOMAIN t : w[n] = t[k]
                      /\ \A k \in DOMAIN t : \E n \in DOMAIN w : w[n] = t[k]
    OBVIOUS
  <2>1. /\ Items(w) /\ DOMAIN w = DOMAIN t
        /\ \A n \in DOMAIN w : \E k \in DOMAIN t : w[n] = t[k]
    BY <1>2, <1>4, RetractOrderFacts
  <2>2. Len(w) = Len(t)
    <3>1. DOMAIN w = 1 .. Len(w) /\ Len(w) \in Nat
      BY <2>1, ItemFacts
    <3> QED
      BY <1>4, <2>1, <3>1
  <2> DEFINE D == DOMAIN t
  <2>3. Len(w) = Cardinality(D) /\ D \in SUBSET DOMAIN t
    <3>1. Cardinality(1 .. Len(t)) = Len(t)
      BY <1>4, FS_Interval
    <3> QED
      BY <1>4, <2>2, <3>1
  <2>4. \A n \in DOMAIN w : \E k \in D : w[n] = t[k]
    BY <2>1
  <2>5. \E h : Lists(w, t, D, h)
    <3> HIDE DEF D
    <3> QED
      BY <1>4, <2>1, <2>3, <2>4, Rearranged
  <2>6. \A k \in DOMAIN t : \E n \in DOMAIN w : w[n] = t[k]
    BY <2>5 DEF Lists
  <2> QED
    BY <2>1, <2>2, <2>6
<1>8. /\ pc' \in {"process", "step", "retract"}
      /\ pc' = "process" => running' = <<>>
      /\ pc' = "process" => t = <<>>
      /\ pc' = "step" => Count(free') >= Len(running') /\ running' = t
      /\ pc' = "retract" => running' = RetractOrder(t)
      /\ ratio' \in {q \in Ratios : q <= ratio} \cup {ratio}
  BY DEF UpdateRunning, t
<1>9. /\ free' = free /\ DOMAIN cache'.tree = {} /\ cache'.evictable = 0
      /\ cache'.protected = cache.protected
  <2>1. ~ mode.radix /\ DOMAIN cache.tree = {} /\ cache.evictable = 0
    BY DEF MemInv, CacheInv
  <2>2. CASE t = <<>>
    BY <2>1, <2>2 DEF UpdateRunning, memory, t
  <2>3. CASE t # <<>>
    <3>1. PICK gone \in Reclaim(cache, free, Len(t)) :
             cache' = Evicted(cache, gone) /\ free' = FreedByEviction(cache, free, gone)
      BY <2>3 DEF UpdateRunning, t, ToEvict
    <3> QED
      BY <1>2, <2>1, <3>1, NoEviction
  <2> QED
    BY <2>2, <2>3
<1>10. /\ \A n \in DOMAIN running' : \E k \in DOMAIN running : running'[n] = running[k]
       /\ \A k \in K : \E n \in DOMAIN running' : running'[n] = running[k]
       /\ Len(running') <= Len(running)
  <2>1. pc' = "process" => running' = t
    BY <1>8
  <2>2. CASE running' = t
    BY <1>5, <1>6, <2>2
  <2>3. CASE running' = RetractOrder(t)
    <3>1. /\ DOMAIN running' = DOMAIN t /\ Len(running') = Len(t)
          /\ \A n \in DOMAIN running' : \E k \in DOMAIN t : running'[n] = t[k]
          /\ \A k \in DOMAIN t : \E n \in DOMAIN running' : running'[n] = t[k]
      BY <1>7, <2>3
    <3>2. Len(running') <= Len(running)
      BY <1>6, <3>1
    <3>3. \A n \in DOMAIN running' : \E k \in DOMAIN running : running'[n] = running[k]
      BY <1>5, <3>1
    <3>4. ASSUME NEW k \in K PROVE \E n \in DOMAIN running' : running'[n] = running[k]
      <4>1. PICK m \in DOMAIN t : t[m] = running[k]
        BY <1>5
      <4>2. PICK n \in DOMAIN running' : running'[n] = t[m]
        BY <3>1
      <4> QED
        BY <4>1, <4>2
    <3> QED
      BY <3>2, <3>3, <3>4
  <2> QED
    BY <1>8, <2>1, <2>2, <2>3
<1>11. Pending' = Pending /\ After' = After
  BY <1>1 DEF Pending, After
<1>12. \A q \in Reqs : ~ Stashed(q) /\ ~ Stashed(q)'
  BY <1>1, <1>8 DEF Stashed
<1>13. Frame
  <2>1. ASSUME NEW q \in Reqs PROVE KeepsPlace(q)
    BY <1>1, <1>12 DEF KeepsPlace, Active
  <2>2. AlikeBatch(Pending, Pending') /\ AlikeBatch(After, After')
    BY <1>11 DEF AlikeBatch
  <2> QED
    BY <1>1, <1>9, <2>1, <2>2 DEF Frame
<1>14. SlotsInv' /\ RowsInv' /\ LateOldInv' /\ LateNewInv'
  BY <1>13, FrameHolds, FrameFlight DEF MemInv
<1>15. FillInv'
  BY <1>1, <1>8, <1>13, FillFrame
<1>16. Joiners = <<>> /\ Joiners' = <<>> /\ Extra = 0 /\ Extra' = 0
  <2>1. Joiners = <<>>
    BY <1>1 DEF Joiners, Launched
  <2>2. cur.kind = "none"
    BY <1>2 DEF NoBatch
  <2>3. Joiners' = <<>>
    BY <1>1, <1>8, <2>2 DEF Joiners, Launched
  <2>4. Len(<<>>) = 0
    OBVIOUS
  <2> QED
    BY <1>1, <1>8, <2>1, <2>3, <2>4 DEF Extra
<1>17. PlacesInv'
  <2>1. \A i \in AllItems' : i \in AllItems
    BY <1>10, <1>16 DEF AllItems, ToSet
  <2>2. ASSUME NEW r \in Reqs, r \in ReqsOf(running) \cup ReqsOf(Joiners), Seated(r)
        PROVE  r \in ReqsOf(running)'
    <3>1. PICK k \in DOMAIN running : running[k].r = r
      BY <1>16, <2>2 DEF ReqsOf
    <3>2. k \in K
      BY <1>3, <2>2, <3>1 DEF Seated
    <3> QED
      BY <1>10, <3>1, <3>2 DEF ReqsOf
  <2>3. Len(running') + Extra' <= MaxRunning /\ Len(cur'.items) <= MaxRunning
    <3>1. Len(running) + 0 <= MaxRunning /\ Len(cur.items) <= MaxRunning
      BY <1>16 DEF MemInv, PlacesInv
    <3>2. running' = <<>> \/ running' = t \/ running' = RetractOrder(t)
      BY <1>8
    <3>3. Len(running') \in Nat
      <4>1. Len(<<>>) = 0
        OBVIOUS
      <4> QED
        BY <1>4, <1>7, <3>2, <4>1
    <3> QED
      BY <1>1, <1>2, <1>10, <1>16, <3>1, <3>3, Constants
  <2> QED
    BY <1>1, <1>13, <2>1, <2>2, <2>3, PlacesFrame
<1>18. RoomInv'
  <2>1. pc' # "retract" => ~ SomeLate'
    <3>1. After.items = <<>>
      BY <1>2 DEF After, NoBatch
    <3>2. pc' # "retract" => ~ Planning'
      BY <1>8 DEF Planning
    <3>3. DOMAIN After'.items = {}
      BY <1>11, <3>1
    <3> QED
      BY <1>8, <3>2, <3>3 DEF SomeLate
  <2>2. SomeLate' => Count(free)' > 0
    BY <1>1, <1>13, <2>1, LateRoomFrame DEF Planning
  <2>3. Count(free)' = Count(free')
    BY DEF Count
  <2> QED
    BY <1>1, <1>8, <2>2, <2>3 DEF RoomInv
<1>19. CacheInv'
  <2>1. [r \in Reqs |-> Len(req[r].pre)]' = [r \in Reqs |-> Len(req[r].pre)]
    BY <1>1
  <2> QED
    BY <1>1, <1>9, <2>1 DEF MemInv, CacheInv
<1>20. CountersInv'
  BY <1>1, <1>8 DEF MemInv, CountersInv, FutureLimit
<1> QED
  BY <1>8, <1>14, <1>15, <1>17, <1>18, <1>19, <1>20 DEF MemInv

\* A ratio of at most ten tenths of a sum, term by term.
LEMMA Spread ==
    ASSUME NEW a \in Nat, a <= 10, NEW x \in Nat, NEW y \in Nat
    PROVE  a * (x + y) <= a * x + 10 * y /\ a * (x + y) \in Nat
<1>1. a * y <= 10 * y
  OBVIOUS
<1>2. a * (x + y) = a * x + a * y
  OBVIOUS
<1> QED
  BY <1>1, <1>2

\* The last prefill batch joins the running batch.
LEMMA MergeMem ==
    ASSUME OrderInv, MemInv, MergeLast
    PROVE  MemInv'
<1>1. /\ LiveInv /\ QueueInv /\ pc = (IF chunked = None THEN "recv" ELSE "merge") /\ pc' = "plan"
      /\ UNCHANGED <<mode, req, cache, free, rows, freeRows, chunked, last, cur, queue,
                     adder, futureCt, ratio, todo>>
      /\ IF last.kind = "extend" THEN running' = running \o Joining ELSE running' = running
  BY AliveLoop DEF MergeLast, memory, MemInv
<1>2. /\ Items(running) /\ DOMAIN running = 1 .. Len(running) /\ Len(running) \in Nat
      /\ Items(last.items) /\ DOMAIN last.items = 1 .. Len(last.items) /\ Len(last.items) \in Nat
      /\ BatchType(last) /\ chunked = last.chunked
      /\ \A k \in DOMAIN last.items : last.items[k].r \in Reqs
      /\ \A k \in DOMAIN running : running[k].r \in Reqs
  BY <1>1, ItemFacts DEF LiveInv, TypesInv, BatchesType, BatchType, LastInv
<1>3. pc \in {"recv", "merge"} /\ Planning /\ Planning' /\ ~ Launched /\ ~ Launched'
  BY <1>1 DEF Planning, Launched
<1>4. Pending' = Pending /\ After' = After
  BY <1>1 DEF Pending, After
<1>5. \A q \in Reqs : Stashed(q)' <=> Stashed(q)
  BY <1>1, Constants DEF Stashed, Active
<1>6. Frame
  <2>1. ASSUME NEW q \in Reqs PROVE KeepsPlace(q)
    BY <1>1, <1>5 DEF KeepsPlace, Active
  <2>2. AlikeBatch(Pending, Pending') /\ AlikeBatch(After, After')
    BY <1>4 DEF AlikeBatch
  <2> QED
    BY <1>1, <2>1, <2>2 DEF Frame
<1>7. SlotsInv' /\ RowsInv' /\ LateOldInv' /\ LateNewInv'
  BY <1>6, FrameHolds, FrameFlight DEF MemInv
<1>8. FillInv'
  BY <1>1, <1>6, FillFrame
<1>9. CacheInv' /\ CountersInv'
  BY <1>1, CacheFrame DEF MemInv, CountersInv, FutureLimit
<1>10. SomeLate' => Count(free)' > 0
  BY <1>3, <1>6, LateRoomFrame
<1>11. /\ Joiners = IF last.kind = "extend" THEN last.items ELSE <<>>
       /\ Joiners' = <<>> /\ Extra = Len(Joiners) /\ Extra' = One(chunked # None)
  BY <1>1, <1>3 DEF Joiners, Extra
<1>12. CASE last.kind # "extend"
  <2>1. chunked = None /\ running' = running /\ Joiners = <<>> /\ Extra = 0 /\ Extra' = 0
    <3>1. Len(<<>>) = 0
      OBVIOUS
    <3> QED
      BY <1>1, <1>2, <1>11, <1>12, <3>1 DEF BatchType, One
  <2>2. PlacesInv'
    <3>1. AllItems' = AllItems
      BY <1>11, <2>1 DEF AllItems
    <3>2. ReqsOf(running)' = ReqsOf(running) /\ ReqsOf(Joiners)' = ReqsOf(Joiners)
      BY <1>11, <2>1
    <3>3. Len(running') + Extra' <= MaxRunning /\ Len(cur'.items) <= MaxRunning
      BY <1>1, <2>1 DEF MemInv, PlacesInv
    <3> QED
      BY <1>1, <1>6, <3>1, <3>2, <3>3, PlacesFrame
  <2>3. RoomInv'
    BY <1>1, <1>10, <2>1 DEF RoomInv
  <2> QED
    BY <1>1, <1>7, <1>8, <1>9, <2>2, <2>3 DEF MemInv
<1>13. CASE last.kind = "extend"
  <2> DEFINE s == last.items
             K == {k \in DOMAIN s : req[s[k].r].st = "active" /\ ~ Excluded(s[k].r)}
             t == Joining
             m == Len(running)
             n == Len(t)
  <2>1. /\ K \in SUBSET DOMAIN s /\ t = Kept(s, K)
        /\ \A k \in DOMAIN s : k \in K <=> Active(s[k].r) /\ s[k].r # chunked
    BY <1>2 DEF Joining, Active, Excluded
  <2> HIDE DEF K
  <2>2. Joiners = s /\ Items(s) /\ DOMAIN s = 1 .. Len(s) /\ Len(s) \in Nat
    BY <1>2, <1>11, <1>13
  <2> HIDE DEF s, t
  <2>3. /\ Items(t) /\ n = Cardinality(K) /\ n \in Nat /\ DOMAIN t = 1 .. n
        /\ \E h : Lists(t, s, K, h)
    BY <2>1, <2>2, KeptAll
  <2>4. PICK h : Lists(t, s, K, h)
    BY <2>3
  <2>5. /\ Len(running') = m + n /\ DOMAIN running' = 1 .. m + n
        /\ \A k \in 1 .. m + n : running'[k] = IF k <= m THEN running[k] ELSE t[k - m]
    <3>1. IsSeq(running) /\ IsSeq(t) /\ running' = running \o t
      BY <1>1, <1>2, <1>13, <2>3 DEF Items, t
    <3>2. IsSeq(running') /\ Len(running') = m + n
      BY <3>1, ConcatIsSeq
    <3>3. DOMAIN running' = 1 .. m + n
      BY <3>2, SeqFacts
    <3> QED
      BY <3>1, <3>2, <3>3, ConcatIsSeq
  <2>6. IsFiniteSet(DOMAIN s) /\ Cardinality(DOMAIN s) = Len(s)
    <3>1. Len(s) \in Nat
      BY <2>2
    <3>2. \A c \in Nat : Cardinality(1 .. c) = c /\ IsFiniteSet(1 .. c)
      BY FS_Interval
    <3> QED
      BY <2>2, <3>1, <3>2
  <2>7. n + One(chunked # None) <= Len(s)
    <3>1. CASE chunked = None
      <4>1. n <= Len(s)
        BY <2>1, <2>3, <2>6, FS_Subset
      <4> QED
        BY <2>2, <2>3, <3>1, <4>1 DEF One
    <3>2. CASE chunked # None
      <4>1. PICK k \in DOMAIN s : s[k].r = chunked
        BY <1>2, <3>2 DEF BatchType, ReqsOf, s
      <4>2. K \in SUBSET (DOMAIN s \ {k})
        BY <2>1, <4>1
      <4>3. IsFiniteSet(DOMAIN s \ {k}) /\ Cardinality(DOMAIN s \ {k}) = Len(s) - 1
        BY <2>6, <4>1, FS_RemoveElement
      <4>4. n <= Len(s) - 1
        BY <2>3, <4>2, <4>3, FS_Subset
      <4> QED
        BY <2>2, <2>3, <3>2, <4>4 DEF One
    <3> QED
      BY <3>1, <3>2
  <2>8. ASSUME NEW k \in DOMAIN running'
        PROVE  \/ k \in DOMAIN running /\ running'[k] = running[k]
               \/ /\ k - m \in DOMAIN t /\ running'[k] = t[k - m]
                  /\ h[k - m] \in DOMAIN s /\ t[k - m] = s[h[k - m]]
    <3>1. CASE k <= m
      BY <1>2, <2>5, <2>8, <3>1
    <3>2. CASE ~ (k <= m)
      <4>1. k - m \in 1 .. n
        BY <1>2, <2>3, <2>5, <2>8, <3>2
      <4>2. h[k - m] \in K /\ t[k - m] = s[h[k - m]]
        BY <2>3, <2>4, <4>1 DEF Lists
      <4> QED
        BY <2>1, <2>3, <2>5, <2>8, <3>2, <4>1, <4>2
    <3> QED
      BY <3>1, <3>2
  <2>9. PlacesInv'
    <3>1. \A i \in AllItems' : i \in AllItems
      <4>1. \A k \in DOMAIN running' : running'[k] \in ToSet(running) \cup ToSet(s)
        BY <2>8 DEF ToSet
      <4>2. ToSet(<<>>) = {}
        BY DEF ToSet
      <4>3. AllItems' = ToSet(running') \cup ToSet(<<>>)
        BY <1>11 DEF AllItems, ToSet
      <4>4. ToSet(running') = {running'[k] : k \in DOMAIN running'}
        BY DEF ToSet
      <4> QED
        BY <2>2, <4>1, <4>2, <4>3, <4>4 DEF AllItems
    <3>2. ASSUME NEW r \in Reqs, r \in ReqsOf(running) \cup ReqsOf(Joiners), Seated(r)
          PROVE  r \in ReqsOf(running)'
      <4>1. CASE r \in ReqsOf(running)
        <5>1. PICK k \in DOMAIN running : running[k].r = r
          BY <4>1 DEF ReqsOf
        <5>2. k \in DOMAIN running' /\ running'[k] = running[k]
          BY <1>2, <2>3, <2>5
        <5> QED
          BY <5>1, <5>2 DEF ReqsOf
      <4>2. CASE r \in ReqsOf(Joiners)
        <5>1. PICK k \in DOMAIN s : s[k].r = r
          BY <2>2, <4>2 DEF ReqsOf
        <5>2. Active(r) /\ r # chunked
          BY <1>1, <3>2, Constants DEF Seated, Stashed
        <5>3. k \in K
          BY <2>1, <5>1, <5>2
        <5>4. PICK j \in DOMAIN t : h[j] = k /\ t[j] = s[k]
          BY <2>4, <5>3 DEF Lists
        <5>5. m + j \in 1 .. m + n /\ ~ (m + j <= m) /\ (m + j) - m = j
          BY <1>2, <2>3
        <5>6. m + j \in DOMAIN running' /\ running'[m + j] = t[j]
          BY <2>5, <5>5
        <5> QED
          BY <5>1, <5>4, <5>6 DEF ReqsOf
      <4> QED
        BY <3>2, <4>1, <4>2
    <3>3. Len(running') + Extra' <= MaxRunning /\ Len(cur'.items) <= MaxRunning
      <4>1. Len(running) + Len(s) <= MaxRunning /\ Len(cur.items) <= MaxRunning
        BY <1>11, <2>2 DEF MemInv, PlacesInv
      <4>2. One(chunked # None) \in Nat
        BY DEF One
      <4> QED
        BY <1>1, <1>2, <1>11, <2>2, <2>3, <2>5, <2>7, <4>1, <4>2, Constants
    <3> QED
      BY <1>1, <1>6, <3>1, <3>2, <3>3, PlacesFrame
  <2>10. Reserve' <= Reserve + 10 * Answers(Joiners) /\ Reserve' \in Nat
    <3> DEFINE g(k) == MaxNew(running'[k].r) - req[running'[k].r].out
               gs == [k \in 1 .. m + n |-> g(k)]
               a == [k \in 1 .. m |-> gs[k]]
               b == [k \in 1 .. n |-> gs[m + k]]
               c == [k \in DOMAIN s |-> IF s[k].r = chunked THEN 0 ELSE MaxNew(s[k].r)]
    <3>1. \A r \in Reqs : /\ MaxNew(r) \in Nat /\ MaxNew(r) - req[r].out \in Nat
                          /\ MaxNew(r) - req[r].out <= MaxNew(r)
      <4> SUFFICES ASSUME NEW r \in Reqs
                   PROVE  /\ MaxNew(r) \in Nat /\ MaxNew(r) - req[r].out \in Nat
                          /\ MaxNew(r) - req[r].out <= MaxNew(r)
        OBVIOUS
      <4>1. MaxNew(r) \in Nat /\ req[r].out \in Nat /\ req[r].out <= MaxNew(r)
        BY ReqFacts DEF MemInv
      <4> QED
        BY <4>1
    <3>2. \A k \in 1 .. m + n : running'[k].r \in Reqs
      BY <1>2, <2>2, <2>5, <2>8 DEF s
    <3>3. \A k \in 1 .. m + n : gs[k] \in Nat
      BY <3>1, <3>2
    <3>4. Reserve' = ratio * Total([k \in 1 .. m + n |-> gs[k]])
      <4>1. [k \in DOMAIN running' |-> MaxNew(running'[k].r) - req'[running'[k].r].out]
              = [k \in 1 .. m + n |-> gs[k]]
        BY <1>1, <2>5
      <4> QED
        BY <1>1, <4>1 DEF Reserve
    <3>5. a = [k \in DOMAIN running |-> MaxNew(running[k].r) - req[running[k].r].out]
      <4>1. \A k \in 1 .. m : k \in 1 .. m + n /\ running'[k] = running[k]
        BY <1>2, <2>3, <2>5
      <4> QED
        BY <1>2, <4>1
    <3>6. ASSUME NEW k \in 1 .. n
          PROVE  h[k] \in DOMAIN s /\ b[k] <= c[h[k]]
      <4>1. m + k \in 1 .. m + n /\ ~ (m + k <= m) /\ (m + k) - m = k
        BY <1>2, <2>3
      <4>2. running'[m + k] = t[k]
        BY <2>5, <4>1
      <4>3. h[k] \in K /\ t[k] = s[h[k]]
        BY <2>3, <2>4 DEF Lists
      <4>4. h[k] \in DOMAIN s /\ s[h[k]].r # chunked /\ s[h[k]].r \in Reqs
        BY <1>2, <2>1, <4>3 DEF s
      <4>5. c[h[k]] = MaxNew(s[h[k]].r)
        BY <4>4
      <4>6. b[k] = MaxNew(s[h[k]].r) - req[s[h[k]].r].out
        BY <4>1, <4>2, <4>3
      <4> HIDE DEF b, c
      <4> QED
        BY <3>1, <4>4, <4>5, <4>6
    <3>7. \A k \in 1 .. n : b[k] \in Nat
      <4>1. \A k \in 1 .. n : m + k \in 1 .. m + n
        BY <1>2, <2>3
      <4> QED
        BY <3>3, <4>1
    <3>8. \A k \in DOMAIN s : c[k] \in Nat
      BY <1>2, <3>1 DEF s
    <3>9. DOMAIN b = 1 .. n /\ DOMAIN c = DOMAIN s
      OBVIOUS
    <3>10. Answers(Joiners) = Total(c)
      BY <2>2 DEF Answers
    <3>11. Left = Total(a)
      BY <3>5 DEF Left
    <3> HIDE DEF gs
    <3>12. /\ Total(a) \in Nat /\ Total(b) \in Nat
           /\ Total([k \in 1 .. m + n |-> gs[k]]) = Total(a) + Total(b)
      BY <1>2, <2>3, <3>3, TotalConcat, ZenonT(30)
    <3> HIDE DEF a, b, c
    <3>13. NatValued(b) /\ NatValued(c)
      <4>1. IsFiniteSet(1 .. n)
        BY <2>3, FS_Interval
      <4> QED
        BY <2>6, <3>7, <3>8, <3>9, <4>1 DEF NatValued
    <3>14. Total(b) <= Total(c)
      <4>1. \A k \in DOMAIN b : h[k] \in DOMAIN c /\ b[k] <= c[h[k]]
        BY <3>6, <3>9
      <4>2. \A j, k \in DOMAIN b : h[j] = h[k] => j = k
        BY <2>3, <2>4, <3>9 DEF Lists
      <4> QED
        BY <3>13, <4>1, <4>2, TotalGrows
    <3>15. Total(c) \in Nat
      BY <3>13, UnitsFacts
    <3>16. Reserve = ratio * Left /\ ratio \in Nat /\ ratio <= 10
      BY ReserveFacts DEF MemInv
    <3>17. /\ ratio * (Total(a) + Total(b)) <= ratio * Total(a) + 10 * Total(b)
           /\ ratio * (Total(a) + Total(b)) \in Nat
      BY <3>12, <3>16, Spread
    <3>18. ratio * Total(a) \in Nat
      BY <3>12, <3>16
    <3> DEFINE whole == ratio * (Total(a) + Total(b))
               part == ratio * Total(a)
    <3>19. Reserve' = whole /\ Reserve = part
      BY <3>4, <3>11, <3>12, <3>16
    <3>20. whole <= part + 10 * Total(b) /\ whole \in Nat /\ part \in Nat
      BY <3>17, <3>18
    <3> HIDE DEF whole, part
    <3> QED
      BY <3>10, <3>12, <3>14, <3>15, <3>19, <3>20
  <2>11. RoomInv'
    <3>1. chunked # None => 10 * Count(free)' - Reserve' - 10 * Answers(Joiners)'
               >= 10 * (TextLen(chunked)' - req'[chunked].fill)
      <4> SUFFICES ASSUME chunked # None
                   PROVE  10 * Count(free)' - Reserve' - 10 * Answers(Joiners)'
                            >= 10 * (TextLen(chunked)' - req'[chunked].fill)
        OBVIOUS
      <4>1. PICK c \in Reqs : c = chunked
        BY <1>1 DEF LiveInv, ChunkedInv
      <4>2. 10 * Count(free) - Reserve - 10 * Answers(Joiners)
                        >= 10 * (TextLen(c) - req[c].fill)
        BY <1>3, <4>1 DEF MemInv, RoomInv
      <4>3. TextLen(c)' = TextLen(c) /\ req'[c].fill = req[c].fill
        BY <1>1 DEF TextLen
      <4>4. /\ Answers(Joiners) \in Nat /\ Reserve \in Nat /\ Count(free) \in Nat
            /\ TextLen(c) \in Nat /\ req[c].fill \in Int
        BY AnswersFacts, ReserveFacts, AliveLoop, ReqFacts DEF MemInv
      <4>5. Answers(Joiners)' = 0
        <5> DEFINE f == [k \in {} |-> IF Joiners'[k].r = chunked THEN 0
                                               ELSE MaxNew(Joiners'[k].r)]
        <5>1. DOMAIN Joiners' = {} /\ DOMAIN f = {}
          BY <1>11
        <5>2. Answers(Joiners)' = Total(f)
          BY <1>1, <5>1 DEF Answers
        <5> HIDE DEF f
        <5>3. NatValued(f) /\ \A x \in DOMAIN f : f[x] = 0
          BY <5>1, FS_EmptySet DEF NatValued
        <5> QED
          BY <5>2, <5>3, TotalZero
      <4>6. Count(free)' = Count(free)
        BY <1>1 DEF Count
      <4>7. 10 * Count(free)' - Reserve' - 10 * Answers(Joiners)'
                        >= 10 * (TextLen(c)' - req'[c].fill)
        BY <2>10, <4>2, <4>3, <4>4, <4>5, <4>6
      <4>8. TextLen(chunked)' = TextLen(c)'
        BY <1>1, <4>1 DEF TextLen
      <4> QED
        BY <4>1, <4>7, <4>8
    <3> QED
      BY <1>1, <1>10, <3>1 DEF RoomInv
  <2> QED
    BY <1>1, <1>7, <1>8, <1>9, <2>9, <2>11 DEF MemInv
<1> QED
  BY <1>12, <1>13

\* What is kept in reserve, after a step that runs and answers nothing.
LEMMA ReserveSame ==
    ASSUME OrderInv, pc # "dead", UNCHANGED <<running, ratio>>,
           \A r \in Reqs : req'[r].out = req[r].out
    PROVE  Reserve' = Reserve
<1>1. \A k \in DOMAIN running : running[k].r \in Reqs
  BY AliveLoop, ItemFacts
<1>2. \A k \in DOMAIN running : req'[running[k].r].out = req[running[k].r].out
  BY <1>1
<1>3. [k \in DOMAIN running |-> MaxNew(running[k].r) - req'[running[k].r].out]
        = [k \in DOMAIN running |-> MaxNew(running[k].r) - req[running[k].r].out]
  BY <1>2
<1> QED
  BY <1>3 DEF Reserve

\* A number of tenths, in whole tokens.
LEMMA TruncateRoom ==
    ASSUME NEW m \in Int, NEW w \in Nat, m >= 10 * w
    PROVE  Truncate(m) \in Int /\ Truncate(m) >= w
<1>1. m >= 0
  OBVIOUS
<1>2. Truncate(m) = m \div 10
  BY <1>1 DEF Truncate
<1> QED
  BY <1>2

\* The smaller of two numbers.
LEMMA MinOfTwo ==
    ASSUME NEW a \in Int, NEW b \in Int
    PROVE  Min({a, b}) = IF a > b THEN b ELSE a
<1>1. CASE a > b
  <2>1. \A x \in {a, b} : (\A y \in {a, b} : x <= y) <=> x = b
    BY <1>1
  <2> QED
    BY <1>1, <2>1 DEF Min
<1>2. CASE ~ (a > b)
  <2>1. \A x \in {a, b} : (\A y \in {a, b} : x <= y) <=> x = a
    BY <1>2
  <2> QED
    BY <1>2, <2>1 DEF Min
<1> QED
  BY <1>1, <1>2

\* A sum of one term.
LEMMA OneTerm ==
    ASSUME NEW v \in Nat, NEW f, f = [k \in 1 .. 1 |-> f[k]], f[1] = v
    PROVE  Total(f) = v
<1> DEFINE g == [k \in 1 .. 1 |-> v]
<1>1. f = g
  OBVIOUS
<1>2. \A j \in 1 .. 0 + 1 : g[j] \in Nat
  OBVIOUS
<1> HIDE DEF g
<1>3. /\ Total([j \in 1 .. 0 |-> g[j]]) \in Nat
      /\ Total([j \in 1 .. 0 + 1 |-> g[j]]) = Total([j \in 1 .. 0 |-> g[j]]) + g[0 + 1]
  BY <1>2, TotalStep
<1>4. Total([j \in 1 .. 0 |-> g[j]]) = 0
  BY TotalEmpty
<1>5. [j \in 1 .. 0 + 1 |-> g[j]] = f /\ g[0 + 1] = v
  BY <1>1 DEF g
<1> QED
  BY <1>3, <1>4, <1>5

\* The admission begins, with the chunked request if there is one.
LEMMA StartMem ==
    ASSUME OrderInv, MemInv, StartAdder
    PROVE  MemInv'
<1>1. /\ LiveInv /\ QueueInv /\ pc = "plan" /\ pc' = "admit"
      /\ UNCHANGED <<mode, cache, free, rows, freeRows, running, last, cur, queue, futureCt,
                     ratio, todo>>
      /\ chunked # None => chunked \in Reqs /\ Active(chunked) /\ chunked \notin ReqsOf(running)
      /\ ReqsType
  <2>1. LiveInv /\ QueueInv /\ ReqsType
    BY AliveLoop DEF MemInv
  <2>2. /\ pc = "plan" /\ pc' = "admit"
        /\ UNCHANGED <<mode, cache, free, rows, freeRows, running, last, cur, queue, futureCt,
                       ratio, todo>>
    BY DEF StartAdder, memory
  <2>3. chunked # None => chunked \in Reqs /\ Active(chunked) /\ chunked \notin ReqsOf(running)
    BY <2>1 DEF LiveInv, ChunkedInv, Active
  <2> QED
    BY <2>1, <2>2, <2>3
<1>2. Reserve \in Nat /\ Count(free) \in Nat /\ Count(free)' = Count(free)
      /\ cache.evictable = 0
  BY <1>1, ReserveFacts, AliveLoop DEF MemInv, CacheInv, Count
<1>3. Planning /\ Planning' /\ ~ Launched /\ ~ Launched'
  BY <1>1 DEF Planning, Launched
<1>4. Pending' = Pending /\ After' = After
  BY <1>1 DEF Pending, After
<1>5. Joiners = <<>> /\ Joiners' = <<>> /\ Extra = One(chunked # None) /\ Extra' = Len(adder'.can)
  BY <1>1, <1>3 DEF Joiners, Extra
<1>6. CountersInv'
  BY <1>1 DEF MemInv, CountersInv, FutureLimit
<1> DEFINE Fields(r) == /\ req'[r].st = req[r].st /\ req'[r].out = req[r].out
                        /\ req'[r].row = req[r].row /\ req'[r].pre = req[r].pre
                        /\ req'[r].retracted = req[r].retracted
<1>7. ASSUME \A r \in Reqs : Fields(r),
             \A r \in Reqs : r # chunked => req'[r].fill = req[r].fill,
             chunked' \in {chunked, None},
             IF chunked = None THEN adder'.can = <<>> ELSE adder'.can = <<chunked>>,
             chunked # None =>
                 /\ Len(req[chunked].pre) <= req'[chunked].fill
                 /\ req'[chunked].fill <= TextLen(chunked)
      PROVE  Frame /\ SlotsInv' /\ RowsInv' /\ LateOldInv' /\ LateNewInv' /\ FillInv' /\ PlacesInv'
             /\ CacheInv' /\ (SomeLate' => Count(free)' > 0)
  <2>1. \A q \in Reqs : Stashed(q)' <=> Stashed(q)
    <3>1. DOMAIN <<>> = {} /\ DOMAIN <<chunked>> = {1} /\ <<chunked>>[1] = chunked
      OBVIOUS
    <3>2. ToSet(adder'.can) = IF chunked = None THEN {} ELSE {chunked}
      BY <1>7, <3>1 DEF ToSet
    <3>3. ASSUME NEW q \in Reqs PROVE Stashed(q)' <=> Active(q) /\ q \in ToSet(adder'.can)
      <4>1. Stashed(q)' <=> Active(q)' /\ q \in ToSet(adder'.can)
        BY <1>1 DEF Stashed, ToSet
      <4>2. Active(q)' <=> Active(q)
        BY <1>7 DEF Active
      <4> QED
        BY <4>1, <4>2
    <3> QED
      BY <1>1, <3>2, <3>3, Constants DEF Stashed
  <2>2. Frame
    <3>1. ASSUME NEW q \in Reqs PROVE KeepsPlace(q)
      BY <1>7, <2>1 DEF KeepsPlace, Active
    <3>2. AlikeBatch(Pending, Pending') /\ AlikeBatch(After, After')
      BY <1>4 DEF AlikeBatch
    <3> QED
      BY <1>1, <3>1, <3>2 DEF Frame
  <2>3. /\ SlotsInv' /\ RowsInv' /\ LateOldInv' /\ LateNewInv'
        /\ \A q \in Reqs : /\ Active(q)' <=> Active(q)
                           /\ Seated(q)' <=> Seated(q)
                           /\ Active(q) => Row(q)' = Row(q)
    BY <2>2, FrameHolds, FrameFlight DEF MemInv
  <2>4. FillInv'
    <3>1. ASSUME NEW q \in Reqs
          PROVE  /\ ~ Active(q)' => req'[q].pre = <<>>
                 /\ ToSet(req'[q].pre) \subseteq Slots
                 /\ Len(req'[q].pre) <= req'[q].fill /\ req'[q].fill <= TextLen(q)'
                 /\ Seated(q)' => req'[q].fill <= Len(Row(q)')
      <4>1. /\ ~ Active(q) => req[q].pre = <<>>
            /\ ToSet(req[q].pre) \subseteq Slots
            /\ Len(req[q].pre) <= req[q].fill /\ req[q].fill <= TextLen(q)
            /\ Seated(q) => req[q].fill <= Len(Row(q))
        BY DEF MemInv, FillInv
      <4>2. TextLen(q)' = TextLen(q) /\ req'[q].pre = req[q].pre
        BY <1>7 DEF TextLen
      <4>3. q = chunked => ~ Seated(q) /\ ~ Seated(q)'
        <5>1. q = chunked => Stashed(q)
          BY <1>1, Constants DEF Stashed
        <5> QED
          BY <2>3, <5>1 DEF Seated
      <4>4. Seated(q)' => Row(q)' = Row(q)
        BY <2>3 DEF Seated
      <4>5. CASE q = chunked
        <5>1. /\ Len(req[q].pre) <= req'[q].fill /\ req'[q].fill <= TextLen(q)
          BY <1>7, <4>5, Constants
        <5> QED
          BY <2>3, <4>1, <4>2, <4>3, <4>5, <5>1
      <4>6. CASE q # chunked
        BY <1>7, <2>3, <4>1, <4>2, <4>4, <4>6
      <4> QED
        BY <4>5, <4>6
    <3> QED
      BY <1>1, <3>1 DEF FillInv
  <2>5. PlacesInv'
    <3>1. \A i \in AllItems' : i \in AllItems /\ (i.r # chunked' => i.r # chunked)
      <4>1. AllItems' = ToSet(running) /\ AllItems = ToSet(running)
        <5>1. ToSet(<<>>) = {}
          BY DEF ToSet
        <5>2. AllItems = ToSet(running) \cup ToSet(<<>>)
          BY <1>5 DEF AllItems
        <5>3. AllItems' = ToSet(running) \cup ToSet(<<>>)
          BY <1>1, <1>5 DEF AllItems, ToSet
        <5> QED
          BY <5>1, <5>2, <5>3
      <4>2. ASSUME NEW i \in ToSet(running) PROVE i.r # chunked
        <5>1. i.r \in ReqsOf(running)
          BY <4>2 DEF ToSet, ReqsOf
        <5>2. i.r \in Reqs
          BY <5>1, AliveLoop, ItemFacts DEF MemInv
        <5> QED
          BY <1>1, <5>1, <5>2, Constants
      <4> QED
        BY <4>1, <4>2
    <3>2. ReqsOf(running)' = ReqsOf(running) /\ ReqsOf(Joiners)' = ReqsOf(Joiners)
      BY <1>1, <1>5 DEF ReqsOf
    <3>3. Extra' = Extra
      <4>1. Len(<<>>) = 0 /\ Len(<<chunked>>) = 1
        OBVIOUS
      <4> QED
        BY <1>5, <1>7, <4>1 DEF One
    <3>4. Len(running') + Extra' <= MaxRunning /\ Len(cur'.items) <= MaxRunning
      BY <1>1, <3>3 DEF MemInv, PlacesInv
    <3> QED
      BY <2>2, <3>1, <3>2, <3>4, PlacesFrame
  <2>6. CacheInv'
    BY <1>1, <1>7, CacheFrame DEF MemInv
  <2>7. SomeLate' => Count(free)' > 0
    BY <1>3, <2>2, LateRoomFrame
  <2> QED
    BY <2>2, <2>3, <2>4, <2>5, <2>6, <2>7
<1>8. CASE chunked = None
  <2>1. /\ adder' = [NoAdder EXCEPT !.offset = Reserve, !.chunk = ChunkSize]
        /\ UNCHANGED <<req, chunked>>
    BY <1>8 DEF StartAdder
  <2>2. adder'.can = <<>> /\ adder'.offset = Reserve /\ adder'.newChunked = None
    BY <2>1 DEF NoAdder
  <2>3. /\ SlotsInv' /\ RowsInv' /\ LateOldInv' /\ LateNewInv' /\ FillInv' /\ PlacesInv'
        /\ CacheInv' /\ (SomeLate' => Count(free)' > 0)
    BY <1>7, <1>8, <2>1, <2>2
  <2>4. RoomInv'
    <3>1. Len(<<>>) = 0 /\ DOMAIN <<>> = {} /\ 1 .. 0 = {}
      OBVIOUS
    <3>2. NewTokens(0)' = 0 /\ AdderAnswers(0)' = 0
      <4>1. NewTokens(0)' = Total([k \in 1 .. 0 |-> ExtendLen(adder.can[k])'])
        BY DEF NewTokens
      <4>2. AdderAnswers(0)' = Total([k \in 1 .. 0 |-> (IF adder.can[k] = PartlyFilled THEN 0
                                                     ELSE MaxNew(adder.can[k]))'])
        BY DEF AdderAnswers
      <4> QED
        BY <4>1, <4>2, TotalEmpty
    <3>3. Reserve' = Reserve /\ PartlyFilled' = None
      BY <1>1, <1>8, <2>1, <2>2, ReserveSame DEF MemInv, PartlyFilled
    <3>4. Len(adder'.can) = 0
      BY <2>2, <3>1
    <3>5. NewTokens(0)' <= Count(free)'
      BY <1>2, <3>2
    <3>6. adder'.offset >= Reserve' + 10 * NewTokens(0)' + 10 * AdderAnswers(0)'
      BY <1>2, <2>2, <3>2, <3>3
    <3>7. \A k \in 1 .. 0 : adder'.can[k] = PartlyFilled' =>
                    req'[adder'.can[k]].fill < TextLen(adder.can[k])'
      BY <3>1
    <3> QED
      BY <1>1, <2>3, <3>3, <3>4, <3>5, <3>6, <3>7 DEF RoomInv
  <2> QED
    BY <1>1, <1>6, <2>3, <2>4 DEF MemInv
<1>9. CASE chunked # None
  <2>1. PICK c \in Reqs : c = chunked /\ Active(c)
    BY <1>1, <1>9
  <2> DEFINE rec == req[c]
             whole == Len(Prompt[c]) + rec.out - Len(rec.pre)
             room == Remaining(cache, Reserve)
             rem == Min({ChunkSize, Truncate(room)})
             n == Min({whole, rem})
             more == IF whole > rem THEN 0 ELSE MaxNew(c)
  <2>2. /\ req' = [req EXCEPT ![c].fill = Len(rec.pre) + n]
        /\ adder' = [NoAdder EXCEPT !.can = <<c>>, !.offset = Reserve + 10 * (n + more),
                                    !.curOffset = 10 * n, !.chunk = ChunkSize - n]
        /\ chunked' = IF whole > rem THEN c ELSE None
    BY <1>9, <2>1 DEF StartAdder
  <2>3. /\ Len(rec.pre) \in Nat /\ rec.out \in Nat /\ Len(Prompt[c]) \in Nat /\ MaxNew(c) \in Nat
        /\ TextLen(c) \in Nat /\ rec.fill \in Int /\ TextLen(c) = Len(Prompt[c]) + rec.out
    BY ReqFacts DEF MemInv, TextLen
  <2>4. Len(rec.pre) = rec.fill /\ rec.fill < TextLen(c)
    <3>1. Stashed(c)
      BY <1>1, <2>1 DEF Stashed
    <3> QED
      BY <1>1, <2>1, <3>1 DEF MemInv, FillInv
  <2>5. whole \in Nat /\ whole > 0 /\ whole = TextLen(c) - Len(rec.pre)
    <3> DEFINE l == Len(rec.pre)
               o == rec.out
    <3>1. l \in Nat /\ o \in Nat /\ Len(Prompt[c]) \in Nat /\ TextLen(c) = Len(Prompt[c]) + o
          /\ l < TextLen(c) /\ whole = Len(Prompt[c]) + o - l
      BY <2>3, <2>4
    <3> HIDE DEF l, o, whole
    <3>2. whole \in Nat /\ whole > 0 /\ whole = TextLen(c) - l
      BY <3>1
    <3> QED
      BY <3>2 DEF l
  <2>6. room \in Int /\ room = 10 * Count(free) - Reserve
    BY <1>2 DEF Remaining
  <2>7. room >= 10 * whole
    <3>1. 10 * Count(free) - Reserve - 10 * Answers(Joiners) >= 10 * (TextLen(c) - rec.fill)
      BY <1>1, <2>1, <1>9 DEF MemInv, RoomInv
    <3>2. Answers(Joiners) \in Nat
      BY AnswersFacts DEF MemInv
    <3> HIDE DEF whole, room, rec
    <3> QED
      BY <1>2, <2>3, <2>4, <2>5, <2>6, <3>1, <3>2
  <2> HIDE DEF whole, room
  <2>8. Truncate(room) \in Int /\ Truncate(room) >= whole
    BY <2>5, <2>6, <2>7, TruncateRoom
  <2>9. ChunkSize \in Nat /\ ChunkSize > 0
    BY SchedulerAssumption
  <2>10. rem \in Nat /\ rem > 0
    BY <2>5, <2>8, <2>9 DEF Min
  <2> HIDE DEF rem
  <2>11. /\ n \in Nat /\ n <= whole /\ n > 0
         /\ n = IF whole > rem THEN rem ELSE whole
    <3>1. n = IF whole > rem THEN rem ELSE whole
      BY <2>5, <2>10, MinOfTwo
    <3> HIDE DEF n
    <3> QED
      BY <2>5, <2>10, <3>1
  <2> HIDE DEF n
  <2>12. more = (IF whole > rem THEN 0 ELSE MaxNew(c)) /\ more \in Nat
    BY <2>3
  <2> HIDE DEF more
  <2>13. /\ adder'.can = <<c>> /\ adder'.offset = Reserve + 10 * (n + more)
         /\ adder'.newChunked = None
    BY <2>2 DEF NoAdder
  <2>14. /\ \A r \in Reqs : Fields(r)
         /\ \A r \in Reqs : r # c => req'[r].fill = req[r].fill
         /\ req'[c].fill = Len(rec.pre) + n
    <3>1. DOMAIN req = Reqs /\ DOMAIN req[c] = DOMAIN NewReq
      BY <1>1, <2>1 DEF ReqsType, ReqType
    <3>2. DOMAIN NewReq = {"st", "out", "fill", "pre", "node", "chunks", "retracted", "abort", "row"}
      BY DEF NewReq
    <3> QED
      BY <2>2, <3>1, <3>2
  <2>15. Len(rec.pre) <= req'[c].fill /\ req'[c].fill <= TextLen(c)
    BY <2>3, <2>5, <2>11, <2>14
  <2>16. /\ SlotsInv' /\ RowsInv' /\ LateOldInv' /\ LateNewInv' /\ FillInv' /\ PlacesInv'
         /\ CacheInv' /\ (SomeLate' => Count(free)' > 0)
    BY <1>7, <1>9, <2>1, <2>2, <2>13, <2>14, <2>15
  <2>17. RoomInv'
    <3>1. PartlyFilled' = IF whole > rem THEN c ELSE None
      BY <2>2, <2>13 DEF PartlyFilled
    <3>2. Len(adder'.can) = 1 /\ adder'.can[1] = c
      BY <2>13
    <3>3. NewTokens(1)' = n
      <4> DEFINE f == [k \in 1 .. 1 |-> req'[adder'.can[k]].fill - Len(req'[adder'.can[k]].pre)]
      <4>1. NewTokens(1)' = Total(f)
        BY DEF NewTokens, ExtendLen
      <4>2. f[1] = req'[c].fill - Len(req'[c].pre)
        BY <3>2
      <4>3. f[1] = n
        BY <2>3, <2>11, <2>14, <4>2
      <4>4. f = [k \in 1 .. 1 |-> f[k]]
        OBVIOUS
      <4> HIDE DEF f
      <4> QED
        BY <2>11, <4>1, <4>3, <4>4, OneTerm
    <3>4. AdderAnswers(1)' = more
      <4> DEFINE f == [k \in 1 .. 1 |-> IF adder'.can[k] = PartlyFilled' THEN 0
                                        ELSE MaxNew(adder'.can[k])]
      <4>1. AdderAnswers(1)' = Total(f)
        BY DEF AdderAnswers
      <4>2. f[1] = IF c = PartlyFilled' THEN 0 ELSE MaxNew(c)
        BY <3>2
      <4>3. f[1] = more
        BY <2>12, <3>1, <4>2, Constants
      <4>4. f = [k \in 1 .. 1 |-> f[k]]
        OBVIOUS
      <4> HIDE DEF f
      <4> QED
        BY <2>12, <4>1, <4>3, <4>4, OneTerm
    <3>5. Reserve' = Reserve
      BY <1>1, <2>14, ReserveSame DEF MemInv
    <3>6. TextLen(c)' = TextLen(c)
      BY <2>14 DEF TextLen
    <3>7. NewTokens(1)' <= Count(free)'
      <4>1. n <= Count(free)
        BY <1>2, <2>5, <2>6, <2>7, <2>11, SMTT(20)
      <4> QED
        BY <1>2, <3>3, <4>1
    <3>8. adder'.offset >= Reserve' + 10 * NewTokens(1)' + 10 * AdderAnswers(1)'
      BY <1>2, <2>11, <2>12, <2>13, <3>3, <3>4, <3>5
    <3>9. PartlyFilled' # None =>
                    Remaining(cache, adder.offset)'
                       >= 10 * (TextLen(PartlyFilled)' - req'[PartlyFilled'].fill)
      <4> SUFFICES ASSUME PartlyFilled' # None
                   PROVE  Remaining(cache, adder.offset)'
                       >= 10 * (TextLen(PartlyFilled)' - req'[PartlyFilled'].fill)
        OBVIOUS
      <4>1. PartlyFilled' = c /\ more = 0
        BY <2>12, <3>1
      <4>2. Remaining(cache, adder.offset)' = 10 * (Count(free)' + cache'.evictable) - adder'.offset
        BY DEF Remaining, Count
      <4>3. Remaining(cache, adder.offset)' = 10 * Count(free) - (Reserve + 10 * n)
        BY <1>1, <1>2, <2>11, <2>13, <4>1, <4>2
      <4>4. TextLen(PartlyFilled)' = TextLen(c)'
        BY <4>1 DEF TextLen
      <4>5. req'[PartlyFilled'].fill = Len(rec.pre) + n
        BY <2>14, <4>1
      <4> DEFINE l == Len(rec.pre)
                 t == TextLen(c)
                 left == Remaining(cache, adder.offset)'
                 goal == TextLen(PartlyFilled)' - req'[PartlyFilled'].fill
                 C == Count(free)
      <4>6. /\ l \in Nat /\ t \in Nat /\ C \in Nat /\ whole = t - l
            /\ goal = t - (l + n) /\ left = 10 * C - (Reserve + 10 * n)
            /\ room = 10 * C - Reserve
        BY <1>2, <2>3, <2>5, <2>6, <3>6, <4>3, <4>4, <4>5
      <4> HIDE DEF l, t, left, goal, C
      <4>7. left >= 10 * goal
        <5>1. /\ C \in Nat /\ Reserve \in Nat /\ whole \in Nat /\ n \in Nat
              /\ goal = whole - n /\ left = room - 10 * n /\ room >= 10 * whole
          <6>1. C \in Nat /\ Reserve \in Nat /\ whole \in Nat /\ n \in Nat
            BY <1>2, <2>5, <2>11, <4>6
          <6>2. goal = whole - n
            BY <4>6, <6>1
          <6>3. left = room - 10 * n
            BY <4>6, <6>1
          <6>4. room >= 10 * whole
            BY <2>7
          <6> QED
            BY <6>1, <6>2, <6>3, <6>4
        <5>2. room \in Int
          BY <2>6
        <5> QED
          BY <5>1, <5>2
      <4> QED
        BY <4>7 DEF left, goal
    <3>10. \A k \in 1 .. 1 : adder'.can[k] = PartlyFilled' =>
                    req'[adder'.can[k]].fill < TextLen(adder.can[k])'
      <4> SUFFICES ASSUME c = PartlyFilled'
                   PROVE  req'[adder'.can[1]].fill < TextLen(adder.can[1])'
        BY <3>2
      <4>1. whole > rem /\ n = rem
        BY <2>11, <3>1, Constants
      <4>2. TextLen(adder.can[1])' = TextLen(c)'
        BY <3>2 DEF TextLen
      <4>3. req'[c].fill < TextLen(c)
        <5>1. req'[c].fill = Len(rec.pre) + n
          BY <2>14
        <5> HIDE DEF rec
        <5> QED
          BY <2>3, <2>5, <2>10, <2>11, <4>1, <5>1
      <4> QED
        BY <3>2, <3>6, <4>2, <4>3
    <3> QED
      BY <1>1, <2>16, <3>2, <3>7, <3>8, <3>9, <3>10 DEF RoomInv
  <2> QED
    BY <1>1, <1>6, <2>16, <2>17 DEF MemInv
<1> QED
  BY <1>8, <1>9

\* The batch whose result was due has been answered; the one after it is due.
LEMMA EndMem ==
    ASSUME OrderInv, MemInv, EndIteration
    PROVE  MemInv'
<1>1. /\ LiveInv /\ QueueInv /\ pc = "process" /\ pc' = "recv"
      /\ last' = IF cur.kind = "decode" THEN [NoBatch EXCEPT !.kind = "decode"] ELSE cur
      /\ cur' = NoBatch /\ todo = Len(Pending.items) /\ todo' = 0
      /\ UNCHANGED <<mode, req, cache, free, rows, freeRows, running, chunked, futureCt, ratio>>
  BY AliveLoop DEF EndIteration, memory, MemInv
<1>2. /\ NoBatch.kind = "none" /\ NoBatch.items = <<>> /\ Len(<<>>) = 0 /\ DOMAIN <<>> = {}
      /\ [NoBatch EXCEPT !.kind = "decode"].kind = "decode"
  BY DEF NoBatch
<1>3. Pending' = IF mode.overlap THEN cur ELSE NoBatch
  BY EndFlight
<1>4. /\ Len(Pending.items) \in Nat /\ DOMAIN After.items = 1 .. Len(After.items)
      /\ Len(After.items) \in Nat /\ Items(After.items)
      /\ \A k \in DOMAIN After.items : After.items[k].r \in Reqs
  BY AliveLoop, ItemFacts DEF MemInv
<1>5. /\ After' = NoBatch /\ Pending' = After
  BY <1>1, <1>3 DEF After
<1>6. /\ todo + 1 .. Len(Pending.items) = {}
      /\ todo' + 1 .. Len(Pending'.items) = DOMAIN After.items
      /\ DOMAIN After'.items = {}
  BY <1>1, <1>2, <1>4, <1>5
<1>7. \A r : /\ Active(r)' <=> Active(r)
             /\ ~ Stashed(r) /\ ~ Stashed(r)'
             /\ Row(r)' = Row(r) /\ TextLen(r)' = TextLen(r)
  BY <1>1 DEF Active, Stashed, Row, TextLen
<1>8. \A r : /\ Seated(r)' <=> Seated(r)
             /\ Held(r)' = Held(r) /\ Seat(r)' = Seat(r)
  BY <1>1, <1>7 DEF Seated, Held, Seat
<1>9. \A k \in DOMAIN After.items :
         LET r == After.items[k].r
         IN  /\ After.kind = "decode" =>
                   /\ k \in DOMAIN After.loc
                   /\ After.items[k].len > Len(Prompt[r])
                   /\ Seated(r) => After.loc[k] = Row(r)[Len(Row(r))]
             /\ After.kind # "decode" => Active(r)
  BY DEF MemInv, LateNewInv
<1>10. ASSUME NEW r \in Reqs PROVE Owned(r)' = Owned(r)
  <2>1. CASE Active(r)
    BY <1>7, <1>8, <2>1 DEF Owned
  <2>2. CASE ~ Active(r)
    <3>1. Places0(r) = {} /\ Places0(r)' = Places1(r) /\ Places1(r)' = {}
      BY <1>5, <1>6 DEF Places0, Places1
    <3>2. ASSUME NEW k \in Places1(r) PROVE ToSet(LateSlot(k)') = {After.loc[k]}
      <4>1. k \in DOMAIN After.items /\ After.items[k].r = r
        BY DEF Places1
      <4>2. After.kind = "decode"
        BY <1>9, <2>2, <4>1
      <4>3. LateSlot(k)' = <<After.loc[k]>>
        BY <1>5, <4>2 DEF LateSlot
      <4> QED
        BY <4>3 DEF ToSet
    <3>3. Late(r) = {After.loc[k] : k \in Places1(r)}
      <4>1. {ToSet(LateSlot(k)) : k \in Places0(r)} = {}
        BY <3>1
      <4>2. UNION {ToSet(LateSlot(k)) : k \in Places0(r)} = {}
        BY <4>1
      <4> DEFINE A == UNION {ToSet(LateSlot(k)) : k \in Places0(r)}
                 B == {After.loc[k] : k \in Places1(r)}
      <4>3. A = {} /\ Late(r) = A \cup B
        BY <4>2 DEF Late
      <4> HIDE DEF A, B
      <4>4. Late(r) = B
        BY <4>3
      <4> QED
        BY <4>4 DEF B
    <3>4. Late(r)' = UNION {ToSet(LateSlot(k)') : k \in Places0(r)'}
      <4>1. {After.loc[k] : k \in Places1(r)}' = {}
        BY <3>1
      <4>2. (UNION {ToSet(LateSlot(k)) : k \in Places0(r)})'
              = UNION {ToSet(LateSlot(k)') : k \in Places0(r)'}
        BY DEF ToSet
      <4> QED
        BY <4>1, <4>2 DEF Late
    <3>5. Late(r)' = Late(r)
      BY <3>1, <3>2, <3>3, <3>4
    <3> QED
      BY <1>7, <2>2, <3>5 DEF Owned
  <2> QED
    BY <2>1, <2>2
<1>11. SlotsInv'
  <2>1. [r \in Reqs |-> Owned(r)'] = [r \in Reqs |-> Owned(r)]
    BY <1>10
  <2> QED
    BY <1>1, <1>7, <1>8, <2>1 DEF MemInv, SlotsInv, OneOwner, Slots, Injective
<1>12. RowsInv'
  <2>1. [r \in Reqs |-> Seat(r)'] = [r \in Reqs |-> Seat(r)]
    BY <1>8
  <2> QED
    BY <1>1, <2>1 DEF MemInv, RowsInv, OneOwner, Rows, Slots
<1>13. FillInv'
  BY <1>1, <1>7, <1>8 DEF MemInv, FillInv, Slots
<1>14. Joiners' = Joiners /\ Extra' = Extra
  <2>1. Joiners = IF cur.kind = "extend" THEN cur.items ELSE <<>>
    BY <1>1 DEF Joiners, Launched
  <2>2. Joiners' = IF last'.kind = "extend" THEN last'.items ELSE <<>>
    BY <1>1 DEF Joiners, Launched
  <2>3. Joiners' = Joiners
    BY <1>1, <1>2, <2>1, <2>2
  <2> QED
    BY <1>1, <2>3 DEF Extra
<1>15. PlacesInv'
  <2>1. Len(running') + Extra' <= MaxRunning
    BY <1>1, <1>14 DEF MemInv, PlacesInv
  <2>2. Len(Pending'.items) <= MaxRunning /\ Len(cur'.items) <= MaxRunning
    BY <1>1, <1>2, <1>3, Constants DEF MemInv, PlacesInv
  <2> QED
    BY <1>1, <1>7, <1>8, <1>14, <2>1, <2>2 DEF MemInv, PlacesInv
<1>16. LateOldInv'
  <2>1. ASSUME NEW k \in DOMAIN After.items, NEW i, i = After.items[k], NEW r \in Reqs, r = i.r
        PROVE  /\ ~ Active(r)' => mode.overlap /\ Delayed(i)'
               /\ Pending'.kind = "decode" =>
                  /\ k \in DOMAIN Pending'.loc
                  /\ i.len > Len(Prompt[r])
                  /\ Seated(r)' /\ ~ New(r)' => Pending'.loc[k] = Row(r)'[Len(Row(r)')]
               /\ Pending'.kind = "extend" /\ Seated(r)' => i.row = req'[r].row
               /\ Pending'.kind = "extend" => Active(r)'
    <3>1. mode.overlap /\ After = cur
      BY <1>2, <2>1 DEF After
    <3>2. ~ Active(r) => After.kind = "decode" /\ req[r].st = "done"
      <4>1. Alive(r)
        BY <1>1, <2>1, <3>1 DEF LiveInv, CurInv, Launched
      <4> QED
        BY <1>9, <2>1, <4>1 DEF Alive, Active
    <3>3. ~ Active(r)' => Delayed(i)'
      BY <1>1, <1>5, <1>7, <2>1, <3>2 DEF Delayed
    <3>4. Pending'.kind = "extend" /\ Seated(r)' => i.row = req'[r].row
      <4>1. SUFFICES ASSUME cur.kind = "extend", Seated(r) PROVE i.row = req[r].row
        BY <1>1, <1>5, <1>8, <3>1
      <4>2. i \in ToSet(Joiners)
        BY <1>1, <2>1, <3>1, <4>1 DEF Joiners, Launched, ToSet
      <4> QED
        BY <2>1, <4>1, <4>2 DEF MemInv, PlacesInv
    <3>5. /\ After.kind = "decode" =>
                   /\ k \in DOMAIN After.loc
                   /\ i.len > Len(Prompt[r])
                   /\ Seated(r) => After.loc[k] = Row(r)[Len(Row(r))]
          /\ After.kind # "decode" => Active(r)
      BY <1>9, <2>1
    <3> QED
      BY <1>5, <1>7, <1>8, <3>1, <3>3, <3>4, <3>5, <1>1
  <2> QED
    BY <1>1, <1>4, <1>5, <1>6, <2>1 DEF LateOldInv
<1>17. LateNewInv'
  BY <1>6 DEF LateNewInv
<1>18. RoomInv'
  <2>1. SomeLate' => Count(free)' > 0
    <3>1. SomeLate' => \E k \in DOMAIN After.items : ~ Active(After.items[k].r)
      <4>1. SomeLate' => \E k \in todo' + 1 .. Len(Pending'.items) :
                            req'[Pending'.items[k].r].st # "active"
        BY <1>1 DEF SomeLate, Planning, Active
      <4> QED
        BY <1>1, <1>5, <1>6, <4>1 DEF Active
    <3>2. (\E k \in DOMAIN After.items : ~ Active(After.items[k].r)) => SomeLate
      BY <1>1 DEF SomeLate, Planning, Launched
    <3> QED
      BY <1>1, <3>1, <3>2 DEF MemInv, RoomInv, Count
  <2>2. Reserve' = Reserve /\ Reserve \in Nat
    BY <1>1, ReserveFacts DEF MemInv, Reserve
  <2>3. Answers(Joiners)' = Answers(Joiners)
    BY <1>1, <1>14, AnswersSame
  <2>4. Count(free)' = Count(free) /\ Count(free) \in Nat
    BY <1>1, AliveLoop DEF Count, MemInv
  <2>5. chunked # None => 10 * Count(free)' - Reserve' - 10 * Answers(Joiners)'
               >= 10 * (TextLen(chunked)' - req'[chunked].fill)
    <3>1. Count(free)' >= Count(free) /\ Count(free)' \in Nat /\ Reserve' <= Reserve /\ Reserve' \in Nat
      BY <2>2, <2>4
    <3> QED
      BY <1>1, <2>3, <3>1, ChunkedRoomFrame
  <2> QED
    BY <1>1, <2>1, <2>5 DEF RoomInv
<1>19. CacheInv'
  BY <1>1, CacheFrame DEF MemInv
<1>20. CountersInv'
  BY <1>1 DEF MemInv, CountersInv, FutureLimit
<1> QED
  BY <1>1, <1>11, <1>12, <1>13, <1>15, <1>16, <1>17, <1>18, <1>19, <1>20 DEF MemInv

\* The memory is made free again; no request had any.
LEMMA FlushMem ==
    ASSUME OrderInv, MemInv, FlushCache, \A r \in Reqs : req[r].st # "active"
    PROVE  MemInv'
<1>1. /\ LiveInv /\ QueueInv /\ pc = "recv" /\ pc' = "recv" /\ running = <<>>
      /\ free' = [s \in Slots |-> 1] /\ freeRows' = [k \in Rows |-> 1]
      /\ last' = NoBatch /\ cur' = NoBatch
      /\ cache' = IF mode.radix THEN EmptyCache ELSE cache
      /\ UNCHANGED <<mode, req, rows, running, chunked, queue, futureCt, ratio, todo>>
  BY AliveLoop DEF FlushCache, MemInv
<1>2. /\ NoBatch.kind = "none" /\ NoBatch.items = <<>> /\ Len(<<>>) = 0 /\ DOMAIN <<>> = {}
  BY DEF NoBatch
<1>3. /\ chunked = None /\ todo = 0 /\ cache' = cache
      /\ \A r \in Reqs : ~ Active(r) /\ ~ Active(r)'
  BY <1>1 DEF LiveInv, ChunkedInv, TypesInv, BatchesType, MemInv, CacheInv, Active
<1>4. Pending' = NoBatch /\ After' = NoBatch
  BY <1>1, <1>2 DEF Pending, After
<1>5. todo' + 1 .. Len(Pending'.items) = {} /\ DOMAIN After'.items = {}
  BY <1>1, <1>2, <1>3, <1>4
<1>6. ASSUME NEW r \in Reqs PROVE Owned(r)' = {} /\ Seat(r)' = {} /\ ~ Seated(r)' /\ ~ Stashed(r)'
  <2>1. ~ Seated(r)' /\ ~ Stashed(r)'
    BY <1>3 DEF Seated, Stashed
  <2>2. Places0(r)' = {} /\ Places1(r)' = {}
    BY <1>5 DEF Places0, Places1
  <2>3. Late(r)' = {}
    BY <2>2 DEF Late
  <2> QED
    BY <1>3, <2>1, <2>3 DEF Owned, Seat
<1>7. SlotsInv'
  BY <1>1, <1>3, <1>6 DEF SlotsInv, OneOwner, One, Slots
<1>8. RowsInv'
  <2>1. OneOwner(freeRows', Rows, [r \in Reqs |-> Seat(r)'])
    BY <1>1, <1>6 DEF OneOwner, One
  <2> QED
    BY <1>1, <2>1 DEF MemInv, RowsInv, Rows, Slots
<1>9. FillInv'
  <2>1. \A r \in Reqs : r # chunked'
    BY <1>1, <1>3, Constants
  <2> QED
    BY <1>1, <1>3, <1>6, <2>1 DEF MemInv, FillInv, Slots, TextLen
<1>10. Joiners' = <<>> /\ Extra' = 0
  BY <1>1, <1>2 DEF Joiners, Extra, Launched
<1>11. PlacesInv'
  <2>1. ToSet(running') = {} /\ ToSet(Joiners') = {}
    BY <1>1, <1>2, <1>10 DEF ToSet
  <2>2. Len(running') + Extra' <= MaxRunning
    BY <1>1, <1>2, <1>10, Constants
  <2>3. Len(Pending'.items) <= MaxRunning /\ Len(cur'.items) <= MaxRunning
    BY <1>1, <1>2, <1>4, Constants
  <2>4. \A i \in ToSet(running') \cup ToSet(Joiners') : FALSE
    BY <2>1
  <2> QED
    BY <1>6, <2>2, <2>3, <2>4 DEF PlacesInv, ToSet
<1>12. LateOldInv' /\ LateNewInv'
  BY <1>5 DEF LateOldInv, LateNewInv
<1>13. RoomInv'
  <2>1. ~ SomeLate'
    BY <1>1, <1>5 DEF SomeLate, Planning
  <2> QED
    BY <1>1, <1>3, <2>1 DEF RoomInv
<1>14. CacheInv'
  BY <1>1, <1>3, CacheFrame DEF MemInv
<1>15. CountersInv'
  BY <1>1 DEF MemInv, CountersInv, FutureLimit
<1> QED
  BY <1>1, <1>7, <1>8, <1>9, <1>11, <1>12, <1>13, <1>14, <1>15 DEF MemInv

\* At the start everything is free.
LEMMA InitMem == ChunkCacheOnly /\ Init => MemInv
<1> SUFFICES ASSUME ChunkCacheOnly, Init PROVE MemInv
  OBVIOUS
<1>1. /\ mode \in Modes /\ pc = "recv" /\ running = <<>> /\ req = [r \in Reqs |-> NewReq]
      /\ free = [s \in Slots |-> 1] /\ freeRows = [k \in Rows |-> 1]
      /\ rows = [k \in Rows |-> <<>>] /\ cache = EmptyCache
      /\ last = NoBatch /\ cur = NoBatch /\ chunked = None /\ todo = 0 /\ queue = <<>>
      /\ futureCt = 0 /\ ratio = InitRatio
  BY DEF Init
<1>2. /\ NoBatch.kind = "none" /\ NoBatch.items = <<>> /\ Len(<<>>) = 0 /\ DOMAIN <<>> = {}
      /\ IsSeq(<<>>) /\ ToSet(<<>>) = {}
  BY EmptyIsSeq DEF NoBatch, ToSet
<1>3. NewReq.st = "new" /\ NewReq.out = 0 /\ NewReq.fill = 0 /\ NewReq.pre = <<>> /\ NewReq.row = 0
  BY DEF NewReq
<1>4. \A r \in Reqs : ~ Active(r) /\ ~ Seated(r) /\ ~ Stashed(r) /\ req[r] = NewReq
  BY <1>1, <1>3 DEF Active, Seated, Stashed
<1>5. Pending = NoBatch /\ After = NoBatch
  BY <1>1, <1>2 DEF Pending, After
<1>6. todo + 1 .. Len(Pending.items) = {} /\ DOMAIN After.items = {}
  BY <1>1, <1>2, <1>5
<1>7. ASSUME NEW r \in Reqs PROVE Owned(r) = {} /\ Seat(r) = {}
  <2>1. Places0(r) = {} /\ Places1(r) = {}
    BY <1>6 DEF Places0, Places1
  <2>2. Late(r) = {}
    BY <2>1 DEF Late
  <2> QED
    BY <1>4, <2>2 DEF Owned, Seat
<1>8. SlotsInv
  BY <1>1, <1>4, <1>7 DEF SlotsInv, OneOwner, One
<1>9. RowsInv
  <2>1. OneOwner(freeRows, Rows, [r \in Reqs |-> Seat(r)])
    BY <1>1, <1>7 DEF OneOwner, One
  <2> QED
    BY <1>1, <1>2, <1>3, <1>4, <2>1 DEF RowsInv
<1>10. FillInv
  <2>1. ASSUME NEW r \in Reqs PROVE r # chunked /\ TextLen(r) \in Nat /\ req[r] = NewReq
    BY <1>1, <1>3, <1>4, Constants DEF TextLen
  <2> QED
    BY <1>2, <1>3, <1>4, <2>1 DEF FillInv
<1>11. Joiners = <<>> /\ Extra = 0
  BY <1>1, <1>2 DEF Joiners, Extra, Launched
<1>12. PlacesInv
  BY <1>1, <1>2, <1>4, <1>5, <1>11, Constants DEF PlacesInv
<1>13. LateOldInv /\ LateNewInv
  BY <1>6 DEF LateOldInv, LateNewInv
<1>14. RoomInv
  <2>1. ~ SomeLate
    BY <1>1, <1>6 DEF SomeLate, Planning
  <2> QED
    BY <1>1, <2>1 DEF RoomInv
<1>15. CacheInv
  <2>1. /\ EmptyCache.tree = <<>> /\ EmptyCache.evictable = 0 /\ EmptyCache.protected = 0
    BY DEF EmptyCache
  <2> DEFINE lens == [r \in Reqs |-> Len(req[r].pre)]
  <2>2. \A r \in DOMAIN lens : lens[r] = 0
    BY <1>2, <1>3, <1>4
  <2>3. Total([r \in {} |-> lens[r]]) = 0
    <3> DEFINE none == [r \in {} |-> lens[r]]
    <3>1. NatValued(none) /\ \A x \in DOMAIN none : none[x] = 0
      BY FS_EmptySet DEF NatValued
    <3> HIDE DEF none
    <3>2. Total(none) = 0
      BY <3>1, TotalZero
    <3> QED
      BY <3>2 DEF none
  <2> HIDE DEF lens
  <2>4. IsFiniteSet({}) /\ {} \in SUBSET DOMAIN lens
    BY FS_EmptySet
  <2>5. Sums(0, lens)
    BY <2>2, <2>3, <2>4 DEF Sums
  <2> QED
    BY <1>1, <1>2, <2>1, <2>5 DEF CacheInv, ChunkCacheOnly, lens
<1>16. CountersInv
  <2>1. MaxRunning \in Nat \ {0} /\ InitRatio \in Ratios
    BY SchedulerAssumption
  <2>2. 0 \in 0 .. FutureLimit - 1
    BY <2>1 DEF FutureLimit
  <2> QED
    BY <1>1, <2>1, <2>2 DEF CountersInv
<1> QED
  BY <1>1, <1>8, <1>9, <1>10, <1>12, <1>13, <1>14, <1>15, <1>16 DEF MemInv

\* One row is given back.
LEMMA RowGoesBack ==
    ASSUME NEW D, IsFiniteSet(D), NEW bag, NEW own, OneOwner(bag, D, own),
           NEW r \in Reqs, NEW w, own[r] = {w}, NEW new, new[r] = {},
           \A q \in Reqs : q # r => new[q] = own[q]
    PROVE  OneOwner([bag EXCEPT ![w] = @ + 1], D, new)
<1>1. w \in D /\ bag = [x \in D |-> bag[x]] /\ NoneTwice(bag)
  <2>1. w \in D /\ bag = [x \in D |-> bag[x]]
    BY DEF OneOwner
  <2> QED
    BY <2>1, OwnedOnce
<1> DEFINE s == <<w>>
<1>2. IsSeq(s) /\ Injective(s) /\ ToSet(s) = {w}
  BY EmptyIsSeq DEF Injective, ToSet
<1> HIDE DEF s
<1>3. new[r] = own[r] \ ToSet(s)
  BY <1>2
<1>4. OneOwner(Freed(bag, s), D, new)
  BY <1>2, <1>3, GivesBack
<1>5. Freed(bag, s) = [bag EXCEPT ![w] = @ + 1]
  <2>1. \A x \in D : Times(x, s) = One(x = w) /\ bag[x] \in Int
    BY <1>1, <1>2, TimesOne DEF NoneTwice
  <2>2. Freed(bag, s) = [x \in D |-> bag[x] + One(x = w)]
    BY <1>1, <2>1 DEF Freed
  <2>3. \A x \in D : bag[x] + One(x = w) = IF x = w THEN bag[x] + 1 ELSE bag[x]
    BY <2>1 DEF One
  <2>4. [bag EXCEPT ![w] = @ + 1] = [x \in D |-> IF x = w THEN bag[x] + 1 ELSE bag[x]]
    BY <1>1
  <2> QED
    BY <2>2, <2>3, <2>4
<1> QED
  BY <1>4, <1>5

\* Who is seated has a row of his own.
LEMMA SeatedRow ==
    ASSUME OrderInv, MemInv, NEW r \in Reqs, Seated(r)
    PROVE  /\ req[r].row \in Rows /\ Seat(r) = {req[r].row}
           /\ IsSeq(Row(r)) /\ ToSet(Row(r)) \subseteq Slots /\ Injective(Row(r))
           /\ Len(Row(r)) \in Nat /\ DOMAIN Row(r) = 1 .. Len(Row(r))
           /\ Active(r) /\ Held(r) = Row(r) /\ Owned(r) = ToSet(Row(r))
           /\ \A q \in Reqs : Seated(q) /\ req[q].row = req[r].row => q = r
<1>1. Seat(r) = {req[r].row}
  BY DEF Seat
<1>2. req[r].row \in Rows
  BY <1>1 DEF MemInv, RowsInv, OneOwner
<1>3. Active(r) /\ Held(r) = Row(r)
  BY DEF Seated, Held
<1>4. Owned(r) = ToSet(Row(r))
  BY <1>3 DEF Owned
<1>5. IsSeq(Row(r)) /\ ToSet(Row(r)) \subseteq Slots /\ Injective(Row(r))
  BY <1>2, <1>3 DEF MemInv, RowsInv, SlotsInv, Row
<1>6. ASSUME NEW q \in Reqs, Seated(q), req[q].row = req[r].row PROVE q = r
  <2>1. Seat(q) = {req[q].row}
    BY <1>6 DEF Seat
  <2> QED
    BY <1>1, <1>6, <2>1 DEF MemInv, RowsInv, OneOwner
<1> QED
  BY <1>1, <1>2, <1>3, <1>4, <1>5, <1>6, SeqFacts

\* What the chunked request has computed is kept for the next round.
LEMMA StashMem ==
    ASSUME OrderInv, MemInv, StashChunked
    PROVE  MemInv'
<1>1. LiveInv /\ QueueInv /\ pc = "recv" /\ chunked # None /\ ~ mode.radix /\ ReqsType
  BY AliveLoop DEF StashChunked, MemInv, CacheInv
<1>2. PICK c \in Reqs : c = chunked /\ Active(c)
  BY <1>1 DEF LiveInv, ChunkedInv, Active
<1>3. Stashed(c) = FALSE /\ Seated(c)
  BY <1>1, <1>2 DEF Stashed, Seated
<1> DEFINE rec == req[c]
           row == rec.row
<1>4. /\ row \in Rows /\ Seat(c) = {row}
      /\ IsSeq(Row(c)) /\ ToSet(Row(c)) \subseteq Slots /\ Injective(Row(c))
      /\ Len(Row(c)) \in Nat
  BY <1>3, SeatedRow
<1>5. rec.fill = Len(Row(c)) /\ rec.fill < TextLen(c)
  BY <1>1, <1>2, <1>3 DEF MemInv, FillInv
<1>6. Upto(rows[row], rec.fill) = rows[row]
  <2>1. Row(c) = rows[row]
    BY DEF Row
  <2> QED
    BY <1>4, <1>5, <2>1, UptoWhole
<1>7. /\ pc' = "merge"
      /\ UNCHANGED <<mode, running, chunked, last, cur, queue, adder, futureCt, ratio, todo>>
      /\ cache' = [cache EXCEPT !.protected = @ + rec.fill - Len(rec.pre)]
      /\ free' = free
      /\ rows' = [rows EXCEPT ![row] = rows[row]]
      /\ freeRows' = [freeRows EXCEPT ![row] = @ + 1]
      /\ req' = [req EXCEPT ![c].pre = rows[row], ![c].node = <<>>]
  <2>1. CacheUnfinished(c, rec) = [cache |-> [cache EXCEPT !.protected = @ + rec.fill - Len(rec.pre)],
                                   free  |-> free, slots |-> Upto(rows[row], rec.fill),
                                   node  |-> <<>>]
    BY <1>1 DEF CacheUnfinished
  <2> DEFINE after == CacheUnfinished(c, rec)
  <2>2. /\ pc' = "merge"
        /\ UNCHANGED <<mode, running, chunked, last, cur, queue, adder, futureCt, ratio, todo>>
        /\ cache' = after.cache
        /\ free' = after.free
        /\ rows' = [rows EXCEPT ![row] = after.slots]
        /\ freeRows' = [freeRows EXCEPT ![row] = @ + 1]
        /\ req' = [req EXCEPT ![c].pre = after.slots, ![c].node = after.node]
    BY <1>2 DEF StashChunked, batches
  <2>3. /\ after.cache = [cache EXCEPT !.protected = @ + rec.fill - Len(rec.pre)]
        /\ after.free = free /\ after.slots = rows[row] /\ after.node = <<>>
    BY <1>6, <2>1
  <2> HIDE DEF after
  <2> QED
    BY <2>2, <2>3
<1>8. /\ DOMAIN req' = Reqs
      /\ \A q \in Reqs : q # c => req'[q] = req[q]
      /\ req'[c].pre = rows[row]
      /\ req'[c].st = rec.st /\ req'[c].out = rec.out /\ req'[c].fill = rec.fill
      /\ req'[c].row = row /\ req'[c].retracted = rec.retracted
  <2>1. DOMAIN req = Reqs /\ DOMAIN req[c] = DOMAIN NewReq
    BY <1>1 DEF ReqsType, ReqType
  <2>2. DOMAIN NewReq = {"st", "out", "fill", "pre", "node", "chunks", "retracted", "abort", "row"}
    BY DEF NewReq
  <2> QED
    BY <1>7, <2>1, <2>2
<1>9. \A w \in Rows : rows'[w] = rows[w]
  BY <1>4, <1>7 DEF MemInv, RowsInv
<1>10. \A q \in Reqs : /\ Active(q)' <=> Active(q)
                       /\ TextLen(q)' = TextLen(q)
                       /\ req'[q].row = req[q].row
                       /\ req'[q].st = req[q].st /\ req'[q].out = req[q].out
                       /\ req'[q].fill = req[q].fill /\ req'[q].retracted = req[q].retracted
  BY <1>8 DEF Active, TextLen
<1>11. \A q \in Reqs : /\ ~ Stashed(q)
                       /\ Stashed(q)' <=> q = c
                       /\ Seated(q)' <=> Seated(q) /\ q # c
                       /\ Seated(q) <=> Active(q)
  BY <1>1, <1>2, <1>7, <1>10 DEF Stashed, Seated
<1>12. ASSUME NEW q \in Reqs, Seated(q)' PROVE Seated(q) /\ Row(q)' = Row(q) /\ Held(q)' = Held(q)
  <2>1. Seated(q) /\ Seat(q) = {req[q].row} /\ req[q].row \in Rows
    BY <1>11, <1>12, SeatedRow
  <2>2. Row(q)' = Row(q)
    BY <1>9, <1>10, <2>1 DEF Row
  <2> QED
    BY <1>12, <2>1, <2>2 DEF Held
<1>13. Held(c)' = Row(c) /\ Held(c) = Row(c)
  BY <1>3, <1>8, <1>11 DEF Held, Row
<1>14. Pending' = Pending /\ After' = After /\ After = NoBatch
  BY <1>1, <1>7 DEF Pending, After, QueueInv, Launched
<1>15. /\ Items(Pending.items) /\ DOMAIN Pending.items = 1 .. Len(Pending.items)
       /\ Len(Pending.items) \in Nat /\ todo \in 0 .. Len(Pending.items)
       /\ \A k \in DOMAIN Pending.items : Pending.items[k].r \in Reqs
  BY AliveLoop, ItemFacts DEF MemInv
<1>16. \A k \in todo + 1 .. Len(Pending.items) :
          LET i == Pending.items[k]
              r == i.r
          IN  /\ r \in Reqs /\ k \in DOMAIN Pending.items
              /\ ~ Active(r) => mode.overlap /\ Delayed(i)
              /\ Pending.kind = "decode" =>
                  /\ k \in DOMAIN Pending.loc
                  /\ i.len > Len(Prompt[r])
                  /\ Seated(r) /\ ~ New(r) => Pending.loc[k] = Row(r)[Len(Row(r))]
              /\ Pending.kind = "extend" /\ ~ Partial(Pending, r) /\ Seated(r) =>
                  i.row = req[r].row
              /\ Pending.kind = "extend" /\ ~ Active(r) =>
                  /\ i.row \in Rows
                  /\ req[r].out > 0 => Len(rows[i.row]) = TextLen(r)
                  /\ \A q \in Reqs : Seated(q) => req[q].row # i.row
  BY <1>15 DEF MemInv, LateOldInv
<1>17. ASSUME NEW q \in Reqs PROVE Owned(q)' = Owned(q)
  <2>1. CASE Active(q)
    <3>1. Held(q)' = Held(q)
      BY <1>10, <1>11, <1>12, <1>13, <2>1
    <3> QED
      BY <1>10, <2>1, <3>1 DEF Owned
  <2>2. CASE ~ Active(q)
    <3>1. Places0(q)' = Places0(q) /\ Places1(q)' = Places1(q)
      BY <1>7, <1>14 DEF Places0, Places1
    <3>2. ASSUME NEW k \in Places0(q) PROVE LateSlot(k)' = LateSlot(k)
      <4>1. k \in todo + 1 .. Len(Pending.items) /\ Pending.items[k].r = q
        BY DEF Places0
      <4>2. Pending.kind = "extend" => Pending.items[k].row \in Rows
        BY <1>16, <2>2, <4>1
      <4>3. BatchType(Pending)
        BY <1>1 DEF LiveInv, TypesInv, BatchesType
      <4>4. Pending.kind \in {"decode", "extend"}
        <5>1. Delayed(Pending.items[k]) /\ mode.overlap
          BY <1>16, <2>2, <4>1
        <5>2. Pending.kind # "none"
          <6>1. Pending.kind = "none" => Pending = NoBatch
            BY <1>1, <5>1 DEF QueueInv, QueueShape, Same, Pending, LiveInv, TypesInv, BatchesType
          <6>2. NoBatch.items = <<>>
            BY DEF NoBatch
          <6>3. k \in 1 .. Len(Pending.items)
            BY <1>15, <4>1
          <6> QED
            BY <1>15, <6>1, <6>2, <6>3
        <5> QED
          BY <4>3, <5>2 DEF BatchType
      <4> QED
        BY <1>9, <1>10, <1>14, <4>1, <4>2, <4>4 DEF LateSlot
    <3>3. Late(q)' = Late(q)
      <4>1. (UNION {ToSet(LateSlot(k)) : k \in Places0(q)})'
              = UNION {ToSet(LateSlot(k)) : k \in Places0(q)}
        BY <3>1, <3>2 DEF ToSet
      <4>2. {After.loc[k] : k \in Places1(q)}' = {After.loc[k] : k \in Places1(q)}
        BY <1>14, <3>1
      <4> QED
        BY <4>1, <4>2 DEF Late
    <3> QED
      BY <1>10, <2>2, <3>3 DEF Owned
  <2> QED
    BY <2>1, <2>2
<1>18. SlotsInv'
  <2>1. [q \in Reqs |-> Owned(q)'] = [q \in Reqs |-> Owned(q)]
    BY <1>17
  <2>2. OneOwner(free', Slots, [q \in Reqs |-> Owned(q)'])
    BY <1>7, <2>1 DEF MemInv, SlotsInv
  <2>3. ASSUME NEW q \in Reqs, Active(q)' PROVE Injective(Held(q)')
    BY <1>4, <1>10, <1>11, <1>12, <1>13, <2>3 DEF MemInv, SlotsInv
  <2> QED
    BY <2>2, <2>3 DEF SlotsInv, Slots, Injective
<1>19. RowsInv'
  <2> DEFINE old == [q \in Reqs |-> Seat(q)]
             new == [q \in Reqs |-> Seat(q)']
  <2>1. old[c] = {row} /\ new[c] = {}
    BY <1>4, <1>11 DEF Seat
  <2>2. \A q \in Reqs : q # c => new[q] = old[q]
    BY <1>10, <1>11 DEF Seat
  <2>3. OneOwner(freeRows, Rows, old)
    BY DEF MemInv, RowsInv
  <2>4. OneOwner([freeRows EXCEPT ![row] = @ + 1], Rows, new)
    <3> DEFINE w == row
    <3>1. old[c] = {w} /\ new[c] = {} /\ IsFiniteSet(Rows)
      BY <2>1, Constants
    <3> HIDE DEF old, new, w
    <3>2. OneOwner([freeRows EXCEPT ![w] = @ + 1], Rows, new)
      BY <2>2, <2>3, <3>1, RowGoesBack
    <3> QED
      BY <3>2 DEF w
  <2>5. DOMAIN rows' = Rows /\ \A q \in Reqs : req'[q].row \in {0} \cup Rows
    BY <1>7, <1>10 DEF MemInv, RowsInv
  <2> QED
    BY <1>7, <1>9, <2>4, <2>5 DEF MemInv, RowsInv, Rows, Slots
<1>20. FillInv'
  <2>1. ASSUME NEW q \in Reqs
        PROVE  /\ ~ Active(q)' => req'[q].pre = <<>>
               /\ ToSet(req'[q].pre) \subseteq Slots
               /\ Len(req'[q].pre) <= req'[q].fill /\ req'[q].fill <= TextLen(q)'
               /\ Seated(q)' => req'[q].fill <= Len(Row(q)')
               /\ Stashed(q)' => req'[q].fill = Len(req'[q].pre)
               /\ q = chunked' =>
                      req'[q].fill < TextLen(q)' /\ ~ Seated(q)'
    <3>1. /\ ~ Active(q) => req[q].pre = <<>>
          /\ ToSet(req[q].pre) \subseteq Slots
          /\ Len(req[q].pre) <= req[q].fill /\ req[q].fill <= TextLen(q)
          /\ Seated(q) => req[q].fill <= Len(Row(q))
      BY DEF MemInv, FillInv
    <3>2. CASE q = c
      <4>1. req'[q].pre = Row(c) /\ req'[q].fill = Len(Row(c))
        BY <1>5, <1>8, <3>2 DEF Row
      <4> QED
        BY <1>2, <1>4, <1>5, <1>7, <1>10, <1>11, <3>1, <3>2, <4>1
    <3>3. CASE q # c
      BY <1>2, <1>7, <1>8, <1>10, <1>11, <1>12, <3>1, <3>3
    <3> QED
      BY <3>2, <3>3
  <2> QED
    BY <1>7, <2>1 DEF FillInv, Slots
<1>21. Joiners' = Joiners /\ Extra' = Extra
  <2>1. Joiners' = Joiners
    BY <1>1, <1>7 DEF Joiners, Launched
  <2> QED
    BY <1>1, <1>7, <2>1 DEF Extra
<1>22. PlacesInv'
  <2>1. /\ Len(running') + Extra' <= MaxRunning
        /\ Len(Pending'.items) <= MaxRunning /\ Len(cur'.items) <= MaxRunning
    BY <1>7, <1>14, <1>21 DEF MemInv, PlacesInv
  <2>2. ReqsOf(running)' = ReqsOf(running) /\ ReqsOf(Joiners)' = ReqsOf(Joiners)
    BY <1>7, <1>21 DEF ReqsOf
  <2>3. \A q \in Reqs : Seated(q)' => q \in ReqsOf(running)' \cup ReqsOf(Joiners)'
    BY <1>12, <2>2 DEF MemInv, PlacesInv
  <2>4. \A i \in AllItems : i.r \in Reqs
    <3>1. Items(running) /\ Items(Joiners)
      BY AliveLoop, AnswersFacts DEF MemInv
    <3> QED
      BY <3>1 DEF AllItems, ToSet, Items, Item
  <2>5. ASSUME NEW i \in AllItems
        PROVE  /\ Seated(i.r)' => i.row = req'[i.r].row /\ i.len = Len(Row(i.r)')
               /\ i.r # chunked' => i.len >= Len(Prompt[i.r])
    <3>1. PICK q \in Reqs : q = i.r
      BY <2>4
    <3>2. /\ Seated(q) => i.row = req[q].row /\ i.len = Len(Row(q))
          /\ q # chunked => i.len >= Len(Prompt[q])
      BY <3>1 DEF AllItems, MemInv, PlacesInv
    <3>3. Seated(q)' => i.row = req'[q].row /\ i.len = Len(Row(q)')
      BY <1>10, <1>12, <3>2
    <3> QED
      BY <1>7, <3>1, <3>2, <3>3
  <2>6. ToSet(running') \cup ToSet(Joiners') = AllItems
    BY <1>7, <1>21 DEF AllItems, ToSet
  <2> QED
    BY <2>1, <2>3, <2>5, <2>6 DEF PlacesInv, ToSet
<1>23. LateOldInv'
  <2>1. ASSUME NEW k \in todo + 1 .. Len(Pending.items), NEW i, i = Pending.items[k],
               NEW r \in Reqs, r = i.r
        PROVE  /\ ~ Active(r)' => mode'.overlap /\ Delayed(i)'
               /\ Pending'.kind = "decode" =>
                   /\ k \in DOMAIN Pending'.loc
                   /\ i.len > Len(Prompt[r])
                   /\ Seated(r)' /\ ~ New(r)' => Pending'.loc[k] = Row(r)'[Len(Row(r)')]
               /\ Pending'.kind = "extend" /\ ~ Partial(Pending', r) /\ Seated(r)' =>
                   i.row = req'[r].row
               /\ Pending'.kind = "extend" /\ ~ Active(r)' =>
                   /\ i.row \in Rows
                   /\ req'[r].out > 0 => Len(rows'[i.row]) = TextLen(r)'
                   /\ \A q \in Reqs : Seated(q)' => req'[q].row # i.row
    <3>1. /\ ~ Active(r) => mode.overlap /\ Delayed(i)
          /\ Pending.kind = "decode" =>
                  /\ k \in DOMAIN Pending.loc
                  /\ i.len > Len(Prompt[r])
                  /\ Seated(r) /\ ~ New(r) => Pending.loc[k] = Row(r)[Len(Row(r))]
          /\ Pending.kind = "extend" /\ ~ Partial(Pending, r) /\ Seated(r) =>
                  i.row = req[r].row
          /\ Pending.kind = "extend" /\ ~ Active(r) =>
                  /\ i.row \in Rows
                  /\ req[r].out > 0 => Len(rows[i.row]) = TextLen(r)
                  /\ \A q \in Reqs : Seated(q) => req[q].row # i.row
      BY <1>16, <2>1
    <3>2. New(r)' <=> New(r)
      BY <1>14 DEF New, ReqsOf
    <3>3. Delayed(i)' <=> Delayed(i)
      BY <1>10, <1>14, <2>1 DEF Delayed
    <3> QED
      BY <1>7, <1>9, <1>10, <1>12, <1>14, <3>1, <3>2, <3>3
  <2>2. \A k \in todo + 1 .. Len(Pending.items) : Pending.items[k].r \in Reqs
    BY <1>16
  <2>3. mode' = mode /\ todo' = todo /\ Pending' = Pending
    BY <1>7, <1>14
  <2>4. ASSUME NEW k \in todo + 1 .. Len(Pending.items)
        PROVE  (~ Active(Pending.items[k].r) => mode.overlap /\ Delayed(Pending.items[k]))'
    BY <2>1, <2>2, <2>3
  <2>5. ASSUME NEW k \in todo + 1 .. Len(Pending.items)
        PROVE  (Pending.kind = "decode" =>
                   /\ k \in DOMAIN Pending.loc
                   /\ Pending.items[k].len > Len(Prompt[Pending.items[k].r])
                   /\ Seated(Pending.items[k].r) /\ ~ New(Pending.items[k].r) => Pending.loc[k] = Row(Pending.items[k].r)[Len(Row(Pending.items[k].r))])'
    BY <2>1, <2>2, <2>3
  <2>6. ASSUME NEW k \in todo + 1 .. Len(Pending.items)
        PROVE  (Pending.kind = "extend" /\ ~ Partial(Pending, Pending.items[k].r) /\ Seated(Pending.items[k].r) =>
                   Pending.items[k].row = req[Pending.items[k].r].row)'
    BY <2>1, <2>2, <2>3 DEF Partial
  <2>7. ASSUME NEW k \in todo + 1 .. Len(Pending.items)
        PROVE  (Pending.kind = "extend" /\ ~ Active(Pending.items[k].r) =>
                   /\ Pending.items[k].row \in Rows
                   /\ req[Pending.items[k].r].out > 0 => Len(rows[Pending.items[k].row]) = TextLen(Pending.items[k].r)
                   /\ \A q \in Reqs : Seated(q) => req[q].row # Pending.items[k].row)'
    BY <2>1, <2>2, <2>3 DEF Rows
  <2> QED
    BY <2>4, <2>5, <2>6, <2>7, <2>3 DEF LateOldInv
<1>24. LateNewInv'
  <2>1. DOMAIN After'.items = {}
    BY <1>14 DEF NoBatch
  <2> QED
    BY <2>1 DEF LateNewInv
<1>25. RoomInv'
  <2>1. SomeLate' => Count(free)' > 0
    <3>1. SomeLate' => \E k \in todo + 1 .. Len(Pending.items) : req'[Pending.items[k].r].st # "active"
      BY <1>7, <1>14 DEF SomeLate, Planning, Active
    <3>2. (\E k \in todo + 1 .. Len(Pending.items) : ~ Active(Pending.items[k].r)) => SomeLate
      BY <1>1 DEF SomeLate, Planning
    <3>3. SomeLate' => SomeLate
      BY <1>10, <1>16, <3>1, <3>2 DEF Active
    <3> QED
      BY <1>7, <3>3 DEF MemInv, RoomInv, Count
  <2>2. Reserve' = Reserve /\ Reserve \in Nat
    BY <1>7, <1>10, ReserveSame, ReserveFacts DEF MemInv
  <2>3. Answers(Joiners)' = Answers(Joiners)
    BY <1>7, <1>21, AnswersSame
  <2>4. Count(free)' = Count(free) /\ Count(free) \in Nat
    BY <1>7, AliveLoop DEF Count, MemInv
  <2>5. chunked # None => 10 * Count(free)' - Reserve' - 10 * Answers(Joiners)'
               >= 10 * (TextLen(chunked)' - req'[chunked].fill)
    <3>1. Count(free)' >= Count(free) /\ Count(free)' \in Nat /\ Reserve' <= Reserve /\ Reserve' \in Nat
      BY <2>2, <2>4
    <3>2. req'[chunked].out = req[chunked].out /\ req'[chunked].fill = req[chunked].fill
      BY <1>2, <1>10
    <3> QED
      BY <1>1, <1>7, <2>3, <3>1, <3>2, ChunkedRoomFrame
  <2> QED
    BY <1>7, <2>1, <2>5 DEF RoomInv
<1>26. CacheInv'
  <2>1. CacheType(cache)
    BY <1>1 DEF LiveInv, TypesInv, MemoryType
  <2>2. /\ cache'.tree = cache.tree /\ cache'.evictable = cache.evictable
        /\ cache'.protected = cache.protected + rec.fill - Len(rec.pre)
    BY <1>7, <2>1 DEF CacheType
  <2> DEFINE old == [q \in Reqs |-> Len(req[q].pre)]
             new == [q \in Reqs |-> Len(req'[q].pre)]
  <2>3. Sums(cache.protected, old) /\ DOMAIN cache.tree = {} /\ cache.evictable = 0
    BY DEF MemInv, CacheInv
  <2>4. \A q \in Reqs : old[q] \in Nat
    BY ReqFacts DEF MemInv
  <2>5. old[c] = Len(rec.pre) /\ new[c] = rec.fill /\ new[c] \in Nat
    BY <1>4, <1>5, <1>8 DEF Row
  <2>6. \A q \in Reqs : q # c => new[q] = old[q]
    BY <1>8
  <2>7. DOMAIN old = Reqs /\ DOMAIN new = Reqs
    OBVIOUS
  <2> HIDE DEF old, new
  <2>8. cache.protected \in Nat /\ Sums(cache.protected - old[c] + new[c], new)
    BY <2>3, <2>4, <2>5, <2>6, <2>7, SumsPut
  <2>9. cache.protected - old[c] + new[c] = cache'.protected
    BY <2>2, <2>4, <2>5, <2>8
  <2> QED
    BY <1>1, <1>7, <2>2, <2>3, <2>8, <2>9 DEF CacheInv, new
<1>27. CountersInv'
  BY <1>7 DEF MemInv, CountersInv, FutureLimit
<1> QED
  BY <1>7, <1>18, <1>19, <1>20, <1>22, <1>23, <1>24, <1>25, <1>26, <1>27 DEF MemInv

\* What ChunkCache makes of the admission of r: no more is tried, or its whole
\* text is taken, or as much of it as the chunk has room for.
NotAdmitted ==
    /\ req' = req /\ adder'.can = adder.can /\ adder'.offset = adder.offset
    /\ adder'.newChunked = adder.newChunked
Admitted(r, extend) ==
    /\ extend <= TextLen(r) /\ adder.chunk > 0
    /\ 10 * (TextLen(r) + MaxNew(r) - req[r].out) < Remaining(cache, adder.offset)
    /\ \A q \in Reqs : q # r => req'[q] = req[q]
    /\ req'[r].fill = extend /\ req'[r].pre = <<>>
    /\ req'[r].st = req[r].st /\ req'[r].out = req[r].out /\ req'[r].row = req[r].row
    /\ req'[r].retracted = req[r].retracted
    /\ adder'.can = Append(adder.can, r)
    /\ adder'.offset = adder.offset
                         + 10 * (extend + (IF extend = TextLen(r) THEN MaxNew(r) ELSE 0))
    /\ adder'.newChunked = IF extend = TextLen(r) THEN None ELSE r

\* What add_one_req does with ChunkCache: nothing is matched, so it leaves the
\* request out or admits it for a number of tokens that fit.
LEMMA AdmitFacts ==
    ASSUME OrderInv, MemInv, NEW r \in Reqs, Admit(r)
    PROVE  /\ cache' = cache
           /\ NotAdmitted \/ \E extend \in Nat : Admitted(r, extend)
<1>1. /\ LiveInv /\ pc = "admit" /\ ~ mode.radix /\ ReqsType
  BY AliveLoop DEF Admit, MemInv, CacheInv
<1> DEFINE len == Len(Prompt[r]) + req[r].out
           key == Upto(Text(r), len - 1)
           extend == Min({len - 0, adder.chunk})
           whole == extend = len - 0
           offset == adder.offset + 10 * (extend + (IF whole THEN MaxNew(r) ELSE 0))
           curOffset == adder.curOffset + 10 * extend
           noToken == Remaining(cache, offset) <= 0 \/ Remaining(cache, curOffset) <= 0
           pre == SlotsOf(cache.tree, key, 0)
           node == Upto(key, 0)
<1>2. /\ DOMAIN adder = DOMAIN NoAdder /\ adder.chunk \in Int
  BY <1>1 DEF LiveInv, AdderInv
<1>3. Locked(cache, node) = cache
  BY <1>1 DEF Locked
<1>4. /\ cache' = cache
      /\ \/ /\ req' = req /\ adder' = [adder EXCEPT !.stop = TRUE]
         \/ /\ Affordable(cache, node, len - 0 + MaxNew(r) - req[r].out)
            /\ ~ (adder.chunk <= 0)
            /\ req' = [req EXCEPT ![r].fill = 0 + extend, ![r].pre = pre, ![r].node = node]
            /\ adder' = [can |-> Append(adder.can, r), offset |-> offset,
                         curOffset |-> curOffset, chunk |-> adder.chunk - extend,
                         newChunked |-> IF whole THEN None ELSE r,
                         stop |-> noToken \/ adder.chunk - extend <= 0]
  <2> HIDE DEF pre, len
  <2> QED
    BY <1>1, <1>3 DEF Admit, len, pre
<1>5. pre = <<>>
  BY DEF SlotsOf
<1>6. len = TextLen(r) /\ len \in Nat /\ len > 0 /\ MaxNew(r) \in Nat /\ req[r].out \in Nat
  <2>1. Len(Prompt[r]) \in 1 .. Size - 7 /\ Size \in Nat
    BY SchedulerAssumption
  <2>2. req[r].out \in Nat /\ MaxNew(r) \in Nat
    BY ReqFacts DEF MemInv
  <2> QED
    BY <2>1, <2>2 DEF TextLen
<1> HIDE DEF len, pre
<1>7. CASE req' = req /\ adder' = [adder EXCEPT !.stop = TRUE]
  <2>1. DOMAIN NoAdder = {"can", "offset", "curOffset", "chunk", "newChunked", "stop"}
    BY DEF NoAdder
  <2>2. NotAdmitted
    BY <1>2, <1>7, <2>1 DEF NotAdmitted
  <2> QED
    BY <1>4, <2>2
<1>8. CASE /\ Affordable(cache, node, len - 0 + MaxNew(r) - req[r].out)
           /\ ~ (adder.chunk <= 0)
           /\ req' = [req EXCEPT ![r].fill = 0 + extend, ![r].pre = pre, ![r].node = node]
           /\ adder' = [can |-> Append(adder.can, r), offset |-> offset,
                        curOffset |-> curOffset, chunk |-> adder.chunk - extend,
                        newChunked |-> IF whole THEN None ELSE r,
                        stop |-> noToken \/ adder.chunk - extend <= 0]
  <2>1. extend = IF len > adder.chunk THEN adder.chunk ELSE len
    <3>1. len - 0 = len
      BY <1>6
    <3> QED
      BY <1>2, <1>6, <3>1, MinOfTwo
  <2>2. extend \in Nat /\ extend <= len
    BY <1>2, <1>6, <1>8, <2>1
  <2> DEFINE e == extend
  <2>3. len - 0 = len /\ 0 + e = e
    BY <1>6, <2>2
  <2>4. /\ req' = [req EXCEPT ![r].fill = 0 + e, ![r].pre = pre, ![r].node = node]
        /\ adder'.can = Append(adder.can, r)
        /\ adder'.offset = adder.offset + 10 * (e + (IF e = len - 0 THEN MaxNew(r) ELSE 0))
        /\ adder'.newChunked = IF e = len - 0 THEN None ELSE r
    BY <1>8
  <2>5. /\ req' = [req EXCEPT ![r].fill = e, ![r].pre = <<>>, ![r].node = node]
        /\ adder'.can = Append(adder.can, r)
        /\ adder'.offset = adder.offset + 10 * (e + (IF e = len THEN MaxNew(r) ELSE 0))
        /\ adder'.newChunked = IF e = len THEN None ELSE r
    <3> HIDE DEF e, node
    <3> QED
      BY <1>5, <2>3, <2>4
  <2>6. 10 * (len + MaxNew(r) - req[r].out) < Remaining(cache, adder.offset)
    BY <1>6, <1>8 DEF Affordable
  <2> HIDE DEF e
  <2>7. /\ \A q \in Reqs : q # r => req'[q] = req[q]
        /\ req'[r].fill = e /\ req'[r].pre = <<>>
        /\ req'[r].st = req[r].st /\ req'[r].out = req[r].out /\ req'[r].row = req[r].row
        /\ req'[r].retracted = req[r].retracted
    <3>1. DOMAIN req = Reqs /\ DOMAIN req[r] = DOMAIN NewReq
      BY <1>1 DEF ReqsType, ReqType
    <3>2. DOMAIN NewReq = {"st", "out", "fill", "pre", "node", "chunks", "retracted", "abort", "row"}
      BY DEF NewReq
    <3> QED
      BY <2>5, <3>1, <3>2
  <2>8. e \in Nat /\ e <= len
    BY <2>2 DEF e
  <2>9. Admitted(r, e)
    <3>1. adder.chunk > 0
      BY <1>2, <1>8
    <3>2. len = TextLen(r)
      BY <1>6
    <3> HIDE DEF offset, curOffset
    <3> QED
      BY <2>5, <2>6, <2>7, <2>8, <3>1, <3>2 DEF Admitted
  <2> QED
    BY <1>4, <2>8, <2>9
<1> QED
  BY <1>4, <1>7, <1>8

\* A request is admitted, or none is any more.
LEMMA AdmitMem ==
    ASSUME OrderInv, MemInv, NEW r \in Reqs, Admit(r)
    PROVE  MemInv'
<1>1. /\ LiveInv /\ QueueInv /\ pc = "admit" /\ pc' = "admit" /\ ~ adder.stop /\ ~ NoPlace
      /\ UNCHANGED <<mode, free, rows, freeRows, running, chunked, last, cur, queue, futureCt,
                     ratio, todo>>
      /\ req[r].st = "waiting" /\ r \notin ToSet(adder.can) /\ ReqsType
  BY AliveLoop DEF Admit, MemInv, Untried, Waiting
<1>2. cache' = cache /\ (NotAdmitted \/ \E extend \in Nat : Admitted(r, extend))
  BY AdmitFacts
<1>3. Reserve \in Nat /\ Count(free) \in Nat /\ Count(free)' = Count(free)
      /\ cache.evictable = 0
  BY <1>1, ReserveFacts, AliveLoop DEF MemInv, CacheInv, Count
<1>4. Planning /\ Planning' /\ ~ Launched /\ ~ Launched'
  BY <1>1 DEF Planning, Launched
<1>5. Pending' = Pending /\ After' = After
  BY <1>1 DEF Pending, After
<1>6. Joiners = <<>> /\ Joiners' = <<>> /\ Extra = Len(adder.can) /\ Extra' = Len(adder'.can)
  BY <1>1, <1>4 DEF Joiners, Extra
<1>7. CountersInv'
  BY <1>1 DEF MemInv, CountersInv, FutureLimit
<1>8. /\ IsSeq(adder.can) /\ adder.newChunked = None /\ adder.offset \in Int
      /\ \A k \in DOMAIN adder.can : adder.can[k] \in Reqs
      /\ DOMAIN adder.can = 1 .. Len(adder.can) /\ Len(adder.can) \in Nat
      /\ chunked # None => Exhausted
  <2>1. /\ IsSeq(adder.can) /\ adder.newChunked = None /\ adder.offset \in Int
        /\ \A k \in DOMAIN adder.can : adder.can[k] \in Reqs
        /\ chunked # None => Exhausted
    BY <1>1 DEF LiveInv, AdderInv
  <2> QED
    BY <2>1, SeqFacts
<1>9. r \notin ReqsOf(running) /\ ~ Active(r) /\ \A k \in DOMAIN adder.can : adder.can[k] # r
  BY <1>1 DEF LiveInv, RunningInv, Alive, ReqsOf, Active, ToSet
<1>10. PICK N \in Nat : N = Len(adder.can)
  BY <1>8
<1> DEFINE Fields(q) == /\ req'[q].st = req[q].st /\ req'[q].out = req[q].out
                        /\ req'[q].row = req[q].row /\ req'[q].pre = req[q].pre
                        /\ req'[q].retracted = req[q].retracted
<1>11. /\ NewTokens(N) <= Count(free)
       /\ adder.offset >= Reserve + 10 * NewTokens(N) + 10 * AdderAnswers(N)
       /\ PartlyFilled # None =>
             Remaining(cache, adder.offset)
                >= 10 * (TextLen(PartlyFilled) - req[PartlyFilled].fill)
       /\ \A k \in 1 .. N : adder.can[k] = PartlyFilled =>
             req[adder.can[k]].fill < TextLen(adder.can[k])
  BY <1>1, <1>10 DEF MemInv, RoomInv
<1>12. ASSUME \A q \in Reqs : Fields(q),
              \A q \in Reqs : q # r => req'[q].fill = req[q].fill,
              adder'.can = adder.can \/ adder'.can = Append(adder.can, r),
              0 <= req'[r].fill /\ req'[r].fill <= TextLen(r)
       PROVE  /\ SlotsInv' /\ RowsInv' /\ LateOldInv' /\ LateNewInv' /\ FillInv' /\ PlacesInv'
              /\ CacheInv' /\ (SomeLate' => Count(free)' > 0) /\ Reserve' = Reserve
              /\ \A q \in Reqs : TextLen(q)' = TextLen(q)
  <2>1. \A q \in Reqs : Stashed(q)' <=> Stashed(q)
    <3>1. ToSet(adder'.can) \in {ToSet(adder.can), ToSet(adder.can) \cup {r}}
      <4>1. CASE adder'.can = Append(adder.can, r)
        <5>1. /\ DOMAIN adder'.can = 1 .. N + 1
              /\ \A k \in 1 .. N : adder'.can[k] = adder.can[k]
              /\ adder'.can[N + 1] = r
          BY <1>8, <1>10, <4>1, AppendIsSeq
        <5>2. ToSet(adder'.can) = {adder'.can[k] : k \in 1 .. N + 1}
          BY <5>1 DEF ToSet
        <5>3. ToSet(adder.can) = {adder.can[k] : k \in 1 .. N}
          BY <1>8, <1>10 DEF ToSet
        <5>4. \A k \in 1 .. N + 1 : k \in 1 .. N \/ k = N + 1
          BY <1>8
        <5>5. \A k \in 1 .. N : k \in 1 .. N + 1
          BY <1>8
        <5>6. N + 1 \in 1 .. N + 1
          BY <1>8
        <5> QED
          BY <5>1, <5>2, <5>3, <5>4, <5>5, <5>6
      <4> QED
        BY <1>12, <4>1
    <3>2. ASSUME NEW q \in Reqs PROVE Stashed(q)' <=> Active(q) /\ q \in ToSet(adder'.can)
      <4>1. Stashed(q)' <=> Active(q)' /\ q \in ToSet(adder'.can)
        BY <1>1 DEF Stashed, ToSet
      <4>2. Active(q)' <=> Active(q)
        BY <1>12 DEF Active
      <4> QED
        BY <4>1, <4>2
    <3> QED
      BY <1>1, <1>9, <3>1, <3>2 DEF Stashed
  <2>2. Frame
    <3>1. ASSUME NEW q \in Reqs PROVE KeepsPlace(q)
      BY <1>12, <2>1 DEF KeepsPlace, Active
    <3>2. AlikeBatch(Pending, Pending') /\ AlikeBatch(After, After')
      BY <1>5 DEF AlikeBatch
    <3> QED
      BY <1>1, <3>1, <3>2 DEF Frame
  <2>3. /\ SlotsInv' /\ RowsInv' /\ LateOldInv' /\ LateNewInv'
        /\ \A q \in Reqs : /\ Active(q)' <=> Active(q)
                           /\ Seated(q)' <=> Seated(q)
                           /\ Active(q) => Row(q)' = Row(q)
    BY <2>2, FrameHolds, FrameFlight DEF MemInv
  <2>4. FillInv'
    <3>1. ASSUME NEW q \in Reqs
          PROVE  /\ ~ Active(q)' => req'[q].pre = <<>>
                 /\ ToSet(req'[q].pre) \subseteq Slots
                 /\ Len(req'[q].pre) <= req'[q].fill /\ req'[q].fill <= TextLen(q)'
                 /\ Seated(q)' => req'[q].fill <= Len(Row(q)')
      <4>1. /\ ~ Active(q) => req[q].pre = <<>>
            /\ ToSet(req[q].pre) \subseteq Slots
            /\ Len(req[q].pre) <= req[q].fill /\ req[q].fill <= TextLen(q)
            /\ Seated(q) => req[q].fill <= Len(Row(q))
        BY DEF MemInv, FillInv
      <4>2. TextLen(q)' = TextLen(q) /\ req'[q].pre = req[q].pre
        BY <1>12 DEF TextLen
      <4>3. Seated(q)' => Seated(q) /\ Row(q)' = Row(q)
        BY <2>3 DEF Seated
      <4>4. CASE q = r
        <5>1. Len(<<>>) = 0
          OBVIOUS
        <5> QED
          BY <1>9, <1>12, <2>3, <4>1, <4>2, <4>3, <4>4, <5>1 DEF Seated
      <4>5. CASE q # r
        BY <1>12, <2>3, <4>1, <4>2, <4>3, <4>5
      <4> QED
        BY <4>4, <4>5
    <3> QED
      BY <1>1, <3>1 DEF FillInv
  <2>5. PlacesInv'
    <3>1. AllItems' = AllItems /\ chunked' = chunked
      BY <1>1, <1>6 DEF AllItems, ToSet
    <3>2. ReqsOf(running)' = ReqsOf(running) /\ ReqsOf(Joiners)' = ReqsOf(Joiners)
      BY <1>1, <1>6 DEF ReqsOf
    <3>3. Len(running') + Extra' <= MaxRunning
      <4>1. Len(adder'.can) \in {N, N + 1}
        BY <1>8, <1>12, <1>10, AppendIsSeq
      <4>2. Len(running) \in Nat /\ MaxRunning \in Nat
        BY AliveLoop, ItemFacts, Constants DEF MemInv
      <4>3. N < MaxRunning - Len(running)
        BY <1>1, <1>8, <1>10, <4>2 DEF NoPlace
      <4> QED
        BY <1>1, <1>6, <1>8, <1>10, <4>1, <4>2, <4>3
    <3>4. Len(cur'.items) <= MaxRunning
      BY <1>1 DEF MemInv, PlacesInv
    <3> QED
      BY <2>2, <3>1, <3>2, <3>3, <3>4, PlacesFrame
  <2>6. CacheInv'
    BY <1>1, <1>2, <1>12, CacheFrame DEF MemInv
  <2>7. SomeLate' => Count(free)' > 0
    BY <1>4, <2>2, LateRoomFrame
  <2>8. Reserve' = Reserve
    BY <1>1, <1>12, ReserveSame DEF MemInv
  <2>9. \A q \in Reqs : TextLen(q)' = TextLen(q)
    BY <1>12 DEF TextLen
  <2> QED
    BY <2>3, <2>4, <2>5, <2>6, <2>7, <2>8, <2>9
<1>13. \A q \in Reqs : Len(req[q].pre) <= req[q].fill /\ req[q].fill <= TextLen(q)
                       /\ Len(req[q].pre) \in Nat /\ TextLen(q) \in Nat /\ req[q].fill \in Nat
  <2>1. ASSUME NEW q \in Reqs
        PROVE  Len(req[q].pre) <= req[q].fill /\ req[q].fill <= TextLen(q)
               /\ Len(req[q].pre) \in Nat /\ TextLen(q) \in Nat /\ req[q].fill \in Int
    BY ReqFacts DEF MemInv, FillInv
  <2> QED
    BY <2>1
<1>14. CASE NotAdmitted
  <2>1. /\ req' = req /\ adder'.can = adder.can /\ adder'.offset = adder.offset
        /\ adder'.newChunked = adder.newChunked
    BY <1>14 DEF NotAdmitted
  <2>2. /\ SlotsInv' /\ RowsInv' /\ LateOldInv' /\ LateNewInv' /\ FillInv' /\ PlacesInv'
        /\ CacheInv' /\ (SomeLate' => Count(free)' > 0) /\ Reserve' = Reserve
        /\ \A q \in Reqs : TextLen(q)' = TextLen(q)
    <3>1. \A q \in Reqs : Fields(q)
      BY <2>1
    <3>2. 0 <= req'[r].fill /\ req'[r].fill <= TextLen(r)
      BY <1>13, <2>1
    <3> QED
      BY <1>12, <2>1, <3>1, <3>2
  <2>3. PartlyFilled' = PartlyFilled
    BY <1>1, <2>1 DEF PartlyFilled
  <2>4. NewTokens(N)' = NewTokens(N) /\ AdderAnswers(N)' = AdderAnswers(N)
    BY <2>1, <2>3 DEF NewTokens, AdderAnswers, ExtendLen
  <2>5. Remaining(cache, adder.offset)' = Remaining(cache, adder.offset)
    BY <1>1, <1>2, <2>1 DEF Remaining
  <2>6. TextLen(PartlyFilled)' = TextLen(PartlyFilled)
    BY <2>1, <2>3 DEF TextLen
  <2>7. \A k \in 1 .. N : TextLen(adder.can[k])' = TextLen(adder.can[k])
    BY <2>1 DEF TextLen
  <2>8. RoomInv'
    BY <1>1, <1>3, <1>11, <1>10, <2>1, <2>2, <2>3, <2>4, <2>5, <2>6, <2>7 DEF RoomInv
  <2> QED
    BY <1>1, <1>7, <2>2, <2>8 DEF MemInv
<1>15. CASE \E extend \in Nat : Admitted(r, extend)
  <2>1. PICK e \in Nat : Admitted(r, e)
    BY <1>15
  <2> DEFINE more == IF e = TextLen(r) THEN MaxNew(r) ELSE 0
  <2>2. /\ e <= TextLen(r) /\ adder.chunk > 0
        /\ 10 * (TextLen(r) + MaxNew(r) - req[r].out) < Remaining(cache, adder.offset)
        /\ \A q \in Reqs : q # r => req'[q] = req[q]
        /\ req'[r].fill = e /\ req'[r].pre = <<>>
        /\ req'[r].st = req[r].st /\ req'[r].out = req[r].out /\ req'[r].row = req[r].row
        /\ req'[r].retracted = req[r].retracted
        /\ adder'.can = Append(adder.can, r)
        /\ adder'.offset = adder.offset + 10 * (e + more)
        /\ adder'.newChunked = IF e = TextLen(r) THEN None ELSE r
    BY <2>1 DEF Admitted
  <2>3. /\ MaxNew(r) \in Nat /\ req[r].out \in Nat /\ req[r].out < MaxNew(r)
        /\ TextLen(r) \in Nat /\ more \in Nat
    BY <1>1, ReqFacts DEF MemInv
  <2>4. /\ SlotsInv' /\ RowsInv' /\ LateOldInv' /\ LateNewInv' /\ FillInv' /\ PlacesInv'
        /\ CacheInv' /\ (SomeLate' => Count(free)' > 0) /\ Reserve' = Reserve
        /\ \A q \in Reqs : TextLen(q)' = TextLen(q)
    <3>1. req[r].pre = <<>>
      BY <1>9 DEF MemInv, FillInv
    <3>2. \A q \in Reqs : Fields(q)
      BY <2>2, <3>1
    <3>3. 0 <= req'[r].fill /\ req'[r].fill <= TextLen(r)
      BY <2>2
    <3> QED
      BY <1>12, <2>2, <3>2, <3>3
  <2>5. chunked = None
    <3> DEFINE room == Remaining(cache, adder.offset)
               need == TextLen(r) + MaxNew(r) - req[r].out
    <3>1. need \in Nat /\ need > 1
      <4>1. Len(Prompt[r]) \in 1 .. Size - 7 /\ Size \in Nat
        BY SchedulerAssumption
      <4> QED
        BY <2>3, <4>1, SMTT(20) DEF TextLen
    <3>2. room \in Int
      BY <1>3, <1>8 DEF Remaining
    <3>3. 10 * need < room
      BY <2>2
    <3> HIDE DEF room, need
    <3>4. ~ (room < 10)
      BY <3>1, <3>2, <3>3
    <3>5. ~ (adder.chunk <= 0)
      <4>1. adder.chunk \in Int
        BY <1>1 DEF LiveInv, AdderInv
      <4> QED
        BY <2>2, <4>1
    <3> QED
      BY <1>1, <1>8, <3>4, <3>5 DEF Exhausted, room
  <2>6. PartlyFilled = None /\ PartlyFilled' = IF e = TextLen(r) THEN None ELSE r
    BY <1>1, <1>8, <2>2, <2>5 DEF PartlyFilled
  <2>7. /\ Len(adder'.can) = N + 1 /\ adder'.can[N + 1] = r
        /\ \A k \in 1 .. N : adder'.can[k] = adder.can[k] /\ adder.can[k] \in Reqs \ {r}
    BY <1>8, <1>9, <1>10, <2>2, AppendIsSeq
  <2>8. \A q \in Reqs : q # r => ExtendLen(q)' = ExtendLen(q)
    BY <2>2 DEF ExtendLen
  <2>9. ExtendLen(r)' = e
    <3>1. Len(<<>>) = 0
      OBVIOUS
    <3> QED
      BY <2>2, <3>1 DEF ExtendLen
  <2>10. NewTokens(N) \in Nat /\ NewTokens(N + 1)' = NewTokens(N) + e
    <3> DEFINE g == [k \in 1 .. N + 1 |-> req'[adder'.can[k]].fill - Len(req'[adder'.can[k]].pre)]
    <3>1. ASSUME NEW k \in 1 .. N PROVE g[k] = ExtendLen(adder.can[k]) /\ g[k] \in Nat
      <4>1. PICK q \in Reqs \ {r} : q = adder.can[k] /\ adder'.can[k] = q
        BY <2>7
      <4>2. k \in 1 .. N + 1
        BY <1>8
      <4>3. g[k] = req[q].fill - Len(req[q].pre)
        BY <2>2, <4>1, <4>2
      <4> HIDE DEF g
      <4> QED
        BY <1>13, <4>1, <4>3 DEF ExtendLen
    <3>2. g[N + 1] = e
      <4>1. N + 1 \in 1 .. N + 1
        BY <1>8
      <4> QED
        BY <2>7, <2>9, <4>1 DEF ExtendLen
    <3>3. NewTokens(N + 1)' = Total([k \in 1 .. N + 1 |-> g[k]])
      BY DEF NewTokens, ExtendLen
    <3>4. NewTokens(N) = Total([k \in 1 .. N |-> g[k]])
      <4>1. [k \in 1 .. N |-> ExtendLen(adder.can[k])] = [k \in 1 .. N |-> g[k]]
        BY <3>1
      <4> HIDE DEF g
      <4> QED
        BY <4>1 DEF NewTokens
    <3> HIDE DEF g
    <3>5. \A k \in 1 .. N + 1 : g[k] \in Nat
      <4>1. \A k \in 1 .. N + 1 : k \in 1 .. N \/ k = N + 1
        BY <1>8
      <4> QED
        BY <3>1, <3>2, <4>1
    <3> QED
      BY <1>8, <3>2, <3>3, <3>4, <3>5, TotalStep
  <2>11. AdderAnswers(N) \in Nat /\ AdderAnswers(N + 1)' = AdderAnswers(N) + more
    <3> DEFINE g == [k \in 1 .. N + 1 |->
                        IF adder'.can[k] = PartlyFilled' THEN 0 ELSE MaxNew(adder'.can[k])]
    <3>1. ASSUME NEW k \in 1 .. N
          PROVE  g[k] = (IF adder.can[k] = PartlyFilled THEN 0 ELSE MaxNew(adder.can[k]))
                 /\ g[k] \in Nat
      <4>1. PICK q \in Reqs \ {r} : q = adder.can[k] /\ adder'.can[k] = q
        BY <2>7
      <4>2. k \in 1 .. N + 1
        BY <1>8
      <4>3. q # PartlyFilled /\ q # PartlyFilled'
        BY <2>6, <4>1, Constants
      <4>4. MaxNew(q) \in Nat
        BY <4>1, Constants
      <4> QED
        BY <4>1, <4>2, <4>3, <4>4
    <3>2. g[N + 1] = more
      <4>1. N + 1 \in 1 .. N + 1
        BY <1>8
      <4>2. g[N + 1] = IF r = PartlyFilled' THEN 0 ELSE MaxNew(r)
        BY <2>7, <4>1
      <4> QED
        BY <2>6, <4>2, Constants
    <3>3. AdderAnswers(N + 1)' = Total([k \in 1 .. N + 1 |-> g[k]])
      BY DEF AdderAnswers
    <3>4. AdderAnswers(N) = Total([k \in 1 .. N |-> g[k]])
      <4>1. [k \in 1 .. N |-> IF adder.can[k] = PartlyFilled THEN 0 ELSE MaxNew(adder.can[k])]
              = [k \in 1 .. N |-> g[k]]
        BY <3>1
      <4> HIDE DEF g
      <4> QED
        BY <4>1 DEF AdderAnswers
    <3> HIDE DEF g
    <3>5. \A k \in 1 .. N + 1 : g[k] \in Nat
      <4>1. \A k \in 1 .. N + 1 : k \in 1 .. N \/ k = N + 1
        BY <1>8
      <4> QED
        BY <2>3, <3>1, <3>2, <4>1
    <3> QED
      BY <1>8, <3>2, <3>3, <3>4, <3>5, TotalStep
  <2> DEFINE C == Count(free)
             NT == NewTokens(N)
             AA == AdderAnswers(N)
             off == adder.offset
             T == TextLen(r)
             m == MaxNew(r) - req[r].out
  <2>12. /\ C \in Nat /\ NT \in Nat /\ AA \in Nat /\ off \in Int /\ T \in Nat /\ m \in Nat
         /\ more \in Nat /\ Reserve \in Nat /\ e <= T
         /\ off >= Reserve + 10 * NT + 10 * AA
         /\ 10 * (T + m) < 10 * C - off
    <3>1. m \in Nat /\ T + MaxNew(r) - req[r].out = T + m
      BY <2>3
    <3>2. Remaining(cache, off) = 10 * C - off
      BY <1>3 DEF Remaining
    <3> QED
      BY <1>3, <1>8, <1>11, <2>2, <2>3, <2>10, <2>11, <3>1, <3>2
  <2>13. /\ Count(free)' = C /\ Reserve' = Reserve /\ adder'.offset = off + 10 * (e + more)
         /\ NewTokens(N + 1)' = NT + e /\ AdderAnswers(N + 1)' = AA + more
         /\ TextLen(r)' = T
    BY <1>3, <2>2, <2>4, <2>10, <2>11
  <2> HIDE DEF C, NT, AA, off, T, m, more
  <2>14. NT + e <= C /\ off + 10 * (e + more) >= Reserve + 10 * (NT + e) + 10 * (AA + more)
    BY <2>12
  <2>15. 10 * C - (off + 10 * e) >= 10 * (T - e)
    BY <2>12
  <2>16. PartlyFilled' # None =>
             Remaining(cache, adder.offset)'
                >= 10 * (TextLen(PartlyFilled)' - req'[PartlyFilled'].fill)
    <3> SUFFICES ASSUME PartlyFilled' # None
                 PROVE  Remaining(cache, adder.offset)'
                           >= 10 * (TextLen(PartlyFilled)' - req'[PartlyFilled'].fill)
      OBVIOUS
    <3>1. PartlyFilled' = r /\ e # TextLen(r)
      BY <2>6
    <3>2. more = 0
      BY <3>1 DEF more
    <3>3. Remaining(cache, adder.offset)' = 10 * C - (off + 10 * (e + more))
      <4>1. Remaining(cache, adder.offset)' = 10 * (Count(free)' + cache'.evictable) - adder'.offset
        BY DEF Remaining, Count
      <4> QED
        BY <1>2, <1>3, <2>12, <2>13, <4>1
    <3>4. TextLen(PartlyFilled)' = T
      BY <2>13, <3>1 DEF TextLen
    <3>5. req'[PartlyFilled'].fill = e
      BY <2>2, <3>1
    <3> QED
      BY <2>12, <2>15, <3>2, <3>3, <3>4, <3>5
  <2>17. \A k \in 1 .. N + 1 : adder'.can[k] = PartlyFilled' =>
             req'[adder'.can[k]].fill < TextLen(adder.can[k])'
    <3> SUFFICES ASSUME NEW k \in 1 .. N + 1, adder'.can[k] = PartlyFilled'
                 PROVE  req'[adder'.can[k]].fill < TextLen(adder.can[k])'
      OBVIOUS
    <3>1. adder'.can[k] \in Reqs
      <4>1. k \in 1 .. N \/ k = N + 1
        BY <1>8
      <4> QED
        BY <2>7, <4>1
    <3>2. adder'.can[k] = r /\ e # TextLen(r)
      BY <2>6, <3>1, Constants
    <3>3. TextLen(adder.can[k])' = TextLen(r)'
      BY <3>2 DEF TextLen
    <3>4. req'[r].fill = e
      BY <2>2
    <3> QED
      BY <2>12, <2>13, <3>2, <3>3, <3>4 DEF T
  <2>18. RoomInv'
    <3>1. \A n : n = N + 1 =>
              /\ NewTokens(n)' <= Count(free)'
              /\ adder'.offset >= Reserve' + 10 * NewTokens(n)' + 10 * AdderAnswers(n)'
              /\ \A k \in 1 .. n : adder'.can[k] = PartlyFilled' =>
                    req'[adder'.can[k]].fill < TextLen(adder.can[k])'
      BY <2>13, <2>14, <2>17
    <3>2. Len(adder'.can) = N + 1
      BY <2>7
    <3> QED
      BY <1>1, <2>4, <2>16, <3>1, <3>2 DEF RoomInv
  <2> QED
    BY <1>1, <1>7, <2>4, <2>18 DEF MemInv
<1> QED
  BY <1>2, <1>14, <1>15

\* Where each admitted request's part of the new slots ends.
LEMMA NewTokensFacts ==
    ASSUME OrderInv, MemInv, pc = "admit", NEW N, N = Len(adder.can)
    PROVE  /\ N \in Nat /\ DOMAIN adder.can = 1 .. N /\ IsSeq(adder.can)
           /\ \A k \in 1 .. N : adder.can[k] \in Reqs
           /\ NewTokens(0) = 0 /\ \A k \in 0 .. N : NewTokens(k) \in Nat
           /\ \A k \in 1 .. N : /\ ExtendLen(adder.can[k]) \in Nat
                                /\ NewTokens(k) = NewTokens(k - 1) + ExtendLen(adder.can[k])
           /\ \A j, k \in 0 .. N : j <= k => NewTokens(j) <= NewTokens(k)
<1>1. /\ IsSeq(adder.can) /\ \A k \in DOMAIN adder.can : adder.can[k] \in Reqs
  BY AliveLoop DEF MemInv, LiveInv, AdderInv
<1>2. N \in Nat /\ DOMAIN adder.can = 1 .. N
  BY <1>1, SeqFacts
<1>3. ASSUME NEW k \in 1 .. N PROVE ExtendLen(adder.can[k]) \in Nat
  <2>1. PICK q \in Reqs : q = adder.can[k]
    BY <1>1, <1>2
  <2>2. /\ Len(req[q].pre) \in Nat /\ req[q].fill \in Int
        /\ Len(req[q].pre) <= req[q].fill
    BY ReqFacts DEF MemInv, FillInv
  <2> QED
    BY <2>1, <2>2 DEF ExtendLen
<1> DEFINE g == [k \in 1 .. N |-> ExtendLen(adder.can[k])]
<1>4. \A n \in 0 .. N : NewTokens(n) = Total([k \in 1 .. n |-> g[k]])
  <2>1. ASSUME NEW n \in 0 .. N
        PROVE  [k \in 1 .. n |-> ExtendLen(adder.can[k])] = [k \in 1 .. n |-> g[k]]
    <3>1. \A k \in 1 .. n : k \in 1 .. N
      BY <1>2
    <3> QED
      BY <3>1
  <2> HIDE DEF g
  <2> QED
    BY <2>1 DEF NewTokens
<1>5. \A k \in 1 .. N : g[k] = ExtendLen(adder.can[k]) /\ g[k] \in Nat
  BY <1>3
<1> HIDE DEF g
<1>6. ASSUME NEW k \in 1 .. N
      PROVE  NewTokens(k) = NewTokens(k - 1) + ExtendLen(adder.can[k])
             /\ NewTokens(k - 1) \in Nat /\ NewTokens(k) \in Nat
  <2>1. PICK n \in Nat : n = k - 1
    BY <1>2
  <2>2. n + 1 = k /\ n \in 0 .. N /\ n + 1 \in 0 .. N /\ n + 1 \in 1 .. N
    BY <1>2, <2>1
  <2>3. \A j \in 1 .. n + 1 : g[j] \in Nat
    <3>1. \A j \in 1 .. n + 1 : j \in 1 .. N
      BY <1>2, <2>1
    <3> QED
      BY <1>5, <3>1
  <2>4. /\ Total([j \in 1 .. n |-> g[j]]) \in Nat
        /\ Total([j \in 1 .. n + 1 |-> g[j]]) = Total([j \in 1 .. n |-> g[j]]) + g[n + 1]
    BY <2>3, TotalStep
  <2>5. NewTokens(n) \in Nat /\ NewTokens(n + 1) = NewTokens(n) + g[n + 1] /\ g[n + 1] \in Nat
    BY <1>4, <1>5, <2>2, <2>4
  <2> QED
    BY <1>5, <2>1, <2>2, <2>5
<1>7. NewTokens(0) = 0
  <2>1. 0 \in 0 .. N
    BY <1>2
  <2>2. NewTokens(0) = Total([k \in 1 .. 0 |-> g[k]])
    BY <1>4, <2>1
  <2>3. Total([k \in 1 .. 0 |-> g[k]]) = 0
    BY TotalEmpty
  <2> QED
    BY <2>2, <2>3
<1>8. \A k \in 0 .. N : NewTokens(k) \in Nat
  <2>1. \A k \in 0 .. N : k = 0 \/ k \in 1 .. N
    BY <1>2
  <2> QED
    BY <1>6, <1>7, <2>1
<1>9. \A j, k \in 0 .. N : j <= k => NewTokens(j) <= NewTokens(k)
  <2> DEFINE off == [k \in 0 .. N |-> NewTokens(k)]
  <2>1. \A k \in 0 .. N : off[k] = NewTokens(k) /\ off[k] \in Int
    BY <1>8
  <2>2. \A k \in 1 .. N : off[k - 1] <= off[k]
    <3> TAKE k \in 1 .. N
    <3>1. k \in 0 .. N /\ k - 1 \in 0 .. N
      BY <1>2
    <3>2. off[k] = NewTokens(k) /\ off[k - 1] = NewTokens(k - 1)
      BY <2>1, <3>1
    <3>3. NewTokens(k) = NewTokens(k - 1) + ExtendLen(adder.can[k])
          /\ NewTokens(k - 1) \in Nat /\ ExtendLen(adder.can[k]) \in Nat
      BY <1>3, <1>6
    <3> QED
      BY <3>2, <3>3
  <2> HIDE DEF off
  <2>3. \A d, e \in 0 .. N : d <= e => off[d] <= off[e]
    BY <1>2, <2>1, <2>2, NeverFalls
  <2> QED
    BY <2>1, <2>3
<1> QED
  BY <1>1, <1>2, <1>3, <1>6, <1>7, <1>8, <1>9

\* There is a free row for every place the running batch has left.
LEMMA RowsThere ==
    ASSUME OrderInv, MemInv, pc = "admit"
    PROVE  NoneTwice(freeRows) /\ DOMAIN freeRows = Rows
           /\ Count(freeRows) \in Nat /\ Count(freeRows) >= MaxRunning - Len(running)
<1>1. NoneTwice(freeRows) /\ DOMAIN freeRows = Rows
  BY Constants, OwnedOnce DEF MemInv, RowsInv
<1>2. /\ Count(freeRows) = Cardinality(There(freeRows)) /\ Count(freeRows) \in Nat
      /\ IsFiniteSet(There(freeRows))
      /\ \A x : x \in There(freeRows) <=> x \in Rows /\ freeRows[x] = 1
  BY <1>1, CountThere
<1> DEFINE Used == Rows \ There(freeRows)
           D == 1 .. Len(running)
<1>3. /\ DOMAIN running = D /\ Len(running) \in Nat
      /\ \A k \in D : running[k].r \in Reqs
  BY AliveLoop, ItemFacts DEF MemInv
<1>4. \A w \in Used : \E k \in D : req[running[k].r].row = w
  <2> TAKE w \in Used
  <2>1. freeRows[w] = One(\A r \in Reqs : w \notin Seat(r)) /\ w \in Rows
    BY DEF MemInv, RowsInv, OneOwner
  <2>2. PICK r \in Reqs : w \in Seat(r)
    BY <1>2, <2>1 DEF One
  <2>3. Seated(r) /\ req[r].row = w
    BY <2>2 DEF Seat
  <2>4. r \in ReqsOf(running) \cup ReqsOf(Joiners)
    BY <2>3 DEF MemInv, PlacesInv
  <2>5. ReqsOf(Joiners) = {}
    BY DEF Joiners, Launched, ReqsOf
  <2> QED
    BY <1>3, <2>3, <2>4, <2>5 DEF ReqsOf
<1> DEFINE at == [w \in Used |-> CHOOSE k \in D : req[running[k].r].row = w]
<1>5. \A w \in Used : at[w] \in D /\ req[running[at[w]].r].row = w
  BY <1>4
<1>6. at = [w \in Used |-> at[w]]
  OBVIOUS
<1> HIDE DEF at, Used, D
<1>7. at \in Injection(Used, D)
  BY <1>5, <1>6 DEF Injection, IsInjective
<1>8. IsFiniteSet(D) /\ Cardinality(D) = Len(running)
  BY <1>3, FS_Interval DEF D
<1>9. Cardinality(Used) <= Len(running) /\ IsFiniteSet(Used)
  BY <1>7, <1>8, FS_Injection
<1>10. Cardinality(Rows) = MaxRunning /\ IsFiniteSet(Rows) /\ MaxRunning \in Nat
  <2>1. MaxRunning \in Nat /\ 0 \in Int /\ 1 \in Int
    BY Constants
  <2> QED
    BY <2>1, FS_Interval DEF Rows
<1>11. Cardinality(Used) = Cardinality(Rows) - Cardinality(There(freeRows))
  <2>1. Rows \cap There(freeRows) = There(freeRows)
    BY <1>2
  <2> QED
    BY <1>10, <2>1, FS_Difference DEF Used
<1> QED
  BY <1>1, <1>2, <1>3, <1>9, <1>10, <1>11

\* The admitted requests get their rows and their slots.
Grants(rowOf, slots) ==
    /\ IsSeq(rowOf) /\ Injective(rowOf) /\ Len(rowOf) = Len(adder.can)
    /\ DOMAIN rowOf = 1 .. Len(adder.can)
    /\ \A w \in ToSet(rowOf) : w \in There(freeRows)
    /\ IsSeq(slots) /\ Injective(slots) /\ Len(slots) = NewTokens(Len(adder.can))
    /\ DOMAIN slots = 1 .. NewTokens(Len(adder.can))
    /\ \A s \in ToSet(slots) : s \in There(free)
    /\ DOMAIN cache'.tree = {} /\ cache'.evictable = 0 /\ cache'.protected = cache.protected
    /\ free' = Rest(free, slots) /\ freeRows' = Rest(freeRows, rowOf)
    /\ rows' = RowsWritten(rowOf, slots) /\ req' = Started(rowOf)
    /\ cur' = [kind |-> "extend", items |-> PrefillItems(rowOf), loc |-> slots,
               chunked |-> PartlyFilled]
    /\ pc' = "run"

\* alloc_req_slots and alloc_token_slots find what the adder promised.
LEMMA LaunchFacts ==
    ASSUME OrderInv, MemInv, LaunchPrefill
    PROVE  \E rowOf, slots : Grants(rowOf, slots)
<1> DEFINE N == Len(adder.can)
           need == NewTokens(N)
           rowOf == Taken(freeRows, N)
           slots == Taken(free, need)
<1>1. pc = "admit" /\ LiveInv
  BY AliveLoop DEF LaunchPrefill, MemInv
<1>2. N \in Nat /\ need \in Nat
  <2>1. \A n \in Nat : n \in 0 .. n
    OBVIOUS
  <2> QED
    BY <1>1, <2>1, NewTokensFacts
<1>3. /\ NoneTwice(freeRows) /\ DOMAIN freeRows = Rows
      /\ Count(freeRows) \in Nat /\ Count(freeRows) >= N
  <2>1. Len(running) + N <= MaxRunning
    BY <1>1 DEF MemInv, PlacesInv, Extra
  <2>2. Len(running) \in Nat /\ MaxRunning \in Nat
    BY AliveLoop, ItemFacts, Constants DEF MemInv
  <2>3. /\ NoneTwice(freeRows) /\ DOMAIN freeRows = Rows
        /\ Count(freeRows) \in Nat /\ Count(freeRows) >= MaxRunning - Len(running)
    BY <1>1, RowsThere
  <2> HIDE DEF N
  <2> QED
    BY <1>2, <2>1, <2>2, <2>3
<1>4. NoneTwice(free) /\ DOMAIN free = Slots /\ Count(free) \in Nat /\ Count(free) >= need
  <2>1. NoneTwice(free) /\ DOMAIN free = Slots
    BY Constants, OwnedOnce DEF MemInv, SlotsInv
  <2>2. need <= Count(free)
    BY <1>1 DEF MemInv, RoomInv
  <2>3. Count(free) \in Nat
    BY AliveLoop DEF MemInv
  <2> QED
    BY <1>2, <2>1, <2>2, <2>3
<1> HIDE DEF N, need
<1>5. /\ IsSeq(rowOf) /\ Injective(rowOf) /\ Len(rowOf) = N /\ DOMAIN rowOf = 1 .. N
      /\ \A w \in ToSet(rowOf) : w \in There(freeRows)
  <2>1. Rows \subseteq Int
    BY DEF Rows
  <2> QED
    BY <1>2, <1>3, <2>1, TakenFacts
<1>6. /\ IsSeq(slots) /\ Injective(slots) /\ Len(slots) = need /\ DOMAIN slots = 1 .. need
      /\ \A s \in ToSet(slots) : s \in There(free)
  <2>1. Slots \subseteq Int
    BY DEF Slots
  <2> QED
    BY <1>2, <1>4, <2>1, TakenFacts
<1>7. PICK gone \in Reclaim(cache, free, need) :
         LET available == FreedByEviction(cache, free, gone)
             some == Taken(available, need)
         IN  IF Len(rowOf) = N /\ Len(some) = need
             THEN /\ cache' = Evicted(cache, gone)
                  /\ free' = Rest(available, some)
                  /\ freeRows' = Rest(freeRows, rowOf)
                  /\ rows' = RowsWritten(rowOf, some)
                  /\ req' = Started(rowOf)
                  /\ cur' = [kind |-> "extend", items |-> PrefillItems(rowOf),
                             loc |-> some, chunked |-> PartlyFilled]
                  /\ pc' = "run"
             ELSE pc' = "dead"
  BY DEF LaunchPrefill, ToEvict, N, need
<1>8. /\ FreedByEviction(cache, free, gone) = free
      /\ DOMAIN Evicted(cache, gone).tree = {} /\ Evicted(cache, gone).evictable = 0
      /\ Evicted(cache, gone).protected = cache.protected
  <2>1. CacheType(cache) /\ free \in [Slots -> Int]
    BY <1>1 DEF LiveInv, TypesInv, MemoryType
  <2>2. ~ mode.radix /\ DOMAIN cache.tree = {} /\ cache.evictable = 0
    BY DEF MemInv, CacheInv
  <2> QED
    BY <1>7, <2>1, <2>2, NoEviction
<1> HIDE DEF rowOf
<1>9. /\ cache' = Evicted(cache, gone)
      /\ free' = Rest(free, slots)
      /\ freeRows' = Rest(freeRows, rowOf)
      /\ rows' = RowsWritten(rowOf, slots)
      /\ req' = Started(rowOf)
      /\ cur' = [kind |-> "extend", items |-> PrefillItems(rowOf),
                 loc |-> slots, chunked |-> PartlyFilled]
      /\ pc' = "run"
  BY <1>5, <1>6, <1>7, <1>8
<1> HIDE DEF slots
<1>10. Grants(rowOf, slots)
  BY <1>5, <1>6, <1>8, <1>9 DEF Grants, N, need
<1> QED
  BY <1>10

\* What an admitted request has when its batch is launched.
Granted(k, r, rowOf, slots) ==
    LET from == NewTokens(k - 1)
        part == SubSeq(slots, from + 1, NewTokens(k))
    IN  /\ req'[r].st = "active" /\ req'[r].row = rowOf[k] /\ ~ req'[r].retracted
        /\ req'[r].out = req[r].out /\ req'[r].fill = req[r].fill /\ req'[r].pre = req[r].pre
        /\ rowOf[k] \in Rows /\ freeRows[rowOf[k]] = 1
        /\ rows'[rowOf[k]] = req[r].pre \o part
        /\ IsSeq(part) /\ Len(part) = ExtendLen(r) /\ DOMAIN part = 1 .. ExtendLen(r)
        /\ \A j \in 1 .. ExtendLen(r) : part[j] = slots[from + j]
        /\ \A j \in 1 .. ExtendLen(r) : from + j \in DOMAIN slots
        /\ IsSeq(rows'[rowOf[k]]) /\ Len(rows'[rowOf[k]]) = req[r].fill

\* Each request of the new batch gets a row of its own, and slots behind its prefix.
LEMMA GrantFacts ==
    ASSUME OrderInv, MemInv, pc = "admit", NEW rowOf, NEW slots, Grants(rowOf, slots),
           NEW k \in 1 .. Len(adder.can), NEW r, r = adder.can[k]
    PROVE  Granted(k, r, rowOf, slots)
<1> DEFINE N == Len(adder.can)
           from == NewTokens(k - 1)
           part == SubSeq(slots, from + 1, NewTokens(k))
<1>1. /\ N \in Nat /\ DOMAIN adder.can = 1 .. N /\ r \in Reqs
      /\ from \in Nat /\ NewTokens(k) = from + ExtendLen(r) /\ ExtendLen(r) \in Nat
      /\ NewTokens(k) <= NewTokens(N) /\ NewTokens(N) \in Nat /\ NewTokens(k) \in Nat
  <2>1. PICK n : n = N
    OBVIOUS
  <2>2. /\ n \in Nat /\ DOMAIN adder.can = 1 .. n
        /\ \A j \in 1 .. n : adder.can[j] \in Reqs
        /\ \A j \in 0 .. n : NewTokens(j) \in Nat
        /\ \A j \in 1 .. n : /\ ExtendLen(adder.can[j]) \in Nat
                             /\ NewTokens(j) = NewTokens(j - 1) + ExtendLen(adder.can[j])
        /\ \A i, j \in 0 .. n : i <= j => NewTokens(i) <= NewTokens(j)
    BY <2>1, NewTokensFacts
  <2>3. k \in 0 .. n /\ n \in 0 .. n /\ k - 1 \in 0 .. n /\ k <= n /\ k \in 1 .. n
    BY <2>1, <2>2
  <2> QED
    BY <2>1, <2>2, <2>3
<1>2. /\ \A j \in DOMAIN adder.can : adder.can[j] = r => j = k
      /\ ReqsType /\ r \in ToSet(adder.can)
  BY <1>1, AliveLoop DEF MemInv, LiveInv, AdderInv, ToSet
<1>3. /\ IsSeq(rowOf) /\ Injective(rowOf) /\ DOMAIN rowOf = 1 .. N
      /\ \A w \in ToSet(rowOf) : w \in There(freeRows)
      /\ rows' = RowsWritten(rowOf, slots) /\ req' = Started(rowOf)
      /\ DOMAIN slots = 1 .. NewTokens(N)
  BY DEF Grants
<1>4. rowOf[k] \in ToSet(rowOf) /\ k \in DOMAIN rowOf
  BY <1>3 DEF ToSet
<1>5. rowOf[k] \in Rows /\ freeRows[rowOf[k]] = 1
  <2>1. NoneTwice(freeRows) /\ DOMAIN freeRows = Rows
    BY RowsThere
  <2> QED
    BY <1>3, <1>4, <2>1, CountThere
<1>6. (CHOOSE j \in DOMAIN rowOf : adder.can[j] = r) = k
  <2>1. \A j \in DOMAIN rowOf : adder.can[j] = r <=> j = k
    BY <1>1, <1>2, <1>3
  <2> QED
    BY <1>4, <2>1
<1>7. (CHOOSE j \in DOMAIN rowOf : rowOf[j] = rowOf[k]) = k
  <2>1. \A j \in DOMAIN rowOf : rowOf[j] = rowOf[k] <=> j = k
    BY <1>3, <1>4 DEF Injective
  <2> QED
    BY <1>4, <2>1
<1>8. /\ req'[r].st = "active" /\ req'[r].row = rowOf[k] /\ ~ req'[r].retracted
      /\ req'[r].out = req[r].out /\ req'[r].fill = req[r].fill /\ req'[r].pre = req[r].pre
  <2>1. req'[r] = [req[r] EXCEPT
                !.st = "active",
                !.row = rowOf[CHOOSE j \in DOMAIN rowOf : adder.can[j] = r],
                !.retracted = FALSE,
                !.chunks = @ + (IF r = PartlyFilled THEN 1 ELSE 0)]
    BY <1>1, <1>2, <1>3 DEF Started
  <2>2. DOMAIN req[r] = DOMAIN NewReq
    BY <1>1, <1>2 DEF ReqsType, ReqType
  <2>3. DOMAIN NewReq = {"st", "out", "fill", "pre", "node", "chunks", "retracted", "abort", "row"}
    BY DEF NewReq
  <2> QED
    BY <1>6, <2>1, <2>2, <2>3, ZenonT(30)
<1>9. rows'[rowOf[k]] = req[r].pre \o part
  <2>1. rows'[rowOf[k]] =
          LET j == CHOOSE j \in DOMAIN rowOf : rowOf[j] = rowOf[k]
          IN  req[adder.can[j]].pre \o SubSeq(slots, NewTokens(j - 1) + 1, NewTokens(j))
    BY <1>3, <1>4, <1>5 DEF RowsWritten
  <2> QED
    BY <1>7, <2>1
<1> HIDE DEF from
<1>10. /\ IsSeq(part) /\ Len(part) = ExtendLen(r) /\ DOMAIN part = 1 .. ExtendLen(r)
       /\ \A j \in 1 .. ExtendLen(r) : part[j] = slots[from + j]
  <2> DEFINE m == from + 1
             n == NewTokens(k)
  <2>1. m \in Int /\ n \in Int /\ n - m + 1 = ExtendLen(r) /\ m \in Nat
        /\ \A j \in Int : m + j - 1 = from + j
    BY <1>1
  <2>2. (IF m <= n THEN n - m + 1 ELSE 0) = ExtendLen(r)
    BY <1>1
  <2> HIDE DEF m, n
  <2>3. /\ IsSeq(SubSeq(slots, m, n))
        /\ Len(SubSeq(slots, m, n)) = IF m <= n THEN n - m + 1 ELSE 0
        /\ DOMAIN SubSeq(slots, m, n) = 1 .. n - m + 1
        /\ \A j \in 1 .. n - m + 1 : SubSeq(slots, m, n)[j] = slots[m + j - 1]
    BY <2>1, SubSeqIsSeq
  <2>4. \A j \in 1 .. ExtendLen(r) : SubSeq(slots, m, n)[j] = slots[from + j]
    <3> TAKE j \in 1 .. ExtendLen(r)
    <3>1. m + j - 1 = from + j /\ j \in 1 .. n - m + 1
      BY <1>1, <2>1
    <3>2. SubSeq(slots, m, n)[j] = slots[m + j - 1]
      BY <2>3, <3>1
    <3> QED
      BY <3>1, <3>2
  <2> QED
    BY <2>1, <2>2, <2>3, <2>4 DEF m, n
<1>11. \A j \in 1 .. ExtendLen(r) : from + j \in DOMAIN slots
  BY <1>1, <1>3
<1>12. /\ IsSeq(rows'[rowOf[k]]) /\ Len(rows'[rowOf[k]]) = req[r].fill
  <2>1. IsSeq(req[r].pre) /\ Len(req[r].pre) \in Nat /\ req[r].fill \in Int
    BY <1>1, ReqFacts DEF MemInv
  <2> HIDE DEF part
  <2>2. IsSeq(req[r].pre \o part) /\ Len(req[r].pre \o part) = Len(req[r].pre) + Len(part)
    BY <1>10, <2>1, ConcatIsSeq
  <2> QED
    BY <1>9, <1>10, <2>1, <2>2, SMTT(20) DEF ExtendLen
<1> QED
  BY <1>5, <1>8, <1>9, <1>10, <1>11, <1>12 DEF Granted, from

\* A batch result that is due while requests are admitted is of active ones.
LEMMA ExtendIsActive ==
    ASSUME OrderInv, MemInv, Planning, Pending.kind = "extend",
           NEW k \in todo + 1 .. Len(Pending.items)
    PROVE  Active(Pending.items[k].r)
<1>1. LiveInv /\ DOMAIN Pending.items = 1 .. Len(Pending.items)
      /\ Pending.items[k].r \in Reqs /\ Len(Pending.items) \in Nat /\ todo \in Nat
  <2>1. /\ LiveInv /\ Items(Pending.items) /\ DOMAIN Pending.items = 1 .. Len(Pending.items)
        /\ Len(Pending.items) \in Nat /\ todo \in 0 .. Len(Pending.items)
    BY AliveLoop DEF MemInv
  <2>2. k \in DOMAIN Pending.items
    BY <2>1
  <2> QED
    BY <2>1, <2>2, ItemFacts
<1>2. Alive(Pending.items[k].r)
  BY <1>1 DEF LiveInv, OldInv
<1>3. ~ Active(Pending.items[k].r) => Delayed(Pending.items[k])
  BY DEF MemInv, LateOldInv
<1>4. req[Pending.items[k].r].retracted => req[Pending.items[k].r].st = "waiting"
  BY <1>1, ReqFacts DEF MemInv
<1> QED
  BY <1>2, <1>3, <1>4 DEF Delayed, Alive, Active

\* The admitted requests are launched.
LEMMA LaunchMem ==
    ASSUME OrderInv, MemInv, LaunchPrefill
    PROVE  MemInv'
<1>1. /\ LiveInv /\ QueueInv /\ pc = "admit" /\ adder.can # <<>>
      /\ chunked' = PartlyFilled
      /\ UNCHANGED <<mode, running, last, queue, futureCt, ratio, todo>>
      /\ ReqsType /\ ~ mode.radix /\ todo = 0
  <2>1. LiveInv /\ QueueInv /\ ReqsType
    BY AliveLoop DEF LaunchPrefill, MemInv
  <2>2. /\ pc = "admit" /\ adder.can # <<>> /\ chunked' = PartlyFilled
        /\ UNCHANGED <<mode, running, last, queue, futureCt, ratio, todo>>
    BY DEF LaunchPrefill
  <2>3. todo = 0
    BY <2>1, <2>2 DEF LiveInv, TypesInv, BatchesType
  <2> QED
    BY <2>1, <2>2, <2>3 DEF MemInv, CacheInv
<1>2. PICK rowOf, slots : Grants(rowOf, slots)
  BY LaunchFacts
<1>3. PICK N \in Nat : /\ N = Len(adder.can) /\ DOMAIN adder.can = 1 .. N
  <2>1. IsSeq(adder.can)
    BY <1>1 DEF LiveInv, AdderInv
  <2> QED
    BY <2>1, SeqFacts
<1>4. /\ \A k \in 1 .. N : adder.can[k] \in Reqs /\ ExtendLen(adder.can[k]) \in Nat
                           /\ NewTokens(k) = NewTokens(k - 1) + ExtendLen(adder.can[k])
      /\ \A k \in 0 .. N : NewTokens(k) \in Nat
      /\ \A j, k \in 0 .. N : j <= k => NewTokens(j) <= NewTokens(k)
      /\ NewTokens(0) = 0
  BY <1>1, <1>3, NewTokensFacts
<1> DEFINE Can == ToSet(adder.can)
<1>5. /\ \A k \in 1 .. N : adder.can[k] \in Can
      /\ \A q \in Can : q \in Reqs /\ \E k \in 1 .. N : adder.can[k] = q
      /\ \A j, k \in 1 .. N : adder.can[j] = adder.can[k] => j = k
  <2>1. \A j, k \in DOMAIN adder.can : adder.can[j] = adder.can[k] => j = k
    BY <1>1 DEF LiveInv, AdderInv
  <2> QED
    BY <1>3, <1>4, <2>1 DEF ToSet
<1>6. /\ IsSeq(rowOf) /\ Injective(rowOf) /\ Len(rowOf) = N /\ DOMAIN rowOf = 1 .. N
      /\ \A w \in ToSet(rowOf) : w \in There(freeRows)
      /\ IsSeq(slots) /\ Injective(slots) /\ DOMAIN slots = 1 .. NewTokens(N)
      /\ \A s \in ToSet(slots) : s \in There(free)
      /\ DOMAIN cache'.tree = {} /\ cache'.evictable = 0 /\ cache'.protected = cache.protected
      /\ free' = Rest(free, slots) /\ freeRows' = Rest(freeRows, rowOf)
      /\ rows' = RowsWritten(rowOf, slots) /\ req' = Started(rowOf)
      /\ cur' = [kind |-> "extend", items |-> PrefillItems(rowOf), loc |-> slots,
                 chunked |-> PartlyFilled]
      /\ pc' = "run" /\ Len(slots) = NewTokens(N)
  BY <1>2, <1>3 DEF Grants
<1>7. \A k \in 1 .. N : Granted(k, adder.can[k], rowOf, slots)
  BY <1>1, <1>2, <1>3, GrantFacts
<1>8. \A q \in Reqs : q \notin Can => req'[q] = req[q]
  BY <1>6 DEF Started
<1>9. ASSUME NEW k \in 1 .. N, NEW r, r = adder.can[k]
      PROVE  /\ Active(r)' /\ req'[r].row = rowOf[k] /\ rowOf[k] \in Rows
             /\ freeRows[rowOf[k]] = 1
             /\ req'[r].out = req[r].out /\ req'[r].fill = req[r].fill /\ req'[r].pre = req[r].pre
             /\ IsSeq(Row(r)') /\ Len(Row(r)') = req[r].fill
             /\ r \in Reqs
  <2>1. Granted(k, r, rowOf, slots)
    BY <1>7, <1>9
  <2>2. Row(r)' = rows'[rowOf[k]]
    BY <2>1 DEF Row, Granted
  <2> QED
    BY <1>4, <1>9, <2>1, <2>2 DEF Granted, Active
<1>10. \A q \in Reqs : /\ ~ Stashed(q)'
                       /\ Seated(q)' <=> Active(q)'
                       /\ Active(q)' <=> Active(q) \/ q \in Can
                       /\ Seated(q) <=> Active(q) /\ q \notin Can
                       /\ req'[q].out = req[q].out /\ req'[q].fill = req[q].fill
                       /\ req'[q].pre = req[q].pre
                       /\ TextLen(q)' = TextLen(q)
  <2> TAKE q \in Reqs
  <2>1. ~ Stashed(q)'
    BY <1>6 DEF Stashed
  <2>2. Active(q)' <=> Active(q) \/ q \in Can
    BY <1>5, <1>8, <1>9 DEF Active
  <2>3. Stashed(q) <=> Active(q) /\ q \in Can
    BY <1>1 DEF Stashed
  <2>4. /\ req'[q].out = req[q].out /\ req'[q].fill = req[q].fill
        /\ req'[q].pre = req[q].pre
    BY <1>5, <1>8, <1>9
  <2>5. Seated(q)' <=> Active(q)'
    BY <2>1 DEF Seated
  <2>6. Seated(q) <=> Active(q) /\ q \notin Can
    BY <2>3 DEF Seated
  <2>7. TextLen(q)' = TextLen(q)
    BY <2>4 DEF TextLen
  <2> QED
    BY <2>1, <2>2, <2>4, <2>5, <2>6, <2>7
<1>11. \A w \in Rows : freeRows[w] = 0 => rows'[w] = rows[w]
  <2> SUFFICES ASSUME NEW w \in Rows, freeRows[w] = 0
               PROVE  rows'[w] = rows[w]
    OBVIOUS
  <2>1. w \notin ToSet(rowOf)
    <3>1. w \notin There(freeRows)
      BY DEF There
    <3> QED
      BY <1>6, <3>1
  <2> QED
    BY <1>6, <2>1 DEF RowsWritten
<1>12. ASSUME NEW q \in Reqs, Seated(q)
       PROVE  /\ q \notin Can /\ Seated(q)' /\ req'[q] = req[q]
              /\ Row(q)' = Row(q) /\ Held(q)' = Held(q) /\ Held(q) = Row(q)
  <2>1. q \notin Can /\ Seated(q)' /\ req'[q] = req[q]
    BY <1>8, <1>10, <1>12
  <2>2. req[q].row \in Rows /\ freeRows[req[q].row] = 0
    <3>1. req[q].row \in Rows /\ Seat(q) = {req[q].row}
      BY <1>12, SeatedRow
    <3>2. freeRows[req[q].row] = One(\A r \in Reqs : req[q].row \notin Seat(r))
      BY <3>1 DEF MemInv, RowsInv, OneOwner
    <3> QED
      BY <3>1, <3>2 DEF One
  <2>3. Row(q)' = Row(q)
    BY <1>11, <2>1, <2>2 DEF Row
  <2> QED
    BY <1>12, <2>1, <2>3 DEF Held
<1>13. /\ cur'.kind = "extend" /\ cur'.items = PrefillItems(rowOf) /\ cur'.loc = slots
       /\ cur'.chunked = PartlyFilled
  BY <1>6
<1> DEFINE items == PrefillItems(rowOf)
<1>14. /\ Items(items) /\ DOMAIN items = 1 .. N /\ Len(items) = N
       /\ ReqsOf(items) = Can
       /\ \A k \in 1 .. N : items[k].r = adder.can[k] /\ items[k].row = rowOf[k]
                            /\ items[k].len = req[adder.can[k]].fill
  <2>1. /\ Items(items) /\ DOMAIN items = DOMAIN adder.can /\ ReqsOf(items) = Can
    BY <1>1, <1>3, <1>6, PrefillFacts
  <2>2. Len(items) \in Nat /\ DOMAIN items = 1 .. Len(items)
    BY <2>1, ItemFacts
  <2>3. Len(items) = N
    <3> DEFINE l == Len(items)
    <3>1. 1 .. l = 1 .. N /\ l \in Nat
      BY <1>3, <2>1, <2>2
    <3> HIDE DEF l
    <3>2. l = N
      BY <3>1
    <3> QED
      BY <3>2 DEF l
  <2>4. \A k \in 1 .. N : items[k].r = adder.can[k] /\ items[k].row = rowOf[k]
                          /\ items[k].len = req[adder.can[k]].fill
    BY <1>6 DEF PrefillItems
  <2> QED
    BY <1>3, <2>1, <2>3, <2>4
<1> HIDE DEF items
<1>15. cur'.items = items
  BY <1>13 DEF items
<1>16. /\ Pending' = (IF mode.overlap THEN Pending ELSE cur')
       /\ After = NoBatch /\ After' = (IF mode.overlap THEN cur' ELSE NoBatch)
       /\ ~ mode.overlap => Pending = NoBatch
  <2>1. cur = NoBatch
    BY <1>1 DEF QueueInv, Launched
  <2> QED
    BY <1>1, <2>1 DEF Pending, After
<1>17. NoBatch.items = <<>> /\ DOMAIN NoBatch.items = {} /\ Len(NoBatch.items) = 0
  BY DEF NoBatch
<1>18. /\ Items(Pending.items) /\ DOMAIN Pending.items = 1 .. Len(Pending.items)
       /\ Len(Pending.items) \in Nat
       /\ \A k \in DOMAIN Pending.items : Pending.items[k].r \in Reqs
  BY <1>1, AliveLoop, ItemFacts DEF MemInv
<1>19. \A q \in Can : /\ Due(q) = 0 /\ q \notin ReqsOf(running)
                      /\ req[q].st \in {"waiting", "active"}
                      /\ q = PartlyFilled \/ req[q].fill = Len(Prompt[q]) + req[q].out
  <2> SUFFICES ASSUME NEW q \in Can
               PROVE  /\ Due(q) = 0 /\ q \notin ReqsOf(running)
                      /\ req[q].st \in {"waiting", "active"}
                      /\ q = PartlyFilled \/ req[q].fill = Len(Prompt[q]) + req[q].out
    OBVIOUS
  <2>1. PICK k \in 1 .. N : adder.can[k] = q
    BY <1>5
  <2>2. AdderInv /\ k \in DOMAIN adder.can
    BY <1>1, <1>3 DEF LiveInv
  <2>3. /\ Due(adder.can[k]) = 0 /\ adder.can[k] \notin ReqsOf(running)
        /\ req[adder.can[k]].st \in {"waiting", "active"}
        /\ \/ adder.can[k] = PartlyFilled
           \/ req[adder.can[k]].fill = Len(Prompt[adder.can[k]]) + req[adder.can[k]].out
    BY <1>1, <2>2 DEF AdderInv
  <2> QED
    BY <2>1, <2>3
<1>20. \A q \in Can : Old(q) => Partial(Pending, q)
  BY <1>19 DEF Due, One
<1>21. Planning /\ Planning /\ ~ Launched /\ ~ Planning' /\ Launched'
  BY <1>1, <1>6 DEF Planning, Launched
<1>22. PartlyFilled \in Can \cup {None} /\ None \notin Reqs
  BY <1>1, PartlyFilledFacts, Constants
<1>23. \A q \in Can : ~ Active(q) => Late(q) = {}
  <2> SUFFICES ASSUME NEW q \in Can, ~ Active(q) PROVE Late(q) = {}
    OBVIOUS
  <2>1. Places0(q) = {}
    <3>1. ASSUME NEW k \in Places0(q) PROVE FALSE
      <4>1. k \in todo + 1 .. Len(Pending.items) /\ Pending.items[k].r = q
        BY DEF Places0
      <4>2. Old(q)
        BY <4>1 DEF Old
      <4>3. Pending.kind = "extend"
        BY <1>20, <4>2 DEF Partial
      <4> QED
        BY <1>21, <4>1, <4>3, ExtendIsActive
    <3> QED
      BY <3>1
  <2>2. Places1(q) = {}
    BY <1>16, <1>17 DEF Places1
  <2> DEFINE A == {ToSet(LateSlot(k)) : k \in Places0(q)}
             B == {After.loc[k] : k \in Places1(q)}
  <2>3. A = {} /\ B = {}
    BY <2>1, <2>2
  <2>4. Late(q) = (UNION A) \cup B
    BY DEF Late
  <2> HIDE DEF A, B
  <2> QED
    BY <2>3, <2>4
<1>24. \A q \in Can : Owned(q) = ToSet(req[q].pre)
  <2> TAKE q \in Can
  <2>1. CASE Active(q)
    <3>1. ~ Seated(q)
      BY <1>5, <1>10
    <3> QED
      BY <2>1, <3>1 DEF Owned, Held
  <2>2. CASE ~ Active(q)
    <3>1. req[q].pre = <<>>
      BY <1>5, <2>2 DEF MemInv, FillInv
    <3>2. ToSet(<<>>) = {}
      BY DEF ToSet
    <3> QED
      BY <1>23, <2>2, <3>1, <3>2 DEF Owned
  <2> QED
    BY <2>1, <2>2
<1> DEFINE part(k) == {slots[j] : j \in NewTokens(k - 1) + 1 .. NewTokens(k)}
           more == [q \in Reqs |-> {s \in ToSet(slots) : \E k \in 1 .. N :
                                        adder.can[k] = q /\ s \in part(k)}]
<1>25. ASSUME NEW k \in 1 .. N PROVE part(k) \subseteq ToSet(slots) /\ more[adder.can[k]] = part(k)
  <2>1. part(k) \subseteq ToSet(slots)
    <3>1. ASSUME NEW j \in NewTokens(k - 1) + 1 .. NewTokens(k) PROVE j \in DOMAIN slots
      <4>1. k - 1 \in 0 .. N /\ k \in 0 .. N /\ N \in 0 .. N /\ k <= N
        OBVIOUS
      <4> QED
        BY <1>4, <1>6, <3>1, <4>1
    <3> QED
      BY <3>1 DEF ToSet
  <2>2. adder.can[k] \in Reqs
    BY <1>4
  <2> HIDE DEF part
  <2> QED
    BY <1>5, <2>1, <2>2
<1>26. ASSUME NEW q \in Reqs, q \notin Can PROVE more[q] = {}
  BY <1>5, <1>26
<1>27. ASSUME NEW k \in 1 .. N, NEW r, r = adder.can[k]
       PROVE  /\ ToSet(Row(r)') = ToSet(req[r].pre) \cup part(k)
              /\ Injective(Row(r)')
  <2> DEFINE from == NewTokens(k - 1)
             e == ExtendLen(r)
             new == SubSeq(slots, from + 1, NewTokens(k))
             pre == req[r].pre
  <2>1. Granted(k, r, rowOf, slots)
    BY <1>7, <1>27
  <2>2. r \in Reqs /\ e \in Nat /\ from \in Nat /\ NewTokens(k) = from + e /\ IsSeq(pre)
        /\ Len(pre) \in Nat /\ r \in Can
    <3>1. r \in Reqs /\ e \in Nat /\ NewTokens(k) = from + e /\ k - 1 \in 0 .. N /\ r \in Can
      BY <1>4, <1>5, <1>27
    <3>2. IsSeq(pre) /\ Len(pre) \in Nat
      BY <1>1, <3>1, ReqFacts DEF MemInv
    <3> QED
      BY <1>4, <3>1, <3>2
  <2>3. /\ Row(r)' = pre \o new
        /\ IsSeq(new) /\ Len(new) = e /\ DOMAIN new = 1 .. e
        /\ \A j \in 1 .. e : new[j] = slots[from + j] /\ from + j \in DOMAIN slots
    BY <2>1 DEF Granted, Row
  <2>4. Injective(pre) /\ ToSet(pre) \subseteq Owned(r)
    <3>1. CASE Active(r)
      <4>1. Held(r) = pre
        BY <1>10, <2>2, <3>1 DEF Held
      <4> QED
        BY <1>24, <2>2, <3>1, <4>1 DEF MemInv, SlotsInv
    <3>2. CASE ~ Active(r)
      <4>1. pre = <<>>
        BY <2>2, <3>2 DEF MemInv, FillInv
      <4>2. Injective(<<>>)
        BY DEF Injective
      <4> QED
        BY <1>24, <2>2, <4>1, <4>2
    <3> QED
      BY <3>1, <3>2
  <2>5. \A x \in ToSet(pre) : x \notin ToSet(slots)
    <3>1. \A x \in Owned(r) : free[x] = 0
      <4> DEFINE own == [q \in Reqs |-> Owned(q)]
      <4>1. OneOwner(free, Slots, own) /\ own[r] = Owned(r)
        BY <2>2 DEF MemInv, SlotsInv
      <4> HIDE DEF own
      <4>2. IsFiniteSet(Slots)
        BY Constants
      <4>3. \A q \in Reqs : \A x \in own[q] : x \in Slots /\ free[x] = 0
        BY <4>1, <4>2, OwnedOnce
      <4> QED
        BY <2>2, <4>1, <4>3
    <3> QED
      BY <1>6, <2>4, <3>1 DEF There
  <2>6. part(k) = {slots[from + j] : j \in 1 .. e}
    <3>1. \A j \in from + 1 .. NewTokens(k) : j - from \in 1 .. e /\ from + (j - from) = j
      BY <2>2
    <3>2. \A j \in 1 .. e : from + j \in from + 1 .. NewTokens(k)
      BY <2>2
    <3> DEFINE to == NewTokens(k)
    <3>3. part(k) = {slots[j] : j \in from + 1 .. to}
      OBVIOUS
    <3> HIDE DEF from, e, to, part
    <3>4. ASSUME NEW j \in from + 1 .. to PROVE slots[j] \in {slots[from + i] : i \in 1 .. e}
      <4>1. PICK i \in 1 .. e : from + i = j
        BY <3>1 DEF to
      <4> QED
        BY <4>1
    <3>5. ASSUME NEW j \in 1 .. e PROVE slots[from + j] \in {slots[i] : i \in from + 1 .. to}
      BY <3>2 DEF to
    <3> QED
      BY <3>3, <3>4, <3>5
  <2> HIDE DEF from, e, new, pre, part
  <2>7. ToSet(new) = part(k)
    BY <2>3, <2>6 DEF ToSet
  <2>8. /\ IsSeq(pre \o new) /\ Len(pre \o new) = Len(pre) + e
        /\ DOMAIN (pre \o new) = 1 .. Len(pre) + e
        /\ \A j \in 1 .. Len(pre) + e :
              (pre \o new)[j] = IF j <= Len(pre) THEN pre[j] ELSE new[j - Len(pre)]
    <3>1. /\ IsSeq(pre \o new) /\ Len(pre \o new) = Len(pre) + e
          /\ \A j \in 1 .. Len(pre) + e :
              (pre \o new)[j] = IF j <= Len(pre) THEN pre[j] ELSE new[j - Len(pre)]
      BY <2>2, <2>3, ConcatIsSeq
    <3> QED
      BY <3>1, SeqFacts
  <2> DEFINE row == pre \o new
             l == Len(pre)
  <2>9. /\ DOMAIN row = 1 .. l + e /\ l \in Nat /\ e \in Nat /\ DOMAIN pre = 1 .. l
        /\ \A j \in 1 .. l : row[j] = pre[j]
        /\ \A j \in l + 1 .. l + e : row[j] = new[j - l] /\ j - l \in 1 .. e
    BY <2>2, <2>8, SeqFacts
  <2> HIDE DEF row, l
  <2>10. \A j \in 1 .. l : row[j] \in ToSet(pre)
    BY <2>9 DEF ToSet
  <2>11. \A j \in l + 1 .. l + e : row[j] \in ToSet(new) /\ row[j] \in ToSet(slots)
    <3> TAKE j \in l + 1 .. l + e
    <3>1. PICK i : i = j - l /\ i \in 1 .. e /\ row[j] = new[i]
      BY <2>9
    <3>2. new[i] = slots[from + i] /\ from + i \in DOMAIN slots /\ i \in DOMAIN new
      BY <2>3, <3>1
    <3> QED
      BY <3>1, <3>2 DEF ToSet
  <2>12. \A i, j \in 1 .. e : new[i] = new[j] => i = j
    <3> SUFFICES ASSUME NEW i \in 1 .. e, NEW j \in 1 .. e, new[i] = new[j] PROVE i = j
      OBVIOUS
    <3>1. slots[from + i] = slots[from + j] /\ from + i \in DOMAIN slots /\ from + j \in DOMAIN slots
      BY <2>3
    <3>2. from + i = from + j
      BY <1>6, <3>1 DEF Injective
    <3> QED
      BY <2>2, <3>2
  <2>13. \A j \in 1 .. l + e : j \in 1 .. l \/ j \in l + 1 .. l + e
    BY <2>9
  <2>14. Injective(row)
    <3>1. ASSUME NEW i \in 1 .. l + e, NEW j \in 1 .. l + e, row[i] = row[j] PROVE i = j
      <4>1. CASE i \in 1 .. l /\ j \in 1 .. l
        BY <2>4, <2>9, <3>1, <4>1 DEF Injective
      <4>2. CASE i \in l + 1 .. l + e /\ j \in l + 1 .. l + e
        <5>1. new[i - l] = new[j - l] /\ i - l \in 1 .. e /\ j - l \in 1 .. e
          BY <2>9, <3>1, <4>2
        <5>2. i - l = j - l
          BY <2>12, <5>1
        <5> QED
          BY <2>9, <5>2
      <4>3. CASE i \in 1 .. l /\ j \in l + 1 .. l + e
        BY <2>5, <2>10, <2>11, <3>1, <4>3
      <4>4. CASE i \in l + 1 .. l + e /\ j \in 1 .. l
        BY <2>5, <2>10, <2>11, <3>1, <4>4
      <4> QED
        BY <2>13, <4>1, <4>2, <4>3, <4>4
    <3> QED
      BY <2>9, <3>1 DEF Injective
  <2>15. ToSet(row) = ToSet(pre) \cup ToSet(new)
    <3>1. \A j \in 1 .. l : j \in 1 .. l + e
      BY <2>9
    <3>2. \A j \in 1 .. e : j + l \in l + 1 .. l + e /\ j + l \in 1 .. l + e /\ (j + l) - l = j
      BY <2>9
    <3>3. ASSUME NEW x \in ToSet(pre) PROVE x \in ToSet(row)
      <4>1. PICK j \in 1 .. l : x = pre[j]
        BY <2>9 DEF ToSet
      <4> QED
        BY <2>9, <3>1, <4>1 DEF ToSet
    <3>4. ASSUME NEW x \in ToSet(new) PROVE x \in ToSet(row)
      <4>1. PICK j \in 1 .. e : x = new[j]
        BY <2>3 DEF ToSet
      <4>2. row[j + l] = new[j] /\ j + l \in DOMAIN row
        BY <2>9, <3>2
      <4> QED
        BY <4>1, <4>2 DEF ToSet
    <3>5. ASSUME NEW x \in ToSet(row) PROVE x \in ToSet(pre) \cup ToSet(new)
      <4>1. PICK j \in 1 .. l + e : x = row[j]
        BY <2>9 DEF ToSet
      <4> QED
        BY <2>10, <2>11, <2>13, <4>1
    <3> QED
      BY <3>3, <3>4, <3>5
  <2> QED
    BY <2>3, <2>7, <2>14, <2>15 DEF row, pre
<1>28. SlotsInv'
  <2> DEFINE own == [q \in Reqs |-> Owned(q)]
             own2 == [q \in Reqs |-> Owned(q)']
  <2>1. ASSUME NEW q \in Reqs PROVE own2[q] = own[q] \cup more[q]
    <3>1. CASE q \in Can
      <4>1. PICK k \in 1 .. N : q = adder.can[k]
        BY <1>5, <3>1
      <4>2. Owned(q)' = ToSet(Row(q)')
        <5>1. Active(q)' /\ Seated(q)'
          BY <1>10, <3>1
        <5> QED
          BY <5>1 DEF Owned, Held, ToSet
      <4>3. ToSet(Row(q)') = ToSet(req[q].pre) \cup more[q]
        BY <1>25, <1>27, <4>1
      <4> HIDE DEF more
      <4> QED
        BY <1>24, <3>1, <4>2, <4>3
    <3>2. CASE q \notin Can /\ Active(q)
      <4>1. Seated(q)
        BY <1>10, <3>2
      <4>2. Held(q)' = Held(q) /\ Active(q)'
        BY <1>10, <1>12, <3>2, <4>1
      <4>3. Owned(q)' = Owned(q)
        BY <3>2, <4>2 DEF Owned, ToSet
      <4> QED
        BY <1>26, <3>2, <4>3
    <3>3. CASE q \notin Can /\ ~ Active(q)
      <4>1. Places1(q) = {} /\ Places1(q)' = {}
        <5>1. \A k \in 1 .. N : items[k].r # q
          BY <1>5, <1>14, <3>3
        <5>2. DOMAIN After'.items = {} \/ (After'.items = items /\ DOMAIN items = 1 .. N)
          BY <1>14, <1>15, <1>16, <1>17
        <5> QED
          BY <1>16, <1>17, <5>1, <5>2 DEF Places1
      <4>2. Places0(q)' = Places0(q)
        <5>1. CASE mode.overlap
          BY <1>1, <1>16, <5>1 DEF Places0
        <5>2. CASE ~ mode.overlap
          <6>1. Pending'.items = items /\ Len(items) = N
            BY <1>14, <1>15, <1>16, <5>2
          <6>2. \A k \in todo + 1 .. N : items[k].r # q
            <7>1. \A k \in 0 + 1 .. N : k \in 1 .. N
              OBVIOUS
            <7> QED
              BY <1>1, <1>5, <1>14, <3>3, <7>1
          <6>3. Places0(q)' = {}
            BY <1>1, <6>1, <6>2 DEF Places0
          <6>4. Places0(q) = {}
            BY <1>1, <1>16, <1>17, <5>2 DEF Places0
          <6> QED
            BY <6>3, <6>4
        <5> QED
          BY <5>1, <5>2
      <4>3. ASSUME NEW k \in Places0(q) PROVE LateSlot(k)' = LateSlot(k)
        <5>1. k \in todo + 1 .. Len(Pending.items) /\ Pending.items[k].r = q
          BY DEF Places0
        <5>2. Pending.kind # "extend"
          BY <1>21, <3>3, <5>1, ExtendIsActive
        <5>3. mode.overlap
          BY <1>1, <1>16, <1>17, <5>1
        <5>4. Pending' = Pending
          BY <1>16, <5>3
        <5>5. BatchType(Pending)
          BY <1>1 DEF LiveInv, TypesInv, BatchesType
        <5>6. Pending.kind = "decode"
          <6>1. Pending.kind # "none"
            <7>1. Pending.kind = "none" => Pending = NoBatch
              BY <1>1, <5>3 DEF QueueInv, QueueShape, Same, Pending, LiveInv, TypesInv, BatchesType
            <7> QED
              BY <1>1, <1>17, <5>1, <7>1
          <6> QED
            BY <5>2, <5>5, <6>1 DEF BatchType
        <5> QED
          BY <5>4, <5>6 DEF LateSlot
      <4>4. Late(q)' = Late(q)
        <5>1. (UNION {ToSet(LateSlot(k)) : k \in Places0(q)})'
                = UNION {ToSet(LateSlot(k)) : k \in Places0(q)}
          BY <4>2, <4>3 DEF ToSet
        <5>2. {After.loc[k] : k \in Places1(q)}' = {} /\ {After.loc[k] : k \in Places1(q)} = {}
          BY <4>1
        <5> QED
          BY <5>1, <5>2 DEF Late
      <4>5. Owned(q)' = Owned(q)
        BY <1>10, <3>3, <4>4 DEF Owned
      <4> QED
        BY <1>26, <3>3, <4>5
    <3> QED
      BY <3>1, <3>2, <3>3
  <2>2. \A q \in Reqs : more[q] \subseteq ToSet(slots)
    OBVIOUS
  <2>3. ASSUME NEW q \in Reqs, NEW r \in Reqs, NEW x \in more[q], x \in more[r] PROVE q = r
    <3>1. PICK i \in 1 .. N, j \in 1 .. N :
             adder.can[i] = q /\ x \in part(i) /\ adder.can[j] = r /\ x \in part(j)
      BY <2>3
    <3>2. PICK m \in NewTokens(i - 1) + 1 .. NewTokens(i) : slots[m] = x
      BY <3>1
    <3>3. PICK n \in NewTokens(j - 1) + 1 .. NewTokens(j) : slots[n] = x
      BY <3>1
    <3>4. /\ i \in 0 .. N /\ j \in 0 .. N /\ i - 1 \in 0 .. N /\ j - 1 \in 0 .. N /\ N \in 0 .. N
          /\ i <= N /\ j <= N
      OBVIOUS
    <3> DEFINE off(k) == NewTokens(k)
    <3>5. /\ off(i) \in Nat /\ off(j) \in Nat /\ off(i - 1) \in Nat /\ off(j - 1) \in Nat
          /\ off(i) <= off(N) /\ off(j) <= off(N) /\ off(N) \in Nat
          /\ i <= j - 1 => off(i) <= off(j - 1)
          /\ j <= i - 1 => off(j) <= off(i - 1)
      BY <1>4, <3>4
    <3>6. /\ m \in Int /\ off(i - 1) < m /\ m <= off(i)
          /\ n \in Int /\ off(j - 1) < n /\ n <= off(j)
      BY <3>5
    <3>7. DOMAIN slots = 1 .. off(N)
      BY <1>6
    <3> HIDE DEF off
    <3>8. m \in DOMAIN slots /\ n \in DOMAIN slots
      BY <3>5, <3>6, <3>7
    <3>9. m = n
      BY <1>6, <3>2, <3>3, <3>8 DEF Injective
    <3>10. i = j
      BY <3>4, <3>5, <3>6, <3>9
    <3> QED
      BY <3>1, <3>10
  <2>4. ASSUME NEW x \in ToSet(slots) PROVE \E r \in Reqs : x \in more[r]
    <3>1. PICK m \in 1 .. NewTokens(N) : x = slots[m]
      BY <1>6 DEF ToSet
    <3> DEFINE off == [k \in 0 .. N |-> NewTokens(k)]
    <3>2. \A k \in 0 .. N : off[k] = NewTokens(k) /\ off[k] \in Int
      BY <1>4
    <3>3. off[0] = 0 /\ off[N] = NewTokens(N) /\ NewTokens(N) \in Nat
      BY <1>4
    <3> HIDE DEF off
    <3>4. \E k \in 1 .. N : off[k - 1] < m /\ m <= off[k]
      <4>1. m \in Int /\ off[0] < m /\ m <= off[N]
        BY <3>1, <3>3
      <4> QED
        BY <3>2, <4>1, StepOf
    <3>5. PICK k \in 1 .. N : off[k - 1] < m /\ m <= off[k]
      BY <3>4
    <3>6. k \in 0 .. N /\ k - 1 \in 0 .. N
      OBVIOUS
    <3>7. m \in NewTokens(k - 1) + 1 .. NewTokens(k)
      BY <1>4, <3>1, <3>2, <3>3, <3>5, <3>6
    <3>8. x \in part(k)
      BY <3>1, <3>7
    <3>9. adder.can[k] \in Reqs
      BY <1>4
    <3> HIDE DEF part, more
    <3> QED
      BY <1>25, <3>8, <3>9
  <2>5. OneOwner(free, Slots, own) /\ IsFiniteSet(Slots)
    BY Constants DEF MemInv, SlotsInv
  <2> HIDE DEF more, own, own2
  <2>6. OneOwner(Rest(free, slots), Slots, own2)
    BY <1>6, <2>1, <2>2, <2>3, <2>4, <2>5, IsGiven
  <2>7. ASSUME NEW q \in Reqs, Active(q)' PROVE Injective(Held(q)')
    <3>1. CASE q \in Can
      <4>1. PICK k \in 1 .. N : q = adder.can[k]
        BY <1>5, <3>1
      <4>2. Injective(Row(q)')
        BY <1>27, <4>1
      <4> QED
        BY <1>10, <2>7, <4>2 DEF Held
    <3>2. CASE q \notin Can
      <4>1. Seated(q)
        BY <1>10, <2>7, <3>2
      <4> QED
        BY <1>12, <4>1 DEF MemInv, SlotsInv, Seated
    <3> QED
      BY <3>1, <3>2
  <2> QED
    BY <1>6, <2>6, <2>7 DEF SlotsInv, Slots, Injective, own2
<1> HIDE DEF part, more
<1>29. RowsInv'
  <2> DEFINE own == [q \in Reqs |-> Seat(q)]
             own2 == [q \in Reqs |-> Seat(q)']
             given == [q \in Reqs |-> {w \in ToSet(rowOf) : \E k \in 1 .. N :
                                          adder.can[k] = q /\ w = rowOf[k]}]
  <2>1. ASSUME NEW q \in Reqs PROVE own2[q] = own[q] \cup given[q]
    <3>1. CASE q \in Can
      <4>1. PICK k \in 1 .. N : q = adder.can[k]
        BY <1>5, <3>1
      <4>2. own[q] = {} /\ own2[q] = {rowOf[k]}
        BY <1>9, <1>10, <3>1, <4>1 DEF Seat
      <4>3. given[q] = {rowOf[k]}
        <5>1. rowOf[k] \in ToSet(rowOf)
          BY <1>6 DEF ToSet
        <5> QED
          BY <1>5, <4>1, <5>1
      <4> QED
        BY <4>2, <4>3
    <3>2. CASE q \notin Can
      <4>1. given[q] = {}
        BY <1>5, <3>2
      <4>2. own2[q] = own[q]
        BY <1>8, <1>10, <3>2 DEF Seat
      <4> QED
        BY <4>1, <4>2
    <3> QED
      BY <3>1, <3>2
  <2>2. \A q \in Reqs : given[q] \subseteq ToSet(rowOf)
    OBVIOUS
  <2>3. ASSUME NEW q \in Reqs, NEW r \in Reqs, NEW x \in given[q], x \in given[r] PROVE q = r
    <3>1. PICK i \in 1 .. N, j \in 1 .. N :
             adder.can[i] = q /\ x = rowOf[i] /\ adder.can[j] = r /\ x = rowOf[j]
      BY <2>3
    <3>2. i = j
      BY <1>6, <3>1 DEF Injective
    <3> QED
      BY <3>1, <3>2
  <2>4. ASSUME NEW x \in ToSet(rowOf) PROVE \E r \in Reqs : x \in given[r]
    <3>1. PICK k \in 1 .. N : x = rowOf[k]
      BY <1>6 DEF ToSet
    <3> QED
      BY <1>4, <3>1
  <2>5. OneOwner(freeRows, Rows, own) /\ IsFiniteSet(Rows)
    BY Constants DEF MemInv, RowsInv
  <2> HIDE DEF given, own, own2
  <2>6. OneOwner(Rest(freeRows, rowOf), Rows, own2)
    BY <1>6, <2>1, <2>2, <2>3, <2>4, <2>5, IsGiven
  <2>7. \A q \in Reqs : req'[q].row \in {0} \cup Rows
    <3> TAKE q \in Reqs
    <3>1. CASE q \in Can
      BY <1>5, <1>9, <3>1
    <3>2. CASE q \notin Can
      BY <1>8, <3>2 DEF MemInv, RowsInv
    <3> QED
      BY <3>1, <3>2
  <2>8. DOMAIN rows' = Rows
    BY <1>6 DEF RowsWritten
  <2>9. ASSUME NEW w \in Rows PROVE IsSeq(rows'[w]) /\ ToSet(rows'[w]) \subseteq Slots
    <3>1. CASE w \in ToSet(rowOf)
      <4>1. PICK k \in 1 .. N : w = rowOf[k]
        BY <1>6, <3>1 DEF ToSet
      <4>2. PICK r \in Reqs : r = adder.can[k]
        BY <1>4
      <4>3. Row(r)' = rows'[w] /\ IsSeq(Row(r)')
        BY <1>9, <4>1, <4>2 DEF Row
      <4>4. ToSet(Row(r)') \subseteq Slots
        <5>1. Active(r)' /\ Seated(r)'
          BY <1>9, <1>10, <4>2
        <5>2. Owned(r)' = ToSet(Row(r)')
          BY <5>1 DEF Owned, Held, ToSet
        <5>3. Owned(r)' \subseteq Slots
          BY <1>28 DEF SlotsInv, OneOwner, Slots
        <5> QED
          BY <5>2, <5>3
      <4> QED
        BY <4>3, <4>4
    <3>2. CASE w \notin ToSet(rowOf)
      BY <1>6, <3>2 DEF RowsWritten, MemInv, RowsInv
    <3> QED
      BY <3>1, <3>2
  <2> QED
    BY <1>6, <2>6, <2>7, <2>8, <2>9 DEF RowsInv, Rows, Slots, own2
<1>30. ASSUME PartlyFilled # None
       PROVE  /\ PartlyFilled \in Reqs /\ PartlyFilled \in Can
              /\ req[PartlyFilled].fill < TextLen(PartlyFilled)
  <2>1. PICK k \in 1 .. N : PartlyFilled = adder.can[k]
    BY <1>5, <1>22, <1>30
  <2>2. req[adder.can[k]].fill < TextLen(adder.can[k])
    BY <1>1, <1>3, <2>1 DEF MemInv, RoomInv
  <2> QED
    BY <1>5, <1>22, <1>30, <2>1, <2>2
<1>31. FillInv'
  <2>1. ASSUME NEW q \in Reqs
        PROVE  /\ ~ Active(q)' => req'[q].pre = <<>>
               /\ ToSet(req'[q].pre) \subseteq Slots
               /\ Len(req'[q].pre) <= req'[q].fill /\ req'[q].fill <= TextLen(q)'
               /\ Seated(q)' => req'[q].fill <= Len(Row(q)')
               /\ ~ Stashed(q)'
               /\ q = chunked' =>
                      req'[q].fill < TextLen(q)' /\ req'[q].fill = Len(Row(q)')
    <3>1. /\ ~ Active(q) => req[q].pre = <<>>
          /\ ToSet(req[q].pre) \subseteq Slots
          /\ Len(req[q].pre) <= req[q].fill /\ req[q].fill <= TextLen(q)
          /\ Seated(q) => req[q].fill <= Len(Row(q))
      BY DEF MemInv, FillInv
    <3>2. q \in Can => Len(Row(q)') = req'[q].fill /\ Active(q)'
      BY <1>5, <1>9
    <3>3. req[q].fill \in Int /\ req'[q].fill = req[q].fill
      BY <1>1, <1>10, ReqFacts DEF MemInv
    <3>4. Seated(q)' => req'[q].fill <= Len(Row(q)')
      <4>1. CASE q \in Can
        BY <3>2, <3>3, <4>1
      <4>2. CASE q \notin Can
        BY <1>10, <1>12, <3>1, <3>3, <4>2
      <4> QED
        BY <4>1, <4>2
    <3>5. q = chunked' => req'[q].fill < TextLen(q)' /\ req'[q].fill = Len(Row(q)')
      BY <1>1, <1>10, <1>22, <1>30, <3>2, <3>3
    <3> QED
      BY <1>10, <3>1, <3>3, <3>4, <3>5
  <2> QED
    BY <1>6, <2>1 DEF FillInv, Slots
<1>32. Joiners = <<>> /\ Joiners' = items /\ Extra = N /\ Extra' = N
  <2>1. Joiners = <<>>
    BY <1>1, <1>21 DEF Joiners
  <2>2. Joiners' = items
    BY <1>13, <1>15, <1>21 DEF Joiners
  <2>3. Extra = N
    BY <1>1, <1>3 DEF Extra
  <2>4. Extra' = N
    BY <1>6, <1>14, <2>2 DEF Extra
  <2> QED
    BY <2>1, <2>2, <2>3, <2>4
<1>33. Len(running) + N <= MaxRunning /\ N <= MaxRunning /\ Len(running) \in Nat
  <2>1. Len(running) + N <= MaxRunning
    BY <1>32 DEF MemInv, PlacesInv
  <2>2. Len(running) \in Nat /\ MaxRunning \in Nat
    BY AliveLoop, ItemFacts, Constants DEF MemInv
  <2> QED
    BY <2>1, <2>2
<1>34. PlacesInv'
  <2>1. Len(Pending'.items) <= MaxRunning /\ Len(cur'.items) <= MaxRunning
    <3>1. Len(Pending.items) <= MaxRunning
      BY DEF MemInv, PlacesInv
    <3> QED
      BY <1>14, <1>15, <1>16, <1>33, <3>1
  <2>2. \A q \in Reqs : Seated(q)' => q \in ReqsOf(running)' \cup ReqsOf(Joiners)'
    <3>1. ReqsOf(running)' = ReqsOf(running) /\ ReqsOf(Joiners)' = Can
      BY <1>1, <1>14, <1>32 DEF ReqsOf
    <3>2. ReqsOf(Joiners) = {}
      BY <1>32 DEF ReqsOf
    <3>3. \A q \in Reqs : Seated(q)' => q \in Can \/ Seated(q)
      BY <1>10
    <3>4. \A q \in Reqs : Seated(q) => q \in ReqsOf(running) \cup ReqsOf(Joiners)
      BY DEF MemInv, PlacesInv
    <3> QED
      BY <3>1, <3>2, <3>3, <3>4
  <2>3. ASSUME NEW i \in ToSet(running)
        PROVE  /\ Seated(i.r)' => i.row = req'[i.r].row /\ i.len = Len(Row(i.r)')
               /\ i.r # chunked' => i.len >= Len(Prompt[i.r])
    <3>1. PICK q \in Reqs : q = i.r /\ q \in ReqsOf(running)
      <4>1. i.r \in ReqsOf(running)
        BY DEF ToSet, ReqsOf
      <4> QED
        BY <4>1, AliveLoop, ItemFacts DEF MemInv
    <3>2. q \notin Can
      BY <1>19, <3>1
    <3>3. /\ Seated(q) => i.row = req[q].row /\ i.len = Len(Row(q))
          /\ q # chunked => i.len >= Len(Prompt[q])
      BY <3>1 DEF MemInv, PlacesInv
    <3>4. q # chunked
      <4>1. chunked \in Can \cup {None}
        BY <1>1 DEF LiveInv, AdderInv
      <4> QED
        BY <1>22, <3>2, <4>1
    <3>5. Seated(q)' => Seated(q)
      BY <1>10, <3>2
    <3> QED
      BY <1>12, <3>1, <3>3, <3>4, <3>5
  <2>4. ASSUME NEW i \in ToSet(items)
        PROVE  /\ Seated(i.r)' => i.row = req'[i.r].row /\ i.len = Len(Row(i.r)')
               /\ i.r # chunked' => i.len >= Len(Prompt[i.r])
    <3>1. PICK k \in 1 .. N : i = items[k]
      BY <1>14 DEF ToSet
    <3>2. PICK q \in Reqs : q = adder.can[k] /\ q \in Can
      BY <1>4, <1>5
    <3>3. i.r = q /\ i.row = rowOf[k] /\ i.len = req[q].fill
      BY <1>14, <3>1, <3>2
    <3>4. req'[q].row = rowOf[k] /\ Len(Row(q)') = req[q].fill
      BY <1>9, <3>2
    <3>5. q # PartlyFilled => req[q].fill >= Len(Prompt[q])
      <4>1. Len(Prompt[q]) \in Nat /\ req[q].out \in Nat
        BY <1>1, ReqFacts DEF MemInv
      <4> QED
        BY <1>19, <3>2, <4>1
    <3> QED
      BY <1>1, <3>3, <3>4, <3>5
  <2>5. ToSet(running)' = ToSet(running) /\ ToSet(Joiners)' = ToSet(items)
    BY <1>1, <1>32 DEF ToSet
  <2>6. Len(running') + Extra' <= MaxRunning
    BY <1>1, <1>32, <1>33
  <2> QED
    BY <2>1, <2>2, <2>3, <2>4, <2>5, <2>6 DEF PlacesInv
<1>35. LateOldInv'
  <2>1. CASE mode.overlap
    <3>1. ASSUME NEW k \in todo + 1 .. Len(Pending.items), NEW i, i = Pending.items[k],
                 NEW r \in Reqs, r = i.r
          PROVE  /\ ~ Active(r)' => mode'.overlap /\ Delayed(i)'
                 /\ Pending'.kind = "decode" =>
                     /\ k \in DOMAIN Pending'.loc
                     /\ i.len > Len(Prompt[r])
                     /\ Seated(r)' /\ ~ New(r)' => Pending'.loc[k] = Row(r)'[Len(Row(r)')]
                 /\ Pending'.kind = "extend" /\ ~ Partial(Pending', r) /\ Seated(r)' =>
                     i.row = req'[r].row
                 /\ Pending'.kind = "extend" => Active(r)'
      <4>1. /\ ~ Active(r) => mode.overlap /\ Delayed(i)
            /\ Pending.kind = "decode" =>
                  /\ k \in DOMAIN Pending.loc
                  /\ i.len > Len(Prompt[r])
                  /\ Seated(r) /\ ~ New(r) => Pending.loc[k] = Row(r)[Len(Row(r))]
            /\ Pending.kind = "extend" /\ ~ Partial(Pending, r) /\ Seated(r) =>
                  i.row = req[r].row
        BY <3>1 DEF MemInv, LateOldInv
      <4>2. Pending' = Pending
        BY <1>16, <2>1
      <4>3. Old(r)
        BY <3>1 DEF Old
      <4>4. r \in Can => Pending.kind = "extend" /\ Partial(Pending, r)
        BY <1>20, <4>3 DEF Partial
      <4>5. r \notin Can => /\ req'[r] = req[r] /\ (Active(r)' <=> Active(r))
                            /\ (Seated(r)' <=> Seated(r))
                            /\ (Seated(r) => Row(r)' = Row(r))
        BY <1>8, <1>10, <1>12
      <4>6. ~ New(r)
        BY <1>16, <1>17 DEF New, ReqsOf
      <4>7. Pending.kind = "extend" => Active(r)
        BY <1>21, <3>1, ExtendIsActive
      <4>8. r \in Can => Active(r)'
        BY <1>5, <1>9
      <4>9. r \notin Can => (Delayed(i)' <=> Delayed(i))
        BY <3>1, <4>2, <4>5 DEF Delayed
      <4> QED
        BY <1>1, <1>10, <4>1, <4>2, <4>4, <4>5, <4>6, <4>7, <4>8, <4>9 DEF Partial
    <3>2. \A k \in todo + 1 .. Len(Pending.items) : Pending.items[k].r \in Reqs
      <4>1. \A k \in todo + 1 .. Len(Pending.items) : k \in 1 .. Len(Pending.items)
        BY <1>1, <1>18
      <4> QED
        BY <1>18, <4>1
    <3>3. mode' = mode /\ todo' = todo /\ Pending' = Pending
      BY <1>1, <1>16, <2>1
    <3>4. ASSUME NEW k \in todo + 1 .. Len(Pending.items)
          PROVE  (~ Active(Pending.items[k].r) => mode.overlap /\ Delayed(Pending.items[k]))'
      BY <3>1, <3>2, <3>3
    <3>5. ASSUME NEW k \in todo + 1 .. Len(Pending.items)
          PROVE  (Pending.kind = "decode" =>
                     /\ k \in DOMAIN Pending.loc
                     /\ Pending.items[k].len > Len(Prompt[Pending.items[k].r])
                     /\ Seated(Pending.items[k].r) /\ ~ New(Pending.items[k].r) =>
                          Pending.loc[k] = Row(Pending.items[k].r)[Len(Row(Pending.items[k].r))])'
      BY <3>1, <3>2, <3>3
    <3>6. ASSUME NEW k \in todo + 1 .. Len(Pending.items)
          PROVE  (Pending.kind = "extend" /\ ~ Partial(Pending, Pending.items[k].r)
                    /\ Seated(Pending.items[k].r) =>
                     Pending.items[k].row = req[Pending.items[k].r].row)'
      BY <3>1, <3>2, <3>3 DEF Partial
    <3>7. ASSUME NEW k \in todo + 1 .. Len(Pending.items)
          PROVE  (Pending.kind = "extend" /\ ~ Active(Pending.items[k].r) =>
                     /\ Pending.items[k].row \in Rows
                     /\ req[Pending.items[k].r].out > 0 =>
                          Len(rows[Pending.items[k].row]) = TextLen(Pending.items[k].r)
                     /\ \A q \in Reqs : Seated(q) => req[q].row # Pending.items[k].row)'
      BY <3>1, <3>2, <3>3
    <3> QED
      BY <3>3, <3>4, <3>5, <3>6, <3>7 DEF LateOldInv
  <2>2. CASE ~ mode.overlap
    <3>1. Pending'.items = items /\ Len(items) = N /\ Pending'.kind = "extend" /\ todo' = 0
      BY <1>1, <1>13, <1>14, <1>15, <1>16, <2>2
    <3>2. ASSUME NEW k \in 0 + 1 .. N
          PROVE  req'[items[k].r].st = "active" /\ items[k].row = req'[items[k].r].row
      <4>1. k \in 1 .. N
        OBVIOUS
      <4>2. PICK r \in Reqs : r = adder.can[k]
        BY <1>4, <4>1
      <4>3. items[k].r = r /\ items[k].row = rowOf[k]
        BY <1>14, <4>1, <4>2
      <4>4. req'[r].st = "active" /\ req'[r].row = rowOf[k]
        BY <1>9, <4>1, <4>2 DEF Active
      <4> QED
        BY <4>3, <4>4
    <3>3. ASSUME NEW k \in 0 + 1 .. N
          PROVE  Active(Pending.items[k].r)' /\ Pending'.items[k].row = req'[Pending'.items[k].r].row
      BY <3>1, <3>2 DEF Active
    <3> QED
      BY <3>1, <3>3 DEF LateOldInv, Seated
  <2> QED
    BY <2>1, <2>2
<1>36. LateNewInv'
  <2>1. After'.kind # "extend" => DOMAIN After'.items = {}
    BY <1>13, <1>16, <1>17
  <2>2. After'.kind # "decode"
    BY <1>13, <1>16 DEF NoBatch
  <2>3. ASSUME NEW k \in DOMAIN After'.items PROVE req'[After'.items[k].r].st = "active"
    <3>1. After'.items = items /\ k \in 1 .. N
      BY <1>14, <1>15, <1>16, <1>17
    <3>2. items[k].r = adder.can[k]
      BY <1>14, <3>1
    <3> QED
      BY <1>9, <3>1, <3>2 DEF Active
  <2> QED
    BY <2>2, <2>3 DEF LateNewInv, Active
<1>37. Reserve' = Reserve /\ Reserve \in Nat
  BY <1>1, <1>10, ReserveSame, ReserveFacts DEF MemInv
<1>38. Count(free)' = Count(free) - NewTokens(N) /\ Count(free) \in Nat /\ NewTokens(N) \in Nat
  <2>1. NoneTwice(free)
    <3>1. IsFiniteSet(Slots)
      BY Constants
    <3> QED
      BY <3>1, OwnedOnce DEF MemInv, SlotsInv
  <2>2. Count(free') = Count(free) - NewTokens(N)
    BY <1>6, <2>1, RestFacts
  <2>3. N \in 0 .. N
    OBVIOUS
  <2> QED
    BY <1>4, <2>2, <2>3, AliveLoop DEF MemInv, Count
<1>39. Answers(Joiners)' = AdderAnswers(N)
  <2>1. Answers(Joiners)' = Total([k \in DOMAIN Joiners' |->
             IF Joiners'[k].r = chunked' THEN 0 ELSE MaxNew(Joiners'[k].r)])
    BY DEF Answers
  <2>2. DOMAIN Joiners' = 1 .. N
    BY <1>14, <1>32
  <2>3. \A k \in 1 .. N : Joiners'[k].r = adder.can[k]
    BY <1>14, <1>32
  <2>4. [k \in DOMAIN Joiners' |-> IF Joiners'[k].r = chunked' THEN 0 ELSE MaxNew(Joiners'[k].r)]
          = [k \in 1 .. N |-> IF adder.can[k] = PartlyFilled THEN 0 ELSE MaxNew(adder.can[k])]
    BY <1>1, <2>2, <2>3
  <2> QED
    BY <2>1, <2>4 DEF AdderAnswers
<1>40. AdderAnswers(N) \in Nat
  <2> DEFINE g == [k \in 1 .. N |-> IF adder.can[k] = PartlyFilled THEN 0 ELSE MaxNew(adder.can[k])]
  <2>1. \A k \in 1 .. N : g[k] \in Nat
    BY <1>4, Constants
  <2>2. DOMAIN g = 1 .. N /\ IsFiniteSet(1 .. N)
    BY FS_Interval
  <2> HIDE DEF g
  <2>3. Total(g) \in Nat
    BY <2>1, <2>2, TotalIsNat
  <2> QED
    BY <2>3 DEF AdderAnswers, g
<1>41. RoomInv'
  <2>1. ~ SomeLate'
    <3>1. SomeLate' => \E k \in DOMAIN After'.items : req'[After'.items[k].r].st # "active"
      BY <1>6, <1>21 DEF SomeLate, Active
    <3>2. ASSUME NEW k \in DOMAIN After'.items PROVE req'[After'.items[k].r].st = "active"
      <4>1. After'.items = items /\ k \in 1 .. N
        BY <1>14, <1>15, <1>16, <1>17
      <4>2. items[k].r = adder.can[k]
        BY <1>14, <4>1
      <4> QED
        BY <1>9, <4>1, <4>2 DEF Active
    <3> QED
      BY <3>1, <3>2
  <2>2. ASSUME chunked' # None
        PROVE  10 * Count(free)' - Reserve' - 10 * Answers(Joiners)'
                  >= 10 * (TextLen(chunked)' - req'[chunked'].fill)
    <3>1. PICK c \in Reqs : c = PartlyFilled
      BY <1>1, <1>30, <2>2
    <3>2. Remaining(cache, adder.offset) >= 10 * (TextLen(c) - req[c].fill)
      BY <1>1, <2>2, <3>1 DEF MemInv, RoomInv
    <3>3. adder.offset >= Reserve + 10 * NewTokens(N) + 10 * AdderAnswers(N) /\ adder.offset \in Int
      BY <1>1, <1>3 DEF MemInv, RoomInv, LiveInv, AdderInv
    <3>4. Remaining(cache, adder.offset) = 10 * Count(free) - adder.offset
      BY <1>38 DEF MemInv, CacheInv, Remaining
    <3>5. TextLen(c) \in Nat /\ req[c].fill \in Int
      BY <1>1, ReqFacts DEF MemInv
    <3>6. TextLen(chunked)' = TextLen(c) /\ req'[chunked'].fill = req[c].fill
      BY <1>1, <1>10, <3>1 DEF TextLen
    <3> DEFINE C == Count(free)
               C2 == Count(free)'
               R == Reserve
               n == NewTokens(N)
               A == AdderAnswers(N)
               o == adder.offset
               t == TextLen(c)
               f == req[c].fill
    <3>7. /\ C \in Nat /\ C2 = C - n /\ R \in Nat /\ n \in Nat /\ A \in Nat /\ o \in Int
          /\ t \in Nat /\ f \in Int
          /\ o >= R + 10 * n + 10 * A /\ 10 * C - o >= 10 * (t - f)
      BY <1>37, <1>38, <1>40, <3>2, <3>3, <3>4, <3>5
    <3> HIDE DEF C, C2, R, n, A, o, t, f
    <3>8. 10 * C2 - R - 10 * A >= 10 * (t - f)
      BY <3>7
    <3> QED
      BY <1>37, <1>39, <3>6, <3>8 DEF C2, R, A, t, f
  <2> QED
    BY <1>6, <2>1, <2>2 DEF RoomInv
<1>42. CacheInv'
  <2>1. [q \in Reqs |-> Len(req[q].pre)]' = [q \in Reqs |-> Len(req[q].pre)]
    BY <1>10
  <2> QED
    BY <1>1, <1>6, <2>1 DEF MemInv, CacheInv
<1>43. CountersInv'
  BY <1>1, <1>6 DEF MemInv, CountersInv, FutureLimit
<1> QED
  BY <1>6, <1>28, <1>29, <1>31, <1>34, <1>35, <1>36, <1>41, <1>42, <1>43 DEF MemInv

\* prepare_for_decode, for one of the running requests: its next slot is at
\* the end of its row
Stepped(k, r, slots) ==
    /\ r = running[k].r /\ r \in Reqs /\ Seated(r) /\ req[r].row = running[k].row
    /\ running[k].len = Len(Row(r)) /\ running[k].len >= Len(Prompt[r])
    /\ rows'[req[r].row] = Append(Row(r), slots[k])

\* What prepare_for_decode does with the rows.
LEMMA SteppedFacts ==
    ASSUME OrderInv, MemInv, PrepareDecode, NEW slots, slots = Taken(free, Len(running))
    PROVE  /\ \A k \in DOMAIN running : Stepped(k, running[k].r, slots)
           /\ \A w \in Rows : (\A q \in Reqs : Seated(q) => req[q].row # w) => rows'[w] = rows[w]
           /\ DOMAIN rows' = Rows
           /\ \A q \in Reqs : Active(q) => Seated(q) /\ q \in ReqsOf(running)
<1>1. /\ LiveInv /\ pc = "step" /\ chunked = None
      /\ rows' = [w \in Rows |->
                 IF \E k \in DOMAIN running : running[k].row = w
                 THEN LET k == CHOOSE k \in DOMAIN running : running[k].row = w
                      IN  Append(Upto(rows[w], running[k].len), slots[k])
                 ELSE rows[w]]
  BY DEF OrderInv, PrepareDecode, LiveInv, ChunkedInv
<1>2. Items(running) /\ DOMAIN running = 1 .. Len(running)
      /\ \A k \in DOMAIN running : running[k].r \in Reqs
  BY <1>1, ItemFacts DEF LiveInv, TypesInv, BatchesType
<1>3. \A q \in Reqs : Seated(q) <=> Active(q)
  BY <1>1 DEF Seated, Stashed
<1>4. ASSUME NEW k \in DOMAIN running, NEW r, r = running[k].r
      PROVE  /\ r \in Reqs /\ Seated(r) /\ req[r].row = running[k].row
             /\ running[k].len = Len(Row(r)) /\ running[k].len >= Len(Prompt[r])
  <2>1. r \in Reqs /\ Active(r)
    BY <1>1, <1>2, <1>4 DEF LiveInv, RunningInv, Active
  <2>2. r # chunked
    BY <1>1, <2>1, Constants
  <2>3. running[k] \in ToSet(running)
    BY DEF ToSet
  <2> QED
    BY <1>3, <1>4, <2>1, <2>2, <2>3 DEF MemInv, PlacesInv
<1>5. ASSUME NEW j \in DOMAIN running, NEW k \in DOMAIN running, running[j].row = running[k].row
      PROVE  j = k
  <2>1. PICK q \in Reqs, r \in Reqs : q = running[j].r /\ r = running[k].r
    BY <1>2
  <2>2. Seated(q) /\ Seated(r) /\ req[q].row = req[r].row
    BY <1>4, <1>5, <2>1
  <2>3. q = r
    BY <2>2, SeatedRow
  <2> QED
    BY <1>2, <2>1, <2>3 DEF Items
<1>6. ASSUME NEW k \in DOMAIN running, NEW r, r = running[k].r
      PROVE  rows'[req[r].row] = Append(Row(r), slots[k])
  <2>1. PICK w \in Rows : w = req[r].row /\ w = running[k].row
    BY <1>4, <1>6, SeatedRow
  <2>2. (CHOOSE j \in DOMAIN running : running[j].row = w) = k
    BY <1>5, <2>1
  <2>3. rows'[w] = Append(Upto(rows[w], running[k].len), slots[k])
    BY <1>1, <2>1, <2>2
  <2>4. rows[w] = Row(r) /\ IsSeq(Row(r)) /\ running[k].len = Len(Row(r))
    BY <1>4, <1>6, <2>1, SeatedRow DEF Row
  <2>5. Upto(rows[w], running[k].len) = Row(r)
    BY <2>4, UptoWhole
  <2> QED
    BY <2>1, <2>3, <2>5
<1>7. ASSUME NEW w \in Rows, \A q \in Reqs : Seated(q) => req[q].row # w
      PROVE  rows'[w] = rows[w]
  <2>1. \A k \in DOMAIN running : running[k].row # w
    BY <1>4, <1>7
  <2> QED
    BY <1>1, <2>1
<1>8. ASSUME NEW q \in Reqs, Active(q) PROVE q \in ReqsOf(running)
  <2>1. Joiners = <<>>
    BY <1>1 DEF Joiners, Launched
  <2>2. ReqsOf(Joiners) = {}
    BY <2>1 DEF ReqsOf
  <2> QED
    BY <1>3, <1>8, <2>2 DEF MemInv, PlacesInv
<1> QED
  BY <1>1, <1>3, <1>4, <1>6, <1>7, <1>8 DEF Stepped

\* Every running request gets one more slot.
LEMMA PrepareMem ==
    ASSUME OrderInv, MemInv, PrepareDecode
    PROVE  MemInv'
<1>1. PICK slots : slots = Taken(free, Len(running))
  OBVIOUS
<1>2. /\ LiveInv /\ QueueInv /\ pc = "step" /\ chunked = None /\ chunked' = chunked
      /\ UNCHANGED <<mode, req, cache, freeRows, last, queue, futureCt, ratio, todo>>
      /\ free' = Rest(free, slots) /\ pc' = "run"
      /\ running' = [k \in DOMAIN running |-> [running[k] EXCEPT !.len = @ + 1]]
      /\ cur'.kind = "decode" /\ cur'.items = running' /\ cur'.loc = slots
  BY <1>1 DEF OrderInv, PrepareDecode, LiveInv, ChunkedInv, NoBatch
<1>3. /\ \A k \in DOMAIN running : Stepped(k, running[k].r, slots)
      /\ \A w \in Rows : (\A q \in Reqs : Seated(q) => req[q].row # w) => rows'[w] = rows[w]
      /\ DOMAIN rows' = Rows
      /\ \A q \in Reqs : Active(q) => Seated(q) /\ q \in ReqsOf(running)
  BY <1>1, SteppedFacts
<1>4. PICK M \in Nat : /\ M = Len(running) /\ DOMAIN running = 1 .. M /\ Items(running)
                       /\ \A k \in 1 .. M : running[k].r \in Reqs
  BY AliveLoop, ItemFacts DEF MemInv
<1>5. /\ DOMAIN running' = 1 .. M /\ Len(running') = M
      /\ \A k \in 1 .. M : /\ running'[k].r = running[k].r /\ running'[k].row = running[k].row
                           /\ running'[k].len = running[k].len + 1
  <2>1. DOMAIN running' = 1 .. M
    BY <1>2, <1>4
  <2>2. running' = [k \in 1 .. M |-> running'[k]]
    BY <1>2, <1>4
  <2>3. Len(running') = M
    BY <2>2, FunctionIsSeq
  <2>4. \A k \in 1 .. M : /\ running'[k].r = running[k].r /\ running'[k].row = running[k].row
                          /\ running'[k].len = running[k].len + 1
    <3> TAKE k \in 1 .. M
    <3>1. DOMAIN running[k] = {"r", "row", "len", "future", "token"}
      BY <1>4 DEF Items, Item
    <3> QED
      BY <1>2, <1>4, <3>1
  <2> QED
    BY <2>1, <2>3, <2>4
<1>6. ASSUME NEW k \in 1 .. M, NEW r, r = running[k].r
      PROVE  /\ r \in Reqs /\ Seated(r) /\ Active(r) /\ req[r].row = running[k].row
             /\ running[k].len = Len(Row(r)) /\ running[k].len >= Len(Prompt[r])
             /\ Row(r)' = Append(Row(r), slots[k])
             /\ IsSeq(Row(r)) /\ Injective(Row(r))
             /\ Owned(r) = ToSet(Row(r)) /\ Held(r) = Row(r)
             /\ DOMAIN Row(r) = 1 .. Len(Row(r)) /\ Len(Row(r)) \in Nat
             /\ req[r].row \in Rows
  <2>1. Stepped(k, r, slots)
    BY <1>3, <1>4, <1>6
  <2>2. Row(r)' = Append(Row(r), slots[k])
    BY <1>2, <2>1 DEF Row, Stepped
  <2> QED
    BY <2>1, <2>2, SeatedRow DEF Stepped
<1>7. ASSUME NEW q \in Reqs
      PROVE  /\ Active(q)' <=> Active(q)
             /\ Seated(q)' <=> Active(q)
             /\ Seated(q) <=> Active(q)
             /\ Held(q)' = (IF Active(q) THEN Row(q)' ELSE req[q].pre)
             /\ Active(q) => \E k \in 1 .. M : running[k].r = q
             /\ ~ Stashed(q)'
             /\ TextLen(q)' = TextLen(q)
  <2>1. ~ Stashed(q)' /\ ~ Stashed(q)
    BY <1>2 DEF Stashed
  <2>2. Active(q)' <=> Active(q)
    BY <1>2 DEF Active
  <2>3. (Seated(q)' <=> Active(q)) /\ (Seated(q) <=> Active(q))
    BY <2>1, <2>2 DEF Seated
  <2>4. Active(q) => \E k \in 1 .. M : running[k].r = q
    BY <1>3, <1>4 DEF ReqsOf
  <2>5. Held(q)' = (IF Active(q) THEN Row(q)' ELSE req[q].pre)
    BY <1>2, <2>3 DEF Held
  <2>6. TextLen(q)' = TextLen(q)
    BY <1>2 DEF TextLen
  <2> QED
    BY <2>1, <2>2, <2>3, <2>4, <2>5, <2>6
<1>8. /\ IsSeq(slots) /\ Injective(slots) /\ Len(slots) = M /\ DOMAIN slots = 1 .. M
      /\ \A s \in ToSet(slots) : s \in There(free)
      /\ NoneTwice(free) /\ DOMAIN free = Slots
  <2>1. NoneTwice(free) /\ DOMAIN free = Slots
    BY Constants, OwnedOnce DEF MemInv, SlotsInv
  <2>2. M <= Count(free) /\ Slots \subseteq Int
    BY <1>2, <1>4, AliveLoop DEF MemInv, RoomInv, Slots
  <2> QED
    BY <1>1, <1>4, <2>1, <2>2, TakenFacts
<1>9. \A k \in 1 .. M : slots[k] \in Slots /\ free[slots[k]] > 0
  BY <1>8 DEF There, ToSet
<1>10. \A x \in Slots : free[x] > 0 => \A q \in Reqs : x \notin Owned(q)
  <2> DEFINE own == [q \in Reqs |-> Owned(q)]
  <2>1. OneOwner(free, Slots, own) /\ \A q \in Reqs : own[q] = Owned(q)
    BY DEF MemInv, SlotsInv
  <2> HIDE DEF own
  <2>2. \A q \in Reqs : \A x \in own[q] : x \in Slots /\ free[x] = 0
    BY <2>1, OwnedOnce, Constants
  <2> QED
    BY <2>1, <2>2
<1>11. ASSUME NEW k \in 1 .. M, NEW r, r = running[k].r
       PROVE  /\ IsSeq(Row(r)') /\ Len(Row(r)') = Len(Row(r)) + 1
              /\ Row(r)'[Len(Row(r)')] = slots[k]
              /\ ToSet(Row(r)') = ToSet(Row(r)) \cup {slots[k]}
              /\ Injective(Row(r)')
  <2>1. /\ Row(r)' = Append(Row(r), slots[k]) /\ IsSeq(Row(r)) /\ Injective(Row(r))
        /\ Owned(r) = ToSet(Row(r)) /\ r \in Reqs
        /\ DOMAIN Row(r) = 1 .. Len(Row(r)) /\ Len(Row(r)) \in Nat
    BY <1>6, <1>11
  <2> DEFINE s == Row(r)
             t == Append(s, slots[k])
             l == Len(s)
  <2>2. /\ IsSeq(t) /\ Len(t) = l + 1 /\ DOMAIN t = 1 .. l + 1
        /\ \A j \in 1 .. l : t[j] = s[j]
        /\ t[l + 1] = slots[k]
    BY <2>1, AppendIsSeq
  <2>3. slots[k] \notin ToSet(s)
    BY <1>9, <1>10, <2>1
  <2>4. l \in Nat /\ DOMAIN s = 1 .. l /\ \A i, j \in 1 .. l : s[i] = s[j] => i = j
    BY <2>1 DEF Injective
  <2> HIDE DEF l, s, t
  <2>5. \A j \in 1 .. l + 1 : j \in 1 .. l \/ j = l + 1
    BY <2>4
  <2>6. \A j \in 1 .. l : j \in 1 .. l + 1
    BY <2>4
  <2>7. l + 1 \in 1 .. l + 1
    BY <2>4
  <2>8. \A j \in 1 .. l : s[j] \in ToSet(s)
    BY <2>4 DEF ToSet
  <2>9. ToSet(t) = ToSet(s) \cup {slots[k]}
    BY <2>2, <2>4, <2>5, <2>6, <2>7 DEF ToSet
  <2>10. Injective(t)
    <3>1. ASSUME NEW i \in 1 .. l + 1, NEW j \in 1 .. l + 1, t[i] = t[j] PROVE i = j
      <4>1. CASE i \in 1 .. l /\ j \in 1 .. l
        BY <2>2, <2>4, <3>1, <4>1
      <4>2. CASE i = l + 1 /\ j \in 1 .. l
        BY <2>2, <2>3, <2>8, <3>1, <4>2
      <4>3. CASE i \in 1 .. l /\ j = l + 1
        BY <2>2, <2>3, <2>8, <3>1, <4>3
      <4> QED
        BY <2>5, <4>1, <4>2, <4>3
    <3> QED
      BY <2>2, <3>1 DEF Injective
  <2>11. Row(r)' = t /\ Len(Row(r)) = l /\ ToSet(Row(r)) = ToSet(s)
    BY <2>1 DEF s, t, l
  <2> QED
    BY <2>2, <2>9, <2>10, <2>11
<1>12. /\ Pending' = (IF mode.overlap THEN Pending ELSE cur')
       /\ After = NoBatch /\ After' = (IF mode.overlap THEN cur' ELSE NoBatch)
       /\ ~ mode.overlap => Pending = NoBatch
       /\ NoBatch.items = <<>> /\ NoBatch.kind = "none" /\ DOMAIN NoBatch.items = {}
       /\ Len(NoBatch.items) = 0
  <2>1. cur = NoBatch
    BY <1>2 DEF QueueInv, Launched
  <2>2. NoBatch.items = <<>> /\ NoBatch.kind = "none"
    BY DEF NoBatch
  <2> QED
    BY <1>2, <2>1, <2>2 DEF Pending, After
<1>13. /\ Items(Pending.items) /\ DOMAIN Pending.items = 1 .. Len(Pending.items)
       /\ Len(Pending.items) \in Nat /\ todo \in 0 .. Len(Pending.items)
       /\ \A k \in DOMAIN Pending.items : Pending.items[k].r \in Reqs
       /\ todo = 0
  <2>1. todo = 0
    BY <1>2 DEF LiveInv, TypesInv, BatchesType
  <2> QED
    BY <2>1, AliveLoop, ItemFacts DEF MemInv
<1>14. \A k \in DOMAIN cur'.items : /\ k \in 1 .. M /\ cur'.items[k].r = running[k].r
                                    /\ Active(running[k].r)
  BY <1>2, <1>5, <1>6
<1>15. ASSUME NEW q \in Reqs, ~ Active(q) PROVE Late(q)' = Late(q)
  <2>1. Places0(q)' = Places0(q)
    <3>1. CASE mode.overlap
      BY <1>2, <1>12, <3>1 DEF Places0
    <3>2. CASE ~ mode.overlap
      <4>1. Places0(q) = {}
        BY <1>12, <1>13, <3>2 DEF Places0
      <4>2. \A k \in DOMAIN Pending'.items : Pending'.items[k].r # q
        BY <1>12, <1>14, <1>15, <3>2
      <4>3. Places0(q)' \subseteq DOMAIN Pending'.items
        <5>1. Pending'.items = running' /\ todo' = 0
          BY <1>2, <1>12, <1>13, <3>2
        <5>2. \A k \in 0 + 1 .. M : k \in 1 .. M
          OBVIOUS
        <5> QED
          BY <1>5, <5>1, <5>2 DEF Places0
      <4>4. Places0(q)' = {}
        BY <4>2, <4>3 DEF Places0
      <4> QED
        BY <4>1, <4>4
    <3> QED
      BY <3>1, <3>2
  <2>2. Places1(q) = {} /\ Places1(q)' = {}
    <3>1. Places1(q) = {}
      BY <1>12 DEF Places1
    <3>2. \A k \in DOMAIN After'.items : After'.items[k].r # q
      BY <1>12, <1>14, <1>15
    <3> QED
      BY <3>1, <3>2 DEF Places1
  <2>3. ASSUME NEW k \in Places0(q) PROVE LateSlot(k)' = LateSlot(k)
    <3>1. mode.overlap /\ Pending' = Pending
      <4>1. Places0(q) # {}
        BY <2>3
      <4>2. ~ mode.overlap => Places0(q) = {}
        BY <1>12, <1>13 DEF Places0
      <4> QED
        BY <1>12, <4>1, <4>2
    <3>2. k \in todo + 1 .. Len(Pending.items) /\ Pending.items[k].r = q
      BY <2>3 DEF Places0
    <3>3. Pending.kind = "extend" =>
             /\ Pending.items[k].row \in Rows
             /\ \A p \in Reqs : Seated(p) => req[p].row # Pending.items[k].row
      BY <1>15, <3>2 DEF MemInv, LateOldInv
    <3>4. Pending.kind = "extend" => rows'[Pending.items[k].row] = rows[Pending.items[k].row]
      BY <1>3, <3>3
    <3>5. Pending.kind \in {"extend", "decode"}
      <4>1. BatchType(Pending) /\ Pending.items # <<>>
        <5>1. k \in 1 .. Len(Pending.items)
          BY <1>13, <3>2
        <5>2. Len(Pending.items) # 0
          BY <1>13, <5>1
        <5>3. Pending.items # <<>>
          BY <1>12, <1>13, <5>1
        <5> QED
          BY <1>2, <5>3 DEF LiveInv, TypesInv, BatchesType
      <4>2. Pending.kind # "none"
        <5>1. Pending.kind = "none" => Pending = NoBatch
          <6>1. CASE queue = <<Pending>> /\ last.kind # "none" /\ Same(last, Pending)
            BY <6>1 DEF Same
          <6>2. CASE last.kind = "none"
            BY <3>1, <6>2 DEF Pending
          <6>3. ~ JustLaunched
            BY <1>2 DEF JustLaunched
          <6> QED
            BY <1>2, <3>1, <6>1, <6>2, <6>3 DEF QueueInv, QueueShape
        <5> QED
          BY <1>12, <4>1, <5>1
      <4> QED
        BY <4>1, <4>2 DEF BatchType
    <3> QED
      BY <1>2, <3>1, <3>2, <3>4, <3>5 DEF LateSlot
  <2> DEFINE A == {ToSet(LateSlot(k)) : k \in Places0(q)}
             B == {After.loc[k] : k \in Places1(q)}
  <2>4. A' = A
    BY <2>1, <2>3
  <2>5. B' = {} /\ B = {}
    BY <2>2
  <2>6. Late(q) = (UNION A) \cup B /\ Late(q)' = (UNION A') \cup B'
    BY DEF Late
  <2> HIDE DEF A, B
  <2> QED
    BY <2>4, <2>5, <2>6
<1>16. SlotsInv'
  <2> DEFINE own == [q \in Reqs |-> Owned(q)]
             own2 == [q \in Reqs |-> Owned(q)']
             more == [q \in Reqs |-> {s \in ToSet(slots) : \E k \in 1 .. M :
                                          running[k].r = q /\ s = slots[k]}]
  <2>1. \A i, j \in 1 .. M : /\ running[i].r = running[j].r => i = j
                             /\ slots[i] = slots[j] => i = j
    BY <1>4, <1>8 DEF Items, Injective
  <2>2. ASSUME NEW q \in Reqs PROVE own2[q] = own[q] \cup more[q]
    <3>1. CASE Active(q)
      <4>1. PICK k \in 1 .. M : running[k].r = q
        BY <1>7, <3>1
      <4>2. own[q] = ToSet(Row(q)) /\ own2[q] = ToSet(Row(q)')
        <5>1. Owned(q) = ToSet(Row(q))
          BY <1>6, <4>1
        <5>2. Owned(q)' = ToSet(Row(q)')
          BY <1>7, <3>1 DEF Owned, ToSet
        <5> QED
          BY <5>1, <5>2
      <4>3. more[q] = {slots[k]}
        <5>1. slots[k] \in ToSet(slots)
          BY <1>8 DEF ToSet
        <5> QED
          BY <2>1, <4>1, <5>1
      <4>4. ToSet(Row(q)') = ToSet(Row(q)) \cup {slots[k]}
        BY <1>11, <4>1
      <4> QED
        BY <4>2, <4>3, <4>4
    <3>2. CASE ~ Active(q)
      <4>1. more[q] = {}
        BY <1>6, <3>2
      <4>2. own[q] = Late(q) /\ own2[q] = Late(q)'
        BY <1>7, <3>2 DEF Owned
      <4> QED
        BY <1>15, <3>2, <4>1, <4>2
    <3> QED
      BY <3>1, <3>2
  <2>3. \A q \in Reqs : more[q] \subseteq ToSet(slots)
    OBVIOUS
  <2>4. ASSUME NEW q \in Reqs, NEW r \in Reqs, NEW x \in more[q], x \in more[r] PROVE q = r
    BY <2>1, <2>4
  <2>5. ASSUME NEW x \in ToSet(slots) PROVE \E r \in Reqs : x \in more[r]
    <3>1. PICK k \in 1 .. M : x = slots[k]
      BY <1>8 DEF ToSet
    <3> QED
      BY <1>4, <3>1
  <2>6. OneOwner(free, Slots, own) /\ IsFiniteSet(Slots)
    BY Constants DEF MemInv, SlotsInv
  <2> HIDE DEF more, own, own2
  <2>7. OneOwner(Rest(free, slots), Slots, own2)
    BY <1>8, <2>2, <2>3, <2>4, <2>5, <2>6, IsGiven
  <2>8. ASSUME NEW q \in Reqs, Active(q)' PROVE Injective(Held(q)')
    BY <1>7, <1>11, <2>8
  <2> QED
    BY <1>2, <2>7, <2>8 DEF SlotsInv, Slots, Injective, own2
<1>17. RowsInv'
  <2>1. \A q \in Reqs : Seat(q)' = Seat(q)
    BY <1>2, <1>7 DEF Seat
  <2>2. OneOwner(freeRows, Rows, [q \in Reqs |-> Seat(q)])'
    <3>1. [q \in Reqs |-> Seat(q)]' = [q \in Reqs |-> Seat(q)]
      BY <2>1
    <3> QED
      BY <1>2, <3>1 DEF MemInv, RowsInv, OneOwner, Rows
  <2>3. ASSUME NEW w \in Rows PROVE IsSeq(rows'[w]) /\ ToSet(rows'[w]) \subseteq Slots
    <3>1. CASE \E q \in Reqs : Seated(q) /\ req[q].row = w
      <4>1. PICK q \in Reqs : Seated(q) /\ req[q].row = w
        BY <3>1
      <4>2. PICK k \in 1 .. M : running[k].r = q
        BY <1>7, <4>1
      <4>3. Row(q)' = rows'[w]
        BY <1>2, <4>1 DEF Row
      <4>4. ToSet(Row(q)) \subseteq Slots
        BY <4>1, SeatedRow
      <4>5. IsSeq(Row(q)') /\ ToSet(Row(q)') = ToSet(Row(q)) \cup {slots[k]}
        BY <1>11, <4>2
      <4>6. slots[k] \in Slots
        BY <1>9
      <4>7. ToSet(Row(q)') = ToSet(rows'[w])
        BY <4>3
      <4> QED
        BY <4>3, <4>4, <4>5, <4>6, <4>7
    <3>2. CASE ~ \E q \in Reqs : Seated(q) /\ req[q].row = w
      BY <1>3, <3>2 DEF MemInv, RowsInv
    <3> QED
      BY <3>1, <3>2
  <2> QED
    BY <1>2, <1>3, <2>2, <2>3 DEF MemInv, RowsInv, Rows, Slots
<1>18. FillInv'
  <2>1. ASSUME NEW q \in Reqs
        PROVE  /\ ~ Active(q)' => req'[q].pre = <<>>
               /\ ToSet(req'[q].pre) \subseteq Slots
               /\ Len(req'[q].pre) <= req'[q].fill /\ req'[q].fill <= TextLen(q)'
               /\ Seated(q)' => req'[q].fill <= Len(Row(q)')
               /\ ~ Stashed(q)' /\ q # chunked'
    <3>1. /\ ~ Active(q) => req[q].pre = <<>>
          /\ ToSet(req[q].pre) \subseteq Slots
          /\ Len(req[q].pre) <= req[q].fill /\ req[q].fill <= TextLen(q)
          /\ Seated(q) => req[q].fill <= Len(Row(q))
      BY DEF MemInv, FillInv
    <3>2. Active(q) => Len(Row(q)') = Len(Row(q)) + 1 /\ Len(Row(q)) \in Nat
      BY <1>6, <1>7, <1>11
    <3>3. req[q].fill \in Int
      BY ReqFacts DEF MemInv
    <3>4. q # chunked'
      BY <1>2, Constants
    <3> QED
      BY <1>2, <1>7, <3>1, <3>2, <3>3, <3>4
  <2> QED
    BY <1>2, <2>1 DEF FillInv, Slots
<1>19. Joiners' = <<>> /\ Extra' = 0 /\ ReqsOf(Joiners)' = {} /\ ToSet(Joiners)' = {}
  <2>1. Joiners' = <<>>
    BY <1>2 DEF Joiners, Launched
  <2>2. Extra' = 0
    BY <1>2, <2>1 DEF Extra
  <2> QED
    BY <2>1, <2>2 DEF ReqsOf, ToSet
<1>20. M <= MaxRunning /\ Len(Pending.items) <= MaxRunning
  <2>1. Len(running) + Extra <= MaxRunning /\ Len(Pending.items) <= MaxRunning
    BY DEF MemInv, PlacesInv
  <2>2. Joiners = <<>>
    BY <1>2 DEF Joiners, Launched
  <2>3. Extra = 0
    BY <1>2, <2>2 DEF Extra
  <2> QED
    BY <1>4, <2>1, <2>3
<1>21. PlacesInv'
  <2>1. Len(Pending'.items) <= MaxRunning /\ Len(cur'.items) <= MaxRunning
    BY <1>2, <1>5, <1>12, <1>20
  <2>2. ASSUME NEW q \in Reqs, Seated(q)' PROVE q \in ReqsOf(running)'
    <3>1. PICK k \in 1 .. M : running[k].r = q
      BY <1>7, <2>2
    <3> QED
      BY <1>5, <3>1 DEF ReqsOf
  <2>3. ASSUME NEW i \in ToSet(running')
        PROVE  i.row = req'[i.r].row /\ i.len = Len(Row(i.r)') /\ i.len >= Len(Prompt[i.r])
    <3>1. PICK k \in 1 .. M : i = running'[k]
      BY <1>5, <2>3 DEF ToSet
    <3>2. PICK r \in Reqs : r = running[k].r
      BY <1>4
    <3>3. i.r = r /\ i.row = running[k].row /\ i.len = running[k].len + 1
      BY <1>5, <3>1, <3>2
    <3>4. /\ req[r].row = running[k].row /\ running[k].len = Len(Row(r)) /\ Len(Row(r)) \in Nat
          /\ running[k].len >= Len(Prompt[r])
      BY <1>6, <3>2
    <3>5. Len(Row(r)') = Len(Row(r)) + 1
      BY <1>11, <3>2
    <3>6. Len(Prompt[r]) \in Nat
      BY Constants
    <3> QED
      BY <1>2, <3>3, <3>4, <3>5, <3>6
  <2>4. Len(running') + Extra' <= MaxRunning
    BY <1>5, <1>19, <1>20
  <2> QED
    BY <1>19, <2>1, <2>2, <2>3, <2>4 DEF PlacesInv, ToSet
<1>22. ASSUME NEW k \in 1 .. M, NEW r, r = running[k].r
       PROVE  /\ cur'.items[k].r = r /\ k \in DOMAIN cur'.loc
              /\ cur'.items[k].len > Len(Prompt[r])
              /\ cur'.loc[k] = Row(r)'[Len(Row(r)')]
              /\ Active(r)'
  <2>1. /\ r \in Reqs /\ Active(r) /\ running[k].len \in Nat
        /\ running[k].len >= Len(Prompt[r])
    BY <1>6, <1>22
  <2>2. cur'.items[k].r = r /\ cur'.items[k].len = running[k].len + 1
    BY <1>2, <1>5, <1>22
  <2>3. Len(Prompt[r]) \in Nat
    BY <2>1, Constants
  <2>4. cur'.loc[k] = Row(r)'[Len(Row(r)')]
    BY <1>2, <1>11, <1>22
  <2>5. Active(r)'
    BY <1>7, <2>1
  <2> QED
    BY <1>2, <1>8, <2>1, <2>2, <2>3, <2>4, <2>5
<1>23. \A q \in Reqs : Active(q) /\ mode.overlap => New(q)'
  <2> SUFFICES ASSUME NEW q \in Reqs, Active(q), mode.overlap PROVE New(q)'
    OBVIOUS
  <2>1. PICK k \in 1 .. M : running[k].r = q
    BY <1>7
  <2>2. After'.items = running'
    BY <1>2, <1>12
  <2> QED
    BY <1>5, <2>1, <2>2 DEF New, ReqsOf
<1>24. LateOldInv'
  <2>1. CASE mode.overlap
    <3>1. mode' = mode /\ todo' = todo /\ Pending' = Pending
      BY <1>2, <1>12, <2>1
    <3>2. ASSUME NEW k \in todo + 1 .. Len(Pending.items), NEW i, i = Pending.items[k],
                 NEW r, r = i.r
          PROVE  /\ ~ Active(r)' => mode'.overlap /\ Delayed(i)'
                 /\ Pending'.kind = "decode" =>
                     /\ k \in DOMAIN Pending'.loc
                     /\ i.len > Len(Prompt[r])
                     /\ Seated(r)' => New(r)'
                 /\ Pending'.kind = "extend" /\ ~ Partial(Pending', r) /\ Seated(r)' =>
                     i.row = req'[r].row
                 /\ Pending'.kind = "extend" /\ ~ Active(r)' =>
                     /\ i.row \in Rows
                     /\ req'[r].out > 0 => Len(rows'[i.row]) = TextLen(r)'
                     /\ \A q \in Reqs : Seated(q)' => req'[q].row # i.row
      <4>1. /\ ~ Active(r) => mode.overlap /\ Delayed(i)
            /\ Pending.kind = "decode" =>
                  /\ k \in DOMAIN Pending.loc
                  /\ i.len > Len(Prompt[r])
            /\ Pending.kind = "extend" /\ ~ Partial(Pending, r) /\ Seated(r) =>
                  i.row = req[r].row
            /\ Pending.kind = "extend" /\ ~ Active(r) =>
                  /\ i.row \in Rows
                  /\ req[r].out > 0 => Len(rows[i.row]) = TextLen(r)
                  /\ \A q \in Reqs : Seated(q) => req[q].row # i.row
        BY <3>2 DEF MemInv, LateOldInv
      <4>2. r \in Reqs
        <5>1. k \in DOMAIN Pending.items
          BY <1>13
        <5> QED
          BY <1>13, <3>2, <5>1
      <4>3. Delayed(i)' <=> Delayed(i)
        BY <1>2, <3>1 DEF Delayed
      <4>4. Seated(r)' => New(r)'
        BY <1>7, <1>23, <2>1, <4>2
      <4>5. Pending'.kind = "extend" /\ ~ Active(r)' => rows'[i.row] = rows[i.row]
        BY <1>3, <1>7, <3>1, <4>1, <4>2
      <4>6. \A q \in Reqs : Seated(q)' => Seated(q) /\ req'[q].row = req[q].row
        BY <1>2, <1>7
      <4>7. Partial(Pending', r) <=> Partial(Pending, r)
        BY <3>1 DEF Partial
      <4>8. (Active(r)' <=> Active(r)) /\ (Seated(r)' <=> Seated(r)) /\ TextLen(r)' = TextLen(r)
        BY <1>7, <4>2
      <4> QED
        BY <1>2, <3>1, <4>1, <4>3, <4>4, <4>5, <4>6, <4>7, <4>8
    <3>3. ASSUME NEW k \in todo + 1 .. Len(Pending.items)
          PROVE  (~ Active(Pending.items[k].r) => mode.overlap /\ Delayed(Pending.items[k]))'
      BY <3>1, <3>2
    <3>4. ASSUME NEW k \in todo + 1 .. Len(Pending.items)
          PROVE  (Pending.kind = "decode" =>
                     /\ k \in DOMAIN Pending.loc
                     /\ Pending.items[k].len > Len(Prompt[Pending.items[k].r])
                     /\ Seated(Pending.items[k].r) /\ ~ New(Pending.items[k].r) =>
                          Pending.loc[k] = Row(Pending.items[k].r)[Len(Row(Pending.items[k].r))])'
      BY <3>1, <3>2
    <3>5. ASSUME NEW k \in todo + 1 .. Len(Pending.items)
          PROVE  (Pending.kind = "extend" /\ ~ Partial(Pending, Pending.items[k].r)
                    /\ Seated(Pending.items[k].r) =>
                     Pending.items[k].row = req[Pending.items[k].r].row)'
      BY <3>1, <3>2 DEF Partial
    <3>6. ASSUME NEW k \in todo + 1 .. Len(Pending.items)
          PROVE  (Pending.kind = "extend" /\ ~ Active(Pending.items[k].r) =>
                     /\ Pending.items[k].row \in Rows
                     /\ req[Pending.items[k].r].out > 0 =>
                          Len(rows[Pending.items[k].row]) = TextLen(Pending.items[k].r)
                     /\ \A q \in Reqs : Seated(q) => req[q].row # Pending.items[k].row)'
      BY <3>1, <3>2 DEF Rows
    <3> QED
      BY <3>1, <3>3, <3>4, <3>5, <3>6 DEF LateOldInv
  <2>2. CASE ~ mode.overlap
    <3>1. Pending' = cur' /\ Len(cur'.items) = M /\ todo' = 0 /\ cur'.kind = "decode"
      BY <1>2, <1>5, <1>12, <1>13, <2>2
    <3>2. ASSUME NEW k \in 0 + 1 .. M
          PROVE  (/\ Active(Pending.items[k].r)
                  /\ k \in DOMAIN Pending.loc
                  /\ Pending.items[k].len > Len(Prompt[Pending.items[k].r])
                  /\ Pending.loc[k] = Row(Pending.items[k].r)[Len(Row(Pending.items[k].r))])'
      <4>1. PICK r : r = running[k].r
        OBVIOUS
      <4>2. /\ cur'.items[k].r = r /\ k \in DOMAIN cur'.loc
            /\ cur'.items[k].len > Len(Prompt[r])
            /\ cur'.loc[k] = Row(r)'[Len(Row(r)')]
            /\ Active(r)'
        BY <1>22, <4>1
      <4> QED
        BY <3>1, <4>2
    <3> QED
      BY <3>1, <3>2 DEF LateOldInv
  <2> QED
    BY <2>1, <2>2
<1>25. LateNewInv'
  <2>1. CASE mode.overlap
    <3>1. After' = cur' /\ DOMAIN cur'.items = 1 .. M /\ cur'.kind = "decode"
      BY <1>2, <1>5, <1>12, <2>1
    <3>2. ASSUME NEW k \in 1 .. M
          PROVE  (/\ k \in DOMAIN After.loc
                  /\ After.items[k].len > Len(Prompt[After.items[k].r])
                  /\ After.loc[k] = Row(After.items[k].r)[Len(Row(After.items[k].r))]
                  /\ Active(After.items[k].r))'
      BY <1>22, <3>1
    <3> QED
      BY <3>1, <3>2 DEF LateNewInv
  <2>2. CASE ~ mode.overlap
    <3>1. DOMAIN After'.items = {}
      BY <1>12, <2>2
    <3> QED
      BY <3>1 DEF LateNewInv
  <2> QED
    BY <2>1, <2>2
<1>26. RoomInv'
  <2>1. ~ SomeLate'
    <3>1. SomeLate' => \E k \in DOMAIN After'.items : req'[After'.items[k].r].st # "active"
      BY <1>2 DEF SomeLate, Active, Planning
    <3>2. ASSUME NEW k \in DOMAIN After'.items PROVE req'[After'.items[k].r].st = "active"
      <4>1. After' = cur' /\ k \in 1 .. M
        BY <1>12, <1>14
      <4> QED
        BY <1>22, <4>1 DEF Active
    <3> QED
      BY <3>1, <3>2
  <2> QED
    BY <1>2, <2>1 DEF RoomInv
<1>27. CacheInv'
  <2>1. [q \in Reqs |-> Len(req[q].pre)]' = [q \in Reqs |-> Len(req[q].pre)]
    BY <1>2
  <2> QED
    BY <1>2, <2>1 DEF MemInv, CacheInv
<1>28. CountersInv'
  BY <1>2 DEF MemInv, CountersInv, FutureLimit
<1> QED
  BY <1>2, <1>16, <1>17, <1>18, <1>21, <1>24, <1>25, <1>26, <1>27, <1>28 DEF MemInv

\* How long the row of a request is that may be retracted, and which of its
\* slots is in flight.
LEMMA RetractRow ==
    ASSUME OrderInv, MemInv, pc = "retract", NEW k \in DOMAIN running,
           NEW r, r = running[k].r
    PROVE  /\ r \in Reqs /\ Seated(r) /\ req[r].row = running[k].row
           /\ Len(Row(r)) >= Len(Prompt[r])
           /\ ~ (Old(r) /\ Partial(Pending, r)) /\ ~ New(r)
           /\ Len(Row(r)) = Len(Prompt[r]) + req[r].out - 1 + One(Old(r))
           /\ req[r].out + 1 <= MaxNew(r)
<1>1. /\ LiveInv /\ QueueInv /\ chunked = None /\ Items(running)
      /\ running[k].r \in Reqs /\ running[k].len \in Int
  BY ItemFacts DEF OrderInv, LiveInv, TypesInv, BatchesType, ChunkedInv
<1>2. r \in Reqs /\ Active(r) /\ Follows(running[k]) /\ req[r].chunks = 0
  BY <1>1 DEF LiveInv, RunningInv, Active
<1>3. Seated(r) /\ r # chunked
  BY <1>1, <1>2, Constants DEF Seated, Stashed
<1>4. /\ req[r].row = running[k].row /\ running[k].len = Len(Row(r))
      /\ running[k].len >= Len(Prompt[r])
  <2>1. running[k] \in ToSet(running)
    BY DEF ToSet
  <2> QED
    BY <1>3, <2>1 DEF MemInv, PlacesInv
<1>5. \A q : ~ New(q)
  BY <1>1, NothingNew
<1>6. ~ (Old(r) /\ Partial(Pending, r))
  <2>1. Chunks(r) = 0
    BY <1>1, <1>2 DEF LiveInv, ActiveInv, Active
  <2> QED
    BY <1>5, <2>1 DEF Chunks, One
<1>7. Due(r) = One(Old(r))
  BY <1>5, <1>6 DEF Due, One
<1>8. running[k].len = Len(Prompt[r]) + req[r].out - 1 + Due(r)
  BY <1>2 DEF Follows, Active
<1>9. req[r].out + 1 <= MaxNew(r)
  <2>1. req[r].out \in Nat /\ MaxNew(r) \in Nat /\ req[r].out < MaxNew(r)
    BY <1>2, ReqFacts DEF MemInv, Active
  <2> QED
    BY <2>1
<1> QED
  BY <1>2, <1>3, <1>4, <1>5, <1>6, <1>7, <1>8, <1>9

\* The last of the running requests always finds a slot: if none is free, all
\* are its own, and it is not allowed to need that many.
LEMMA LastHasRoom ==
    ASSUME OrderInv, MemInv, pc = "retract", Len(running) = 1
    PROVE  Count(free) > 0
<1>1. PICK r : r = running[1].r
  OBVIOUS
<1>2. Items(running) /\ 1 \in DOMAIN running /\ DOMAIN running = 1 .. 1
  BY AliveLoop, ItemFacts DEF MemInv
<1>3. /\ r \in Reqs /\ Seated(r)
      /\ Len(Row(r)) = Len(Prompt[r]) + req[r].out - 1 + One(Old(r))
      /\ req[r].out + 1 <= MaxNew(r)
  BY <1>1, <1>2, RetractRow
<1>4. \A q \in Reqs : Active(q) => q = r
  <2>1. Joiners = <<>>
    BY DEF Joiners, Launched
  <2>2. ReqsOf(Joiners) = {} /\ ReqsOf(running) = {r}
    BY <1>1, <1>2, <2>1 DEF ReqsOf
  <2>3. \A q \in Reqs : Active(q) => Seated(q)
    <3>1. chunked = None
      BY AliveLoop DEF MemInv, LiveInv, ChunkedInv
    <3> QED
      BY <3>1 DEF Seated, Stashed
  <2> QED
    BY <2>2, <2>3 DEF MemInv, PlacesInv
<1> SUFFICES ASSUME ~ Count(free) > 0 PROVE FALSE
  OBVIOUS
<1>5. \A q \in Reqs : ~ Active(q) => Late(q) = {}
  <2> SUFFICES ASSUME NEW q \in Reqs, ~ Active(q) PROVE Late(q) = {}
    OBVIOUS
  <2>1. ~ SomeLate
    BY DEF MemInv, RoomInv
  <2>2. Places0(q) = {}
    BY <2>1 DEF SomeLate, Places0
  <2>3. Places1(q) = {}
    <3>1. \A p : ~ New(p)
      BY AliveLoop, NothingNew DEF MemInv
    <3> QED
      BY <3>1 DEF New, Places1, ReqsOf
  <2> DEFINE A == {ToSet(LateSlot(k)) : k \in Places0(q)}
             B == {After.loc[k] : k \in Places1(q)}
  <2>4. A = {} /\ B = {}
    BY <2>2, <2>3
  <2>5. Late(q) = (UNION A) \cup B
    BY DEF Late
  <2> HIDE DEF A, B
  <2> QED
    BY <2>4, <2>5
<1>6. Slots \subseteq ToSet(Row(r))
  <2> SUFFICES ASSUME NEW x \in Slots PROVE x \in ToSet(Row(r))
    OBVIOUS
  <2>1. NoneTwice(free) /\ DOMAIN free = Slots
    BY Constants, OwnedOnce DEF MemInv, SlotsInv
  <2>2. x \notin There(free)
    <3>1. Count(free) = Cardinality(There(free)) /\ IsFiniteSet(There(free))
      BY <2>1, CountThere
    <3>2. Cardinality(There(free)) = 0
      <4>1. Cardinality(There(free)) \in Nat
        BY <3>1, FS_CardinalityType
      <4> QED
        BY <3>1, <4>1
    <3> QED
      BY <3>1, <3>2, FS_EmptySet
  <2>3. free[x] # 1
    BY <2>1, <2>2 DEF There
  <2>4. \E q \in Reqs : x \in Owned(q)
    <3> DEFINE own == [q \in Reqs |-> Owned(q)]
    <3>1. OneOwner(free, Slots, own) /\ \A q \in Reqs : own[q] = Owned(q)
      BY DEF MemInv, SlotsInv
    <3> HIDE DEF own
    <3> QED
      BY <2>3, <3>1 DEF OneOwner, One
  <2>5. PICK q \in Reqs : x \in Owned(q)
    BY <2>4
  <2>6. Active(q)
    BY <1>5, <2>5 DEF Owned
  <2> QED
    BY <1>3, <1>4, <2>5, <2>6, SeatedRow
<1>7. Size <= Len(Row(r))
  <2>1. IsFiniteSet(ToSet(Row(r))) /\ Cardinality(ToSet(Row(r))) = Len(Row(r))
    BY <1>3, SeatedRow, InjectiveCard
  <2>2. Cardinality(Slots) = Size
    BY Constants, FS_Interval DEF Slots
  <2> QED
    BY <1>6, <2>1, <2>2, FS_Subset
<1>8. Len(Row(r)) < Size
  <2> DEFINE l == Len(Row(r))
             p == Len(Prompt[r])
             m == MaxNew(r)
             o == req[r].out
             d == One(Old(r))
  <2>1. p \in Nat /\ m \in Nat /\ Size \in Nat
    BY <1>3, Constants
  <2>2. m \in 1 .. Size - 2 - p
    BY <1>3, SchedulerAssumption
  <2>3. o \in Nat /\ l = p + o - 1 + d /\ o + 1 <= m
    BY <1>3, ReqFacts DEF MemInv
  <2>4. d \in {0, 1}
    BY DEF One
  <2> HIDE DEF l, p, m, o, d
  <2>5. l < Size
    BY <2>1, <2>2, <2>3, <2>4
  <2> QED
    BY <2>5 DEF l
<1>9. Len(Row(r)) \in Nat /\ Size \in Nat
  BY <1>3, SeatedRow, Constants
<1> QED
  BY <1>7, <1>8, <1>9

\* Nobody else is left to be retracted.
LEMMA RetractLastMem ==
    ASSUME OrderInv, MemInv, Retract, Len(running) = 1
    PROVE  MemInv'
<1>1. /\ LiveInv /\ QueueInv /\ pc = "retract" /\ chunked = None
      /\ UNCHANGED <<req, memory, running>> /\ ratio' \in Ratios
      /\ UNCHANGED <<mode, chunked, last, cur, queue, adder, futureCt, todo>>
      /\ pc' = IF Count(free) > 0 THEN "step" ELSE "dead"
  BY RetractRatioKind DEF Retract, OrderInv, LiveInv, ChunkedInv
<1>2. Count(free) > 0 /\ pc' = "step"
  BY <1>1, LastHasRoom
<1>3. Frame
  <2>1. Pending' = Pending /\ After' = After
    BY <1>1 DEF Pending, After
  <2>2. \A b : AlikeBatch(b, b)
    BY DEF AlikeBatch
  <2>3. \A q \in Reqs : KeepsPlace(q)
    BY <1>1, <1>2 DEF KeepsPlace, Active, Stashed
  <2> QED
    BY <1>1, <2>1, <2>2, <2>3 DEF Frame, memory
<1>4. SlotsInv' /\ RowsInv' /\ LateOldInv' /\ LateNewInv'
  BY <1>1, <1>3, FrameHolds, FrameFlight DEF MemInv
<1>5. FillInv'
  BY <1>1, <1>2, <1>3, FillFrame
<1>6. Joiners = <<>> /\ Joiners' = <<>> /\ Extra = 0 /\ Extra' = 0
  <2>1. Joiners = <<>> /\ Joiners' = <<>>
    BY <1>1, <1>2 DEF Joiners, Launched
  <2> QED
    BY <1>1, <1>2, <2>1 DEF Extra
<1>7. PlacesInv'
  <2>1. AllItems' = AllItems
    BY <1>1, <1>6 DEF AllItems, ToSet
  <2>2. ReqsOf(running)' = ReqsOf(running) /\ ReqsOf(Joiners)' = ReqsOf(Joiners)
    BY <1>1, <1>6 DEF ReqsOf
  <2>3. Len(running') + Extra' <= MaxRunning /\ Len(cur'.items) <= MaxRunning
    BY <1>1, <1>6 DEF MemInv, PlacesInv
  <2> QED
    BY <1>1, <1>3, <2>1, <2>2, <2>3, PlacesFrame
<1>8. RoomInv'
  <2>1. ~ SomeLate'
    BY <1>2 DEF SomeLate, Planning, Launched
  <2>2. Count(free)' >= Len(running')
    <3>1. Count(free)' = Count(free) /\ Count(free) \in Nat /\ Len(running') = 1
      BY <1>1, AliveLoop DEF MemInv, memory, Count
    <3> QED
      BY <1>2, <3>1
  <2> QED
    BY <1>1, <1>2, <2>1, <2>2 DEF RoomInv
<1>9. CacheInv'
  BY <1>1, CacheFrame DEF MemInv, memory
<1>10. CountersInv'
  BY <1>1, <1>2, SchedulerAssumption DEF MemInv, CountersInv, FutureLimit
<1> QED
  BY <1>2, <1>4, <1>5, <1>7, <1>8, <1>9, <1>10 DEF MemInv

\* How many slots a request gives back that leaves its batch.
LEMMA StoredIs ==
    ASSUME NEW r \in Reqs, NEW rec, rec.out \in Nat
    PROVE  Stored(r, rec) = Len(Prompt[r]) + (IF rec.out > 0 THEN rec.out - 1 ELSE 0)
<1>1. Max({rec.out - 1, 0}) = IF rec.out > 0 THEN rec.out - 1 ELSE 0
  <2> DEFINE o == rec.out
             T == {o - 1, 0}
  <2>1. o \in Nat
    OBVIOUS
  <2>2. IsFiniteSet(T) /\ T \subseteq Int /\ T # {}
    <3>1. IsFiniteSet({0})
      BY FS_Singleton
    <3>2. T = {0} \cup {o - 1}
      OBVIOUS
    <3> QED
      BY <2>1, <3>1, <3>2, FS_AddElement
  <2>3. Max(T) \in T /\ \A y \in T : y <= Max(T)
    BY <2>2, MaxFacts
  <2>4. Max(T) = IF o > 0 THEN o - 1 ELSE 0
    BY <2>1, <2>3
  <2> QED
    BY <2>4
<1> QED
  BY <1>1 DEF Stored

\* What cache_finished_req does with ChunkCache: it frees the slots that are stored in
\* the row, and the prefix is no longer protected.
LEMMA ReleaseFacts ==
    ASSUME OrderInv, MemInv, NEW r \in Reqs, NEW rec, rec.row = req[r].row,
           rec.pre = req[r].pre, NEW insert
    PROVE  /\ CacheFinished(r, rec, insert).cache
                = [cache EXCEPT !.protected = @ - Len(req[r].pre)]
           /\ CacheFinished(r, rec, insert).free = Freed(free, Upto(Row(r), Stored(r, rec)))
<1>1. ~ mode.radix
  BY DEF MemInv, CacheInv
<1> QED
  BY <1>1 DEF CacheFinished, Row

\* The cache no longer keeps what it kept for a request.
LEMMA CacheReleases ==
    ASSUME OrderInv, MemInv, NEW r \in Reqs, mode' = mode,
           DOMAIN cache'.tree = {}, cache'.evictable = 0,
           cache'.protected = cache.protected - Len(req[r].pre),
           req'[r].pre = <<>>, \A q \in Reqs : q # r => req'[q].pre = req[q].pre
    PROVE  CacheInv'
<1> DEFINE old == [q \in Reqs |-> Len(req[q].pre)]
           new == [q \in Reqs |-> Len(req'[q].pre)]
<1>1. Sums(cache.protected, old)
  BY DEF MemInv, CacheInv
<1>2. \A q \in Reqs : old[q] \in Nat
  BY ReqFacts DEF MemInv
<1>3. old[r] = Len(req[r].pre) /\ new[r] = 0
  OBVIOUS
<1>4. \A q \in Reqs : q # r => new[q] = old[q]
  OBVIOUS
<1>5. DOMAIN old = Reqs /\ DOMAIN new = Reqs
  OBVIOUS
<1>6. ~ mode.radix
  BY DEF MemInv, CacheInv
<1> HIDE DEF old, new
<1>7. cache.protected \in Nat /\ Sums(cache.protected - old[r] + new[r], new)
  BY <1>1, <1>2, <1>3, <1>4, <1>5, SumsPut
<1>8. cache.protected - old[r] + new[r] = cache'.protected
  BY <1>2, <1>3, <1>7
<1> QED
  BY <1>6, <1>7, <1>8 DEF CacheInv, new

\* What is in flight of a request does not depend on whether it is active.
LEMMA LateKept ==
    ASSUME UNCHANGED <<mode, rows, todo>>, Pending' = Pending, After' = After,
           NEW q, req'[q].out = req[q].out
    PROVE  Late(q)' = Late(q)
<1>1. Places0(q)' = Places0(q) /\ Places1(q)' = Places1(q)
  BY DEF Places0, Places1
<1>2. ASSUME NEW k \in Places0(q) PROVE LateSlot(k)' = LateSlot(k)
  <2>1. Pending.items[k].r = q
    BY DEF Places0
  <2> QED
    BY <2>1 DEF LateSlot
<1>3. {ToSet(LateSlot(k)) : k \in Places0(q)}' = {ToSet(LateSlot(k)) : k \in Places0(q)}
  BY <1>1, <1>2
<1>4. {After.loc[k] : k \in Places1(q)}' = {After.loc[k] : k \in Places1(q)}
  BY <1>1
<1> QED
  BY <1>3, <1>4 DEF Late

\* What is in flight of a request, if at most one token is.
LEMMA LateIsOne ==
    ASSUME NEW r, \A j, k \in Places0(r) : j = k, Places1(r) = {}
    PROVE  /\ Places0(r) = {} => Late(r) = {}
           /\ \A k \in Places0(r) : Late(r) = ToSet(LateSlot(k))
<1> DEFINE A == {ToSet(LateSlot(k)) : k \in Places0(r)}
           B == {After.loc[k] : k \in Places1(r)}
<1>1. Late(r) = (UNION A) \cup B
  BY DEF Late
<1>2. B = {}
  OBVIOUS
<1>3. Places0(r) = {} => A = {}
  OBVIOUS
<1>4. \A k \in Places0(r) : A = {ToSet(LateSlot(k))}
  OBVIOUS
<1> HIDE DEF A, B
<1> QED
  BY <1>1, <1>2, <1>3, <1>4

\* A retracted request keeps the slot that is in flight, and no other.
LEMMA RetractLate ==
    ASSUME OrderInv, MemInv, pc = "retract", NEW k \in DOMAIN running,
           NEW r, r = running[k].r, NEW n, n = Stored(r, req[r])
    PROVE  /\ n \in Nat /\ n >= 1 /\ n <= Len(Row(r))
           /\ Late(r) = ToSet(Row(r)) \ ToSet(Upto(Row(r), n))
<1>1. /\ r \in Reqs /\ Seated(r)
      /\ Len(Row(r)) >= Len(Prompt[r])
      /\ ~ (Old(r) /\ Partial(Pending, r)) /\ ~ New(r)
      /\ Len(Row(r)) = Len(Prompt[r]) + req[r].out - 1 + One(Old(r))
  BY RetractRow
<1>2. /\ IsSeq(Row(r)) /\ Injective(Row(r)) /\ Len(Row(r)) \in Nat
      /\ DOMAIN Row(r) = 1 .. Len(Row(r)) /\ Active(r)
  BY <1>1, SeatedRow
<1> DEFINE l == Len(Row(r))
           p == Len(Prompt[r])
           o == req[r].out
           d == One(Old(r))
<1>3. o \in Nat /\ p \in Nat /\ p >= 1
  <2>1. o \in Nat /\ p \in Nat
    BY <1>1, ReqFacts DEF MemInv
  <2>2. p \in 1 .. Size - 7 /\ Size \in Nat
    BY <1>1, SchedulerAssumption
  <2> HIDE DEF p
  <2> QED
    BY <2>1, <2>2
<1>4. n = p + (IF o > 0 THEN o - 1 ELSE 0)
  BY <1>1, <1>3, StoredIs
<1>5. d = (IF Old(r) THEN 1 ELSE 0) /\ l = p + o - 1 + d /\ l >= p /\ l \in Nat
  BY <1>1, <1>2 DEF One
<1>6. n \in Nat /\ n >= 1 /\ n <= l
  <2> HIDE DEF l, p, o, d
  <2>1. d \in {0, 1}
    BY <1>5
  <2> QED
    BY <1>3, <1>4, <1>5, <2>1
<1>7. o = 0 => Old(r) /\ l = n
  <2> HIDE DEF l, p, o, d
  <2> QED
    BY <1>3, <1>4, <1>5
<1>8. o > 0 => n = p + o - 1 /\ l = n + d
  <2> HIDE DEF l, p, o, d
  <2> QED
    BY <1>3, <1>4, <1>5
<1>9. /\ Items(Pending.items) /\ DOMAIN Pending.items = 1 .. Len(Pending.items)
      /\ Len(Pending.items) \in Nat /\ todo \in 0 .. Len(Pending.items)
      /\ LiveInv /\ QueueInv
  BY AliveLoop DEF MemInv
<1>10. Places1(r) = {}
  BY <1>1 DEF New, Places1, ReqsOf
<1>11. \A i, j \in Places0(r) : i = j
  <2>1. Places0(r) \subseteq DOMAIN Pending.items
    BY <1>9 DEF Places0
  <2> QED
    BY <1>9, <2>1 DEF Places0, Items
<1>12. Places0(r) = {} <=> ~ Old(r)
  BY DEF Places0, Old
<1>13. /\ \A x \in ToSet(Row(r)) : x \in ToSet(Upto(Row(r), n)) \/ \E j \in n + 1 .. l : Row(r)[j] = x
       /\ \A j \in n + 1 .. l : Row(r)[j] \notin ToSet(Upto(Row(r), n))
       /\ \A j \in n + 1 .. l : Row(r)[j] \in ToSet(Row(r))
  <2>1. \A j \in n + 1 .. l : j \in DOMAIN Row(r)
    BY <1>2, <1>6
  <2> QED
    <3>1. /\ \A x \in ToSet(Row(r)) : x \in ToSet(Upto(Row(r), n)) \/ \E j \in n + 1 .. l : Row(r)[j] = x
          /\ \A j \in n + 1 .. l : Row(r)[j] \notin ToSet(Upto(Row(r), n))
      BY <1>2, <1>6, UptoInjective
    <3>2. \A j \in DOMAIN Row(r) : Row(r)[j] \in ToSet(Row(r))
      BY DEF ToSet
    <3> QED
      BY <2>1, <3>1, <3>2
<1>14. CASE ~ Old(r)
  <2>1. Late(r) = {}
    BY <1>10, <1>11, <1>12, <1>14, LateIsOne
  <2>2. l = n
    <3> HIDE DEF l, p, o, d
    <3>1. o > 0 /\ d = 0
      BY <1>3, <1>5, <1>7, <1>14
    <3> QED
      BY <1>5, <1>6, <1>8, <3>1
  <2>3. n + 1 .. l = {}
    <3> HIDE DEF l
    <3> QED
      BY <1>6, <2>2
  <2> QED
    BY <1>6, <1>13, <2>1, <2>3
<1>15. CASE Old(r)
  <2>1. PICK j \in Places0(r) : Late(r) = ToSet(LateSlot(j))
    BY <1>10, <1>11, <1>12, <1>15, LateIsOne
  <2>2. j \in todo + 1 .. Len(Pending.items) /\ Pending.items[j].r = r
    BY DEF Places0
  <2>3. Pending.items[j].len = p + o
    BY <1>1, <1>2, <1>9, <1>15, <2>2 DEF LiveInv, OldInv, Active
  <2>4. /\ Pending.kind = "decode" =>
                  /\ Pending.items[j].len > p
                  /\ Pending.loc[j] = Row(r)[l]
        /\ Pending.kind = "extend" => Pending.items[j].row = req[r].row
    BY <1>1, <1>15, <2>2 DEF MemInv, LateOldInv
  <2>5. Pending.kind \in {"extend", "decode"}
    <3>1. BatchType(Pending)
      BY <1>9 DEF LiveInv, TypesInv, BatchesType
    <3>2. Pending.kind # "none"
      <4>1. j \in 1 .. Len(Pending.items)
        BY <1>9, <2>2
      <4>2. Pending # NoBatch
        <5>1. NoBatch.items = <<>> /\ Len(<<>>) = 0
          BY DEF NoBatch
        <5> QED
          BY <4>1, <5>1
      <4>3. cur = NoBatch
        BY <1>9, NothingNew
      <4>4. mode.overlap /\ last.kind # "none"
        BY <4>2, <4>3 DEF Pending
      <4>5. Same(last, Pending)
        BY <1>9, <4>4 DEF QueueInv, QueueShape
      <4> QED
        BY <4>4, <4>5 DEF Same
    <3> QED
      BY <3>1, <3>2 DEF BatchType
  <2>6. CASE o = 0
    <3>1. Pending.kind = "extend"
      <4>1. Pending.kind = "decode" => p + o > p
        BY <2>3, <2>4
      <4> HIDE DEF p, o
      <4> QED
        BY <1>3, <2>5, <2>6, <4>1
    <3>2. LateSlot(j) = <<>>
      BY <2>2, <2>6, <3>1 DEF LateSlot
    <3>3. ToSet(LateSlot(j)) = {}
      BY <3>2 DEF ToSet
    <3>4. n + 1 .. l = {}
      <4> HIDE DEF l, o
      <4> QED
        BY <1>6, <1>7, <2>6
    <3> QED
      BY <1>6, <1>13, <2>1, <3>3, <3>4
  <2>7. CASE o > 0
    <3>1. l = n + 1 /\ l = p + o
      <4> HIDE DEF l, p, o, d
      <4> QED
        BY <1>3, <1>5, <1>8, <1>15, <2>7
    <3>2. LateSlot(j) = <<Row(r)[l]>>
      <4>1. CASE Pending.kind = "decode"
        BY <2>4, <4>1 DEF LateSlot
      <4>2. CASE Pending.kind = "extend"
        <5>1. LateSlot(j) = <<rows[req[r].row][p + o]>>
          BY <2>2, <2>4, <2>7, <4>2 DEF LateSlot
        <5> QED
          BY <3>1, <5>1 DEF Row
      <4> QED
        BY <2>5, <4>1, <4>2
    <3>3. ToSet(LateSlot(j)) = {Row(r)[l]}
      BY <3>2 DEF ToSet
    <3>4. n + 1 .. l = {l}
      <4> HIDE DEF l
      <4> QED
        BY <1>6, <3>1
    <3> QED
      BY <1>6, <1>13, <2>1, <3>3, <3>4, SMTT(20)
  <2> QED
    BY <1>3, <2>6, <2>7
<1> QED
  BY <1>6, <1>14, <1>15

\* A running request is retracted.
LEMMA RetractMem ==
    ASSUME OrderInv, MemInv, Retract
    PROVE  MemInv'
<1>1. CASE Len(running) = 1
  BY <1>1, RetractLastMem
<1>2. CASE Len(running) # 1
  <2> DEFINE N == Len(running)
  <2>1. /\ LiveInv /\ QueueInv /\ pc = "retract" /\ chunked = None /\ ratio' \in Ratios
        /\ UNCHANGED <<mode, chunked, last, cur, queue, adder, futureCt, todo>>
        /\ ReqsType /\ ~ mode.radix /\ chunked' = None
    BY AliveLoop, RetractRatioKind DEF Retract, MemInv, CacheInv, LiveInv, ChunkedInv
  <2>2. /\ Items(running) /\ N \in Nat /\ N >= 2 /\ DOMAIN running = 1 .. N
        /\ \A k \in 1 .. N : running[k].r \in Reqs
    <3>1. Items(running) /\ N \in Nat /\ DOMAIN running = 1 .. N
          /\ \A k \in 1 .. N : running[k].r \in Reqs
      BY AliveLoop, ItemFacts DEF MemInv
    <3>2. running # <<>>
      BY <2>1 DEF LiveInv, RunningInv
    <3>3. N # 0
      BY <3>1, <3>2, EmptyFacts DEF Items
    <3> QED
      BY <1>2, <3>1, <3>3
  <2>3. PICK r \in Reqs : r = running[N].r /\ r = Last(running).r /\ N \in DOMAIN running
    BY <2>2 DEF Last
  <2> DEFINE rec == req[r]
             row == Row(r)
  <2>4. PICK n : n = Stored(r, req[r])
    OBVIOUS
  <2> DEFINE s == Upto(row, n)
  <2>5. /\ Seated(r) /\ Active(r) /\ rec.row \in Rows /\ Seat(r) = {rec.row}
        /\ IsSeq(row) /\ Injective(row) /\ Len(row) \in Nat
        /\ Owned(r) = ToSet(row) /\ Held(r) = row
        /\ \A q \in Reqs : Seated(q) /\ req[q].row = rec.row => q = r
    BY <2>1, <2>3, RetractRow, SeatedRow
  <2>6. /\ n \in Nat /\ n >= 1 /\ n <= Len(row)
        /\ Late(r) = ToSet(row) \ ToSet(s)
    BY <2>1, <2>3, <2>4, RetractLate
  <2>7. /\ IsSeq(s) /\ Len(s) = n /\ Injective(s) /\ ToSet(s) \subseteq ToSet(row)
    BY <2>5, <2>6, UptoInjective
  <2>8. /\ DOMAIN cache'.tree = {} /\ cache'.evictable = 0
        /\ cache'.protected = cache.protected - Len(rec.pre)
        /\ free' = Freed(free, s)
        /\ freeRows' = [freeRows EXCEPT ![rec.row] = @ + 1]
        /\ req' = [req EXCEPT ![r] = Retracted(rec)]
        /\ running' = Front(running) /\ rows' = rows
        /\ pc' = IF Count(free') >= N - 1 THEN "step" ELSE "retract"
    <3> DEFINE after == CacheFinished(r, rec, FALSE)
    <3>1. /\ \E gone \in Reclaim(after.cache, after.free, (N - 1) * RetractSteps) :
                /\ cache' = Evicted(after.cache, gone)
                /\ free' = FreedByEviction(after.cache, after.free, gone)
          /\ freeRows' = [freeRows EXCEPT ![rec.row] = @ + 1]
          /\ req' = [req EXCEPT ![r] = Retracted(rec)]
          /\ running' = Front(running) /\ rows' = rows
          /\ pc' = IF Count(free') >= N - 1 THEN "step" ELSE "retract"
      BY <1>2, <2>3 DEF Retract
    <3>2. /\ after.cache = [cache EXCEPT !.protected = @ - Len(rec.pre)]
          /\ after.free = Freed(free, s)
      <4>1. req[r].row = req[r].row /\ req[r].pre = req[r].pre
        OBVIOUS
      <4>2. /\ CacheFinished(r, req[r], FALSE).cache
                 = [cache EXCEPT !.protected = @ - Len(req[r].pre)]
            /\ CacheFinished(r, req[r], FALSE).free = Freed(free, Upto(Row(r), Stored(r, req[r])))
        BY <4>1, ReleaseFacts
      <4> QED
        BY <2>4, <4>2
    <3>3. CacheType(after.cache) /\ after.free \in [Slots -> Int]
      <4>1. ReqType(r, rec)
        BY <2>1 DEF ReqsType
      <4>2. CanStore(rec) /\ rec.out \in Int
        BY <4>1 DEF ReqType, CanStore
      <4>3. MemoryType
        BY <2>1 DEF LiveInv, TypesInv
      <4>4. LET a == CacheFinished(r, rec, FALSE)
            IN  CacheType(a.cache) /\ a.free \in [Slots -> Int]
        BY <4>2, <4>3, FinishedFacts
      <4> QED
        BY <4>4
    <3> DEFINE c == after.cache
               f == after.free
               m == (N - 1) * RetractSteps
    <3>4. PICK gone \in Reclaim(c, f, m) :
                /\ cache' = Evicted(c, gone) /\ free' = FreedByEviction(c, f, gone)
      BY <3>1
    <3>5. CacheType(cache)
      BY <2>1 DEF LiveInv, TypesInv, MemoryType
    <3>6. DOMAIN c.tree = {} /\ c.evictable = 0 /\ c.protected = cache.protected - Len(rec.pre)
      BY <3>2, <3>5 DEF CacheType, MemInv, CacheInv
    <3>7. f = Freed(free, s) /\ CacheType(c) /\ f \in [Slots -> Int]
      BY <3>2, <3>3
    <3> HIDE DEF c, f, m
    <3>8. /\ FreedByEviction(c, f, gone) = f
          /\ DOMAIN Evicted(c, gone).tree = {} /\ Evicted(c, gone).evictable = 0
          /\ Evicted(c, gone).protected = c.protected
      BY <2>1, <3>6, <3>7, NoEviction
    <3> QED
      BY <3>1, <3>4, <3>6, <3>7, <3>8
  <2>9. /\ \A q \in Reqs : q # r => req'[q] = req[q]
        /\ req'[r].st = "waiting" /\ req'[r].out = rec.out /\ req'[r].row = rec.row
        /\ req'[r].retracted = TRUE /\ req'[r].pre = <<>> /\ req'[r].fill = 0
    <3>1. /\ Retracted(rec).st = "waiting" /\ Retracted(rec).out = rec.out
          /\ Retracted(rec).row = rec.row /\ Retracted(rec).retracted = TRUE
          /\ Retracted(rec).pre = <<>> /\ Retracted(rec).fill = 0
      BY DEF Retracted, NewReq
    <3>2. req'[r] = Retracted(rec)
      BY <2>1, <2>8 DEF ReqsType
    <3>3. \A q \in Reqs : q # r => req'[q] = req[q]
      BY <2>1, <2>8 DEF ReqsType
    <3> QED
      BY <3>1, <3>2, <3>3
  <2>10. /\ Pending' = Pending /\ After' = After /\ After = NoBatch
         /\ NoBatch.items = <<>> /\ DOMAIN NoBatch.items = {}
         /\ ~ mode.overlap => Pending.items = <<>>
    <3>1. Pending' = Pending /\ After' = After
      BY <2>1 DEF Pending, After
    <3>2. cur = NoBatch
      BY <2>1, NothingNew
    <3>3. NoBatch.items = <<>>
      BY DEF NoBatch
    <3>4. DOMAIN NoBatch.items = {}
      BY <3>3
    <3> QED
      BY <3>1, <3>2, <3>3, <3>4 DEF After, Pending
  <2>11. \A q \in Reqs : Late(q)' = Late(q)
    <3> TAKE q \in Reqs
    <3>1. req'[q].out = req[q].out
      BY <2>9
    <3> QED
      BY <2>1, <2>8, <2>10, <3>1, LateKept
  <2>12. pc' \in {"step", "retract"}
    BY <2>8
  <2>13. ASSUME NEW q \in Reqs
         PROVE  /\ Active(q)' <=> Active(q) /\ q # r
                /\ Seated(q) <=> Active(q)
                /\ ~ Stashed(q)'
                /\ Seated(q)' <=> Active(q)'
                /\ TextLen(q)' = TextLen(q)
                /\ req'[q].out = req[q].out /\ req'[q].row = req[q].row
    <3>1. Active(q)' <=> Active(q) /\ q # r
      BY <2>9 DEF Active
    <3>2. ~ Stashed(q) /\ ~ Stashed(q)'
      BY <2>1, <2>12 DEF Stashed
    <3>3. req'[q].out = req[q].out /\ req'[q].row = req[q].row
      BY <2>9
    <3> QED
      BY <3>1, <3>2, <3>3 DEF Seated, TextLen
  <2>14. ASSUME NEW q \in Reqs, Active(q)'
         PROVE  /\ q # r /\ Active(q) /\ Seated(q) /\ req'[q] = req[q]
                /\ Row(q)' = Row(q) /\ Held(q)' = Held(q)
    <3>1. q # r /\ Active(q) /\ Seated(q) /\ req'[q] = req[q] /\ Seated(q)'
      BY <2>9, <2>13, <2>14
    <3>2. Row(q)' = Row(q)
      BY <2>8, <3>1 DEF Row
    <3> QED
      BY <3>1, <3>2 DEF Held
  <2>15. SlotsInv' /\ Count(free') = Count(free) + n
    <3> DEFINE own == [q \in Reqs |-> Owned(q)]
               own2 == [q \in Reqs |-> Owned(q)']
    <3>1. own2[r] = own[r] \ ToSet(s)
      <4>1. Owned(r)' = Late(r)'
        BY <2>13 DEF Owned
      <4> QED
        BY <2>5, <2>6, <2>11, <4>1
    <3>2. \A q \in Reqs : q # r => own2[q] = own[q]
      <4> SUFFICES ASSUME NEW q \in Reqs, q # r PROVE Owned(q)' = Owned(q)
        OBVIOUS
      <4>1. CASE Active(q)
        <5>1. Active(q)'
          BY <2>13, <4>1
        <5>2. Held(q)' = Held(q)
          BY <2>14, <5>1
        <5>3. Owned(q)' = ToSet(Held(q)')
          BY <5>1 DEF Owned, ToSet
        <5> QED
          BY <4>1, <5>2, <5>3 DEF Owned
      <4>2. CASE ~ Active(q)
        BY <2>11, <2>13, <4>2 DEF Owned
      <4> QED
        BY <4>1, <4>2
    <3>3. OneOwner(free, Slots, own) /\ IsFiniteSet(Slots)
      BY Constants DEF MemInv, SlotsInv
    <3>4. ToSet(s) \subseteq own[r]
      BY <2>5, <2>7
    <3> HIDE DEF own, own2, s
    <3>5. OneOwner(Freed(free, s), Slots, own2) /\ Count(Freed(free, s)) = Count(free) + Len(s)
      BY <2>7, <3>1, <3>2, <3>3, <3>4, GivesBack
    <3>6. \A q \in Reqs : Active(q)' => Injective(Held(q)')
      <4> SUFFICES ASSUME NEW q \in Reqs, Active(q)' PROVE Injective(Held(q)')
        OBVIOUS
      <4>1. Held(q)' = Held(q) /\ Active(q)
        BY <2>14
      <4>2. Injective(Held(q))
        BY <4>1 DEF MemInv, SlotsInv
      <4> QED
        BY <4>1, <4>2
    <3> QED
      BY <2>7, <2>8, <3>5, <3>6 DEF SlotsInv, Slots, Injective, own2
  <2>16. RowsInv'
    <3> DEFINE own == [q \in Reqs |-> Seat(q)]
               own2 == [q \in Reqs |-> Seat(q)']
               w == rec.row
    <3>1. own[r] = {w} /\ own2[r] = {}
      BY <2>5, <2>13 DEF Seat
    <3>2. \A q \in Reqs : q # r => own2[q] = own[q]
      BY <2>13 DEF Seat
    <3>3. OneOwner(freeRows, Rows, own) /\ IsFiniteSet(Rows)
      BY Constants DEF MemInv, RowsInv
    <3>4. freeRows' = [freeRows EXCEPT ![w] = @ + 1]
      BY <2>8
    <3> HIDE DEF own, own2, w
    <3>5. OneOwner(freeRows', Rows, own2)
      BY <3>1, <3>2, <3>3, <3>4, RowGoesBack
    <3>6. \A q \in Reqs : req'[q].row \in {0} \cup Rows
      BY <2>13 DEF MemInv, RowsInv
    <3> QED
      BY <2>8, <3>5, <3>6 DEF MemInv, RowsInv, Rows, Slots, own2
  <2>17. FillInv'
    <3>1. ASSUME NEW q \in Reqs
          PROVE  /\ ~ Active(q)' => req'[q].pre = <<>>
                 /\ ToSet(req'[q].pre) \subseteq Slots
                 /\ Len(req'[q].pre) <= req'[q].fill /\ req'[q].fill <= TextLen(q)'
                 /\ Seated(q)' => req'[q].fill <= Len(Row(q)')
                 /\ ~ Stashed(q)' /\ q # chunked'
      <4>1. /\ ~ Active(q) => req[q].pre = <<>>
            /\ ToSet(req[q].pre) \subseteq Slots
            /\ Len(req[q].pre) <= req[q].fill /\ req[q].fill <= TextLen(q)
            /\ Seated(q) => req[q].fill <= Len(Row(q))
        BY DEF MemInv, FillInv
      <4>2. ~ Stashed(q)' /\ q # chunked'
        BY <2>1, <2>13, Constants
      <4>3. CASE q # r
        BY <2>9, <2>13, <2>14, <4>1, <4>2, <4>3
      <4>4. CASE q = r
        <5>1. ToSet(<<>>) = {} /\ Len(<<>>) = 0
          BY DEF ToSet
        <5>2. TextLen(q) \in Nat
          BY ReqFacts DEF MemInv
        <5> QED
          BY <2>9, <2>13, <4>2, <4>4, <5>1, <5>2
      <4> QED
        BY <4>3, <4>4
    <3> QED
      BY <2>1, <3>1 DEF FillInv, Slots
  <2>18. /\ DOMAIN running' = 1 .. N - 1 /\ Len(running') = N - 1
         /\ \A k \in 1 .. N - 1 : running'[k] = running[k] /\ k \in 1 .. N
    <3>1. running' = SubSeq(running, 1, N - 1)
      BY <2>8 DEF Front
    <3> HIDE DEF N
    <3>2. /\ Len(running') = N - 1 /\ DOMAIN running' = 1 .. N - 1
          /\ \A k \in 1 .. N - 1 : running'[k] = running[k]
      <4> DEFINE t == SubSeq(running, 1, N - 1)
      <4>1. N - 1 \in Int /\ 1 \in Int /\ 1 <= N - 1 /\ (N - 1) - 1 + 1 = N - 1
        BY <2>2
      <4>2. /\ Len(t) = (IF 1 <= N - 1 THEN (N - 1) - 1 + 1 ELSE 0)
            /\ DOMAIN t = 1 .. (N - 1) - 1 + 1
            /\ \A k \in 1 .. (N - 1) - 1 + 1 : t[k] = running[1 + k - 1]
        BY <4>1, SubSeqIsSeq
      <4>3. \A k \in 1 .. N - 1 : 1 + k - 1 = k
        BY <2>2
      <4>4. running' = t
        BY <3>1
      <4> HIDE DEF t
      <4> QED
        BY <4>1, <4>2, <4>3, <4>4
    <3> QED
      BY <2>2, <3>2
  <2>19. Joiners = <<>> /\ Joiners' = <<>> /\ Extra = 0 /\ Extra' = 0
    <3>1. Joiners = <<>> /\ Joiners' = <<>>
      BY <2>1, <2>12 DEF Joiners, Launched
    <3> QED
      BY <2>1, <2>12, <3>1 DEF Extra
  <2>20. PlacesInv'
    <3>1. Len(running') + Extra' <= MaxRunning
      <4>1. N + 0 <= MaxRunning /\ MaxRunning \in Nat
        BY <2>19, Constants DEF MemInv, PlacesInv
      <4> HIDE DEF N
      <4> QED
        BY <2>2, <2>18, <2>19, <4>1
    <3>2. Len(Pending'.items) <= MaxRunning /\ Len(cur'.items) <= MaxRunning
      BY <2>1, <2>10 DEF MemInv, PlacesInv
    <3>3. ASSUME NEW q \in Reqs, Seated(q)' PROVE q \in ReqsOf(running)'
      <4>1. Seated(q) /\ q # r
        BY <2>13, <3>3
      <4>2. ReqsOf(Joiners) = {}
        BY <2>19 DEF ReqsOf
      <4>3. PICK k \in 1 .. N : running[k].r = q
        BY <2>2, <4>1, <4>2 DEF MemInv, PlacesInv, ReqsOf
      <4>4. k # N
        BY <2>3, <4>1, <4>3
      <4>5. k \in 1 .. N - 1
        <5> HIDE DEF N
        <5> QED
          BY <2>2, <4>4
      <4> QED
        BY <2>18, <4>3, <4>5 DEF ReqsOf
    <3>4. ASSUME NEW i \in ToSet(running')
          PROVE  /\ Seated(i.r)' => i.row = req'[i.r].row /\ i.len = Len(Row(i.r)')
                 /\ i.len >= Len(Prompt[i.r])
      <4>1. PICK k \in 1 .. N - 1 : i = running'[k]
        BY <2>18, <3>4 DEF ToSet
      <4>2. i = running[k] /\ i \in ToSet(running) /\ i.r \in Reqs
        BY <2>2, <2>18, <4>1 DEF ToSet
      <4>3. /\ Seated(i.r) => i.row = req[i.r].row /\ i.len = Len(Row(i.r))
            /\ i.r # chunked => i.len >= Len(Prompt[i.r])
        BY <4>2 DEF MemInv, PlacesInv
      <4>4. i.r # chunked
        BY <2>1, <4>2, Constants
      <4>5. PICK q \in Reqs : q = i.r
        BY <4>2
      <4>6. Seated(q)' => Seated(q) /\ req'[q].row = req[q].row /\ Row(q)' = Row(q)
        BY <2>13, <2>14
      <4> QED
        BY <4>3, <4>4, <4>5, <4>6
    <3>5. ReqsOf(Joiners)' = {} /\ ToSet(Joiners)' = {}
      BY <2>19 DEF ReqsOf, ToSet
    <3> QED
      BY <3>1, <3>2, <3>3, <3>4, <3>5 DEF PlacesInv, ToSet
  <2>21. ASSUME NEW q \in Reqs PROVE ~ New(q) /\ ~ New(q)'
    BY <2>10 DEF New, ReqsOf
  <2>22. LateOldInv'
    <3>1. mode' = mode /\ todo' = todo /\ Pending' = Pending /\ rows' = rows
      BY <2>1, <2>8, <2>10
    <3>2. ASSUME NEW k \in todo + 1 .. Len(Pending.items), NEW i, i = Pending.items[k],
                 NEW q, q = i.r
          PROVE  /\ ~ Active(q)' => mode'.overlap /\ Delayed(i)'
                 /\ Pending'.kind = "decode" =>
                     /\ k \in DOMAIN Pending'.loc
                     /\ i.len > Len(Prompt[q])
                     /\ Seated(q)' => Pending'.loc[k] = Row(q)'[Len(Row(q)')]
                 /\ Pending'.kind = "extend" /\ ~ Partial(Pending', q) /\ Seated(q)' =>
                     i.row = req'[q].row
                 /\ Pending'.kind = "extend" /\ ~ Active(q)' =>
                     /\ i.row \in Rows
                     /\ req'[q].out > 0 => Len(rows'[i.row]) = TextLen(q)'
                     /\ \A p \in Reqs : Seated(p)' => req'[p].row # i.row
      <4>1. /\ ~ Active(q) => mode.overlap /\ Delayed(i)
            /\ Pending.kind = "decode" =>
                  /\ k \in DOMAIN Pending.loc
                  /\ i.len > Len(Prompt[q])
                  /\ Seated(q) /\ ~ New(q) => Pending.loc[k] = Row(q)[Len(Row(q))]
            /\ Pending.kind = "extend" /\ ~ Partial(Pending, q) /\ Seated(q) =>
                  i.row = req[q].row
            /\ Pending.kind = "extend" /\ ~ Active(q) =>
                  /\ i.row \in Rows
                  /\ req[q].out > 0 => Len(rows[i.row]) = TextLen(q)
                  /\ \A p \in Reqs : Seated(p) => req[p].row # i.row
        BY <3>2 DEF MemInv, LateOldInv
      <4>2. q \in Reqs /\ mode.overlap
        <5>1. /\ DOMAIN Pending.items = 1 .. Len(Pending.items) /\ Len(Pending.items) \in Nat
              /\ todo \in 0 .. Len(Pending.items)
              /\ \A j \in DOMAIN Pending.items : Pending.items[j].r \in Reqs
          BY AliveLoop, ItemFacts DEF MemInv
        <5>2. k \in 1 .. Len(Pending.items)
          BY <5>1
        <5>3. Pending.items # <<>>
          BY <5>1, <5>2
        <5> QED
          BY <2>10, <3>2, <5>1, <5>2, <5>3
      <4>3. \A p \in Reqs : Seated(p)' => Seated(p) /\ req'[p].row = req[p].row
        BY <2>13
      <4>4. Partial(Pending', q) <=> Partial(Pending, q)
        BY <3>1 DEF Partial
      <4>5. CASE q # r
        <5>1. Delayed(i)' <=> Delayed(i)
          BY <2>9, <3>1, <3>2, <4>2, <4>5 DEF Delayed
        <5>2. /\ Active(q)' <=> Active(q)
              /\ Seated(q)' => Seated(q) /\ Row(q)' = Row(q)
              /\ TextLen(q)' = TextLen(q) /\ req'[q].out = req[q].out /\ req'[q].row = req[q].row
              /\ ~ New(q)
          BY <2>13, <2>14, <2>21, <4>2, <4>5
        <5> QED
          BY <3>1, <4>1, <4>2, <4>3, <4>4, <5>1, <5>2
      <4>6. CASE q = r
        <5>1. ~ Active(q)' /\ ~ Seated(q)'
          BY <2>13, <4>6
        <5>2. Delayed(i)'
          BY <2>9, <3>2, <4>6 DEF Delayed
        <5>3. Old(r)
          BY <3>2, <4>6 DEF Old
        <5>4. /\ ~ Partial(Pending, r)
              /\ Len(row) = Len(Prompt[r]) + rec.out - 1 + 1
          BY <2>1, <2>3, <5>3, RetractRow DEF One
        <5>5. Pending.kind = "extend" => i.row = rec.row
          BY <2>5, <4>1, <4>6, <5>4
        <5>6. Len(row) = TextLen(r)
          <6> DEFINE p == Len(Prompt[r])
                     o == rec.out
          <6>1. p \in Nat /\ o \in Nat /\ Len(row) = p + o - 1 + 1
            BY <5>4, ReqFacts DEF MemInv
          <6>2. TextLen(r) = p + o
            BY DEF TextLen
          <6> HIDE DEF p, o, row
          <6> QED
            BY <6>1, <6>2
        <5>7. \A p \in Reqs : Seated(p)' => p # r /\ req'[p].row # rec.row
          BY <2>5, <2>13, <4>3
        <5>8. Pending.kind = "extend" => Len(rows'[i.row]) = TextLen(q)'
          BY <2>13, <3>1, <4>6, <5>5, <5>6 DEF Row
        <5> QED
          BY <2>5, <3>1, <4>1, <4>2, <5>1, <5>2, <5>5, <5>7, <5>8
      <4> QED
        BY <4>5, <4>6
    <3>3. ASSUME NEW k \in todo + 1 .. Len(Pending.items)
          PROVE  (~ Active(Pending.items[k].r) => mode.overlap /\ Delayed(Pending.items[k]))'
      BY <3>1, <3>2
    <3>4. ASSUME NEW k \in todo + 1 .. Len(Pending.items)
          PROVE  (Pending.kind = "decode" =>
                     /\ k \in DOMAIN Pending.loc
                     /\ Pending.items[k].len > Len(Prompt[Pending.items[k].r])
                     /\ Seated(Pending.items[k].r) /\ ~ New(Pending.items[k].r) =>
                          Pending.loc[k] = Row(Pending.items[k].r)[Len(Row(Pending.items[k].r))])'
      BY <3>1, <3>2
    <3>5. ASSUME NEW k \in todo + 1 .. Len(Pending.items)
          PROVE  (Pending.kind = "extend" /\ ~ Partial(Pending, Pending.items[k].r)
                    /\ Seated(Pending.items[k].r) =>
                     Pending.items[k].row = req[Pending.items[k].r].row)'
      BY <3>1, <3>2 DEF Partial
    <3>6. ASSUME NEW k \in todo + 1 .. Len(Pending.items)
          PROVE  (Pending.kind = "extend" /\ ~ Active(Pending.items[k].r) =>
                     /\ Pending.items[k].row \in Rows
                     /\ req[Pending.items[k].r].out > 0 =>
                          Len(rows[Pending.items[k].row]) = TextLen(Pending.items[k].r)
                     /\ \A q \in Reqs : Seated(q) => req[q].row # Pending.items[k].row)'
      BY <3>1, <3>2 DEF Rows
    <3> QED
      BY <3>1, <3>3, <3>4, <3>5, <3>6 DEF LateOldInv
  <2>23. LateNewInv'
    BY <2>10 DEF LateNewInv
  <2>24. RoomInv'
    <3>1. Count(free)' = Count(free) + n /\ Count(free) \in Nat
      BY <2>15, AliveLoop DEF MemInv, Count
    <3>2. Count(free)' > 0
      BY <2>6, <3>1
    <3>3. pc' = "step" => Count(free)' >= Len(running')
      BY <2>8, <2>18 DEF Count
    <3> QED
      BY <2>1, <2>12, <3>2, <3>3 DEF RoomInv
  <2>25. CacheInv'
    BY <2>1, <2>8, <2>9, CacheReleases
  <2>26. CountersInv'
    BY <2>1, <2>12, SchedulerAssumption DEF MemInv, CountersInv, FutureLimit
  <2> QED
    BY <2>12, <2>15, <2>16, <2>17, <2>20, <2>22, <2>23, <2>24, <2>25, <2>26 DEF MemInv
<1> QED
  BY <1>1, <1>2

-----------------------------------------------------------------------------
(* The result of a batch is processed, one request after the other.         *)

\* the result of request r is processed; rows keep what is in them
Turn(r) ==
    /\ pc = "process" /\ todo < Len(Pending.items) /\ r = Pending.items[todo + 1].r
    /\ pc' = "process" /\ todo' = todo + 1
    /\ UNCHANGED <<mode, running, chunked, last, cur, queue, adder, futureCt, ratio>>
    /\ DOMAIN rows' = Rows /\ \A w \in Rows : rows'[w] = rows[w]
    /\ \A q \in Reqs : q # r => req'[q] = req[q]

\* The turn of one request in the result: it leaves the batch that is due, and the
\* others keep their places.
LEMMA TurnFacts ==
    ASSUME OrderInv, MemInv, NEW r, Turn(r)
    PROVE  /\ r \in Reqs /\ todo + 1 \in DOMAIN Pending.items
           /\ Pending' = Pending /\ After' = After
           /\ todo + 1 \in Places0(r) /\ Old(r) /\ Places0(r)' = {} /\ ~ Old(r)'
           /\ \A j, k \in Places0(r) : j = k
           /\ \A q : q # r => Places0(q)' = Places0(q) /\ (Old(q)' <=> Old(q))
           /\ \A q : Places1(q)' = Places1(q) /\ (New(q)' <=> New(q))
           /\ \A q : (Places0(q) = {} <=> ~ Old(q)) /\ (Places1(q) = {} <=> ~ New(q))
           /\ Joiners' = Joiners /\ Extra' = Extra
           /\ \A q \in Reqs : /\ (Seated(q) <=> Active(q))
                              /\ Seated(q)' <=> Active(q)'
                              /\ ~ Stashed(q)'
<1>1. /\ Items(Pending.items) /\ DOMAIN Pending.items = 1 .. Len(Pending.items)
      /\ Len(Pending.items) \in Nat /\ todo \in 0 .. Len(Pending.items)
      /\ Items(After.items)
  BY AliveLoop DEF MemInv
<1> DEFINE N == Len(Pending.items)
<1>2. todo + 1 \in 1 .. N /\ todo + 1 \in todo + 1 .. N /\ todo < N /\ N \in Nat /\ todo \in Nat
  BY <1>1 DEF Turn
<1>3. Pending' = Pending /\ After' = After
  BY DEF Turn, Pending, After
<1>4. r \in Reqs /\ r = Pending.items[todo + 1].r
  BY <1>1, <1>2, ItemFacts DEF Turn
<1>5. \A j, k \in 1 .. N : Pending.items[j].r = Pending.items[k].r => j = k
  BY <1>1 DEF Items
<1>6. \A k \in todo + 1 .. N : k \in 1 .. N /\ (k = todo + 1 \/ k \in (todo + 1) + 1 .. N)
  BY <1>2
<1>7. \A k \in (todo + 1) + 1 .. N : k \in todo + 1 .. N /\ k # todo + 1
  BY <1>2
<1>8. \A q : /\ Places0(q) = {k \in todo + 1 .. N : Pending.items[k].r = q}
             /\ Places0(q)' = {k \in (todo + 1) + 1 .. N : Pending.items[k].r = q}
  BY <1>3 DEF Places0, Turn
<1>9. \A q : /\ Old(q) <=> Places0(q) # {}
             /\ New(q) <=> Places1(q) # {}
  BY DEF Old, Places0, New, Places1, ReqsOf
<1>10. \A q : Old(q)' <=> Places0(q)' # {}
  BY DEF Old, Places0
<1>11. \A q : Places1(q)' = Places1(q) /\ (New(q)' <=> New(q))
  BY <1>3 DEF Places1, New, ReqsOf
<1> HIDE DEF N
<1>12. Places0(r)' = {}
  BY <1>2, <1>4, <1>5, <1>6, <1>7, <1>8
<1>13. todo + 1 \in Places0(r)
  BY <1>2, <1>4, <1>8
<1>14. \A j, k \in Places0(r) : j = k
  BY <1>5, <1>6, <1>8
<1>15. \A q : q # r => Places0(q)' = Places0(q)
  <2> SUFFICES ASSUME NEW q, q # r PROVE Places0(q)' = Places0(q)
    OBVIOUS
  <2>1. \A k \in todo + 1 .. N : Pending.items[k].r = q => k # todo + 1
    BY <1>4
  <2> QED
    BY <1>6, <1>7, <1>8, <2>1
<1>16. Joiners' = Joiners
  BY DEF Turn, Joiners, Launched
<1>17. Extra' = Extra
  BY <1>16 DEF Turn, Extra
<1>18. \A q \in Reqs : ~ Stashed(q) /\ ~ Stashed(q)'
  BY DEF Turn, Stashed
<1>19. \A q \in Reqs : (Seated(q) <=> Active(q)) /\ (Seated(q)' <=> Active(q)')
  BY <1>18 DEF Seated
<1> QED
  BY <1>1, <1>2, <1>3, <1>4, <1>9, <1>10, <1>11, <1>12, <1>13, <1>14, <1>15, <1>16, <1>17,
     <1>18, <1>19 DEF N

\* What the others own is still theirs.
LEMMA TurnOthers ==
    ASSUME OrderInv, MemInv, NEW r, Turn(r), NEW q \in Reqs, q # r
    PROVE  /\ Owned(q)' = Owned(q) /\ Seat(q)' = Seat(q)
           /\ Active(q)' <=> Active(q)
           /\ Active(q) => Row(q)' = Row(q) /\ Held(q)' = Held(q)
<1>1. /\ Pending' = Pending /\ After' = After
      /\ Places0(q)' = Places0(q) /\ Places1(q)' = Places1(q)
      /\ Seated(q) <=> Active(q)
      /\ Seated(q)' <=> Active(q)'
  BY TurnFacts
<1>2. req'[q] = req[q] /\ \A w \in Rows : rows'[w] = rows[w]
  BY DEF Turn
<1>3. Active(q)' <=> Active(q)
  BY <1>2 DEF Active
<1>4. Active(q) => Row(q)' = Row(q)
  <2>1. Active(q) => req[q].row \in Rows
    BY <1>1, SeatedRow
  <2> QED
    BY <1>2, <2>1 DEF Row
<1>5. Active(q) => Held(q)' = Held(q)
  BY <1>1, <1>3, <1>4 DEF Held
<1>6. Seat(q)' = Seat(q)
  BY <1>1, <1>2, <1>3 DEF Seat
<1>7. ~ Active(q) => Late(q)' = Late(q)
  <2> SUFFICES ASSUME ~ Active(q) PROVE Late(q)' = Late(q)
    OBVIOUS
  <2>1. ASSUME NEW k \in Places0(q) PROVE LateSlot(k)' = LateSlot(k)
    <3>1. k \in todo + 1 .. Len(Pending.items) /\ Pending.items[k].r = q
      BY DEF Places0
    <3>2. Pending.kind = "extend" => Pending.items[k].row \in Rows
      BY <3>1 DEF MemInv, LateOldInv
    <3>3. Pending.kind \in {"extend", "decode"}
      <4>1. BatchType(Pending) /\ QueueInv /\ todo \in Nat /\ Len(Pending.items) \in Nat
        BY AliveLoop DEF MemInv, LiveInv, TypesInv, BatchesType
      <4>2. Pending.kind # "none"
        <5>1. Pending # NoBatch
          <6>1. NoBatch.items = <<>> /\ Len(<<>>) = 0
            BY DEF NoBatch
          <6>2. Len(Pending.items) # 0
            BY <3>1, <4>1
          <6> QED
            BY <6>1, <6>2
        <5>2. CASE ~ mode.overlap
          <6>1. Pending = cur
            BY <5>2 DEF Pending
          <6>2. cur.kind = "none" => cur = NoBatch
            BY AliveLoop DEF MemInv, LiveInv, TypesInv, BatchesType
          <6> QED
            BY <5>1, <6>1, <6>2
        <5>3. CASE mode.overlap
          <6>1. last.kind # "none"
            BY <5>1, <5>3 DEF Pending
          <6>2. Same(last, Pending)
            BY <4>1, <5>3, <6>1 DEF QueueInv, QueueShape
          <6> QED
            BY <6>1, <6>2 DEF Same
        <5> QED
          BY <5>2, <5>3
      <4> QED
        BY <4>1, <4>2 DEF BatchType
    <3> QED
      BY <1>1, <1>2, <3>1, <3>2, <3>3 DEF LateSlot
  <2>2. {ToSet(LateSlot(k)) : k \in Places0(q)}' = {ToSet(LateSlot(k)) : k \in Places0(q)}
    BY <1>1, <2>1
  <2>3. {After.loc[k] : k \in Places1(q)}' = {After.loc[k] : k \in Places1(q)}
    BY <1>1
  <2> QED
    BY <2>2, <2>3 DEF Late
<1>8. Owned(q)' = Owned(q)
  <2>1. CASE Active(q)
    <3>1. Owned(q)' = ToSet(Held(q)')
      BY <1>3, <2>1 DEF Owned, ToSet
    <3> QED
      BY <1>5, <2>1, <3>1 DEF Owned
  <2>2. CASE ~ Active(q)
    BY <1>3, <1>7, <2>2 DEF Owned
  <2> QED
    BY <2>1, <2>2
<1> QED
  BY <1>3, <1>4, <1>5, <1>6, <1>8

\* what becomes of the request itself
TurnOwn(r) ==
    /\ Active(r)' => Active(r) /\ req'[r].row = req[r].row
    /\ ~ Active(r) => req'[r] = req[r]
    /\ Active(r) /\ ~ Active(r)' => Count(free)' > 0 /\ (New(r) => After.kind = "decode")
    /\ req'[r].out \in Nat /\ req[r].out <= req'[r].out /\ req'[r].out <= MaxNew(r)
    /\ ~ Active(r)' => req'[r].pre = <<>>
    /\ ToSet(req'[r].pre) \subseteq Slots
    /\ Len(req'[r].pre) <= req'[r].fill /\ req'[r].fill <= TextLen(r)'
    /\ Active(r)' => req'[r].fill <= Len(Row(r))
    /\ r = chunked => req'[r].out = req[r].out /\ req'[r].fill = req[r].fill

\* The others are in flight as before.
LEMMA TurnFlight ==
    ASSUME OrderInv, MemInv, NEW r, Turn(r), TurnOwn(r)
    PROVE  LateOldInv' /\ LateNewInv'
<1>1. /\ r \in Reqs /\ Pending' = Pending /\ After' = After /\ Old(r) /\ ~ Old(r)'
      /\ \A q : q # r => (Old(q)' <=> Old(q))
      /\ \A q : New(q)' <=> New(q)
      /\ \A q \in Reqs : (Seated(q) <=> Active(q)) /\ (Seated(q)' <=> Active(q)')
  BY TurnFacts
<1>2. /\ mode' = mode /\ todo' = todo + 1
      /\ \A w \in Rows : rows'[w] = rows[w]
      /\ \A q \in Reqs : q # r => req'[q] = req[q]
  BY DEF Turn
<1>3. /\ Items(Pending.items) /\ DOMAIN Pending.items = 1 .. Len(Pending.items)
      /\ Len(Pending.items) \in Nat /\ todo \in 0 .. Len(Pending.items)
      /\ Items(After.items)
      /\ \A k \in DOMAIN Pending.items : Pending.items[k].r \in Reqs
      /\ \A k \in DOMAIN After.items : After.items[k].r \in Reqs
  BY AliveLoop, ItemFacts DEF MemInv
<1>4. ASSUME NEW q \in Reqs, Seated(q)'
      PROVE  Seated(q) /\ req'[q].row = req[q].row /\ Row(q)' = Row(q)
  <2>1. Seated(q) /\ req'[q].row = req[q].row
    <3>1. CASE q = r
      BY <1>1, <1>4, <3>1 DEF TurnOwn
    <3>2. CASE q # r
      <4>1. req'[q] = req[q]
        BY <1>2, <3>2
      <4>2. Active(q)' <=> Active(q)
        BY <4>1 DEF Active
      <4> QED
        BY <1>1, <1>4, <4>1, <4>2
    <3> QED
      BY <3>1, <3>2
  <2>2. req[q].row \in Rows
    BY <2>1, SeatedRow
  <2> QED
    BY <1>2, <2>1, <2>2 DEF Row
<1>5. \A q \in Reqs : q # r => /\ Active(q)' <=> Active(q)
                               /\ TextLen(q)' = TextLen(q)
  BY <1>2 DEF Active, TextLen
<1>6. LateOldInv'
  <2>1. ASSUME NEW k \in (todo + 1) + 1 .. Len(Pending.items), NEW i, i = Pending.items[k],
               NEW q, q = i.r
        PROVE  /\ ~ Active(q)' => mode'.overlap /\ Delayed(i)'
               /\ Pending'.kind = "decode" =>
                   /\ k \in DOMAIN Pending'.loc
                   /\ i.len > Len(Prompt[q])
                   /\ Seated(q)' /\ ~ New(q)' => Pending'.loc[k] = Row(q)'[Len(Row(q)')]
               /\ Pending'.kind = "extend" /\ ~ Partial(Pending', q) /\ Seated(q)' =>
                   i.row = req'[q].row
               /\ Pending'.kind = "extend" /\ ~ Active(q)' =>
                   /\ i.row \in Rows
                   /\ req'[q].out > 0 => Len(rows'[i.row]) = TextLen(q)'
                   /\ \A p \in Reqs : Seated(p)' => req'[p].row # i.row
    <3>1. k \in todo + 1 .. Len(Pending.items) /\ k \in DOMAIN Pending.items /\ q \in Reqs
      BY <1>3, <2>1
    <3>2. /\ ~ Active(q) => mode.overlap /\ Delayed(i)
          /\ Pending.kind = "decode" =>
                /\ k \in DOMAIN Pending.loc
                /\ i.len > Len(Prompt[q])
                /\ Seated(q) /\ ~ New(q) => Pending.loc[k] = Row(q)[Len(Row(q))]
          /\ Pending.kind = "extend" /\ ~ Partial(Pending, q) /\ Seated(q) =>
                i.row = req[q].row
          /\ Pending.kind = "extend" /\ ~ Active(q) =>
                /\ i.row \in Rows
                /\ req[q].out > 0 => Len(rows[i.row]) = TextLen(q)
                /\ \A p \in Reqs : Seated(p) => req[p].row # i.row
      BY <2>1, <3>1 DEF MemInv, LateOldInv
    <3>3. q # r
      <4>1. Old(q)'
        BY <1>1, <1>2, <2>1 DEF Old
      <4> QED
        BY <1>1, <4>1
    <3>4. (Active(q)' <=> Active(q)) /\ TextLen(q)' = TextLen(q) /\ req'[q] = req[q]
      BY <1>2, <1>5, <3>1, <3>3
    <3>5. Delayed(i)' <=> Delayed(i)
      BY <1>1, <2>1, <3>4 DEF Delayed
    <3>6. Partial(Pending', q) <=> Partial(Pending, q)
      BY <1>1
    <3>7. /\ ~ Active(q)' => mode'.overlap /\ Delayed(i)'
          /\ Pending'.kind = "decode" =>
                /\ k \in DOMAIN Pending'.loc
                /\ i.len > Len(Prompt[q])
                /\ Seated(q)' /\ ~ New(q)' => Pending'.loc[k] = Row(q)'[Len(Row(q)')]
      BY <1>1, <1>2, <1>4, <3>1, <3>2, <3>4, <3>5
    <3>8. Pending'.kind = "extend" /\ ~ Partial(Pending', q) /\ Seated(q)' =>
                i.row = req'[q].row
      BY <1>1, <1>4, <3>1, <3>2, <3>6
    <3>9. \A p \in Reqs : Seated(p)' => Seated(p) /\ req'[p].row = req[p].row
      BY <1>4
    <3> QED
      BY <1>1, <1>2, <3>2, <3>4, <3>7, <3>8, <3>9
  <2>2. \A k \in (todo + 1) + 1 .. Len(Pending.items) : Pending.items[k].r \in Reqs
    BY <1>3
  <2>3. mode' = mode /\ todo' = todo + 1 /\ Pending' = Pending
    BY <1>1, <1>2
  <2>4. ASSUME NEW k \in (todo + 1) + 1 .. Len(Pending.items)
        PROVE  (~ Active(Pending.items[k].r) => mode.overlap /\ Delayed(Pending.items[k]))'
    BY <2>1, <2>2, <2>3
  <2>5. ASSUME NEW k \in (todo + 1) + 1 .. Len(Pending.items)
        PROVE  (Pending.kind = "decode" =>
                   /\ k \in DOMAIN Pending.loc
                   /\ Pending.items[k].len > Len(Prompt[Pending.items[k].r])
                   /\ Seated(Pending.items[k].r) /\ ~ New(Pending.items[k].r) =>
                        Pending.loc[k] = Row(Pending.items[k].r)[Len(Row(Pending.items[k].r))])'
    BY <2>1, <2>2, <2>3
  <2>6. ASSUME NEW k \in (todo + 1) + 1 .. Len(Pending.items)
        PROVE  (Pending.kind = "extend" /\ ~ Partial(Pending, Pending.items[k].r)
                   /\ Seated(Pending.items[k].r) =>
                   Pending.items[k].row = req[Pending.items[k].r].row)'
    BY <2>1, <2>2, <2>3 DEF Partial
  <2>7. ASSUME NEW k \in (todo + 1) + 1 .. Len(Pending.items)
        PROVE  (Pending.kind = "extend" /\ ~ Active(Pending.items[k].r) =>
                   /\ Pending.items[k].row \in Rows
                   /\ req[Pending.items[k].r].out > 0 =>
                        Len(rows[Pending.items[k].row]) = TextLen(Pending.items[k].r)
                   /\ \A q \in Reqs : Seated(q) => req[q].row # Pending.items[k].row)'
    BY <2>1, <2>2, <2>3, SMTT(20) DEF Rows
  <2> QED
    BY <2>3, <2>4, <2>5, <2>6, <2>7 DEF LateOldInv
<1>7. LateNewInv'
  <2>1. ASSUME NEW k \in DOMAIN After.items, NEW q, q = After.items[k].r
        PROVE  /\ After.kind = "decode" =>
                     /\ k \in DOMAIN After.loc
                     /\ After.items[k].len > Len(Prompt[q])
                     /\ Seated(q)' => After.loc[k] = Row(q)'[Len(Row(q)')]
               /\ After.kind # "decode" => Active(q)'
               /\ Old(q)' => Active(q)'
    <3>1. /\ After.kind = "decode" =>
                /\ k \in DOMAIN After.loc
                /\ After.items[k].len > Len(Prompt[q])
                /\ Seated(q) => After.loc[k] = Row(q)[Len(Row(q))]
          /\ After.kind # "decode" => Active(q)
          /\ Old(q) => Active(q)
      BY <2>1 DEF MemInv, LateNewInv
    <3>2. q \in Reqs /\ New(q)
      BY <1>3, <2>1 DEF New, ReqsOf
    <3>3. After.kind # "decode" => Active(q)'
      BY <1>5, <3>1, <3>2 DEF TurnOwn
    <3>4. Old(q)' => Active(q)'
      BY <1>1, <1>5, <3>1, <3>2
    <3> QED
      BY <1>4, <3>1, <3>2, <3>3, <3>4
  <2>2. ASSUME NEW k \in DOMAIN After.items
        PROVE  (After.kind = "decode" =>
                  /\ k \in DOMAIN After.loc
                  /\ After.items[k].len > Len(Prompt[After.items[k].r])
                  /\ Seated(After.items[k].r) =>
                       After.loc[k] = Row(After.items[k].r)[Len(Row(After.items[k].r))])'
    BY <1>1, <2>1
  <2>3. ASSUME NEW k \in DOMAIN After.items
        PROVE  (After.kind # "decode" => Active(After.items[k].r))'
    BY <1>1, <2>1
  <2>4. ASSUME NEW k \in DOMAIN After.items
        PROVE  (Old(After.items[k].r) => Active(After.items[k].r))'
    BY <1>1, <2>1
  <2> QED
    BY <1>1, <2>2, <2>3, <2>4 DEF LateNewInv
<1> QED
  BY <1>6, <1>7

\* All but the owners of slots and rows, and what the cache keeps.
LEMMA TurnMem ==
    ASSUME OrderInv, MemInv, NEW r, Turn(r), TurnOwn(r),
           SlotsInv', RowsInv', CacheInv',
           Count(free)' \in Nat, Count(free)' >= Count(free)
    PROVE  MemInv'
<1>1. /\ r \in Reqs /\ Pending' = Pending /\ After' = After /\ Old(r) /\ ~ Old(r)'
      /\ \A q \in Reqs : (Seated(q) <=> Active(q)) /\ (Seated(q)' <=> Active(q)') /\ ~ Stashed(q)'
      /\ Joiners' = Joiners /\ Extra' = Extra
  BY TurnFacts
<1>2. /\ pc = "process" /\ pc' = "process" /\ mode' = mode /\ todo' = todo + 1
      /\ UNCHANGED <<running, chunked, cur, futureCt, ratio>>
      /\ \A w \in Rows : rows'[w] = rows[w]
      /\ \A q \in Reqs : q # r => req'[q] = req[q]
  BY DEF Turn
<1>3. LateOldInv' /\ LateNewInv'
  BY TurnFlight
<1>4. ASSUME NEW q \in Reqs, Seated(q)'
      PROVE  Seated(q) /\ req'[q].row = req[q].row /\ Row(q)' = Row(q)
  <2>1. Seated(q) /\ req'[q].row = req[q].row
    <3>1. CASE q = r
      BY <1>1, <1>4, <3>1 DEF TurnOwn
    <3>2. CASE q # r
      <4>1. req'[q] = req[q]
        BY <1>2, <3>2
      <4>2. Active(q)' <=> Active(q)
        BY <4>1 DEF Active
      <4> QED
        BY <1>1, <1>4, <4>1, <4>2
    <3> QED
      BY <3>1, <3>2
  <2>2. req[q].row \in Rows
    BY <2>1, SeatedRow
  <2> QED
    BY <1>2, <2>1, <2>2 DEF Row
<1>5. \A q \in Reqs : q # r => /\ Active(q)' <=> Active(q)
                               /\ TextLen(q)' = TextLen(q)
  BY <1>2 DEF Active, TextLen
<1>6. \A q \in Reqs : Active(q)' => Active(q)
  BY <1>5 DEF TurnOwn
<1>7. FillInv'
  <2>1. ASSUME NEW q \in Reqs
        PROVE  /\ ~ Active(q)' => req'[q].pre = <<>>
               /\ ToSet(req'[q].pre) \subseteq Slots
               /\ Len(req'[q].pre) <= req'[q].fill /\ req'[q].fill <= TextLen(q)'
               /\ Seated(q)' => req'[q].fill <= Len(Row(q)')
               /\ q = chunked =>
                     req'[q].fill < TextLen(q)' /\ (Seated(q)' => req'[q].fill = Len(Row(q)'))
    <3>1. /\ ~ Active(q) => req[q].pre = <<>>
          /\ ToSet(req[q].pre) \subseteq Slots
          /\ Len(req[q].pre) <= req[q].fill /\ req[q].fill <= TextLen(q)
          /\ Seated(q) => req[q].fill <= Len(Row(q))
          /\ q = chunked => req[q].fill < TextLen(q) /\ (Seated(q) => req[q].fill = Len(Row(q)))
      BY <1>2 DEF MemInv, FillInv
    <3>2. CASE q # r
      BY <1>2, <1>4, <1>5, <3>1, <3>2
    <3>3. CASE q = r
      <4>1. q = chunked => TextLen(q)' = TextLen(q) /\ req'[q].fill = req[q].fill
        BY <3>3 DEF TurnOwn, TextLen
      <4>2. Seated(q)' => req'[q].fill <= Len(Row(q)')
        BY <1>1, <1>4, <3>3 DEF TurnOwn
      <4>3. /\ ~ Active(q)' => req'[q].pre = <<>>
            /\ ToSet(req'[q].pre) \subseteq Slots
            /\ Len(req'[q].pre) <= req'[q].fill /\ req'[q].fill <= TextLen(q)'
        BY <3>3 DEF TurnOwn
      <4> QED
        BY <1>4, <3>1, <4>1, <4>2, <4>3
    <3> QED
      BY <3>2, <3>3
  <2> QED
    BY <1>1, <1>2, <2>1 DEF FillInv, Slots
<1>8. PlacesInv'
  <2>1. /\ Len(running') + Extra' <= MaxRunning
        /\ Len(Pending'.items) <= MaxRunning /\ Len(cur'.items) <= MaxRunning
    BY <1>1, <1>2 DEF MemInv, PlacesInv
  <2>2. ReqsOf(running)' = ReqsOf(running) /\ ReqsOf(Joiners)' = ReqsOf(Joiners)
    BY <1>1, <1>2 DEF ReqsOf
  <2>3. \A q \in Reqs : Seated(q)' => q \in ReqsOf(running)' \cup ReqsOf(Joiners)'
    BY <1>4, <2>2 DEF MemInv, PlacesInv
  <2>4. \A i \in AllItems : i.r \in Reqs
    <3>1. Items(running) /\ Items(Joiners)
      BY AliveLoop, AnswersFacts DEF MemInv
    <3> QED
      BY <3>1 DEF AllItems, ToSet, Items, Item
  <2>5. ASSUME NEW i \in AllItems
        PROVE  /\ Seated(i.r)' => i.row = req'[i.r].row /\ i.len = Len(Row(i.r)')
               /\ i.r # chunked' => i.len >= Len(Prompt[i.r])
    <3>1. PICK q \in Reqs : q = i.r
      BY <2>4
    <3>2. /\ Seated(q) => i.row = req[q].row /\ i.len = Len(Row(q))
          /\ q # chunked => i.len >= Len(Prompt[q])
      BY <3>1 DEF AllItems, MemInv, PlacesInv
    <3>3. Seated(q)' => i.row = req'[q].row /\ i.len = Len(Row(q)')
      BY <1>4, <3>2
    <3> QED
      BY <1>2, <3>1, <3>2, <3>3
  <2>6. ToSet(running') \cup ToSet(Joiners') = AllItems
    BY <1>1, <1>2 DEF AllItems, ToSet
  <2> QED
    BY <2>1, <2>3, <2>5, <2>6 DEF PlacesInv, ToSet
<1>9. RoomInv'
  <2>1. SomeLate' => Count(free)' > 0
    <3>1. /\ SomeLate' => \E k \in DOMAIN After.items : req'[After.items[k].r].st # "active"
          /\ SomeLate <=> \E k \in DOMAIN After.items : ~ Active(After.items[k].r)
      BY <1>1, <1>2 DEF SomeLate, Planning, Launched, Active
    <3>2. ASSUME SomeLate' PROVE Count(free)' > 0
      <4>1. PICK k \in DOMAIN After.items : req'[After.items[k].r].st # "active"
        BY <3>1, <3>2
      <4>2. PICK q \in Reqs : q = After.items[k].r
        BY AliveLoop, ItemFacts DEF MemInv
      <4>3. ~ Active(q)'
        BY <4>1, <4>2 DEF Active
      <4>4. CASE Active(q)
        BY <1>5, <4>3, <4>4 DEF TurnOwn
      <4>5. CASE ~ Active(q)
        <5>1. Count(free) > 0
          BY <3>1, <4>2, <4>5 DEF MemInv, RoomInv
        <5>2. Count(free) \in Nat
          BY AliveLoop DEF MemInv
        <5> QED
          BY <5>1, <5>2
      <4> QED
        BY <4>4, <4>5
    <3> QED
      BY <3>2
  <2>2. Reserve' <= Reserve /\ Reserve' \in Nat
    <3>1. ASSUME NEW q \in Reqs
          PROVE  /\ req'[q].out \in Nat
                 /\ req[q].out <= req'[q].out /\ req'[q].out <= MaxNew(q)
      <4>1. CASE q = r
        BY <4>1 DEF TurnOwn
      <4>2. CASE q # r
        BY <1>2, <4>2, ReqFacts DEF MemInv
      <4> QED
        BY <4>1, <4>2
    <3> QED
      BY <1>2, <3>1, ReserveFalls DEF MemInv
  <2>3. Answers(Joiners)' = Answers(Joiners)
    BY <1>1, <1>2, AnswersSame
  <2>4. chunked # None => 10 * Count(free)' - Reserve' - 10 * Answers(Joiners)'
               >= 10 * (TextLen(chunked)' - req'[chunked].fill)
    <3>1. ASSUME chunked # None
          PROVE  req'[chunked].out = req[chunked].out /\ req'[chunked].fill = req[chunked].fill
      <4>1. chunked \in Reqs
        BY <3>1, AliveLoop DEF MemInv, LiveInv, ChunkedInv
      <4> QED
        BY <1>2, <4>1 DEF TurnOwn
    <3> QED
      BY <1>2, <2>2, <2>3, <3>1, ChunkedRoomFrame
  <2> QED
    BY <1>2, <2>1, <2>4 DEF RoomInv
<1>10. CountersInv'
  BY <1>2 DEF MemInv, CountersInv, FutureLimit
<1> QED
  BY <1>2, <1>3, <1>7, <1>8, <1>9, <1>10 DEF MemInv

\* What the request gives back is in the free list, and all else as before.
LEMMA TurnSlots ==
    ASSUME OrderInv, MemInv, NEW r, Turn(r), NEW s, IsSeq(s), Injective(s),
           ToSet(s) \subseteq Owned(r), Owned(r)' = Owned(r) \ ToSet(s),
           free' = Freed(free, s), Active(r)' => Injective(Held(r)')
    PROVE  SlotsInv' /\ Count(free') = Count(free) + Len(s)
<1> DEFINE own == [q \in Reqs |-> Owned(q)]
           own2 == [q \in Reqs |-> Owned(q)']
<1>1. r \in Reqs
  BY TurnFacts
<1>2. own2[r] = own[r] \ ToSet(s) /\ ToSet(s) \subseteq own[r]
  BY <1>1
<1>3. \A q \in Reqs : q # r => own2[q] = own[q]
  BY TurnOthers
<1>4. OneOwner(free, Slots, own) /\ IsFiniteSet(Slots)
  BY Constants DEF MemInv, SlotsInv
<1> HIDE DEF own, own2
<1>5. OneOwner(Freed(free, s), Slots, own2) /\ Count(Freed(free, s)) = Count(free) + Len(s)
  BY <1>1, <1>2, <1>3, <1>4, GivesBack
<1>6. ASSUME NEW q \in Reqs, Active(q)' PROVE Injective(Held(q)')
  <2>1. CASE q = r
    BY <1>6, <2>1
  <2>2. CASE q # r
    <3>1. Active(q) /\ Held(q)' = Held(q)
      BY <1>6, <2>2, TurnOthers
    <3>2. Injective(Held(q))
      BY <3>1 DEF MemInv, SlotsInv
    <3> QED
      BY <3>1, <3>2
  <2> QED
    BY <2>1, <2>2
<1> QED
  BY <1>5, <1>6 DEF SlotsInv, Slots, Injective, own2

\* A turn that frees nothing leaves the slots with their owners, ...
LEMMA TurnSlotsKept ==
    ASSUME OrderInv, MemInv, NEW r, Turn(r), Owned(r)' = Owned(r), free' = free,
           Active(r)' => Injective(Held(r)')
    PROVE  SlotsInv'
<1> DEFINE own == [q \in Reqs |-> Owned(q)]
           own2 == [q \in Reqs |-> Owned(q)']
<1>1. r \in Reqs
  BY TurnFacts
<1>2. \A q \in Reqs : own2[q] = own[q]
  BY TurnOthers
<1>3. OneOwner(free, Slots, own)
  BY DEF MemInv, SlotsInv
<1> HIDE DEF own, own2
<1>4. OneOwner(free, Slots, own2)
  BY <1>2, <1>3, KeepsOwners
<1>5. ASSUME NEW q \in Reqs, Active(q)' PROVE Injective(Held(q)')
  <2>1. CASE q = r
    BY <1>5, <2>1
  <2>2. CASE q # r
    <3>1. Active(q) /\ Held(q)' = Held(q)
      BY <1>5, <2>2, TurnOthers
    <3>2. Injective(Held(q))
      BY <3>1 DEF MemInv, SlotsInv
    <3> QED
      BY <3>1, <3>2
  <2> QED
    BY <2>1, <2>2
<1> QED
  BY <1>4, <1>5 DEF SlotsInv, Slots, Injective, own2

\* ... and the rows, ...
LEMMA TurnRowsKept ==
    ASSUME OrderInv, MemInv, NEW r, Turn(r), Active(r)' <=> Active(r),
           req'[r].row = req[r].row, freeRows' = freeRows
    PROVE  RowsInv'
<1>1. /\ r \in Reqs
      /\ \A q \in Reqs : (Seated(q) <=> Active(q)) /\ (Seated(q)' <=> Active(q)')
  BY TurnFacts
<1> DEFINE own == [q \in Reqs |-> Seat(q)]
           own2 == [q \in Reqs |-> Seat(q)']
<1>2. Seat(r)' = Seat(r)
  BY <1>1 DEF Seat
<1>3. \A q \in Reqs : own2[q] = own[q]
  BY <1>2, TurnOthers
<1>4. OneOwner(freeRows, Rows, own)
  BY DEF MemInv, RowsInv
<1> HIDE DEF own, own2
<1>5. OneOwner(freeRows, Rows, own2)
  BY <1>3, <1>4, KeepsOwners
<1>6. \A q \in Reqs : req'[q].row \in {0} \cup Rows
  BY DEF Turn, MemInv, RowsInv
<1> QED
  BY <1>5, <1>6 DEF Turn, MemInv, RowsInv, Rows, Slots, own2

\* ... or gives the row of a request that ended back.
LEMMA TurnRowsBack ==
    ASSUME OrderInv, MemInv, NEW r, Turn(r), Active(r), ~ Active(r)', req'[r].row = 0,
           freeRows' = [freeRows EXCEPT ![req[r].row] = @ + 1]
    PROVE  RowsInv'
<1>1. /\ r \in Reqs
      /\ \A q \in Reqs : (Seated(q) <=> Active(q)) /\ (Seated(q)' <=> Active(q)')
  BY TurnFacts
<1> DEFINE own == [q \in Reqs |-> Seat(q)]
           own2 == [q \in Reqs |-> Seat(q)']
           w == req[r].row
<1>2. own[r] = {w} /\ own2[r] = {}
  BY <1>1 DEF Seat
<1>3. \A q \in Reqs : q # r => own2[q] = own[q]
  BY TurnOthers
<1>4. OneOwner(freeRows, Rows, own) /\ IsFiniteSet(Rows)
  BY Constants DEF MemInv, RowsInv
<1>5. freeRows' = [freeRows EXCEPT ![w] = @ + 1]
  OBVIOUS
<1> HIDE DEF own, own2, w
<1>6. OneOwner(freeRows', Rows, own2)
  <2>1. OneOwner([freeRows EXCEPT ![w] = @ + 1], Rows, own2)
    BY <1>1, <1>2, <1>3, <1>4, RowGoesBack, ZenonT(30)
  <2> QED
    BY <1>5, <2>1
<1>7. ASSUME NEW q \in Reqs PROVE req'[q].row \in {0} \cup Rows
  <2>1. CASE q = r
    BY <2>1
  <2>2. CASE q # r
    <3>1. req'[q] = req[q]
      BY <2>2 DEF Turn
    <3> QED
      BY <3>1 DEF MemInv, RowsInv
  <2> QED
    BY <2>1, <2>2
<1> QED
  BY <1>6, <1>7 DEF Turn, MemInv, RowsInv, Rows, Slots, own2

\* The frame of every result.
LEMMA ItemTurn ==
    ASSUME OrderInv, MemInv, ProcessItem
    PROVE  /\ todo + 1 \in DOMAIN Pending.items /\ Pending.items[todo + 1].r \in Reqs
           /\ pc = "process" /\ todo < Len(Pending.items)
           /\ pc' = "process" /\ todo' = todo + 1
           /\ UNCHANGED <<mode, running, chunked, last, cur, queue, adder, futureCt, ratio>>
           /\ DOMAIN rows = Rows /\ DOMAIN req = Reqs
           /\ \A r \in Reqs : DOMAIN req[r] = DOMAIN NewReq
           /\ ~ mode.radix /\ free \in [Slots -> Int] /\ Count(free) \in Nat
<1>1. /\ Items(Pending.items) /\ DOMAIN Pending.items = 1 .. Len(Pending.items)
      /\ Len(Pending.items) \in Nat /\ todo \in 0 .. Len(Pending.items) /\ ReqsType
      /\ free \in [Slots -> Int] /\ Count(free) \in Nat
  BY AliveLoop DEF MemInv
<1>2. /\ pc = "process" /\ todo < Len(Pending.items)
      /\ pc' = "process" /\ todo' = todo + 1
      /\ UNCHANGED <<mode, running, chunked, last, cur, queue, adder, futureCt, ratio>>
  BY DEF ProcessItem, batches
<1>3. todo + 1 \in DOMAIN Pending.items
  BY <1>1, <1>2
<1> QED
  BY <1>1, <1>2, <1>3, ItemFacts DEF MemInv, RowsInv, CacheInv, ReqsType, ReqType

\* The request has left the batch before.
LEMMA LateMem ==
    ASSUME OrderInv, MemInv, ProcessItem, ProcessLate(todo + 1)
    PROVE  MemInv'
<1>1. PICK r \in Reqs : r = Pending.items[todo + 1].r
  BY ItemTurn
<1>2. /\ Delayed(Pending.items[todo + 1])
      /\ free' = Freed(free, LateSlot(todo + 1))
      /\ UNCHANGED <<req, cache, rows, freeRows>>
  BY DEF ProcessLate
<1>3. Turn(r)
  BY <1>1, <1>2, ItemTurn DEF Turn
<1>4. ~ Active(r)
  <2>1. req[r].retracted => req[r].st = "waiting"
    BY ReqFacts DEF MemInv
  <2> QED
    BY <1>1, <1>2, <2>1 DEF Delayed, Active
<1>5. /\ todo + 1 \in Places0(r) /\ Old(r) /\ Places0(r)' = {}
      /\ \A j, k \in Places0(r) : j = k
      /\ Places1(r)' = Places1(r) /\ (Places1(r) = {} <=> ~ New(r))
  BY <1>3, TurnFacts
<1>6. Places1(r) = {}
  BY <1>4, <1>5 DEF MemInv, LateNewInv, Places1
<1> DEFINE s == LateSlot(todo + 1)
<1>7. Owned(r) = ToSet(s)
  <2>1. Late(r) = ToSet(LateSlot(todo + 1))
    BY <1>5, <1>6, LateIsOne
  <2> QED
    BY <1>4, <2>1 DEF Owned
<1>8. Active(r)' <=> Active(r)
  BY <1>2 DEF Active
<1>9. Owned(r)' = {}
  <2>1. Late(r)' = {}
    BY <1>5, <1>6 DEF Late
  <2> QED
    BY <1>4, <1>8, <2>1 DEF Owned
<1>10. IsSeq(s) /\ Injective(s)
  <2>1. s = <<>> \/ \E x : s = <<x>>
    BY DEF LateSlot
  <2> HIDE DEF s
  <2>2. IsSeq(s)
    BY <2>1, EmptyIsSeq
  <2>3. Injective(s)
    BY <2>1 DEF Injective
  <2> QED
    BY <2>2, <2>3
<1>11. Len(s) \in Nat
  BY <1>10, SeqFacts
<1>12. SlotsInv' /\ Count(free') = Count(free) + Len(s)
  <2> HIDE DEF s
  <2>1. ToSet(s) \subseteq Owned(r) /\ Owned(r)' = Owned(r) \ ToSet(s) /\ free' = Freed(free, s)
    BY <1>2, <1>7, <1>9 DEF s
  <2> QED
    BY <1>3, <1>4, <1>8, <1>10, <2>1, TurnSlots
<1>13. RowsInv'
  BY <1>2, <1>3, <1>8, TurnRowsKept
<1>14. CacheInv'
  BY <1>2, ItemTurn, CacheFrame DEF MemInv
<1>15. TurnOwn(r)
  <2>1. /\ req[r].pre = <<>>
        /\ ToSet(req[r].pre) \subseteq Slots
        /\ Len(req[r].pre) <= req[r].fill /\ req[r].fill <= TextLen(r)
    BY <1>4 DEF MemInv, FillInv
  <2>2. req[r].out \in Nat /\ req[r].out <= MaxNew(r)
    BY ReqFacts DEF MemInv
  <2>3. TextLen(r)' = TextLen(r)
    BY <1>2 DEF TextLen
  <2> QED
    BY <1>2, <1>4, <1>8, <2>1, <2>2, <2>3 DEF TurnOwn
<1>16. Count(free)' \in Nat /\ Count(free)' >= Count(free)
  <2>1. Count(free') \in Nat /\ Count(free') >= Count(free)
    <3> HIDE DEF s
    <3>1. Count(free) \in Nat
      BY ItemTurn
    <3> QED
      BY <1>11, <1>12, <3>1
  <2> QED
    BY <2>1 DEF Count
<1> QED
  BY <1>3, <1>12, <1>13, <1>14, <1>15, <1>16, TurnMem

\* A chunk of the prompt is done that is not the last.
LEMMA ChunkMem ==
    ASSUME OrderInv, MemInv, ProcessItem, ProcessChunk(todo + 1)
    PROVE  MemInv'
<1>1. PICK r \in Reqs : r = Pending.items[todo + 1].r
  BY ItemTurn
<1>2. /\ req[r].chunks > 0 /\ req' = [req EXCEPT ![r].chunks = @ - 1]
      /\ UNCHANGED <<cache, free, rows, freeRows>>
  BY <1>1 DEF ProcessChunk, memory
<1>3. /\ \A q \in Reqs : q # r => req'[q] = req[q]
      /\ req'[r].st = req[r].st /\ req'[r].row = req[r].row /\ req'[r].out = req[r].out
      /\ req'[r].pre = req[r].pre /\ req'[r].fill = req[r].fill
  <2>1. DOMAIN req = Reqs /\ DOMAIN req[r] = DOMAIN NewReq
    BY ItemTurn
  <2>2. DOMAIN NewReq = {"st", "out", "fill", "pre", "node", "chunks", "retracted", "abort", "row"}
    BY DEF NewReq
  <2> QED
    BY <1>2, <2>1, <2>2
<1>4. Turn(r)
  BY <1>1, <1>2, <1>3, ItemTurn DEF Turn
<1>5. Active(r) /\ Active(r)'
  <2>1. ReqType(r, req[r])
    BY AliveLoop DEF MemInv, ReqsType
  <2>2. req[r].st = "active"
    BY <1>2, <2>1 DEF ReqType
  <2> QED
    BY <1>3, <2>2 DEF Active
<1>6. Seated(r) /\ Seated(r)'
  BY <1>4, <1>5, TurnFacts
<1>7. /\ Row(r)' = Row(r) /\ Injective(Row(r)) /\ Held(r) = Row(r) /\ Held(r)' = Row(r)
  <2>1. Injective(Row(r)) /\ Held(r) = Row(r)
    BY <1>6, SeatedRow
  <2>2. Row(r)' = Row(r)
    BY <1>2, <1>3 DEF Row
  <2>3. Held(r)' = Row(r)
    BY <1>6, <2>2 DEF Held
  <2> QED
    BY <2>1, <2>2, <2>3
<1>8. Owned(r)' = Owned(r)
  <2>1. Owned(r)' = ToSet(Held(r)')
    BY <1>5 DEF Owned, ToSet
  <2> QED
    BY <1>5, <1>7, <2>1 DEF Owned
<1>9. SlotsInv'
  BY <1>2, <1>4, <1>7, <1>8, TurnSlotsKept
<1>10. RowsInv'
  BY <1>2, <1>3, <1>4, <1>5, TurnRowsKept
<1>11. CacheInv'
  BY <1>2, <1>3, ItemTurn, CacheFrame DEF MemInv
<1>12. TurnOwn(r)
  <2>1. /\ ToSet(req[r].pre) \subseteq Slots
        /\ Len(req[r].pre) <= req[r].fill /\ req[r].fill <= TextLen(r)
        /\ req[r].fill <= Len(Row(r))
    BY <1>6 DEF MemInv, FillInv
  <2>2. req[r].out \in Nat /\ req[r].out <= MaxNew(r)
    BY ReqFacts DEF MemInv
  <2>3. TextLen(r)' = TextLen(r)
    BY <1>3 DEF TextLen
  <2> QED
    BY <1>3, <1>5, <2>1, <2>2, <2>3 DEF TurnOwn
<1>13. Count(free)' \in Nat /\ Count(free)' >= Count(free)
  BY <1>2, ItemTurn DEF Count
<1> QED
  BY <1>4, <1>9, <1>10, <1>11, <1>12, <1>13, TurnMem

\* The request is still there: a token more, and one more on its way if it is
\* in the batch after this one.
LEMMA TokenFacts ==
    ASSUME OrderInv, MemInv, ProcessItem, NEW r \in Reqs, r = Pending.items[todo + 1].r,
           req[r].st = "active", req[r].chunks = 0
    PROVE  /\ Active(r) /\ Seated(r) /\ Old(r) /\ r # chunked
           /\ Len(Row(r)) = Len(Prompt[r]) + req[r].out + One(New(r))
           /\ New(r) => /\ After.kind = "decode"
                        /\ {After.loc[k] : k \in Places1(r)} = {Row(r)[Len(Row(r))]}
           /\ ~ New(r) => {After.loc[k] : k \in Places1(r)} = {}
           /\ req[r].out \in Nat /\ req[r].out + 1 <= MaxNew(r)
<1>1. /\ LiveInv /\ pc = "process" /\ todo + 1 \in todo + 1 .. Len(Pending.items)
      /\ Items(After.items) /\ Items(running) /\ Items(cur.items)
  BY AliveLoop, ItemTurn DEF MemInv
<1>2. Old(r)
  BY <1>1 DEF Old
<1>3. Active(r) /\ Seated(r)
  BY <1>1 DEF Active, Seated, Stashed
<1>4. ~ Partial(Pending, r) /\ ~ (New(r) /\ Partial(After, r))
  <2>1. Chunks(r) = 0
    BY <1>1 DEF LiveInv, ActiveInv
  <2>2. /\ One(Old(r) /\ Partial(Pending, r)) \in {0, 1}
        /\ One(New(r) /\ Partial(After, r)) \in {0, 1}
    BY DEF One
  <2>3. /\ One(Old(r) /\ Partial(Pending, r)) = 0
        /\ One(New(r) /\ Partial(After, r)) = 0
    BY <2>1, <2>2 DEF Chunks
  <2> QED
    BY <1>2, <2>3 DEF One
<1>5. Due(r) = 1 + One(New(r))
  BY <1>2, <1>4 DEF Due, One
<1>6. r # chunked
  <2>1. Due(r) # 0
    BY <1>5 DEF One
  <2>2. PICK c : c = chunked
    OBVIOUS
  <2>3. c # None => Due(c) = 0
    BY <1>1, <2>2 DEF LiveInv, ChunkedInv
  <2> QED
    BY <2>1, <2>2, <2>3, Constants
<1>7. PICK i \in ToSet(running) \cup ToSet(Joiners) : i.r = r
  BY <1>3 DEF MemInv, PlacesInv, ReqsOf, ToSet
<1>8. i.len = Len(Row(r))
  BY <1>3, <1>7 DEF MemInv, PlacesInv
<1>9. Follows(i)
  <2>1. CASE i \in ToSet(running)
    BY <1>1, <2>1 DEF ToSet, LiveInv, RunningInv
  <2>2. CASE i \in ToSet(Joiners)
    <3>1. cur.kind = "extend" /\ i \in ToSet(cur.items)
      BY <1>1, <2>2 DEF Joiners, Launched, ToSet
    <3>2. chunked = cur.chunked /\ (~ Partial(cur, i.r) => Follows(i))
      BY <1>1, <3>1 DEF LiveInv, CurInv, Launched, ToSet
    <3> QED
      BY <1>6, <1>7, <3>2 DEF Partial
  <2> QED
    BY <1>7, <2>1, <2>2
<1>10. req[r].out \in Nat /\ Len(Prompt[r]) \in Nat /\ req[r].out + 1 <= MaxNew(r)
  <2>1. /\ req[r].out \in Nat /\ Len(Prompt[r]) \in Nat /\ MaxNew(r) \in Nat
        /\ req[r].out < MaxNew(r)
    BY ReqFacts DEF MemInv
  <2> QED
    BY <2>1
<1>11. Len(Row(r)) = Len(Prompt[r]) + req[r].out + One(New(r))
  <2> DEFINE l == Len(Row(r))
             p == Len(Prompt[r])
             o == req[r].out
             d == One(New(r))
  <2>1. l = p + o - 1 + (1 + d)
    BY <1>5, <1>7, <1>8, <1>9 DEF Follows
  <2>2. d \in Nat
    BY DEF One
  <2>3. p \in Nat /\ o \in Nat
    BY <1>10
  <2> HIDE DEF l, p, o, d
  <2>4. l = p + o + d
    BY <2>1, <2>2, <2>3
  <2> QED
    BY <2>4 DEF l, p, o, d
<1>12. ASSUME New(r) PROVE After.kind = "decode"
  <2>1. After = cur /\ mode.overlap /\ cur.items # <<>>
    <3>1. NoBatch.items = <<>>
      BY DEF NoBatch
    <3>2. ReqsOf(<<>>) = {}
      BY DEF ReqsOf
    <3> QED
      BY <1>12, <3>1, <3>2 DEF After, New
  <2>2. BatchType(cur) /\ (cur.kind = "none" => cur = NoBatch)
    BY <1>1 DEF LiveInv, TypesInv, BatchesType
  <2>3. cur.kind # "none"
    BY <2>1, <2>2 DEF NoBatch
  <2>4. cur.kind # "extend"
    <3> SUFFICES ASSUME cur.kind = "extend" PROVE FALSE
      OBVIOUS
    <3>1. PICK k \in DOMAIN cur.items : cur.items[k].r = r
      BY <1>12, <2>1 DEF New, ReqsOf
    <3>2. Old(r) => Partial(Pending, r)
      BY <1>1, <2>1, <3>1 DEF LiveInv, CurInv, Launched
    <3> QED
      BY <1>2, <1>4, <3>2
  <2> QED
    BY <2>1, <2>2, <2>3, <2>4 DEF BatchType
<1>13. ASSUME New(r) PROVE {After.loc[k] : k \in Places1(r)} = {Row(r)[Len(Row(r))]}
  <2>1. PICK k \in DOMAIN After.items : After.items[k].r = r
    BY <1>13 DEF New, ReqsOf
  <2>2. Places1(r) = {k}
    BY <1>1, <2>1 DEF Places1, Items
  <2>3. After.loc[k] = Row(r)[Len(Row(r))]
    BY <1>3, <1>12, <1>13, <2>1 DEF MemInv, LateNewInv
  <2> QED
    BY <2>2, <2>3
<1>14. ~ New(r) => {After.loc[k] : k \in Places1(r)} = {}
  <2>1. ~ New(r) => Places1(r) = {}
    BY DEF New, Places1, ReqsOf
  <2> QED
    BY <2>1
<1> QED
  BY <1>2, <1>3, <1>6, <1>10, <1>11, <1>12, <1>13, <1>14

\* The request goes on, with the slots it has.
LEMMA GoesOnMem ==
    ASSUME OrderInv, MemInv, NEW r, Turn(r), Seated(r), r # chunked,
           req'[r].st = "active", req'[r].row = req[r].row,
           req[r].out \in Nat, req'[r].out = req[r].out + 1, req'[r].out <= MaxNew(r),
           req'[r].fill = req[r].fill,
           ToSet(req'[r].pre) \subseteq Slots, Len(req'[r].pre) <= req[r].fill,
           UNCHANGED <<free, freeRows>>, CacheInv'
    PROVE  MemInv'
<1>1. r \in Reqs /\ Active(r) /\ Active(r)' /\ Seated(r)'
  <2>1. Active(r)' /\ r \in Reqs
    BY TurnFacts DEF Active
  <2> QED
    BY <2>1, TurnFacts
<1>2. /\ req[r].row \in Rows /\ Injective(Row(r)) /\ Held(r) = Row(r)
  BY <1>1, SeatedRow
<1>3. Row(r)' = Row(r) /\ Held(r)' = Row(r)
  <2>1. Row(r)' = Row(r)
    BY <1>2 DEF Row, Turn
  <2> QED
    BY <1>1, <2>1 DEF Held
<1>4. Owned(r)' = Owned(r)
  <2>1. Owned(r)' = ToSet(Held(r)')
    BY <1>1 DEF Owned, ToSet
  <2> QED
    BY <1>1, <1>2, <1>3, <2>1 DEF Owned
<1>5. SlotsInv'
  BY <1>2, <1>3, <1>4, TurnSlotsKept
<1>6. RowsInv'
  BY <1>1, TurnRowsKept
<1>7. TurnOwn(r)
  <2>1. req[r].fill <= TextLen(r) /\ req[r].fill <= Len(Row(r)) /\ req[r].fill \in Int
    BY <1>1, ReqFacts DEF MemInv, FillInv
  <2>2. TextLen(r)' = TextLen(r) + 1 /\ TextLen(r) \in Nat
    <3>1. Len(Prompt[r]) \in Nat
      BY <1>1, Constants
    <3> QED
      BY <3>1 DEF TextLen
  <2>3. req'[r].fill <= TextLen(r)'
    BY <2>1, <2>2
  <2>4. req'[r].out \in Nat /\ req[r].out <= req'[r].out
    OBVIOUS
  <2> QED
    BY <1>1, <2>1, <2>3, <2>4 DEF TurnOwn
<1>8. Count(free)' \in Nat /\ Count(free)' >= Count(free)
  <2>1. Count(free) \in Nat
    BY AliveLoop DEF MemInv
  <2> QED
    BY <2>1 DEF Count
<1> QED
  BY <1>5, <1>6, <1>7, <1>8, TurnMem

OneMore(r) == [req[r] EXCEPT !.out = @ + 1]
EndsNow(r) ==
    /\ cache' = CacheFinished(r, OneMore(r), TRUE).cache
    /\ free' = CacheFinished(r, OneMore(r), TRUE).free
    /\ freeRows' = [freeRows EXCEPT ![OneMore(r).row] = @ + 1]
    /\ req' = [req EXCEPT ![r] = [NewReq EXCEPT !.st = "done", !.out = OneMore(r).out]]
    /\ rows' = rows
KeptNow(r) ==
    LET after == CacheUnfinished(r, OneMore(r))
    IN  /\ cache' = after.cache
        /\ free' = after.free
        /\ rows' = [rows EXCEPT ![OneMore(r).row] = after.slots
                                    \o SubSeq(@, OneMore(r).fill + 1, Len(@))]
        /\ req' = [req EXCEPT ![r] = [OneMore(r) EXCEPT !.pre = after.slots,
                                                        !.node = after.node]]
        /\ freeRows' = freeRows

\* The request with its next token.
LEMMA OneMoreFacts ==
    ASSUME OrderInv, MemInv, ProcessItem, NEW r \in Reqs, NEW rec, rec = OneMore(r)
    PROVE  /\ DOMAIN rec = DOMAIN NewReq
           /\ DOMAIN NewReq = {"st", "out", "fill", "pre", "node", "chunks", "retracted",
                               "abort", "row"}
           /\ rec.out = req[r].out + 1 /\ rec.row = req[r].row /\ rec.pre = req[r].pre
           /\ rec.st = req[r].st /\ rec.fill = req[r].fill /\ rec.chunks = req[r].chunks
<1>1. DOMAIN req[r] = DOMAIN NewReq
  BY ItemTurn
<1>2. DOMAIN NewReq = {"st", "out", "fill", "pre", "node", "chunks", "retracted", "abort", "row"}
  BY DEF NewReq
<1> QED
  BY <1>1, <1>2 DEF OneMore

\* The request ends.
LEMMA EndsMem ==
    ASSUME OrderInv, MemInv, ProcessItem, NEW r \in Reqs, r = Pending.items[todo + 1].r,
           req[r].st = "active", req[r].chunks = 0, EndsNow(r)
    PROVE  MemInv'
<1>1. PICK rec : rec = OneMore(r)
  OBVIOUS
<1>2. /\ Active(r) /\ Seated(r) /\ r # chunked
      /\ Len(Row(r)) = Len(Prompt[r]) + req[r].out + One(New(r))
      /\ New(r) => /\ After.kind = "decode"
                   /\ {After.loc[k] : k \in Places1(r)} = {Row(r)[Len(Row(r))]}
      /\ ~ New(r) => {After.loc[k] : k \in Places1(r)} = {}
      /\ req[r].out \in Nat /\ req[r].out + 1 <= MaxNew(r)
  BY TokenFacts
<1>3. rec.out = req[r].out + 1 /\ rec.row = req[r].row /\ rec.pre = req[r].pre
  BY <1>1, OneMoreFacts
<1>4. /\ \A q \in Reqs : q # r => req'[q] = req[q]
      /\ req'[r].st = "done" /\ req'[r].out = req[r].out + 1 /\ req'[r].pre = <<>>
      /\ req'[r].fill = 0 /\ req'[r].row = 0
  <2> DEFINE x == [NewReq EXCEPT !.st = "done", !.out = rec.out]
  <2>1. x.st = "done" /\ x.out = rec.out /\ x.pre = <<>> /\ x.fill = 0 /\ x.row = 0
    BY DEF NewReq
  <2>2. req' = [req EXCEPT ![r] = x] /\ DOMAIN req = Reqs
    BY <1>1, ItemTurn DEF EndsNow
  <2> HIDE DEF x
  <2> QED
    BY <1>3, <2>1, <2>2
<1>5. Turn(r)
  <2>1. rows' = rows
    BY DEF EndsNow
  <2> QED
    BY <1>4, <2>1, ItemTurn DEF Turn
<1>6. ~ Active(r)'
  BY <1>4 DEF Active
<1>7. PICK n : n = Stored(r, rec)
  OBVIOUS
<1> DEFINE row == Row(r)
           s == Upto(row, n)
           l == Len(row)
           p == Len(Prompt[r])
           o == req[r].out
<1>8. /\ IsSeq(row) /\ Injective(row) /\ l \in Nat /\ DOMAIN row = 1 .. l
      /\ Owned(r) = ToSet(row) /\ req[r].row \in Rows
  BY <1>2, SeatedRow
<1>9. p \in Nat /\ p >= 1 /\ o \in Nat
  <2>1. p \in 1 .. Size - 7 /\ Size \in Nat
    BY SchedulerAssumption
  <2> HIDE DEF p
  <2> QED
    BY <1>2, <2>1, SMTT(20)
<1>10. n = p + o
  <2>1. rec.out \in Nat /\ rec.out > 0 /\ rec.out - 1 = o
    BY <1>2, <1>3, SMTT(20)
  <2>2. n = Len(Prompt[r]) + (IF rec.out > 0 THEN rec.out - 1 ELSE 0)
    BY <1>7, <2>1, StoredIs
  <2> QED
    BY <2>1, <2>2
<1>11. n \in Nat /\ n >= 1 /\ n <= l /\ l = n + One(New(r))
  <2> DEFINE d == One(New(r))
  <2>1. l = p + o + d
    BY <1>2
  <2>2. d \in Nat
    BY DEF One
  <2> HIDE DEF l, p, o, d
  <2>3. n \in Nat /\ n >= 1 /\ n <= l /\ l = n + d
    BY <1>9, <1>10, <2>1, <2>2
  <2> QED
    BY <2>3 DEF d
<1>12. /\ IsSeq(s) /\ Len(s) = n /\ Injective(s) /\ ToSet(s) \subseteq ToSet(row)
       /\ \A k \in n + 1 .. l : row[k] \notin ToSet(s)
       /\ \A x \in ToSet(row) : x \in ToSet(s) \/ \E k \in n + 1 .. l : row[k] = x
  <2> HIDE DEF row, l
  <2>1. l = Len(row)
    BY DEF l
  <2> QED
    BY <1>8, <1>11, <2>1, UptoInjective
<1>13. /\ DOMAIN cache'.tree = {} /\ cache'.evictable = 0
       /\ cache'.protected = cache.protected - Len(req[r].pre)
       /\ free' = Freed(free, s)
  <2>1. /\ CacheFinished(r, rec, TRUE).cache
                 = [cache EXCEPT !.protected = @ - Len(req[r].pre)]
        /\ CacheFinished(r, rec, TRUE).free = Freed(free, Upto(Row(r), Stored(r, rec)))
    BY <1>3, ReleaseFacts, ZenonT(30)
  <2>2. CacheType(cache)
    BY AliveLoop DEF MemInv, LiveInv, TypesInv, MemoryType
  <2>3. cache' = CacheFinished(r, rec, TRUE).cache /\ free' = CacheFinished(r, rec, TRUE).free
    BY <1>1 DEF EndsNow
  <2> QED
    BY <1>7, <2>1, <2>2, <2>3 DEF CacheType, MemInv, CacheInv
<1>14. Owned(r)' = Owned(r) \ ToSet(s)
  <2>1. Places0(r)' = {} /\ Places1(r)' = Places1(r) /\ After' = After
    BY <1>5, TurnFacts
  <2>2. Owned(r)' = {After.loc[k] : k \in Places1(r)}
    <3>1. Late(r)' = {After.loc[k] : k \in Places1(r)}
      BY <2>1 DEF Late
    <3> QED
      BY <1>6, <3>1 DEF Owned
  <2>3. CASE New(r)
    <3>1. l = n + 1
      BY <1>11, <2>3 DEF One
    <3>2. Owned(r)' = {row[l]}
      BY <1>2, <2>2, <2>3
    <3>3. n + 1 .. l = {l} /\ l \in DOMAIN row
      <4> HIDE DEF l, row
      <4> QED
        BY <1>8, <1>11, <3>1
    <3>4. row[l] \in ToSet(row)
      BY <3>3 DEF ToSet
    <3> HIDE DEF l, row, s
    <3> QED
      BY <1>8, <1>12, <3>2, <3>3, <3>4
  <2>4. CASE ~ New(r)
    <3>1. l = n
      BY <1>11, <2>4 DEF One
    <3>2. n + 1 .. l = {}
      <4> HIDE DEF l
      <4> QED
        BY <1>11, <3>1
    <3>3. Owned(r)' = {}
      BY <1>2, <2>2, <2>4
    <3> HIDE DEF l, row, s
    <3> QED
      BY <1>8, <1>12, <3>2, <3>3
  <2> QED
    BY <2>3, <2>4
<1>15. SlotsInv' /\ Count(free') = Count(free) + n
  <2> HIDE DEF s, row
  <2>1. ToSet(s) \subseteq Owned(r)
    BY <1>8, <1>12
  <2> QED
    BY <1>5, <1>6, <1>12, <1>13, <1>14, <2>1, TurnSlots
<1>16. RowsInv'
  <2>1. freeRows' = [freeRows EXCEPT ![req[r].row] = @ + 1]
    BY <1>1, <1>3 DEF EndsNow
  <2> QED
    BY <1>2, <1>4, <1>5, <1>6, <2>1, TurnRowsBack
<1>17. CacheInv'
  BY <1>4, <1>13, ItemTurn, CacheReleases
<1>18. Count(free)' \in Nat /\ Count(free)' >= Count(free) /\ Count(free)' > 0
  <2>1. Count(free) \in Nat
    BY ItemTurn
  <2>2. Count(free') \in Nat /\ Count(free') >= Count(free) /\ Count(free') > 0
    BY <1>11, <1>15, <2>1
  <2> QED
    BY <2>2 DEF Count
<1>19. TurnOwn(r)
  <2>1. ToSet(<<>>) = {} /\ Len(<<>>) = 0
    BY DEF ToSet
  <2>2. TextLen(r)' \in Nat
    BY <1>2, <1>4, <1>9, SMTT(20) DEF TextLen
  <2>3. req'[r].out \in Nat /\ req[r].out <= req'[r].out /\ req'[r].out <= MaxNew(r)
    BY <1>2, <1>4, SMTT(20)
  <2> QED
    BY <1>2, <1>4, <1>6, <1>18, <2>1, <2>2, <2>3 DEF TurnOwn
<1> QED
  BY <1>5, <1>15, <1>16, <1>17, <1>18, <1>19, TurnMem

\* The whole prompt has been prefilled: the cache keeps it for the request.
LEMMA KeepsMem ==
    ASSUME OrderInv, MemInv, ProcessItem, NEW r \in Reqs, r = Pending.items[todo + 1].r,
           req[r].st = "active", req[r].chunks = 0, KeptNow(r)
    PROVE  MemInv'
<1>1. PICK rec : rec = OneMore(r)
  OBVIOUS
<1>2. PICK after : after = CacheUnfinished(r, rec)
  OBVIOUS
<1>3. /\ Active(r) /\ Seated(r) /\ r # chunked
      /\ req[r].out \in Nat /\ req[r].out + 1 <= MaxNew(r)
  BY TokenFacts
<1>4. /\ DOMAIN rec = DOMAIN NewReq
      /\ rec.out = req[r].out + 1 /\ rec.row = req[r].row /\ rec.pre = req[r].pre
      /\ rec.st = "active" /\ rec.fill = req[r].fill
      /\ DOMAIN NewReq = {"st", "out", "fill", "pre", "node", "chunks", "retracted", "abort", "row"}
  BY <1>1, OneMoreFacts
<1> DEFINE row == Row(r)
           n == req[r].fill
           s == Upto(row, n)
<1>5. /\ IsSeq(row) /\ Injective(row) /\ Len(row) \in Nat /\ ToSet(row) \subseteq Slots
      /\ req[r].row \in Rows /\ DOMAIN row = 1 .. Len(row)
  BY <1>3, SeatedRow
<1>6. n \in Nat /\ n <= Len(row) /\ Len(req[r].pre) \in Nat
  <2>1. n \in Int /\ Len(req[r].pre) \in Nat
    BY ReqFacts DEF MemInv
  <2>2. Len(req[r].pre) <= n /\ n <= Len(row)
    BY <1>3 DEF MemInv, FillInv
  <2> DEFINE p == Len(req[r].pre)
  <2>3. p \in Nat /\ n \in Int /\ p <= n /\ n <= Len(row)
    BY <2>1, <2>2
  <2> HIDE DEF n, p, row
  <2>4. n \in Nat
    BY <2>3
  <2> QED
    BY <2>3, <2>4 DEF p
<1>7. IsSeq(s) /\ Len(s) = n /\ ToSet(s) \subseteq ToSet(row)
  <2> HIDE DEF row, n
  <2> QED
    BY <1>5, <1>6, UptoInjective
<1>8. /\ after.cache = [cache EXCEPT !.protected = @ + n - Len(req[r].pre)]
      /\ after.free = free /\ after.slots = s
  <2>1. ~ mode.radix
    BY ItemTurn
  <2>2. after = [cache |-> [cache EXCEPT !.protected = @ + rec.fill - Len(rec.pre)],
                 free  |-> free, slots |-> Upto(rows[rec.row], rec.fill), node |-> <<>>]
    BY <1>2, <2>1 DEF CacheUnfinished
  <2>3. /\ rec.fill = n /\ Len(rec.pre) = Len(req[r].pre)
        /\ Upto(rows[rec.row], rec.fill) = s
    BY <1>4 DEF Row
  <2> HIDE DEF s, n
  <2> QED
    BY <2>2, <2>3
<1>9. s \o SubSeq(row, n + 1, Len(row)) = row
  <2> HIDE DEF row, n
  <2> QED
    BY <1>5, <1>6, UptoAndRest
<1>10. DOMAIN rows' = Rows /\ \A w \in Rows : rows'[w] = rows[w]
  <2>1. DOMAIN rows = Rows
    BY ItemTurn
  <2>2. rows' = [rows EXCEPT ![req[r].row] = row]
    <3>1. rows' = [rows EXCEPT ![req[r].row] = s \o SubSeq(row, n + 1, Len(row))]
      BY <1>1, <1>2, <1>4, <1>8 DEF Row, KeptNow
    <3> QED
      BY <1>9, <3>1
  <2> QED
    BY <2>1, <2>2 DEF Row
<1>11. /\ \A q \in Reqs : q # r => req'[q] = req[q]
      /\ req'[r].st = "active" /\ req'[r].out = req[r].out + 1 /\ req'[r].pre = s
      /\ req'[r].fill = n /\ req'[r].row = req[r].row
  <2>1. DOMAIN req = Reqs
    BY ItemTurn
  <2> DEFINE x == [rec EXCEPT !.pre = after.slots, !.node = after.node]
  <2>2. x.st = "active" /\ x.out = req[r].out + 1 /\ x.pre = s /\ x.fill = n /\ x.row = req[r].row
    BY <1>4, <1>8
  <2>3. req' = [req EXCEPT ![r] = x]
    BY <1>1, <1>2 DEF KeptNow
  <2> HIDE DEF x, s, n
  <2> QED
    BY <2>1, <2>2, <2>3
<1>12. Turn(r)
  BY <1>10, <1>11, ItemTurn DEF Turn
<1>13. CacheInv'
  <2>1. CacheType(cache)
    BY AliveLoop DEF MemInv, LiveInv, TypesInv, MemoryType
  <2>2. /\ cache'.tree = cache.tree /\ cache'.evictable = cache.evictable
        /\ cache'.protected = cache.protected + n - Len(req[r].pre)
    <3>1. cache' = after.cache
      BY <1>1, <1>2 DEF KeptNow
    <3> QED
      BY <1>8, <2>1, <3>1 DEF CacheType
  <2> DEFINE old == [q \in Reqs |-> Len(req[q].pre)]
             new == [q \in Reqs |-> Len(req'[q].pre)]
  <2>3. Sums(cache.protected, old) /\ DOMAIN cache.tree = {} /\ cache.evictable = 0
    BY DEF MemInv, CacheInv
  <2>4. \A q \in Reqs : old[q] \in Nat
    BY ReqFacts DEF MemInv
  <2>5. old[r] = Len(req[r].pre) /\ new[r] = n /\ new[r] \in Nat
    BY <1>6, <1>7, <1>11
  <2>6. \A q \in Reqs : q # r => new[q] = old[q]
    BY <1>11
  <2>7. DOMAIN old = Reqs /\ DOMAIN new = Reqs
    OBVIOUS
  <2> HIDE DEF old, new, n
  <2>8. cache.protected \in Nat /\ Sums(cache.protected - old[r] + new[r], new)
    <3>1. PICK c : c = cache.protected
      OBVIOUS
    <3>2. Sums(c, old) /\ r \in DOMAIN old /\ DOMAIN new = DOMAIN old /\ new[r] \in Nat
      BY <2>3, <2>5, <2>7, <3>1
    <3>3. /\ \A x \in DOMAIN old : old[x] \in Nat
          /\ \A x \in DOMAIN old : x # r => new[x] = old[x]
      BY <2>4, <2>6, <2>7
    <3>4. c \in Nat /\ Sums(c - old[r] + new[r], new)
      BY <3>2, <3>3, SumsPut
    <3> QED
      BY <3>1, <3>4
  <2>9. cache.protected - old[r] + new[r] = cache'.protected
    <3>1. PICK p : p = Len(req[r].pre)
      OBVIOUS
    <3>2. PICK c : c = cache.protected
      OBVIOUS
    <3>3. cache'.protected = c + n - p /\ old[r] = p /\ new[r] = n
      BY <2>2, <2>5, <3>1, <3>2
    <3>4. p \in Nat /\ c \in Nat /\ n \in Nat
      BY <1>6, <2>8, <3>1, <3>2
    <3>5. c - p + n = c + n - p
      BY <3>4
    <3> QED
      BY <3>2, <3>3, <3>5
  <2> QED
    BY <2>2, <2>3, <2>8, <2>9, ItemTurn DEF CacheInv, new
<1>14. UNCHANGED <<free, freeRows>>
  BY <1>1, <1>2, <1>8 DEF KeptNow
<1>15. ToSet(req'[r].pre) \subseteq Slots /\ Len(req'[r].pre) <= req[r].fill
  <2> HIDE DEF s, row
  <2>1. Len(s) <= n
    <3> HIDE DEF n
    <3> QED
      BY <1>6, <1>7
  <2> QED
    BY <1>5, <1>7, <1>11, <2>1
<1> QED
  BY <1>3, <1>11, <1>12, <1>13, <1>14, <1>15, GoesOnMem

\* Every turn keeps MemInv.
LEMMA ProcessMem ==
    ASSUME OrderInv, MemInv, ProcessItem
    PROVE  MemInv'
<1> DEFINE k == todo + 1
<1>1. ProcessLate(k) \/ ProcessChunk(k) \/ ProcessToken(k)
  BY DEF ProcessItem
<1>2. CASE ProcessToken(k)
  <2>1. PICK r \in Reqs : r = Pending.items[k].r
    BY ItemTurn
  <2>2. PICK rec : rec = OneMore(r)
    OBVIOUS
  <2>3. /\ rec.st = "active" /\ rec.chunks = 0
        /\ \/ EndsNow(r)
           \/ KeptNow(r)
           \/ /\ req' = [req EXCEPT ![r] = rec]
              /\ UNCHANGED <<cache, free, rows, freeRows>>
    BY <1>2, <2>1, <2>2 DEF ProcessToken, memory, OneMore, EndsNow, KeptNow
  <2>4. /\ rec.out = req[r].out + 1 /\ rec.row = req[r].row /\ rec.pre = req[r].pre
        /\ rec.st = req[r].st /\ rec.fill = req[r].fill /\ rec.chunks = req[r].chunks
    BY <2>2, OneMoreFacts
  <2>5. req[r].st = "active" /\ req[r].chunks = 0
    BY <2>3, <2>4
  <2>6. CASE EndsNow(r)
    BY <2>1, <2>5, <2>6, EndsMem
  <2>7. CASE KeptNow(r)
    BY <2>1, <2>5, <2>7, KeepsMem
  <2>8. CASE /\ req' = [req EXCEPT ![r] = rec]
             /\ UNCHANGED <<cache, free, rows, freeRows>>
    <3>1. /\ Active(r) /\ Seated(r) /\ r # chunked
          /\ req[r].out \in Nat /\ req[r].out + 1 <= MaxNew(r)
      BY <2>1, <2>5, TokenFacts
    <3>2. req'[r] = rec /\ \A q \in Reqs : q # r => req'[q] = req[q]
      BY <2>8, ItemTurn
    <3>3. Turn(r)
      BY <2>1, <2>8, <3>2, ItemTurn DEF Turn
    <3>4. CacheInv'
      <4>1. \A q \in Reqs : Len(req'[q].pre) = Len(req[q].pre)
        BY <2>4, <3>2
      <4> QED
        BY <2>8, <4>1, ItemTurn, CacheFrame DEF MemInv
    <3>5. ToSet(req[r].pre) \subseteq Slots /\ Len(req[r].pre) <= req[r].fill
      BY DEF MemInv, FillInv
    <3> QED
      BY <2>4, <2>5, <2>8, <3>1, <3>2, <3>3, <3>4, <3>5, GoesOnMem
  <2> QED
    BY <2>3, <2>6, <2>7, <2>8
<1> QED
  BY <1>1, <1>2, LateMem, ChunkMem

-----------------------------------------------------------------------------
(* The loop.                                                                *)

\* Every step of the loop keeps MemInv.
LEMMA NextMem ==
    ASSUME OrderInv, MemInv, [Next /\ SparingFlush]_vars
    PROVE  MemInv'
<1>1. CASE UNCHANGED vars
  BY <1>1, StutterMem
<1>2. CASE SchedulerStep
  BY <1>2, StashMem, MergeMem, NoPrefillMem, StartMem, AdmitMem, LaunchMem,
     UpdateRunningMem, RetractMem, PrepareMem, RunMem, ProcessMem, EndMem,
     IdleMem DEF SchedulerStep
<1>3. CASE \/ \E r \in Reqs : Arrive(r)
           \/ \E r \in MayAbort : Abort(r)
  <2>1. MayAbort \subseteq Reqs
    BY SchedulerAssumption
  <2> QED
    BY <1>3, <2>1, ArrivalMem
<1>4. CASE FlushCache /\ SparingFlush
  BY <1>4, FlushMem DEF SparingFlush
<1> QED
  BY <1>1, <1>2, <1>3, <1>4 DEF Next

\* So MemInv holds, with ChunkCache and as long as flushes spare the requests.
LEMMA MemHolds ==
    ASSUME ChunkCacheOnly
    PROVE  Spec /\ FlushSparesRequests => [](OrderInv /\ MemInv)
<1>1. Init => OrderInv /\ MemInv
  BY InitKeeps, InitMem
<1>2. [Next]_vars /\ [FlushCache => \A r \in Reqs : req[r].st # "active"]_vars
         => [Next /\ SparingFlush]_vars
  BY DEF SparingFlush
<1>3. OrderInv /\ [Next]_vars /\ [FlushCache => \A r \in Reqs : req[r].st # "active"]_vars
         => OrderInv'
  BY <1>2, NextKeeps
<1>4. OrderInv /\ MemInv /\ [Next]_vars
         /\ [FlushCache => \A r \in Reqs : req[r].st # "active"]_vars
         => MemInv'
  BY <1>2, NextMem
<1> QED
  BY <1>1, <1>3, <1>4, PTL DEF Spec, FlushSparesRequests

\* With ChunkCache, as blend_common.py configures the server, no KV slot and no
\* row of req_to_token is in its free list twice, whatever is retracted, aborted
\* or chunked while a batch is still in flight, as long as flush_cache takes no
\* request's memory. That cache holds no slot itself.
THEOREM SlotsOwned ==
    ASSUME ChunkCacheOnly
    PROVE  Spec /\ FlushSparesRequests => []SlotsDisjoint
<1>1. OrderInv /\ MemInv => SlotsDisjoint
  <2> SUFFICES ASSUME MemInv PROVE SlotsDisjoint
    OBVIOUS
  <2> DEFINE tree == cache.tree
             held == [r \in Reqs |-> Owned(r)]
             seats == [r \in Reqs |-> Seat(r)]
  <2>1. DOMAIN tree = {} /\ OneOwner(free, Slots, held) /\ OneOwner(freeRows, Rows, seats)
    BY DEF MemInv, CacheInv, SlotsInv, RowsInv
  <2>2. /\ \A s \in Slots : free[s] <= 1
        /\ \A w \in Rows : freeRows[w] <= 1
    <3> HIDE DEF held, seats
    <3> QED
      BY <2>1 DEF OneOwner, One
  <2>3. SlotsIn(tree, DOMAIN tree) = {}
    BY <2>1 DEF SlotsIn
  <2>4. KeyLens(tree, DOMAIN tree) = 0
    <3>1. KeyLens(tree, {}) = 0
      <4> DEFINE f == [p \in {} |-> KeyLen(tree, p)]
      <4>1. DOMAIN f = {} /\ \A x \in DOMAIN f : f[x] \in Nat /\ f[x] = 0
        OBVIOUS
      <4> HIDE DEF f
      <4>2. NatValued(f)
        BY <4>1, FS_EmptySet DEF NatValued
      <4>3. Total(f) = 0
        BY <4>1, <4>2, TotalZero
      <4> QED
        BY <4>3 DEF KeyLens, f
    <3> QED
      BY <2>1, <3>1
  <2>5. Cardinality({}) = 0
    BY FS_EmptySet
  <2> HIDE DEF tree
  <2> QED
    BY <2>2, <2>3, <2>4, <2>5 DEF SlotsDisjoint, tree
<1> QED
  BY <1>1, MemHolds, PTL

\* There the loop never dies: what the adder admits and the retraction leaves
\* always fits, so alloc_token_slots never raises "out of memory", and the check
\* of an idle server finds every slot and every row.
THEOREM LoopLives ==
    ASSUME ChunkCacheOnly
    PROVE  Spec /\ FlushSparesRequests => []NeverDies
<1>1. OrderInv /\ MemInv => NeverDies
  BY DEF MemInv, NeverDies
<1> QED
  BY <1>1, MemHolds, PTL

\* And every variable keeps its type: no more requests run than
\* max_running_requests, at most two results are queued, and what is filled is
\* never more than the text.
THEOREM SchedulerTypes ==
    ASSUME ChunkCacheOnly
    PROVE  Spec /\ FlushSparesRequests => []TypeOK
<1>1. ASSUME OrderInv, MemInv PROVE TypeOK
  <2>1. pc # "dead" /\ LiveInv /\ TypesInv
    BY <1>1, AliveLoop DEF MemInv, LiveInv
  <2>2. mode \in Modes /\ pc \in Places
    BY <2>1 DEF TypesInv
  <2>3. ASSUME NEW r \in Reqs
        PROVE  /\ req[r].st \in {"new", "waiting", "active", "done"}
               /\ req[r].out \in 0 .. MaxNew(r)
               /\ req[r].fill \in 0 .. Len(Text(r))
               /\ ToSet(req[r].pre) \subseteq Slots
               /\ req[r].row \in {0} \cup Rows
    <3>1. req[r].st \in {"new", "waiting", "active", "done"} /\ req[r].out \in 0 .. MaxNew(r)
      BY <2>1 DEF TypesInv, ReqsType, ReqType
    <3>2. /\ req[r].fill \in Int /\ Len(req[r].pre) \in Nat
          /\ req[r].out \in Nat /\ req[r].out <= MaxNew(r)
          /\ Len(Prompt[r]) \in Nat /\ MaxNew(r) \in Nat
      BY <1>1, <2>1, ReqFacts
    <3>3. /\ Len(req[r].pre) <= req[r].fill
          /\ req[r].fill <= Len(Prompt[r]) + req[r].out
      BY <1>1 DEF MemInv, FillInv, TextLen
    <3>4. Len(Text(r)) = Len(Prompt[r]) + MaxNew(r)
      BY TextAssumption, ConcatIsSeq DEF Text, MaxNew, IsSeq
    <3>5. req[r].fill \in 0 .. Len(Text(r))
      BY <3>2, <3>3, <3>4
    <3>6. ToSet(req[r].pre) \subseteq Slots /\ req[r].row \in {0} \cup Rows
      BY <1>1 DEF MemInv, FillInv, RowsInv
    <3> QED
      BY <3>1, <3>5, <3>6
  <2>4. DOMAIN cache.tree = {}
    BY <1>1 DEF MemInv, CacheInv
  <2>5. free \in [Slots -> Nat] /\ freeRows \in [Rows -> Nat]
    <3> DEFINE held == [r \in Reqs |-> Owned(r)]
               seats == [r \in Reqs |-> Seat(r)]
    <3>1. OneOwner(free, Slots, held) /\ OneOwner(freeRows, Rows, seats)
      BY <1>1 DEF MemInv, SlotsInv, RowsInv
    <3> HIDE DEF held, seats
    <3>2. /\ free = [x \in Slots |-> free[x]] /\ \A x \in Slots : free[x] \in Nat
          /\ freeRows = [x \in Rows |-> freeRows[x]] /\ \A x \in Rows : freeRows[x] \in Nat
      BY <3>1 DEF OneOwner, One
    <3> QED
      BY <3>2
  <2>6. \A w \in Rows : ToSet(rows[w]) \subseteq Slots
    BY <1>1 DEF MemInv, RowsInv
  <2>7. Len(running) <= MaxRunning
    <3>1. Len(running) \in Nat /\ Len(Joiners) \in Nat
      <4>1. IsSeq(running) /\ IsSeq(Joiners)
        BY <1>1, <2>1, AliveLoop, AnswersFacts DEF Items
      <4> QED
        BY <4>1, SeqFacts
    <3>2. pc = "admit" => Len(adder.can) \in Nat
      BY <2>1, SeqFacts DEF LiveInv, AdderInv
    <3>3. Extra \in Nat
      BY <3>1, <3>2 DEF Extra, One
    <3>4. Len(running) + Extra <= MaxRunning /\ MaxRunning \in Nat
      BY <1>1, SchedulerAssumption DEF MemInv, PlacesInv
    <3> QED
      BY <3>1, <3>3, <3>4
  <2>8. Len(queue) <= 2
    <3>1. queue = <<>> \/ queue = <<cur>> \/ queue = <<Pending>> \/ queue = <<Pending, cur>>
      BY <1>1, <2>2, SchedulerAssumption DEF OrderInv, QueueInv, QueueShape
    <3>2. \A a, b : Len(<<>>) <= 2 /\ Len(<<a>>) <= 2 /\ Len(<<a, b>>) <= 2
      OBVIOUS
    <3>3. /\ Len(<<>>) <= 2 /\ Len(<<cur>>) <= 2
          /\ Len(<<Pending>>) <= 2 /\ Len(<<Pending, cur>>) <= 2
      BY <3>2
    <3> HIDE DEF Pending
    <3>4. CASE queue = <<>>
      BY <3>3, <3>4
    <3>5. CASE queue = <<cur>>
      BY <3>3, <3>5
    <3>6. CASE queue = <<Pending>>
      BY <3>3, <3>6
    <3>7. CASE queue = <<Pending, cur>>
      BY <3>3, <3>7
    <3> QED
      BY <3>1, <3>4, <3>5, <3>6, <3>7
  <2>9. futureCt \in 0 .. FutureLimit - 1 /\ ratio \in Ratios
    BY <1>1 DEF MemInv, CountersInv
  <2>10. todo \in 0 .. MaxRunning
    <3>1. /\ todo \in 0 .. Len(Pending.items) /\ Len(Pending.items) \in Nat
          /\ Len(Pending.items) <= MaxRunning /\ MaxRunning \in Nat
      BY <1>1, <2>1, AliveLoop, SchedulerAssumption DEF MemInv, PlacesInv
    <3> QED
      BY <3>1
  <2> QED
    BY <2>2, <2>3, <2>4, <2>5, <2>6, <2>7, <2>8, <2>9, <2>10 DEF TypeOK
<1> QED
  BY <1>1, MemHolds, PTL
=============================================================================
