--------------------------- MODULE SchedulerProofs ----------------------------
(***************************************************************************)
(* For every set of requests, every size and every configuration: the      *)
(* result queue of the overlap loop holds exactly the results that are     *)
(* due, and each is applied to its request as it was when the batch was    *)
(* launched.                                                               *)
(***************************************************************************)
EXTENDS SchedulerOrder

-----------------------------------------------------------------------------
(* The prefix tree: its operations keep it one, as far as types go, and     *)
(* keep the sizes counted by hand integers.                                 *)

LEMMA UptoIsSeq ==
    ASSUME NEW s, NEW n \in Int
    PROVE  /\ IsSeq(Upto(s, n)) /\ Len(Upto(s, n)) = IF 1 <= n THEN n ELSE 0
           /\ \A k \in 1 .. n : Upto(s, n)[k] = s[k]
<1> DEFINE u == SubSeq(s, 1, n)
<1>1. /\ IsSeq(u) /\ Len(u) = IF 1 <= n THEN n - 1 + 1 ELSE 0
      /\ \A k \in 1 .. n - 1 + 1 : u[k] = s[1 + k - 1]
  BY SubSeqIsSeq
<1> HIDE DEF u
<1>2. \A k \in 1 .. n : u[k] = s[k]
  BY <1>1
<1> QED
  BY <1>1, <1>2 DEF Upto, u

LEMMA AddNodeType ==
    ASSUME NEW tree, TreeType(tree), NEW path, IsSeq(path), NEW node, IsNode(node)
    PROVE  TreeType(AddNode(tree, path, node))
<1>1. IsFiniteSet(DOMAIN tree \cup {path})
  BY FS_AddElement DEF TreeType
<1> QED
  BY <1>1 DEF TreeType, AddNode

\* The number of tokens a node's ancestors hold, and of those that match.
LEMMA LengthsAreInt ==
    ASSUME NEW tree, TreeType(tree), NEW path
    PROVE  /\ ParentLen(tree, path) \in Int
           /\ IsSeq(path) => MatchLen(tree, path) \in 0 .. Len(path)
<1>1. ParentLen(tree, path) \in Int
  <2> DEFINE A == Above(tree, path) \ {path}
             L == {Len(q) : q \in A}
  <2>1. A \subseteq DOMAIN tree /\ IsFiniteSet(A)
    BY FS_Subset DEF TreeType, Above
  <2>2. IsFiniteSet(L)
    <3> DEFINE f == [q \in A |-> Len(q)]
    <3>1. f \in Surjection(A, L)
      BY DEF Surjection
    <3> HIDE DEF f, A, L
    <3> QED
      BY <2>1, <3>1, FS_Surjection
  <2>3. L \subseteq Int
    BY <2>1, SeqFacts DEF TreeType
  <2> HIDE DEF L
  <2>4. IsFiniteSet({0} \cup L)
    <3>1. IsFiniteSet(L \cup {0})
      BY <2>2, FS_AddElement
    <3>2. L \cup {0} = {0} \cup L
      OBVIOUS
    <3> QED
      BY <3>1, <3>2
  <2>5. Max({0} \cup L) \in {0} \cup L
    <3>1. {0} \cup L \subseteq Int /\ {0} \cup L # {}
      BY <2>3
    <3> QED
      BY <2>4, <3>1, MaxFacts
  <2> QED
    BY <2>3, <2>5 DEF ParentLen, L
<1>2. ASSUME IsSeq(path) PROVE MatchLen(tree, path) \in 0 .. Len(path)
  <2> DEFINE L == {n \in 1 .. Len(path) : Below(tree, Upto(path, n)) # {}}
  <2>1. Len(path) \in Nat
    BY <1>2, SeqFacts
  <2>2. {0} \cup L \subseteq 0 .. Len(path)
    BY <2>1
  <2>3. IsFiniteSet(0 .. Len(path))
    BY <2>1, FS_Interval
  <2> HIDE DEF L
  <2>4. IsFiniteSet({0} \cup L)
    BY <2>2, <2>3, FS_Subset
  <2>5. Max({0} \cup L) \in {0} \cup L
    BY <2>1, <2>2, <2>4, MaxFacts
  <2> QED
    BY <2>2, <2>5 DEF MatchLen, L
<1> QED
  BY <1>1, <1>2

LEMMA SplitType ==
    ASSUME NEW tree, TreeType(tree), NEW path, IsSeq(path)
    PROVE  TreeType(SplitAt(tree, path))
<1>1. CASE path = <<>> \/ path \in DOMAIN tree
  BY <1>1 DEF SplitAt
<1>2. CASE ~ (path = <<>> \/ path \in DOMAIN tree)
  <2> DEFINE low == Shortest(Below(tree, path))
             k == Len(path) - ParentLen(tree, low)
             t == [tree EXCEPT ![low].slots = SubSeq(@, k + 1, Len(@))]
             node == [slots |-> Upto(tree[low].slots, k), lock |-> tree[low].lock]
  <2>1. SplitAt(tree, path) = AddNode(t, path, node)
    BY <1>2 DEF SplitAt
  <2>2. k \in Int
    BY LengthsAreInt, SeqFacts
  <2> HIDE DEF low, k
  <2>3. IsNode(node)
    BY <2>2, SubSeqIsSeq DEF IsNode, Upto
  <2>4. TreeType(t)
    <3>1. DOMAIN t = DOMAIN tree
      OBVIOUS
    <3>2. ASSUME low \in DOMAIN tree PROVE IsNode(t[low])
      <4>1. t[low] = [slots |-> SubSeq(tree[low].slots, k + 1, Len(tree[low].slots)),
                      lock |-> tree[low].lock]
        <5>1. IsNode(tree[low])
          BY <3>2 DEF TreeType
        <5>2. t[low] = [tree[low] EXCEPT
                          !.slots = SubSeq(tree[low].slots, k + 1, Len(tree[low].slots))]
          BY <3>2
        <5> HIDE DEF t
        <5> QED
          BY <5>1, <5>2 DEF IsNode
      <4>2. Len(tree[low].slots) \in Int
        BY <3>2, SeqFacts DEF TreeType, IsNode
      <4>3. IsSeq(t[low].slots)
        <5>1. k + 1 \in Int
          BY <2>2
        <5>2. IsSeq(SubSeq(tree[low].slots, k + 1, Len(tree[low].slots)))
          BY <5>1, <4>2, SubSeqIsSeq
        <5> HIDE DEF t
        <5> QED
          BY <4>1, <5>2
      <4> QED
        BY <4>1, <4>3 DEF IsNode
    <3>3. ASSUME NEW p \in DOMAIN tree, p # low PROVE IsNode(t[p])
      BY <3>3 DEF TreeType
    <3> HIDE DEF t
    <3>4. t = [p \in DOMAIN t |-> t[p]]
      BY DEF t
    <3> QED
      BY <3>1, <3>2, <3>3, <3>4 DEF TreeType
  <2> HIDE DEF node, t
  <2> QED
    BY <2>1, <2>3, <2>4, AddNodeType
<1> QED
  BY <1>1, <1>2

LEMMA KeyLensIsNat ==
    ASSUME NEW tree, TreeType(tree), NEW paths \in SUBSET DOMAIN tree
    PROVE  KeyLens(tree, paths) \in Nat
<1> DEFINE f == [p \in paths |-> KeyLen(tree, p)]
<1>1. IsFiniteSet(paths)
  BY FS_Subset DEF TreeType
<1>2. \A p \in paths : f[p] \in Int
  BY SeqFacts DEF TreeType, IsNode, KeyLen
<1>3. DOMAIN f = paths
  OBVIOUS
<1> HIDE DEF f
<1>4. Total(f) \in Nat
  BY <1>1, <1>2, <1>3, TotalIsNat
<1> QED
  BY <1>4 DEF KeyLens, f

LEMMA MatchedType ==
    ASSUME NEW c, CacheType(c), NEW key, IsSeq(key)
    PROVE  CacheType(Matched(c, key)) /\ Matched(c, key).evictable = c.evictable
<1>1. IsSeq(Upto(key, MatchLen(c.tree, key)))
  BY LengthsAreInt, SeqFacts, UptoIsSeq DEF CacheType
<1>2. TreeType(SplitAt(c.tree, Upto(key, MatchLen(c.tree, key))))
  BY <1>1, SplitType DEF CacheType
<1>3. Matched(c, key) = [tree |-> SplitAt(c.tree, Upto(key, MatchLen(c.tree, key))),
                         evictable |-> c.evictable, protected |-> c.protected]
  BY DEF Matched, CacheType
<1> QED
  BY <1>2, <1>3 DEF CacheType

LEMMA InsertedType ==
    ASSUME NEW c, CacheType(c), NEW key, IsSeq(key), NEW slots
    PROVE  CacheType(Inserted(c, key, slots))
<1> DEFINE n == MatchLen(c.tree, key)
           split == SplitAt(c.tree, Upto(key, n))
           node == [slots |-> SubSeq(slots, n + 1, Len(key)), lock |-> 0]
<1>1. n \in Int /\ Len(key) \in Int
  BY LengthsAreInt, SeqFacts DEF CacheType
<1> HIDE DEF n
<1>2. TreeType(split)
  BY <1>1, UptoIsSeq, SplitType DEF CacheType
<1>3. IsNode(node)
  <2>1. n + 1 \in Int
    BY <1>1
  <2> QED
    BY <1>1, <2>1, SubSeqIsSeq DEF IsNode
<1> HIDE DEF split, node
<1>4. TreeType(AddNode(split, key, node))
  BY <1>2, <1>3, AddNodeType
<1>5. CASE n = Len(key)
  <2>1. Inserted(c, key, slots) = [tree |-> split, evictable |-> c.evictable,
                                   protected |-> c.protected]
    BY <1>5 DEF Inserted, CacheType, n, split
  <2> QED
    BY <1>2, <2>1 DEF CacheType
<1>6. CASE n # Len(key)
  <2>1. Inserted(c, key, slots) =
           [tree |-> AddNode(split, key, node), evictable |-> c.evictable + Len(key) - n,
            protected |-> c.protected]
    BY <1>6 DEF Inserted, CacheType, n, split, node
  <2>2. c.evictable + Len(key) - n \in Int
    BY <1>1 DEF CacheType
  <2> QED
    BY <1>4, <2>1, <2>2 DEF CacheType
<1> QED
  BY <1>5, <1>6

LEMMA RelockedType ==
    ASSUME NEW c, CacheType(c), NEW path, NEW d \in {1, -1}, NEW edge
    PROVE  CacheType(Relocked(c, path, d, edge))
<1> DEFINE up == Above(c.tree, path)
           at == {p \in up : c.tree[p].lock = edge}
           t == [p \in DOMAIN c.tree |->
                    IF p \in up THEN [c.tree[p] EXCEPT !.lock = @ + d] ELSE c.tree[p]]
<1>1. KeyLens(c.tree, at) \in Nat
  BY KeyLensIsNat DEF CacheType, Above
<1>2. TreeType(t)
  <2>1. DOMAIN t = DOMAIN c.tree
    OBVIOUS
  <2>2. ASSUME NEW p \in DOMAIN c.tree PROVE IsSeq(p) /\ IsNode(t[p])
    <3>1. IsSeq(p) /\ IsNode(c.tree[p])
      BY DEF CacheType, TreeType
    <3>2. t[p] = [c.tree[p] EXCEPT !.lock = @ + d] \/ t[p] = c.tree[p]
      OBVIOUS
    <3> HIDE DEF t
    <3>3. CASE t[p] = c.tree[p]
      BY <3>1, <3>3
    <3>4. CASE t[p] = [c.tree[p] EXCEPT !.lock = @ + d]
      <4>1. t[p] = [slots |-> c.tree[p].slots, lock |-> c.tree[p].lock + d]
        BY <3>1, <3>4 DEF IsNode
      <4> QED
        BY <3>1, <4>1 DEF IsNode
    <3> QED
      BY <3>2, <3>3, <3>4
  <2>3. t = [p \in DOMAIN t |-> t[p]]
    OBVIOUS
  <2> HIDE DEF t
  <2> QED
    BY <2>1, <2>2, <2>3 DEF CacheType, TreeType
<1>3. Relocked(c, path, d, edge) =
         [tree |-> t, evictable |-> c.evictable - d * KeyLens(c.tree, at),
          protected |-> c.protected + d * KeyLens(c.tree, at)]
  BY DEF Relocked
<1> HIDE DEF t, at
<1>4. c.evictable - d * KeyLens(c.tree, at) \in Int
  BY <1>1 DEF CacheType
<1> QED
  BY <1>2, <1>3, <1>4 DEF CacheType

LEMMA LockType ==
    ASSUME NEW c, CacheType(c), NEW path
    PROVE  CacheType(IncLock(c, path)) /\ CacheType(DecLock(c, path))
BY RelockedType DEF IncLock, DecLock

LEMMA EvictedType ==
    ASSUME NEW c, CacheType(c), NEW gone \in SUBSET DOMAIN c.tree
    PROVE  CacheType(Evicted(c, gone))
<1> DEFINE t == [p \in DOMAIN c.tree \ gone |-> c.tree[p]]
<1>1. Evicted(c, gone) = [tree |-> t, evictable |-> c.evictable - KeyLens(c.tree, gone),
                          protected |-> c.protected]
  <2>1. Evicted(c, gone) = [c EXCEPT !.tree = t, !.evictable = @ - KeyLens(c.tree, gone)]
    BY DEF Evicted
  <2>2. c = [tree |-> c.tree, evictable |-> c.evictable, protected |-> c.protected]
    BY DEF CacheType
  <2> HIDE DEF t
  <2> QED
    BY <2>1, <2>2
<1>2. c.evictable - KeyLens(c.tree, gone) \in Int
  BY KeyLensIsNat DEF CacheType
<1>3. IsFiniteSet(DOMAIN t)
  BY FS_Subset DEF CacheType, TreeType
<1>4. TreeType(t)
  BY <1>3 DEF CacheType, TreeType
<1> QED
  BY <1>1, <1>2, <1>4 DEF CacheType

-----------------------------------------------------------------------------
(* Memory.                                                                  *)

LEMMA Constants ==
    /\ Size \in Nat /\ MaxRunning \in Nat /\ ChunkSize \in Nat
    /\ IsFiniteSet(Slots) /\ IsFiniteSet(Rows)
    /\ Ratios \subseteq Int /\ InitRatio \in Int
    /\ None \notin Reqs
    /\ \A r \in Reqs : Len(Prompt[r]) \in Nat /\ MaxNew(r) \in Nat \ {0}
<1>1. /\ Size \in Nat /\ MaxRunning \in Nat /\ ChunkSize \in Nat
      /\ Ratios \subseteq Int /\ InitRatio \in Int
      /\ None \notin Reqs
      /\ \A r \in Reqs : Len(Prompt[r]) \in Nat /\ MaxNew(r) \in Nat \ {0}
  <2>1. /\ Size \in Nat /\ MaxRunning \in Nat /\ ChunkSize \in Nat
        /\ Ratios \subseteq 0 .. 10 /\ InitRatio \in Ratios /\ None \notin Reqs
    BY SchedulerAssumption
  <2>2. ASSUME NEW r \in Reqs PROVE Len(Prompt[r]) \in Nat /\ MaxNew(r) \in Nat \ {0}
    <3>1. /\ Len(Prompt[r]) \in 1 .. Size - 7
          /\ MaxNew(r) \in 1 .. Size - 2 - Len(Prompt[r])
      BY SchedulerAssumption
    <3> QED
      BY <2>1, <3>1
  <2> QED
    BY <2>1, <2>2
<1>2. IsFiniteSet(Slots) /\ IsFiniteSet(Rows)
  <2>1. 1 \in Int /\ Size \in Int /\ MaxRunning \in Int
    BY <1>1
  <2> QED
    BY <2>1, FS_Interval DEF Slots, Rows
<1> QED
  BY <1>1, <1>2

LEMMA TimesIsNat == ASSUME NEW x, NEW seq, IsSeq(seq) PROVE Times(x, seq) \in Nat
<1> DEFINE S == {k \in DOMAIN seq : seq[k] = x}
<1>1. IsFiniteSet(S)
  BY SeqFacts, FS_Subset
<1> HIDE DEF S
<1>2. Cardinality(S) \in Nat
  BY <1>1, FS_CardinalityType
<1> QED
  BY <1>2 DEF Times, S

LEMMA FreeListType ==
    ASSUME NEW bag, NEW seq, IsSeq(seq)
    PROVE  /\ bag \in [Slots -> Int] => Freed(bag, seq) \in [Slots -> Int]
           /\ bag \in [Slots -> Int] => Rest(bag, seq) \in [Slots -> Int]
           /\ DOMAIN Rest(bag, seq) = DOMAIN bag
BY TimesIsNat DEF Freed, Rest

LEMMA EvictionType ==
    ASSUME NEW f \in [Slots -> Int], NEW c, CacheType(c), NEW n, NEW gone \in Reclaim(c, f, n)
    PROVE  /\ FreedByEviction(c, f, gone) \in [Slots -> Int]
           /\ CacheType(Evicted(c, gone))
<1>1. gone \in SUBSET DOMAIN c.tree
  BY DEF Reclaim, Evictions, Evictable
<1>2. CacheType(Evicted(c, gone))
  BY <1>1, EvictedType
<1>3. FreedByEviction(c, f, gone) \in [Slots -> Int]
  BY DEF FreedByEviction
<1> QED
  BY <1>2, <1>3

LEMMA CountIsNat == ASSUME NEW bag \in [Slots -> Int] PROVE Count(bag) \in Nat
BY Constants, TotalIsNat DEF Count

\* alloc gives as many entries as are asked for, or all there are.
LEMMA TakenIsSeq ==
    ASSUME NEW bag, IsFiniteSet(DOMAIN bag), NEW n \in Nat
    PROVE  IsSeq(Taken(bag, n))
<1> DEFINE there == {x \in DOMAIN bag : bag[x] > 0}
           m == Min({n, Cardinality(there)})
           f == [k \in 1 .. m |-> Nth(there, k)]
<1>1. IsFiniteSet(there)
  BY FS_Subset
<1>2. Cardinality(there) \in Nat
  BY <1>1, FS_CardinalityType
<1> HIDE DEF there
<1>3. m \in Nat
  BY <1>2 DEF Min
<1> HIDE DEF m
<1>4. IsSeq(f)
  BY <1>3, FunctionIsSeq
<1> QED
  BY <1>4 DEF Taken, there, m

\* A sequence given entry by entry, even one that ends before it begins.
LEMMA ListIsSeq ==
    ASSUME NEW n \in Int, NEW f, f = [k \in 1 .. n |-> f[k]]
    PROVE  IsSeq(f)
<1>1. CASE n \in Nat
  BY <1>1, FunctionIsSeq
<1>2. CASE n \notin Nat
  <2>1. 1 .. n = 1 .. 0
    BY <1>2
  <2>2. f = [k \in 1 .. 0 |-> f[k]]
    BY <2>1
  <2>3. 0 \in Nat
    OBVIOUS
  <2> QED
    BY <2>2, <2>3, FunctionIsSeq
<1> QED
  BY <1>1, <1>2

LEMMA EmptyIsSeq == IsSeq(<<>>) /\ \A x : IsSeq(<<x>>)
BY InSeqIsSeq DEF IsSeq, ToSet

\* What a request holds when it is stored in the cache.
CanStore(rec) == rec.fill \in Int /\ IsSeq(rec.pre) /\ IsSeq(rec.node)

LEMMA UnfinishedFacts ==
    ASSUME MemoryType, NEW r, NEW rec, CanStore(rec)
    PROVE  LET after == CacheUnfinished(r, rec)
           IN  /\ CacheType(after.cache) /\ after.free \in [Slots -> Int]
               /\ IsSeq(after.slots) /\ IsSeq(after.node)
<1> DEFINE ids == Fill(r, rec)
           slots == Upto(rows[rec.row], rec.fill)
           old == Len(rec.pre)
           inserted == Inserted(cache, ids, slots)
           given == SlotsOf(inserted.tree, ids, rec.fill)
           matched == MatchLen(cache.tree, ids)
<1>1. IsSeq(ids) /\ IsSeq(slots) /\ old \in Nat
  BY UptoIsSeq, SeqFacts DEF CanStore, Fill
<1>2. matched \in Int
  BY <1>1, LengthsAreInt, SeqFacts DEF MemoryType, CacheType
<1>3. CacheType(inserted)
  BY <1>1, InsertedType DEF MemoryType
<1>4. CacheType(IncLock(DecLock(inserted, rec.node), ids))
  BY <1>3, LockType
<1>5. IsSeq(given)
  BY ListIsSeq DEF SlotsOf, CanStore
<1> HIDE DEF ids, slots, old, inserted, given, matched
<1>6. Freed(free, Duplicates(slots, old, matched)) \in [Slots -> Int]
  <2>1. old + 1 \in Int
    BY <1>1
  <2>2. IsSeq(Duplicates(slots, old, matched))
    BY <1>2, <2>1, SubSeqIsSeq DEF Duplicates
  <2> QED
    BY <2>2, FreeListType DEF MemoryType
<1>7. CASE mode.radix
  <2>1. CacheUnfinished(r, rec) =
           [cache |-> IncLock(DecLock(inserted, rec.node), ids),
            free |-> Freed(free, Duplicates(slots, old, matched)),
            slots |-> given, node |-> ids]
    BY <1>7 DEF CacheUnfinished, ids, slots, old, inserted, given, matched
  <2> QED
    BY <1>1, <1>4, <1>5, <1>6, <2>1
<1>8. CASE ~ mode.radix
  <2> DEFINE c == [cache EXCEPT !.protected = @ + rec.fill - old]
  <2>1. CacheUnfinished(r, rec) = [cache |-> c, free |-> free, slots |-> slots, node |-> <<>>]
    BY <1>8 DEF CacheUnfinished, ids, slots, old, inserted, given, matched
  <2>2. CacheType(c)
    BY DEF MemoryType, CacheType
  <2> HIDE DEF c
  <2> QED
    BY <1>1, <2>1, <2>2, EmptyIsSeq DEF MemoryType
<1> QED
  BY <1>7, <1>8

LEMMA FinishedFacts ==
    ASSUME MemoryType, NEW r \in Reqs, NEW rec, CanStore(rec), rec.out \in Int, NEW insert
    PROVE  LET after == CacheFinished(r, rec, insert)
           IN  CacheType(after.cache) /\ after.free \in [Slots -> Int]
<1> DEFINE n == Stored(r, rec)
           ids == Upto(Text(r), n)
           slots == Upto(rows[rec.row], n)
           old == Len(rec.pre)
           matched == MatchLen(cache.tree, ids)
<1>1. n \in Int
  <2>1. Max({rec.out - 1, 0}) \in Int
    <3>1. CASE rec.out - 1 >= 0
      BY <3>1 DEF Max
    <3>2. CASE ~ (rec.out - 1 >= 0)
      BY <3>2 DEF Max
    <3> QED
      BY <3>1, <3>2
  <2> QED
    BY <2>1, Constants DEF Stored
<1> HIDE DEF n
<1>2. IsSeq(ids) /\ IsSeq(slots) /\ old \in Nat
  BY <1>1, UptoIsSeq, SeqFacts DEF CanStore
<1>3. matched \in Int
  BY <1>2, LengthsAreInt, SeqFacts DEF MemoryType, CacheType
<1>4. /\ CacheType(DecLock(Inserted(cache, ids, slots), rec.node))
      /\ CacheType(DecLock(cache, rec.node))
  BY <1>2, InsertedType, LockType DEF MemoryType
<1> HIDE DEF ids, slots, old, matched
<1>5. /\ Freed(free, Duplicates(slots, old, matched)) \in [Slots -> Int]
      /\ Freed(free, SubSeq(slots, old + 1, n)) \in [Slots -> Int]
      /\ Freed(free, slots) \in [Slots -> Int]
  <2>1. old + 1 \in Int
    BY <1>2
  <2>2. IsSeq(Duplicates(slots, old, matched)) /\ IsSeq(SubSeq(slots, old + 1, n))
    BY <1>1, <1>3, <2>1, SubSeqIsSeq DEF Duplicates
  <2> QED
    BY <1>2, <2>2, FreeListType DEF MemoryType
<1>6. CASE ~ mode.radix
  <2> DEFINE c == [cache EXCEPT !.protected = @ - old]
  <2>1. CacheFinished(r, rec, insert) = [cache |-> c, free |-> Freed(free, slots)]
    BY <1>6 DEF CacheFinished, n, ids, slots, old, matched
  <2>2. CacheType(c)
    BY DEF MemoryType, CacheType
  <2> HIDE DEF c
  <2> QED
    BY <1>5, <2>1, <2>2
<1>7. CASE mode.radix /\ insert
  <2>1. CacheFinished(r, rec, insert) =
           [cache |-> DecLock(Inserted(cache, ids, slots), rec.node),
            free |-> Freed(free, Duplicates(slots, old, matched))]
    BY <1>7 DEF CacheFinished, n, ids, slots, old, matched
  <2> QED
    BY <1>4, <1>5, <2>1
<1>8. CASE mode.radix /\ ~ insert
  <2>1. CacheFinished(r, rec, insert) =
           [cache |-> DecLock(cache, rec.node),
            free |-> Freed(free, SubSeq(slots, old + 1, n))]
    BY <1>8 DEF CacheFinished, n, ids, slots, old, matched
  <2> QED
    BY <1>4, <1>5, <2>1
<1> QED
  BY <1>6, <1>7, <1>8

-----------------------------------------------------------------------------
(* The steps between two batches.                                           *)

\* The steps up to a batch leave the batches in flight alone.
Quiet ==
    /\ pc \notin {"run", "process", "dead"} /\ pc' \in Places \ {"run", "dead"}
    /\ UNCHANGED <<mode, cur, last, queue, todo>>
\* Nobody who is in a batch gets further.
SameProgress ==
    \A r \in Reqs : IF Alive(r) THEN /\ req'[r].st = req[r].st
                                     /\ req'[r].out = req[r].out
                                     /\ req'[r].chunks = req[r].chunks
                     ELSE req'[r].st # "active"

LEMMA QuietFlight ==
    ASSUME Quiet
    PROVE  /\ Pending' = Pending /\ After' = After
           /\ \A r : Old(r)' = Old(r) /\ New(r)' = New(r)
           /\ \A r : Due(r)' = Due(r) /\ Chunks(r)' = Chunks(r)
<1>1. Pending' = Pending /\ After' = After /\ todo' = todo
  BY DEF Quiet, Pending, After
<1>2. \A r : Old(r)' = Old(r) /\ New(r)' = New(r)
  BY <1>1 DEF Old, New, ReqsOf
<1>3. \A r : Due(r)' = Due(r) /\ Chunks(r)' = Chunks(r)
  BY <1>1, <1>2 DEF Due, Chunks, Partial
<1> QED
  BY <1>1, <1>2, <1>3

LEMMA QuietFollows ==
    ASSUME Quiet, SameProgress, NEW i, i.r \in Reqs, Alive(i.r), Follows(i)
    PROVE  Follows(i)' /\ Alive(i.r)' /\ req'[i.r].chunks = req[i.r].chunks
           /\ req'[i.r].st = req[i.r].st
<1>1. Due(i.r)' = Due(i.r)
  BY QuietFlight
<1> QED
  BY <1>1 DEF SameProgress, Follows, Alive

\* no batch before it is prepared
LEMMA NothingNew ==
    ASSUME QueueInv, pc \notin {"run", "process"}
    PROVE  cur = NoBatch /\ \A r : ~ New(r)
<1>1. cur = NoBatch
  BY DEF QueueInv, Launched
<1>2. After = NoBatch
  BY <1>1 DEF After
<1>3. After.items = <<>>
  BY <1>2 DEF NoBatch
<1> QED
  BY <1>1, <1>3 DEF New, ReqsOf

LEMMA QueueKeeps ==
    ASSUME QueueInv, pc \notin {"run", "process"}, pc' # "run",
           UNCHANGED <<mode, cur, last, queue>>
    PROVE  QueueInv'
<1>1. Pending' = Pending
  BY DEF Pending
<1>2. cur = NoBatch /\ cur' = NoBatch
  BY NothingNew
<1>3. ~ JustLaunched /\ ~ JustLaunched'
  BY <1>2 DEF JustLaunched, NoBatch
<1>4. Same(last, Pending)' = Same(last, Pending)
  BY <1>1 DEF Same
<1>5. mode.overlap => QueueShape'
  BY <1>1, <1>3, <1>4 DEF QueueInv, QueueShape
<1> QED
  BY <1>2, <1>5 DEF QueueInv

\* who is active, and who is alive while a batch is planned, is where he was
NoneAhead ==
    \A r \in Reqs : req'[r].st = "active" \/ (Planning' /\ Alive(r)) =>
        /\ Alive(r)
        /\ req'[r].st = req[r].st
        /\ req'[r].out = req[r].out
        /\ req'[r].chunks = req[r].chunks

LEMMA FrameKeeps ==
    ASSUME OrderInv, Quiet, MemoryType', ReqsType', NoneAhead,
           Planning' => Planning, Items(running)',
           pc' = "process" => chunked' = None
    PROVE  QueueInv' /\ TypesInv' /\ OldInv' /\ ActiveInv' /\ CurInv'
<1>1. LiveInv /\ QueueInv
  BY DEF OrderInv, Quiet
<1>2. Pending' = Pending /\ After' = After
  BY QuietFlight
<1>3. cur = NoBatch /\ cur' = NoBatch
  BY <1>1, NothingNew DEF Quiet
<1>4. QueueInv'
  BY <1>1, QueueKeeps DEF Quiet
<1>5. BatchesType'
  BY <1>1, <1>2 DEF LiveInv, TypesInv, BatchesType, Quiet, BatchType, Items, ReqsOf, Item
<1>6. TypesInv'
  BY <1>1, <1>5 DEF LiveInv, TypesInv, Quiet
<1>7. OldInv'
  <2>1. ASSUME NEW k \in todo + 1 .. Len(Pending.items), NEW i, i = Pending.items[k]
        PROVE  /\ Planning' => Alive(i.r)'
               /\ req'[i.r].st = "active" /\ ~ Partial(Pending, i.r) =>
                     i.len = Len(Prompt[i.r]) + req'[i.r].out /\ req'[i.r].chunks = 0
    <3>1. Items(Pending.items) /\ todo \in 0 .. Len(Pending.items)
      BY <1>1 DEF LiveInv, TypesInv, BatchesType, BatchType
    <3>2. k \in DOMAIN Pending.items
      BY <3>1, SeqFacts DEF Items
    <3>3. i.r \in Reqs
      BY <2>1, <3>1, <3>2 DEF Items, Item
    <3>4. /\ Planning => Alive(i.r)
          /\ req[i.r].st = "active" /\ ~ Partial(Pending, i.r) =>
                i.len = Len(Prompt[i.r]) + req[i.r].out /\ req[i.r].chunks = 0
      BY <1>1, <2>1 DEF LiveInv, OldInv
    <3> QED
      BY <3>3, <3>4 DEF NoneAhead, Alive
  <2> QED
    BY <1>2, <2>1 DEF OldInv, Quiet, Partial
<1>8. ActiveInv'
  BY <1>1, QuietFlight DEF LiveInv, ActiveInv, NoneAhead, Alive
<1>9. CurInv'
  BY <1>3 DEF CurInv, Quiet, Launched, NoBatch, Places
<1> QED
  BY <1>4, <1>6, <1>7, <1>8, <1>9

LEMMA QuietFrame ==
    ASSUME OrderInv, Quiet, MemoryType', ReqsType', SameProgress,
           Planning' => Planning, Items(running)',
           pc' = "process" => chunked' = None
    PROVE  QueueInv' /\ TypesInv' /\ OldInv' /\ ActiveInv' /\ CurInv'
<1>1. NoneAhead
  BY DEF NoneAhead, SameProgress, Alive
<1> QED
  BY <1>1, FrameKeeps

LEMMA QuietRunning ==
    ASSUME TypesInv, RunningInv, Quiet, SameProgress, running' = running,
           pc' \notin {"retract", "step"}
    PROVE  RunningInv'
<1>1. SUFFICES ASSUME NEW k \in DOMAIN running
               PROVE  LET i == running[k]
                      IN  /\ Alive(i.r)'
                          /\ Follows(i)'
                          /\ req'[i.r].st = "active" => req'[i.r].chunks = 0
  BY DEF RunningInv
<1>2. running[k].r \in Reqs
  BY DEF TypesInv, BatchesType, Items, Item
<1>3. /\ Alive(running[k].r) /\ Follows(running[k])
      /\ req[running[k].r].st = "active" => req[running[k].r].chunks = 0
  BY DEF RunningInv
<1> QED
  BY <1>2, <1>3, QuietFollows

LEMMA QuietLast ==
    ASSUME TypesInv, LastInv, Quiet, SameProgress, running' = running, chunked' = chunked,
           pc' \in {"recv", "merge"} => pc \in {"recv", "merge"}
    PROVE  LastInv'
<1>1. SUFFICES ASSUME pc \in {"recv", "merge"}
               PROVE  LastInv'
  BY DEF LastInv
<1>2. last' = last /\ mode' = mode
  BY DEF Quiet
<1>3. ASSUME last.kind = "extend", NEW k \in DOMAIN last.items, NEW i, i = last.items[k]
      PROVE  /\ Alive(i.r)'
             /\ i.r \notin ReqsOf(running)
             /\ mode.overlap => req'[i.r].st = "active"
             /\ ~ Partial(last, i.r) =>
                   Follows(i)' /\ (req'[i.r].st = "active" => req'[i.r].chunks = 0)
  <2>1. i.r \in Reqs
    BY <1>3 DEF TypesInv, BatchesType, BatchType, Items, Item
  <2>2. /\ Alive(i.r)
        /\ i.r \notin ReqsOf(running)
        /\ mode.overlap => req[i.r].st = "active"
        /\ ~ Partial(last, i.r) =>
              Follows(i) /\ (req[i.r].st = "active" => req[i.r].chunks = 0)
    BY <1>1, <1>3 DEF LastInv
  <2>3. req'[i.r].st = req[i.r].st /\ req'[i.r].chunks = req[i.r].chunks
    BY <2>1, <2>2 DEF SameProgress
  <2>4. Alive(i.r)'
    BY <2>2, <2>3 DEF Alive
  <2>5. Follows(i) => Follows(i)'
    BY <2>1, <2>2, QuietFollows
  <2> QED
    BY <2>2, <2>3, <2>4, <2>5
<1>4. ReqsOf(running)' = ReqsOf(running)
  BY DEF ReqsOf
<1>5. /\ last.kind = "decode" => running # <<>>
      /\ last.kind = "extend" => last.items # <<>>
      /\ chunked = last.chunked
  BY <1>1 DEF LastInv
<1> QED
  BY <1>2, <1>3, <1>4, <1>5 DEF LastInv, Partial

LEMMA QuietChunked ==
    ASSUME ChunkedInv, Quiet, SameProgress, running' = running, chunked' = chunked,
           pc' \in {"decode", "retract", "step"} => chunked = None
    PROVE  ChunkedInv'
<1>1. ASSUME chunked # None
      PROVE  /\ req'[chunked].st = "active"
             /\ chunked \notin ReqsOf(running)'
             /\ Due(chunked)' = 0
  <2>1. PICK c : c = chunked
    OBVIOUS
  <2>2. c \in Reqs /\ req[c].st = "active" /\ c \notin ReqsOf(running) /\ Due(c) = 0
    BY <1>1, <2>1 DEF ChunkedInv
  <2>3. Due(c)' = 0
    BY <2>2, QuietFlight
  <2>4. req'[c].st = "active"
    BY <2>2 DEF SameProgress, Alive
  <2>5. Due(chunked)' = 0
    BY <2>1, <2>3
  <2> QED
    BY <2>1, <2>2, <2>4, <2>5 DEF ReqsOf
<1> QED
  BY <1>1 DEF ChunkedInv

LEMMA OneReqChanges ==
    ASSUME ReqsType, NEW r \in Reqs, NEW x, req' = [req EXCEPT ![r] = x], ReqType(r, x),
           IF Alive(r) THEN /\ x.st = req[r].st /\ x.out = req[r].out
                            /\ x.chunks = req[r].chunks
           ELSE x.st # "active"
    PROVE  SameProgress /\ ReqsType' /\ req'[r] = x /\ \A q \in Reqs \ {r} : req'[q] = req[q]
<1>1. DOMAIN req = Reqs /\ DOMAIN req' = Reqs
  BY DEF ReqsType
<1>2. req'[r] = x /\ \A q \in Reqs \ {r} : req'[q] = req[q]
  BY <1>1
<1>3. ReqsType'
  BY <1>1, <1>2 DEF ReqsType
<1>4. ASSUME NEW q \in Reqs
      PROVE  IF Alive(q) THEN /\ req'[q].st = req[q].st
                              /\ req'[q].out = req[q].out
                              /\ req'[q].chunks = req[q].chunks
             ELSE req'[q].st # "active"
  <2>1. CASE q = r
    BY <1>2, <2>1
  <2>2. CASE q # r
    BY <1>2, <2>2 DEF Alive
  <2> QED
    BY <2>1, <2>2
<1> QED
  BY <1>2, <1>3, <1>4 DEF SameProgress

\* A request comes, or leaves the waiting queue, or is to end with its next token.
LEMMA ArrivalKeeps ==
    ASSUME OrderInv, NEW r \in Reqs, Arrive(r) \/ Abort(r)
    PROVE  OrderInv'
<1>1. LiveInv /\ QueueInv /\ pc = "recv"
  BY DEF OrderInv, Arrive, Abort
<1>2. /\ pc' = "recv"
      /\ UNCHANGED <<mode, pc, memory, kv, batches, adder, futureCt, ratio, todo>>
  BY DEF Arrive, Abort
<1>3. Quiet /\ MemoryType' /\ running' = running /\ chunked' = chunked
  BY <1>1, <1>2 DEF Quiet, batches, memory, MemoryType, LiveInv, TypesInv, Places
<1>4. PICK x : /\ req' = [req EXCEPT ![r] = x]
               /\ ReqType(r, x)
               /\ IF Alive(r) THEN /\ x.st = req[r].st /\ x.out = req[r].out
                                   /\ x.chunks = req[r].chunks
                  ELSE x.st # "active"
  <2>1. ReqType(r, req[r])
    BY <1>1 DEF LiveInv, TypesInv, ReqsType
  <2>2. CASE Arrive(r)
    <3> DEFINE x == [req[r] EXCEPT !.st = "waiting"]
    <3>1. req' = [req EXCEPT ![r] = x] /\ req[r].st = "new"
      BY <2>2 DEF Arrive
    <3>2. ReqType(r, x) /\ x.st = "waiting"
      BY <2>1, <3>1 DEF ReqType, NewReq
    <3> HIDE DEF x
    <3> QED
      BY <3>1, <3>2 DEF Alive
  <2>3. CASE req[r].st = "waiting"
               /\ req' = [req EXCEPT ![r] = [NewReq EXCEPT !.st = "done", !.out = req[r].out]]
    <3> DEFINE x == [NewReq EXCEPT !.st = "done", !.out = req[r].out]
    <3>1. ReqType(r, x) /\ x.st = "done"
      BY <2>1, EmptyIsSeq DEF ReqType, NewReq
    <3> HIDE DEF x
    <3> QED
      BY <2>3, <3>1 DEF Alive, x
  <2>4. CASE req[r].st = "active" /\ req' = [req EXCEPT ![r].abort = TRUE]
    <3> DEFINE x == [req[r] EXCEPT !.abort = TRUE]
    <3>1. req' = [req EXCEPT ![r] = x]
      BY <2>4
    <3>2. /\ ReqType(r, x)
          /\ x.st = req[r].st /\ x.out = req[r].out /\ x.chunks = req[r].chunks
      BY <2>1 DEF ReqType, NewReq
    <3> HIDE DEF x
    <3> QED
      BY <2>4, <3>1, <3>2 DEF Alive
  <2> QED
    <3>1. Abort(r) => \/ req[r].st = "waiting"
                            /\ req' = [req EXCEPT ![r] = [NewReq EXCEPT !.st = "done",
                                                                        !.out = req[r].out]]
                      \/ req[r].st = "active" /\ req' = [req EXCEPT ![r].abort = TRUE]
      BY DEF Abort
    <3> QED
      BY <2>2, <2>3, <2>4, <3>1
<1>5. SameProgress /\ ReqsType'
  BY <1>1, <1>4, OneReqChanges DEF LiveInv, TypesInv
<1>7. QueueInv' /\ TypesInv' /\ OldInv' /\ ActiveInv' /\ CurInv'
  <2>1. Items(running)' /\ (Planning' => Planning) /\ pc' # "process"
    BY <1>1, <1>2, <1>3 DEF LiveInv, TypesInv, BatchesType, Items, Item, Planning
  <2> QED
    BY <1>3, <1>5, <2>1, QuietFrame
<1>8. RunningInv' /\ LastInv' /\ ChunkedInv' /\ AdderInv'
  BY <1>1, <1>2, <1>3, <1>5, QuietRunning, QuietLast, QuietChunked DEF LiveInv, AdderInv
<1> QED
  BY <1>7, <1>8 DEF OrderInv, LiveInv

\* filter_batch keeps some of the items, each once.
LEMMA KeptFacts ==
    ASSUME NEW items, Items(items), NEW keep \in SUBSET DOMAIN items
    PROVE  /\ Items(Kept(items, keep))
           /\ \A n \in DOMAIN Kept(items, keep) : \E k \in keep : Kept(items, keep)[n] = items[k]
<1> DEFINE f == [n \in 1 .. Cardinality(keep) |-> items[Nth(keep, n)]]
<1>1. DOMAIN items = 1 .. Len(items) /\ Len(items) \in Nat /\ IsFiniteSet(DOMAIN items)
  BY SeqFacts DEF Items
<1>2. IsFiniteSet(keep) /\ keep \subseteq Int
  BY <1>1, FS_Subset
<1>3. Cardinality(keep) \in Nat
  BY <1>2, FS_CardinalityType
<1>4. /\ \A n \in 1 .. Cardinality(keep) : Nth(keep, n) \in keep
      /\ \A m, n \in 1 .. Cardinality(keep) : Nth(keep, m) = Nth(keep, n) => m = n
  BY <1>2, NthFacts
<1>5. IsSeq(f) /\ DOMAIN f = 1 .. Cardinality(keep)
  BY <1>3, FunctionIsSeq
<1>6. \A n \in DOMAIN f : f[n] = items[Nth(keep, n)] /\ Nth(keep, n) \in keep
  BY <1>4
<1>7. ASSUME NEW m \in DOMAIN f, NEW n \in DOMAIN f, f[m].r = f[n].r PROVE m = n
  <2>1. Nth(keep, m) = Nth(keep, n)
    BY <1>6, <1>7 DEF Items
  <2> QED
    BY <1>4, <1>5, <2>1
<1> HIDE DEF f
<1>8. Items(f)
  BY <1>5, <1>6, <1>7 DEF Items
<1>9. Kept(items, keep) = f
  BY DEF Kept, f
<1> QED
  BY <1>6, <1>8, <1>9

LEMMA ItemFacts ==
    ASSUME NEW items, Items(items)
    PROVE  /\ DOMAIN items = 1 .. Len(items) /\ Len(items) \in Nat
           /\ \A k \in DOMAIN items : items[k].r \in Reqs /\ items[k].len \in Int
           /\ ReqsOf(items) \subseteq Reqs
BY SeqFacts DEF Items, Item, ReqsOf

\* The last prefill batch joins the running batch.
LEMMA MergeKeeps == ASSUME OrderInv, MergeLast PROVE OrderInv'
<1>1. LiveInv /\ QueueInv /\ pc \in {"recv", "merge"} /\ pc' = "plan"
  BY DEF OrderInv, MergeLast
<1>2. /\ UNCHANGED <<mode, req, memory, kv, chunked, last, cur, queue, adder, futureCt,
                      ratio, todo>>
      /\ IF last.kind = "extend" THEN running' = running \o Joining ELSE running' = running
  BY DEF MergeLast
<1>3. Quiet /\ MemoryType' /\ ReqsType' /\ SameProgress /\ (Planning' => Planning)
  BY <1>1, <1>2 DEF Quiet, Places, MemoryType, ReqsType, SameProgress, Planning,
     memory, LiveInv, TypesInv, Alive
<1>4. Items(running) /\ Items(last.items)
  BY <1>1 DEF LiveInv, TypesInv, BatchesType, BatchType
<1> DEFINE keep == {k \in DOMAIN last.items : /\ req[last.items[k].r].st = "active"
                                              /\ ~ Excluded(last.items[k].r)}
<1>5. /\ Items(Joining)
      /\ \A n \in DOMAIN Joining : \E k \in keep : Joining[n] = last.items[k]
  <2>1. keep \in SUBSET DOMAIN last.items /\ Joining = Kept(last.items, keep)
    BY DEF Joining
  <2> HIDE DEF keep
  <2> QED
    BY <1>4, <2>1, KeptFacts
<1>6. ASSUME last.kind = "extend", NEW n \in DOMAIN Joining, NEW i, i = Joining[n]
      PROVE  /\ i.r \notin ReqsOf(running)
             /\ i.r # chunked /\ i.r \in Reqs
             /\ Follows(i) /\ req[i.r].st = "active" /\ req[i.r].chunks = 0
  <2>1. PICK k \in keep : i = last.items[k]
    BY <1>5, <1>6
  <2>2. /\ k \in DOMAIN last.items /\ req[i.r].st = "active"
        /\ i.r # chunked /\ i.r # last.chunked
    BY <2>1 DEF Excluded
  <2>3. ~ Partial(last, i.r)
    BY <2>2 DEF Partial
  <2>4. /\ i.r \notin ReqsOf(running)
        /\ Follows(i) /\ req[i.r].chunks = 0
    BY <1>1, <1>6, <2>1, <2>2, <2>3 DEF LiveInv, LastInv
  <2> QED
    BY <1>4, <2>1, <2>2, <2>4, ItemFacts
<1>7. ASSUME last.kind = "extend"
      PROVE  /\ IsSeq(running') /\ DOMAIN running' = 1 .. Len(running) + Len(Joining)
             /\ \A k \in DOMAIN running' :
                   \/ k \in DOMAIN running /\ running'[k] = running[k]
                   \/ /\ k - Len(running) \in DOMAIN Joining
                      /\ running'[k] = Joining[k - Len(running)]
  <2>1. IsSeq(running) /\ IsSeq(Joining)
    BY <1>4, <1>5 DEF Items
  <2>2. /\ DOMAIN running = 1 .. Len(running) /\ DOMAIN Joining = 1 .. Len(Joining)
        /\ Len(running) \in Nat /\ Len(Joining) \in Nat
    BY <2>1, SeqFacts
  <2>3. /\ IsSeq(running') /\ Len(running') = Len(running) + Len(Joining)
        /\ \A k \in 1 .. Len(running) + Len(Joining) :
              running'[k] = IF k <= Len(running) THEN running[k] ELSE Joining[k - Len(running)]
    BY <1>2, <1>7, <2>1, ConcatIsSeq
  <2>4. DOMAIN running' = 1 .. Len(running) + Len(Joining)
    BY <2>3, SeqFacts
  <2> QED
    BY <2>2, <2>3, <2>4
<1>8. Items(running)'
  <2>1. CASE last.kind # "extend"
    BY <1>2, <1>4, <2>1
  <2>2. CASE last.kind = "extend"
    <3>1. \A k \in DOMAIN running' : Item(running'[k])
      BY <1>4, <1>5, <1>7, <2>2 DEF Items
    <3>2. ASSUME NEW j \in DOMAIN running', NEW k \in DOMAIN running',
                 running'[j].r = running'[k].r
          PROVE  j = k
      <4>1. CASE j \in DOMAIN running /\ k \in DOMAIN running
                   /\ running'[j] = running[j] /\ running'[k] = running[k]
        BY <1>4, <3>2, <4>1 DEF Items
      <4>2. CASE /\ j - Len(running) \in DOMAIN Joining /\ k - Len(running) \in DOMAIN Joining
                 /\ running'[j] = Joining[j - Len(running)]
                 /\ running'[k] = Joining[k - Len(running)]
        <5>1. j - Len(running) = k - Len(running)
          BY <1>5, <3>2, <4>2 DEF Items
        <5>2. Len(running) \in Int /\ j \in Int /\ k \in Int
          BY <1>4, <1>7, <2>2, ItemFacts
        <5> QED
          BY <5>1, <5>2
      <4>3. ASSUME NEW x \in DOMAIN running, NEW y \in DOMAIN Joining
            PROVE  running[x].r # Joining[y].r
        BY <1>6, <2>2 DEF ReqsOf
      <4> QED
        BY <1>7, <2>2, <3>2, <4>1, <4>2, <4>3
    <3> QED
      BY <1>7, <2>2, <3>1, <3>2 DEF Items
  <2> QED
    BY <2>1, <2>2
<1>9. QueueInv' /\ TypesInv' /\ OldInv' /\ ActiveInv' /\ CurInv'
  BY <1>1, <1>3, <1>8, QuietFrame
<1>10. RunningInv'
  <2>1. CASE last.kind # "extend"
    BY <1>1, <1>2, <1>3, <2>1, QuietRunning DEF LiveInv
  <2>2. CASE last.kind = "extend"
    <3>1. ASSUME NEW k \in DOMAIN running', NEW i, i = running'[k]
          PROVE  /\ Alive(i.r) /\ Follows(i) /\ i.r \in Reqs
                 /\ req[i.r].st = "active" => req[i.r].chunks = 0
      <4>1. CASE k \in DOMAIN running /\ running'[k] = running[k]
        BY <1>1, <1>4, <3>1, <4>1, ItemFacts DEF LiveInv, RunningInv
      <4>2. CASE k - Len(running) \in DOMAIN Joining /\ running'[k] = Joining[k - Len(running)]
        BY <1>6, <2>2, <3>1, <4>2 DEF Alive
      <4> QED
        BY <1>7, <2>2, <4>1, <4>2
    <3>2. ASSUME NEW k \in DOMAIN running', NEW i, i = running'[k]
          PROVE  /\ Alive(i.r)' /\ Follows(i)'
                 /\ req'[i.r].st = "active" => req'[i.r].chunks = 0
      BY <1>3, <3>1, <3>2, QuietFollows
    <3> QED
      BY <1>1, <3>2 DEF RunningInv
  <2> QED
    BY <2>1, <2>2
<1>11. ChunkedInv'
  <2>1. CASE last.kind # "extend"
    BY <1>1, <1>2, <1>3, <2>1, QuietChunked DEF LiveInv
  <2>2. CASE last.kind = "extend"
    <3>1. PICK c : c = chunked
      OBVIOUS
    <3>2. Due(c)' = Due(c)
      BY <1>3, QuietFlight
    <3>3. c # None => c \notin ReqsOf(running')
      <4> SUFFICES ASSUME c # None, NEW k \in DOMAIN running' PROVE running'[k].r # c
        BY DEF ReqsOf
      <4>1. c \notin ReqsOf(running)
        BY <1>1, <3>1 DEF LiveInv, ChunkedInv
      <4> QED
        BY <1>6, <1>7, <2>2, <3>1, <4>1 DEF ReqsOf
    <3>4. chunked' = c /\ req' = req
      BY <1>2, <3>1
    <3>5. Due(chunked)' = Due(c)'
      BY <3>4
    <3> QED
      BY <1>1, <3>1, <3>2, <3>3, <3>4, <3>5 DEF LiveInv, ChunkedInv, ReqsOf
  <2> QED
    BY <2>1, <2>2
<1>12. LastInv' /\ AdderInv'
  BY <1>1 DEF LastInv, AdderInv
<1> QED
  BY <1>9, <1>10, <1>11, <1>12 DEF OrderInv, LiveInv

\* No prefill, or nothing was admitted: a decode is next.
LEMMA NoPrefillKeeps == ASSUME OrderInv, SkipPrefill \/ NoPrefill PROVE OrderInv'
<1>1. /\ LiveInv /\ QueueInv /\ pc \in {"plan", "admit"} /\ pc' = "decode"
      /\ UNCHANGED <<mode, req, memory, running, chunked, last, cur, queue, ratio, todo>>
  BY DEF OrderInv, SkipPrefill, NoPrefill
<1>2. chunked = None
  <2>1. CASE SkipPrefill
    BY <2>1 DEF SkipPrefill
  <2>2. CASE NoPrefill
    <3>1. adder.can = <<>> /\ pc = "admit"
      BY <2>2 DEF NoPrefill
    <3>2. ToSet(adder.can) = {}
      BY <3>1 DEF ToSet
    <3> QED
      BY <1>1, <3>1, <3>2 DEF LiveInv, AdderInv
  <2> QED
    BY <2>1, <2>2
<1>3. Quiet /\ MemoryType' /\ ReqsType' /\ SameProgress /\ (Planning' => Planning)
  BY <1>1 DEF Quiet, Places, MemoryType, ReqsType, SameProgress, Planning,
     memory, LiveInv, TypesInv, Alive
<1>4. Items(running)'
  BY <1>1 DEF LiveInv, TypesInv, BatchesType, Items, Item
<1>5. QueueInv' /\ TypesInv' /\ OldInv' /\ ActiveInv' /\ CurInv'
  BY <1>1, <1>3, <1>4, QuietFrame
<1>6. RunningInv' /\ ChunkedInv' /\ LastInv' /\ AdderInv'
  BY <1>1, <1>2, <1>3, QuietRunning, QuietChunked DEF LiveInv, LastInv, AdderInv
<1> QED
  BY <1>5, <1>6 DEF OrderInv, LiveInv

\* The chunks computed so far are kept: the request itself gets no further.
LEMMA StashKeeps == ASSUME OrderInv, StashChunked PROVE OrderInv'
<1>1. LiveInv /\ QueueInv /\ pc = "recv" /\ pc' = "merge" /\ chunked # None
  BY DEF OrderInv, StashChunked
<1>2. chunked \in Reqs /\ ReqType(chunked, req[chunked])
  BY <1>1 DEF LiveInv, ChunkedInv, TypesInv, ReqsType
<1> DEFINE rec == req[chunked]
           after == CacheUnfinished(chunked, rec)
           x == [rec EXCEPT !.pre = after.slots, !.node = after.node]
<1>3. /\ cache' = after.cache /\ free' = after.free
      /\ freeRows' = [freeRows EXCEPT ![rec.row] = @ + 1]
      /\ req' = [req EXCEPT ![chunked].pre = after.slots, ![chunked].node = after.node]
      /\ UNCHANGED <<mode, running, chunked, last, cur, queue, ratio, todo>>
  BY DEF StashChunked, batches
<1>4. /\ CacheType(after.cache) /\ after.free \in [Slots -> Int]
      /\ IsSeq(after.slots) /\ IsSeq(after.node)
  BY <1>1, <1>2, UnfinishedFacts DEF LiveInv, TypesInv, ReqType, CanStore
<1>5. req' = [req EXCEPT ![chunked] = x]
  BY <1>3
<1>6. /\ ReqType(chunked, x)
      /\ x.st = rec.st /\ x.out = rec.out /\ x.chunks = rec.chunks
  <2> HIDE DEF after
  <2> QED
    BY <1>2, <1>4 DEF ReqType, NewReq
<1>7. SameProgress /\ ReqsType'
  <2> HIDE DEF x
  <2>1. ReqsType /\ Alive(chunked)
    BY <1>1 DEF LiveInv, TypesInv, ChunkedInv, Alive
  <2> QED
    BY <1>2, <1>5, <1>6, <2>1, OneReqChanges
<1>8. MemoryType'
  BY <1>1, <1>3, <1>4 DEF MemoryType, LiveInv, TypesInv
<1>9. Quiet /\ (Planning' => Planning) /\ Items(running)'
  BY <1>1, <1>3 DEF Quiet, Places, Planning, LiveInv, TypesInv, BatchesType, Items, Item
<1> HIDE DEF after, x
<1>10. QueueInv' /\ TypesInv' /\ OldInv' /\ ActiveInv' /\ CurInv'
  BY <1>1, <1>7, <1>8, <1>9, QuietFrame
<1>11. RunningInv' /\ ChunkedInv' /\ LastInv' /\ AdderInv'
  BY <1>1, <1>3, <1>7, <1>9, QuietRunning, QuietChunked, QuietLast DEF LiveInv, AdderInv
<1> QED
  BY <1>10, <1>11 DEF OrderInv, LiveInv

LEMMA ReserveIsInt == ASSUME TypesInv PROVE Reserve \in Int
<1> DEFINE f == [k \in DOMAIN running |-> MaxNew(running[k].r) - req[running[k].r].out]
<1>1. Items(running) /\ IsFiniteSet(DOMAIN running)
  BY SeqFacts DEF TypesInv, BatchesType, Items
<1>2. ASSUME NEW k \in DOMAIN running PROVE f[k] \in Int
  <2>1. running[k].r \in Reqs
    BY <1>1, ItemFacts
  <2>2. MaxNew(running[k].r) \in Nat /\ req[running[k].r].out \in Int
    BY <2>1, Constants DEF TypesInv, ReqsType, ReqType
  <2> QED
    BY <2>2
<1>3. DOMAIN f = DOMAIN running
  OBVIOUS
<1> HIDE DEF f
<1>4. Total(f) \in Nat
  BY <1>1, <1>2, <1>3, TotalIsNat
<1>5. ratio \in Int
  BY DEF TypesInv, MemoryType
<1> QED
  BY <1>4, <1>5 DEF Reserve, f

\* Rounded towards zero, the memory that remains holds what it promises.
LEMMA TruncateFacts ==
    ASSUME NEW n \in Int PROVE Truncate(n) \in Int /\ n - 10 * Truncate(n) < 10
<1>1. CASE n >= 0
  BY <1>1 DEF Truncate
<1>2. CASE n < 0
  <2>1. (- n) \div 10 \in Nat /\ 10 * ((- n) \div 10) <= - n
    BY <1>2
  <2> QED
    BY <1>2, <2>1 DEF Truncate
<1> QED
  BY <1>1, <1>2

\* Who is chunked is in the prefill before any other request.
LEMMA ChunkedFacts ==
    ASSUME LiveInv, QueueInv, Planning, chunked # None
    PROVE  /\ chunked \in Reqs /\ ReqType(chunked, req[chunked])
           /\ req[chunked].st = "active" /\ chunked \notin ReqsOf(running)
           /\ Due(chunked) = 0 /\ req[chunked].chunks = Chunks(chunked)
BY DEF LiveInv, ChunkedInv, TypesInv, ReqsType, ActiveInv

LEMMA StartKeeps == ASSUME OrderInv, StartAdder PROVE OrderInv'
<1>1. LiveInv /\ QueueInv /\ pc = "plan" /\ pc' = "admit"
  BY DEF OrderInv, StartAdder
<1>2. /\ UNCHANGED <<mode, memory, running, last, cur, queue, ratio, todo>>
  BY DEF StartAdder
<1>3. Quiet /\ MemoryType' /\ (Planning' => Planning) /\ Items(running)'
  BY <1>1, <1>2 DEF Quiet, Places, Planning, LiveInv, TypesInv, BatchesType, Items, Item,
     MemoryType, memory
<1>4. Reserve \in Int /\ ChunkSize \in Nat
  BY <1>1, ReserveIsInt, Constants DEF LiveInv
<1>5. LastInv'
  BY <1>1 DEF LastInv
<1>6. CASE chunked = None
  <2>1. /\ adder' = [NoAdder EXCEPT !.offset = Reserve, !.chunk = ChunkSize]
        /\ UNCHANGED <<req, chunked>>
    BY <1>6 DEF StartAdder
  <2>2. ReqsType' /\ SameProgress
    BY <1>1, <2>1 DEF ReqsType, SameProgress, LiveInv, TypesInv, Alive
  <2>3. QueueInv' /\ TypesInv' /\ OldInv' /\ ActiveInv' /\ CurInv'
    BY <1>1, <1>3, <2>2, QuietFrame
  <2>4. RunningInv' /\ ChunkedInv'
    BY <1>1, <1>2, <1>3, <2>1, <2>2, QuietRunning, QuietChunked DEF LiveInv
  <2>5. AdderInv'
    <3>1. /\ DOMAIN adder' = DOMAIN NoAdder
          /\ adder'.can = <<>> /\ adder'.newChunked = None
          /\ adder'.offset = Reserve /\ adder'.curOffset = 0 /\ adder'.chunk = ChunkSize
      BY <2>1 DEF NoAdder
    <3>2. chunked' = None /\ DOMAIN adder'.can = {} /\ IsSeq(adder'.can)
      BY <1>6, <2>1, <3>1, EmptyIsSeq
    <3> QED
      BY <1>4, <3>1, <3>2 DEF AdderInv
  <2> QED
    BY <1>5, <2>3, <2>4, <2>5 DEF OrderInv, LiveInv
<1>7. CASE chunked # None
  <2> DEFINE rec == req[chunked]
             whole == Len(Prompt[chunked]) + rec.out - Len(rec.pre)
             t == Truncate(Remaining(cache, Reserve))
             rem == Min({ChunkSize, t})
             n == Min({whole, rem})
             x == [rec EXCEPT !.fill = Len(rec.pre) + n]
  <2>1. /\ req' = [req EXCEPT ![chunked].fill = Len(rec.pre) + n]
        /\ adder' = [NoAdder EXCEPT
                       !.can = <<chunked>>,
                       !.offset = Reserve
                            + 10 * (n + (IF whole > rem THEN 0 ELSE MaxNew(chunked))),
                       !.curOffset = 10 * n,
                       !.chunk = ChunkSize - n]
        /\ chunked' = IF whole > rem THEN chunked ELSE None
    BY <1>7 DEF StartAdder
  <2>2. PICK c \in Reqs : c = chunked
    BY <1>1, <1>7, ChunkedFacts DEF Planning
  <2>3. /\ ReqType(c, req[c]) /\ req[c].st = "active" /\ c \notin ReqsOf(running)
        /\ Due(c) = 0 /\ req[c].chunks = Chunks(c)
    BY <1>1, <1>7, <2>2, ChunkedFacts DEF Planning
  <2>4. whole \in Int
    <3>1. Len(rec.pre) \in Int /\ rec.out \in Int
      BY <2>2, <2>3, SeqFacts DEF ReqType
    <3>2. Len(Prompt[chunked]) \in Nat
      BY <2>2, Constants
    <3> QED
      BY <3>1, <3>2
  <2>5. Remaining(cache, Reserve) \in Int
    BY <1>1, <1>4, CountIsNat DEF Remaining, LiveInv, TypesInv, MemoryType, CacheType
  <2>6. t \in Int /\ Remaining(cache, Reserve) - 10 * t < 10
    BY <2>5, TruncateFacts
  <2> HIDE DEF whole, t
  <2>7. /\ rem \in Int /\ n \in Int
        /\ whole > rem => n = rem /\ (rem = ChunkSize \/ rem = t)
        /\ ~ (whole > rem) => n = whole
    <3>1. rem \in {ChunkSize, t}
      BY <1>4, <2>6 DEF Min
    <3> HIDE DEF rem
    <3>2. /\ whole > rem => n = rem
          /\ ~ (whole > rem) => n = whole
      BY <1>4, <2>4, <2>6, <3>1 DEF Min
    <3> QED
      BY <1>4, <2>4, <2>6, <3>1, <3>2
  <2> HIDE DEF rem, n
  <2>8. req' = [req EXCEPT ![c] = x]
    BY <2>1, <2>2
  <2>9. /\ ReqType(c, x) /\ x.fill = Len(rec.pre) + n
        /\ x.st = rec.st /\ x.out = rec.out /\ x.chunks = rec.chunks
    <3>1. Len(rec.pre) + n \in Int
      BY <2>2, <2>3, <2>7, SeqFacts DEF ReqType
    <3> QED
      BY <2>2, <2>3, <3>1 DEF ReqType, NewReq
  <2>10. rec = req[c] /\ Alive(c) /\ ReqsType
    BY <1>1, <2>2, <2>3 DEF Alive, LiveInv, TypesInv
  <2>11. SameProgress /\ ReqsType' /\ req'[c] = x
    <3> HIDE DEF x, rec
    <3> QED
      BY <2>8, <2>9, <2>10, OneReqChanges
  <2>12. QueueInv' /\ TypesInv' /\ OldInv' /\ ActiveInv' /\ CurInv'
    BY <1>1, <1>3, <2>11, QuietFrame
  <2>13. RunningInv'
    BY <1>1, <1>2, <1>3, <2>11, QuietRunning DEF LiveInv
  <2>14. Due(c)' = 0 /\ Chunks(c)' = Chunks(c)
    BY <1>3, <2>3, QuietFlight
  <2>15. ReqsOf(running)' = ReqsOf(running)
    BY <1>2 DEF ReqsOf
  <2>16. chunked' = c \/ chunked' = None
    BY <2>1, <2>2
  <2>17. req'[c].st = "active" /\ req'[c].chunks = Chunks(c) /\ req'[c].out = rec.out
    BY <2>3, <2>9, <2>10, <2>11
  <2>18. ChunkedInv'
    <3>1. chunked' = c => Due(chunked)' = Due(c)'
      OBVIOUS
    <3> QED
      BY <1>1, <2>3, <2>14, <2>15, <2>16, <2>17, <3>1 DEF ChunkedInv
  <2>19. AdderInv'
    <3> DEFINE offset == Reserve + 10 * (n + (IF whole > rem THEN 0 ELSE MaxNew(chunked)))
    <3>1. /\ DOMAIN adder' = DOMAIN NoAdder
          /\ adder'.can = <<c>> /\ adder'.newChunked = None
          /\ adder'.offset = offset
          /\ adder'.curOffset = 10 * n /\ adder'.chunk = ChunkSize - n
      BY <2>1, <2>2 DEF NoAdder
    <3>2. DOMAIN adder'.can = {1} /\ adder'.can[1] = c /\ IsSeq(adder'.can)
          /\ ToSet(adder'.can) = {c}
      BY <3>1, EmptyIsSeq DEF ToSet
    <3>3. MaxNew(chunked) \in Nat
      BY <2>2, Constants
    <3>4. adder'.offset \in Int /\ adder'.curOffset \in Int /\ adder'.chunk \in Int
      BY <1>4, <2>7, <3>1, <3>3
    <3>5. c = PartlyFilled' \/ req'[c].fill = Len(Prompt[c]) + req'[c].out
      <4>1. CASE whole > rem
        BY <2>1, <2>2, <3>1, <4>1 DEF PartlyFilled
      <4>2. CASE ~ (whole > rem)
        <5>1. x.fill = Len(rec.pre) + whole /\ Len(rec.pre) \in Int
          BY <2>2, <2>3, <2>7, <2>9, <4>2, SeqFacts DEF ReqType
        <5>2. x.fill = Len(Prompt[c]) + rec.out
          <6>1. rec.out \in Int /\ Len(Prompt[c]) \in Int
            BY <2>2, <2>3, Constants DEF ReqType
          <6>2. whole = Len(Prompt[c]) + rec.out - Len(rec.pre)
            BY <2>2 DEF whole
          <6> HIDE DEF rec, x
          <6> QED
            BY <5>1, <6>1, <6>2
        <5> QED
          BY <2>11, <2>17, <5>2
      <4> QED
        BY <4>1, <4>2
    <3>6. chunked' # None => Exhausted'
      <4> SUFFICES ASSUME whole > rem PROVE Exhausted'
        BY <2>1
      <4>1. offset = Reserve + 10 * n /\ n = rem
        BY <1>4, <2>7
      <4>2. CASE rem = ChunkSize
        BY <1>4, <3>1, <4>1, <4>2 DEF Exhausted
      <4>3. CASE rem = t
        <5>1. Remaining(cache, adder.offset)' = 10 * (Count(free) + cache.evictable) - offset
          BY <1>2, <3>1 DEF Remaining, memory
        <5>2. Remaining(cache, Reserve) = 10 * (Count(free) + cache.evictable) - Reserve
          BY DEF Remaining
        <5>3. Count(free) \in Int /\ cache.evictable \in Int
          BY <1>1, CountIsNat DEF LiveInv, TypesInv, MemoryType, CacheType
        <5>4. Remaining(cache, adder.offset)' < 10
          <6> DEFINE m == 10 * (Count(free) + cache.evictable)
          <6>1. m \in Int
            BY <5>3
          <6> HIDE DEF m, offset
          <6> QED
            BY <1>4, <2>6, <4>1, <4>3, <5>1, <5>2, <6>1 DEF m
        <5> QED
          BY <5>4 DEF Exhausted
      <4> QED
        BY <2>7, <4>2, <4>3
    <3> HIDE DEF offset
    <3> QED
      BY <2>3, <2>14, <2>15, <2>16, <2>17, <3>1, <3>2, <3>4, <3>5, <3>6 DEF AdderInv
  <2> QED
    BY <1>5, <2>12, <2>13, <2>18, <2>19 DEF OrderInv, LiveInv
<1> QED
  BY <1>6, <1>7

\* A waiting request is tried: it is admitted, in whole or in part, or the
\* admission ends.
LEMMA AdmitKeeps == ASSUME OrderInv, NEW r \in Reqs, Admit(r) PROVE OrderInv'
<1>1. /\ LiveInv /\ QueueInv /\ pc = "admit" /\ pc' = "admit"
      /\ ~ adder.stop /\ r \in Untried
      /\ UNCHANGED <<mode, free, freeRows, running, chunked, last, cur, queue, ratio, todo>>
  BY DEF OrderInv, Admit
<1>2. /\ req[r].st = "waiting" /\ r \notin ToSet(adder.can)
      /\ ReqType(r, req[r]) /\ req[r].chunks = 0
  BY <1>1 DEF Untried, Waiting, LiveInv, TypesInv, ReqsType, ReqType
<1>3. r \notin ReqsOf(running)
  BY <1>1, <1>2 DEF LiveInv, RunningInv, Alive, ReqsOf
<1>4. Due(r) = 0 /\ Chunks(r) = 0
  <2>1. ~ New(r)
    BY <1>1, NothingNew
  <2>2. ~ Old(r)
    BY <1>1, <1>2 DEF LiveInv, OldInv, Old, Alive, Planning
  <2> QED
    BY <2>1, <2>2 DEF Due, Chunks, One
<1> DEFINE rec == req[r]
           len == Len(Prompt[r]) + rec.out
           key == Upto(Text(r), len - 1)
           n == IF mode.radix THEN MatchLen(cache.tree, key) ELSE 0
           found == IF mode.radix THEN Matched(cache, key) ELSE cache
           node == Upto(key, n)
           extend == Min({len - n, adder.chunk})
           whole == extend = len - n
           offset == adder.offset + 10 * (extend + (IF whole THEN MaxNew(r) ELSE 0))
           curOffset == adder.curOffset + 10 * extend
           locked == Locked(found, node)
           noToken == \/ Remaining(locked, offset) <= 0
                      \/ Remaining(locked, curOffset) <= 0
           pre == SlotsOf(found.tree, key, n)
           x == [rec EXCEPT !.fill = n + extend, !.pre = pre, !.node = node]
<1>5. \/ /\ ~ Affordable(found, node, len - n + MaxNew(r) - rec.out)
         /\ cache' = found /\ req' = req
         /\ adder' = [adder EXCEPT !.stop = TRUE]
      \/ /\ adder.chunk <= 0
         /\ cache' = found /\ req' = req
         /\ adder' = [adder EXCEPT !.stop = TRUE]
      \/ /\ Affordable(found, node, len - n + MaxNew(r) - rec.out)
         /\ ~ (adder.chunk <= 0)
         /\ cache' = locked
         /\ req' = [req EXCEPT ![r].fill = n + extend, ![r].pre = pre, ![r].node = node]
         /\ adder' = [can |-> Append(adder.can, r), offset |-> offset,
                      curOffset |-> curOffset, chunk |-> adder.chunk - extend,
                      newChunked |-> IF whole THEN None ELSE r,
                      stop |-> noToken \/ adder.chunk - extend <= 0]
  BY DEF Admit
<1>6. /\ len \in Nat \ {0} /\ len = Len(Prompt[r]) + rec.out
      /\ MaxNew(r) \in Nat /\ rec.out \in Nat /\ rec.out < MaxNew(r)
  <2>1. Len(Prompt[r]) \in Nat \ {0}
    <3>1. Size \in Nat /\ Len(Prompt[r]) \in 1 .. Size - 7
      BY SchedulerAssumption
    <3> QED
      BY <3>1
  <2>2. rec.out \in Nat /\ rec.out < MaxNew(r) /\ MaxNew(r) \in Nat
    BY <1>2, Constants DEF ReqType
  <2> QED
    BY <2>1, <2>2
<1>7. /\ DOMAIN adder = DOMAIN NoAdder
      /\ adder.offset \in Int /\ adder.curOffset \in Int /\ adder.chunk \in Int
      /\ IsSeq(adder.can) /\ adder.newChunked = None
      /\ {chunked, adder.newChunked} \subseteq ToSet(adder.can) \cup {None}
      /\ chunked # None => Exhausted
  BY <1>1 DEF LiveInv, AdderInv
<1> HIDE DEF len
<1>8. IsSeq(key) /\ Len(key) = len - 1
  <2>1. len - 1 \in Int
    BY <1>6
  <2>2. IsSeq(key) /\ Len(key) = IF 1 <= len - 1 THEN len - 1 ELSE 0
    BY <2>1, UptoIsSeq
  <2> HIDE DEF key
  <2> QED
    BY <1>6, <2>2
<1> HIDE DEF key
<1>9. CacheType(cache) /\ CacheType(found) /\ found.evictable = cache.evictable
  <2>1. CacheType(cache)
    BY <1>1 DEF LiveInv, TypesInv, MemoryType
  <2> QED
    BY <1>8, <2>1, MatchedType
<1>10. n \in 0 .. len - 1
  <2>1. MatchLen(cache.tree, key) \in 0 .. Len(key)
    BY <1>8, <1>9, LengthsAreInt DEF CacheType
  <2>2. CASE mode.radix
    BY <1>6, <1>8, <2>1, <2>2
  <2>3. CASE ~ mode.radix
    BY <1>6, <2>3
  <2> QED
    BY <2>2, <2>3
<1> HIDE DEF found, n
<1>11. IsSeq(node) /\ IsSeq(pre) /\ CacheType(locked)
  <2>1. IsSeq(node)
    BY <1>10, UptoIsSeq
  <2>2. IsSeq(pre)
    BY <1>10, ListIsSeq DEF SlotsOf
  <2>3. CacheType(locked)
    BY <1>9, LockType DEF Locked
  <2> QED
    BY <2>1, <2>2, <2>3
<1> HIDE DEF node, pre, locked
<1>12. /\ extend \in Int
       /\ extend = len - n \/ extend = adder.chunk
  <2>1. extend \in {len - n, adder.chunk}
    BY <1>6, <1>7, <1>10 DEF Min
  <2> HIDE DEF extend
  <2> QED
    BY <1>6, <1>7, <1>10, <2>1
<1> HIDE DEF extend
<1>13. /\ UNCHANGED <<chunked>> /\ ReqsOf(running)' = ReqsOf(running)
  BY <1>1 DEF ReqsOf
<1>14. MemoryType'
  BY <1>1, <1>5, <1>9, <1>11 DEF LiveInv, TypesInv, MemoryType
<1>15. Quiet /\ (Planning' => Planning) /\ Items(running)'
  BY <1>1 DEF Quiet, Places, Planning, LiveInv, TypesInv, BatchesType, Items, Item
<1>16. LastInv'
  BY <1>1 DEF LastInv
<1>17. \A q : Due(q)' = Due(q) /\ Chunks(q)' = Chunks(q)
  BY <1>15, QuietFlight
<1>18. ASSUME ReqsType', SameProgress, AdderInv' PROVE OrderInv'
  <2>1. QueueInv' /\ TypesInv' /\ OldInv' /\ ActiveInv' /\ CurInv'
    BY <1>1, <1>14, <1>15, <1>18, QuietFrame
  <2>2. RunningInv' /\ ChunkedInv'
    BY <1>1, <1>15, <1>18, QuietRunning, QuietChunked DEF LiveInv
  <2> QED
    BY <1>16, <1>18, <2>1, <2>2 DEF OrderInv, LiveInv
<1>19. CASE req' = req /\ adder' = [adder EXCEPT !.stop = TRUE]
  <2>1. ReqsType' /\ SameProgress
    BY <1>1, <1>19 DEF ReqsType, SameProgress, Alive, LiveInv, TypesInv
  <2>2. /\ DOMAIN adder' = DOMAIN NoAdder /\ adder'.stop
        /\ adder'.can = adder.can /\ adder'.newChunked = adder.newChunked
        /\ adder'.offset = adder.offset /\ adder'.curOffset = adder.curOffset
        /\ adder'.chunk = adder.chunk
    BY <1>7, <1>19 DEF NoAdder
  <2>3. AdderInv'
    BY <1>1, <1>7, <1>13, <1>17, <1>19, <2>2
       DEF LiveInv, AdderInv, Exhausted, PartlyFilled
  <2> QED
    BY <1>18, <2>1, <2>3
<1>20. CASE /\ Affordable(found, node, len - n + MaxNew(r) - rec.out)
            /\ ~ (adder.chunk <= 0)
            /\ req' = [req EXCEPT ![r].fill = n + extend, ![r].pre = pre, ![r].node = node]
            /\ adder' = [can |-> Append(adder.can, r), offset |-> offset,
                         curOffset |-> curOffset, chunk |-> adder.chunk - extend,
                         newChunked |-> IF whole THEN None ELSE r,
                         stop |-> noToken \/ adder.chunk - extend <= 0]
  <2>1. chunked = None
    <3>1. 10 * (len - n + MaxNew(r) - rec.out) < Remaining(cache, adder.offset)
      BY <1>9, <1>20 DEF Affordable, Remaining
    <3>2. len - n + MaxNew(r) - rec.out >= 1
      BY <1>6, <1>10
    <3>3. Remaining(cache, adder.offset) \in Int
      BY <1>1, <1>7, <1>9, CountIsNat DEF Remaining, CacheType, LiveInv, TypesInv, MemoryType
    <3>4. ~ (Remaining(cache, adder.offset) < 10)
      <4> DEFINE m == len - n + MaxNew(r) - rec.out
      <4>1. m \in Int
        BY <1>6, <1>10
      <4> HIDE DEF m
      <4> QED
        BY <3>1, <3>2, <3>3, <4>1 DEF m
    <3> QED
      BY <1>1, <1>7, <1>20, <3>4 DEF Exhausted
  <2>2. ReqType(r, x) /\ x.fill = n + extend /\ x.st = rec.st /\ x.out = rec.out
        /\ x.chunks = rec.chunks
    <3>1. n + extend \in Int
      BY <1>10, <1>12
    <3> QED
      BY <1>2, <1>11, <3>1 DEF ReqType, NewReq
  <2>3. req' = [req EXCEPT ![r] = x]
    BY <1>20
  <2>4. ReqsType /\ ~ Alive(r) /\ x.st = "waiting"
    BY <1>1, <1>2, <2>2 DEF LiveInv, TypesInv, Alive
  <2>5. /\ ReqsType' /\ SameProgress
        /\ req'[r] = x /\ \A q \in Reqs \ {r} : req'[q] = req[q]
    <3> HIDE DEF x
    <3> QED
      BY <2>2, <2>3, <2>4, OneReqChanges
  <2>6. AdderInv'
    <3>1. /\ DOMAIN adder' = DOMAIN NoAdder
          /\ adder'.can = Append(adder.can, r)
          /\ adder'.newChunked = IF whole THEN None ELSE r
          /\ adder'.offset = offset /\ adder'.curOffset = curOffset
          /\ adder'.chunk = adder.chunk - extend
          /\ adder.chunk - extend <= 0 => adder'.stop
      <4> HIDE DEF noToken, offset, curOffset, whole
      <4> QED
        BY <1>20 DEF NoAdder
    <3>2. offset \in Int /\ curOffset \in Int /\ adder.chunk - extend \in Int
      <4> DEFINE more == IF whole THEN MaxNew(r) ELSE 0
      <4>1. /\ adder.offset \in Int /\ adder.curOffset \in Int /\ adder.chunk \in Int
            /\ extend \in Int
        BY <1>7, <1>12
      <4>2. more \in Int
        BY <1>6
      <4> HIDE DEF more, extend
      <4> QED
        BY <4>1, <4>2 DEF more
    <3>3. ~ whole => extend = adder.chunk /\ adder'.stop
      <4>1. ~ whole => extend = adder.chunk
        BY <1>12
      <4> QED
        BY <1>7, <3>1, <4>1
    <3>4. whole => x.fill = Len(Prompt[r]) + x.out
      BY <1>6, <1>10, <1>12, <2>2
    <3> HIDE DEF offset, curOffset, noToken
    <3>5. /\ Len(adder.can) \in Nat /\ DOMAIN adder.can = 1 .. Len(adder.can)
          /\ IsSeq(adder'.can) /\ DOMAIN adder'.can = 1 .. Len(adder.can) + 1
          /\ \A k \in 1 .. Len(adder.can) : adder'.can[k] = adder.can[k]
          /\ adder'.can[Len(adder.can) + 1] = r
      BY <1>7, <3>1, SeqFacts, AppendIsSeq
    <3>6. \A k \in DOMAIN adder.can : adder.can[k] # r
      BY <1>2 DEF ToSet
    <3>7. ASSUME NEW j \in DOMAIN adder'.can, NEW k \in DOMAIN adder'.can,
                 adder'.can[j] = adder'.can[k]
          PROVE  j = k
      <4>1. \A i, l \in DOMAIN adder.can : adder.can[i] = adder.can[l] => i = l
        BY <1>1 DEF LiveInv, AdderInv
      <4> QED
        BY <3>5, <3>6, <3>7, <4>1
    <3>8. PartlyFilled = None /\ PartlyFilled' = adder'.newChunked
      BY <1>7, <1>13, <2>1 DEF PartlyFilled
    <3>9. ASSUME NEW k \in DOMAIN adder'.can, NEW q, q = adder'.can[k]
          PROVE  /\ q \in Reqs
                 /\ req'[q].st \in {"waiting", "active"}
                 /\ q \notin ReqsOf(running)
                 /\ Due(q) = 0
                 /\ req'[q].chunks = Chunks(q)
                 /\ q = PartlyFilled' \/ req'[q].fill = Len(Prompt[q]) + req'[q].out
      <4>1. CASE k = Len(adder.can) + 1
        <5>1. q = r
          BY <3>5, <3>9, <4>1
        <5>2. req'[r].st = "waiting" /\ req'[r].chunks = 0
          BY <1>2, <2>2, <2>4, <2>5
        <5>3. whole => req'[r].fill = Len(Prompt[r]) + req'[r].out
          BY <2>5, <3>4
        <5> QED
          BY <1>3, <1>4, <3>1, <3>8, <5>1, <5>2, <5>3
      <4>2. CASE k \in DOMAIN adder.can
        <5>1. q = adder.can[k]
          BY <3>5, <3>9, <4>2
        <5>2. /\ q \in Reqs /\ req[q].st \in {"waiting", "active"}
              /\ q \notin ReqsOf(running)
              /\ Due(q) = 0 /\ req[q].chunks = Chunks(q)
              /\ q = PartlyFilled \/ req[q].fill = Len(Prompt[q]) + req[q].out
          BY <1>1, <4>2, <5>1 DEF LiveInv, AdderInv
        <5>3. q # None /\ q # r
          BY <3>6, <4>2, <5>1, <5>2, Constants
        <5> QED
          BY <2>5, <3>8, <5>2, <5>3
      <4> QED
        BY <3>5, <4>1, <4>2
    <3>10. {chunked', adder'.newChunked} \subseteq ToSet(adder'.can) \cup {None}
      <4>1. r \in ToSet(adder'.can)
        BY <3>5 DEF ToSet
      <4> QED
        BY <1>13, <2>1, <3>1, <4>1
    <3>11. adder'.newChunked # None => adder'.stop /\ chunked' = None
      BY <1>13, <2>1, <3>1, <3>3
    <3> QED
      BY <1>13, <1>17, <2>1, <3>1, <3>2, <3>5, <3>7, <3>9, <3>10, <3>11 DEF AdderInv
  <2> QED
    BY <1>18, <2>5, <2>6
<1> QED
  BY <1>5, <1>19, <1>20
-----------------------------------------------------------------------------
(* update_running_batch.                                                    *)

\* Sorting the running batch for the retraction keeps every item, once.
LEMMA RetractOrderFacts ==
    ASSUME ReqsType, NEW items, Items(items)
    PROVE  /\ Items(RetractOrder(items)) /\ DOMAIN RetractOrder(items) = DOMAIN items
           /\ \A n \in DOMAIN items : \E k \in DOMAIN items : RetractOrder(items)[n] = items[k]
<1> DEFINE T == DOMAIN items
           o == [k \in T |-> req[items[k].r].out]
           p == [k \in T |-> Len(Prompt[items[k].r])]
           R == {e \in T \X T : \/ Keeps(items[e[1]], items[e[2]])
                                \/ e[1] < e[2] /\ ~ Keeps(items[e[2]], items[e[1]])}
           before(k) == {j \in T : \/ Keeps(items[j], items[k])
                                   \/ j < k /\ ~ Keeps(items[k], items[j])}
           at(n) == CHOOSE k \in T : Cardinality(before(k)) = n - 1
           f == [n \in T |-> items[at(n)]]
<1>1. T = 1 .. Len(items) /\ Len(items) \in Nat /\ IsFiniteSet(T)
  BY SeqFacts DEF Items
<1>2. \A k \in T : o[k] \in Int /\ p[k] \in Int
  <2> SUFFICES ASSUME NEW k \in T PROVE o[k] \in Int /\ p[k] \in Int
    OBVIOUS
  <2>1. items[k].r \in Reqs
    BY ItemFacts
  <2>2. req[items[k].r].out \in Int /\ Len(Prompt[items[k].r]) \in Int
    BY <2>1, Constants DEF ReqsType, ReqType
  <2> QED
    BY <2>2
<1>3. \A j, k \in T : Keeps(items[j], items[k]) <=>
         o[j] - o[k] > 0 \/ (o[j] - o[k] = 0 /\ p[k] - p[j] > 0)
  BY DEF Keeps
<1>4. Orders(R, T)
  <2> DEFINE K(j, k) == o[j] - o[k] > 0 \/ (o[j] - o[k] = 0 /\ p[k] - p[j] > 0)
  <2>1. ASSUME NEW j \in T, NEW k \in T
        PROVE  <<j, k>> \in R <=> K(j, k) \/ (j < k /\ ~ K(k, j))
    <3> DEFINE first == \/ Keeps(items[j], items[k])
                        \/ j < k /\ ~ Keeps(items[k], items[j])
    <3>1. <<j, k>> \in R <=> first
      OBVIOUS
    <3>2. Keeps(items[j], items[k]) <=> K(j, k)
      BY <1>3
    <3>3. Keeps(items[k], items[j]) <=> K(k, j)
      BY <1>3
    <3> HIDE DEF R, o, p, T, K, before, at, f
    <3> QED
      BY <3>1, <3>2, <3>3
  <2> HIDE DEF R, o, p, T
  <2>2. \A j \in T : j \in Int
    BY <1>1
  <2>3. \A j \in T : <<j, j>> \notin R
    BY <1>2, <2>1, <2>2
  <2>4. \A j, k \in T : j # k => <<j, k>> \in R \/ <<k, j>> \in R
    BY <1>2, <2>1, <2>2
  <2>5. ASSUME NEW i \in T, NEW j \in T, NEW k \in T, <<i, j>> \in R, <<j, k>> \in R
        PROVE  <<i, k>> \in R
    <3>1. /\ o[i] \in Int /\ o[j] \in Int /\ o[k] \in Int
          /\ p[i] \in Int /\ p[j] \in Int /\ p[k] \in Int
          /\ i \in Int /\ j \in Int /\ k \in Int
      BY <1>2, <2>2
    <3>2. K(i, j) \/ (i < j /\ ~ K(j, i))
      BY <2>1, <2>5
    <3>3. K(j, k) \/ (j < k /\ ~ K(k, j))
      BY <2>1, <2>5
    <3>4. K(i, k) \/ (i < k /\ ~ K(k, i))
      BY <3>1, <3>2, <3>3
    <3> QED
      BY <2>1, <3>4
  <2> QED
    <3>1. \A i, j, k \in T : <<i, j>> \in R /\ <<j, k>> \in R => <<i, k>> \in R
      BY <2>5
    <3> QED
      BY <2>3, <2>4, <3>1, Zenon DEF Orders
<1>5. Cardinality(T) = Len(items)
  <2>1. Cardinality(1 .. Len(items)) = IF 1 > Len(items) THEN 0 ELSE Len(items) - 1 + 1
    BY <1>1, FS_Interval
  <2> QED
    BY <1>1, <2>1
<1>6. ASSUME NEW n \in T
      PROVE  at(n) \in T /\ Cardinality(before(at(n))) = n - 1
  <2>1. n - 1 \in 0 .. Cardinality(T) - 1
    BY <1>1, <1>5
  <2>2. \E k \in T : Before(R, T, k) = n - 1
    <3> HIDE DEF R, T
    <3>1. \A m \in 0 .. Cardinality(T) - 1 : \E x \in T : Before(R, T, x) = m
      BY <1>1, <1>4, EveryPlaceTaken
    <3> QED
      BY <2>1, <3>1
  <2>3. \A k \in T : Before(R, T, k) = Cardinality(before(k))
    <3>1. ASSUME NEW x \in T, NEW y \in T PROVE <<y, x>> \in R <=> y \in before(x)
      OBVIOUS
    <3>2. \A k \in T : before(k) \subseteq T
      OBVIOUS
    <3> HIDE DEF R, T, before
    <3>3. \A k \in T : {j \in T : <<j, k>> \in R} = before(k)
      BY <3>1, <3>2
    <3> QED
      BY <3>3 DEF Before
  <2>4. \E k \in T : Cardinality(before(k)) = n - 1
    BY <2>2, <2>3
  <2> HIDE DEF T, before
  <2> QED
    BY <2>4
<1>7. ASSUME NEW m \in T, NEW n \in T, f[m].r = f[n].r PROVE m = n
  <2> DEFINE j == at(m)
             k == at(n)
  <2>1. f[m] = items[j] /\ f[n] = items[k] /\ j \in T /\ k \in T
    BY <1>6
  <2>2. m \in Int /\ n \in Int
    BY <1>1
  <2>3. j = k
    <3> HIDE DEF f, j, k
    <3> QED
      BY <1>7, <2>1 DEF Items
  <2>4. m - 1 = n - 1
    <3>1. Cardinality(before(j)) = m - 1 /\ Cardinality(before(k)) = n - 1
      BY <1>6
    <3> HIDE DEF j, k, before
    <3> QED
      BY <2>3, <3>1
  <2> QED
    BY <2>2, <2>4
<1>8. IsSeq(f) /\ DOMAIN f = T
  <2>1. f = [n \in 1 .. Len(items) |-> f[n]]
    BY <1>1
  <2> HIDE DEF f, at
  <2> QED
    BY <1>1, <2>1, FunctionIsSeq
<1>9. \A n \in T : f[n] = items[at(n)] /\ at(n) \in T
  BY <1>6
<1> HIDE DEF f, at
<1>10. Items(f)
  BY <1>7, <1>8, <1>9 DEF Items
<1>11. RetractOrder(items) = f
  BY DEF RetractOrder, f, at
<1> QED
  BY <1>8, <1>9, <1>10, <1>11

LEMMA EmptyFacts ==
    ASSUME NEW s, IsSeq(s)
    PROVE  (s = <<>> <=> Len(s) = 0) /\ (s = <<>> <=> DOMAIN s = {})
<1>1. Len(s) \in Nat /\ DOMAIN s = 1 .. Len(s) /\ s = [k \in 1 .. Len(s) |-> s[k]]
  BY SeqFacts
<1>2. s \in Seq(ToSet(s))
  BY DEF IsSeq
<1>3. Len(s) = 0 => s = <<>>
  BY <1>1, <1>2
<1>4. DOMAIN s = {} => Len(s) = 0
  BY <1>1
<1> QED
  BY <1>1, <1>3, <1>4

\* Requests that ended leave the running batch; the rest decodes, or one of
\* them has to go.
LEMMA UpdateRunningKeeps == ASSUME OrderInv, UpdateRunning PROVE OrderInv'
<1>1. /\ LiveInv /\ QueueInv /\ pc = "decode" /\ chunked = None
      /\ UNCHANGED <<mode, req, chunked, last, cur, queue, adder, todo>>
  BY DEF OrderInv, UpdateRunning, LiveInv, ChunkedInv
<1> DEFINE active == {k \in DOMAIN running : req[running[k].r].st = "active"}
<1>2. /\ Items(Unfinished)
      /\ \A n \in DOMAIN Unfinished : \E k \in active : Unfinished[n] = running[k]
  <2>1. active \in SUBSET DOMAIN running /\ Unfinished = Kept(running, active)
    BY DEF Unfinished
  <2>2. Items(running)
    BY <1>1 DEF LiveInv, TypesInv, BatchesType
  <2> HIDE DEF active
  <2> QED
    BY <2>1, <2>2, KeptFacts
<1>3. \/ pc' = "process" /\ running' = <<>>
      \/ /\ pc' \in {"step", "retract"}
         /\ running' \in {Unfinished, RetractOrder(Unfinished)}
         /\ Unfinished # <<>>
  BY DEF UpdateRunning
<1>4. MemoryType'
  <2>1. MemoryType /\ Ratios \subseteq Int
    BY <1>1, Constants DEF LiveInv, TypesInv
  <2>2. CASE Unfinished = <<>>
    BY <2>1, <2>2 DEF UpdateRunning, MemoryType, memory
  <2>3. CASE Unfinished # <<>>
    <3>1. PICK gone \in ToEvict(Len(Unfinished)) :
             cache' = Evicted(cache, gone) /\ free' = FreedByEviction(cache, free, gone)
      BY <2>3 DEF UpdateRunning
    <3>2. CacheType(cache') /\ free' \in [Slots -> Int]
      BY <2>1, <3>1, EvictionType DEF MemoryType, ToEvict
    <3>3. ratio' \in Int /\ DOMAIN freeRows' = Rows
      BY <2>1, <2>3 DEF UpdateRunning, MemoryType
    <3> QED
      BY <3>2, <3>3 DEF MemoryType
  <2> QED
    BY <2>2, <2>3
<1>5. /\ Items(running')
      /\ \A n \in DOMAIN running' : \E k \in active : running'[n] = running[k]
      /\ pc' # "process" => running' # <<>>
  <2>1. CASE running' = <<>>
    <3>1. DOMAIN running' = {} /\ IsSeq(running')
      BY <2>1, EmptyIsSeq
    <3>2. pc' = "process"
      <4>1. Unfinished # <<>> => RetractOrder(Unfinished) # <<>>
        BY <1>1, <1>2, EmptyFacts, RetractOrderFacts DEF Items, LiveInv, TypesInv
      <4> QED
        BY <1>3, <2>1, <4>1
    <3> QED
      BY <3>1, <3>2 DEF Items
  <2>2. CASE running' = Unfinished
    BY <1>2, <1>3, <2>2
  <2>3. CASE running' = RetractOrder(Unfinished) /\ running' # <<>>
    <3>1. /\ Items(running')
          /\ \A n \in DOMAIN running' : \E m \in DOMAIN Unfinished : running'[n] = Unfinished[m]
      BY <1>1, <1>2, <2>3, RetractOrderFacts DEF LiveInv, TypesInv
    <3> QED
      BY <1>2, <2>3, <3>1
  <2> QED
    BY <1>3, <2>1, <2>2, <2>3
<1>6. Quiet /\ SameProgress /\ ReqsType' /\ (Planning' => Planning)
  BY <1>1, <1>3 DEF Quiet, Places, SameProgress, ReqsType, Planning, LiveInv, TypesInv, Alive
<1>7. QueueInv' /\ TypesInv' /\ OldInv' /\ ActiveInv' /\ CurInv'
  BY <1>1, <1>4, <1>5, <1>6, QuietFrame
<1>8. RunningInv'
  <2>1. ASSUME NEW n \in DOMAIN running', NEW i, i = running'[n]
        PROVE  /\ Alive(i.r)' /\ req'[i.r].st = "active"
               /\ Follows(i)'
               /\ req'[i.r].chunks = 0
    <3>1. PICK k \in DOMAIN running : i = running[k] /\ req[i.r].st = "active"
      BY <1>5, <2>1
    <3>2. i.r \in Reqs
      BY <1>1, <3>1, ItemFacts DEF LiveInv, TypesInv, BatchesType
    <3>3. Alive(i.r) /\ Follows(i) /\ req[i.r].chunks = 0
      BY <1>1, <3>1 DEF LiveInv, RunningInv
    <3> QED
      BY <1>6, <3>1, <3>2, <3>3, QuietFollows
  <2>2. pc' \in {"retract", "step"} => running' # <<>>
    BY <1>5
  <2> QED
    BY <2>1, <2>2 DEF RunningInv
<1>9. ChunkedInv' /\ LastInv' /\ AdderInv'
  BY <1>1, <1>3 DEF ChunkedInv, LastInv, AdderInv
<1> QED
  BY <1>7, <1>8, <1>9 DEF OrderInv, LiveInv

\* After a retraction the ratio is one of its values, whichever.
LEMMA RetractRatioKind == Retract => ratio' \in Ratios /\ ratio' \in Int
<1>1. Retract => ratio' \in Ratios
  BY DEF Retract, RetractRatio, Rounded
<1> QED
  BY <1>1, Constants

\* The last of the running batch goes back to the waiting queue.
LEMMA RetractKeeps == ASSUME OrderInv, Retract PROVE OrderInv'
<1>1. /\ LiveInv /\ QueueInv /\ pc = "retract" /\ chunked = None /\ ratio' \in Int
      /\ UNCHANGED <<mode, chunked, last, cur, queue, adder, todo>>
  BY RetractRatioKind DEF OrderInv, Retract, LiveInv, ChunkedInv
<1>2. Items(running) /\ running # <<>>
  BY <1>1 DEF LiveInv, TypesInv, BatchesType, RunningInv
<1>3. ASSUME MemoryType', ReqsType', NoneAhead, Items(running)', RunningInv',
             pc' \in {"retract", "step"}
      PROVE  OrderInv'
  <2>1. Quiet /\ (Planning' => Planning) /\ pc' # "process"
    BY <1>1, <1>3 DEF Quiet, Places, Planning
  <2>2. QueueInv' /\ TypesInv' /\ OldInv' /\ ActiveInv' /\ CurInv'
    BY <1>3, <2>1, FrameKeeps
  <2>3. ChunkedInv' /\ LastInv' /\ AdderInv'
    BY <1>1, <1>3 DEF ChunkedInv, LastInv, AdderInv
  <2> QED
    BY <1>3, <2>2, <2>3 DEF OrderInv, LiveInv
<1>4. CASE Len(running) = 1
  <2>1. /\ pc' \in {"step", "dead"}
        /\ UNCHANGED <<req, memory, running>>
    BY <1>4 DEF Retract
  <2>2. CASE pc' = "dead"
    BY <1>1, <2>2, QueueKeeps DEF OrderInv
  <2>3. CASE pc' = "step"
    <3>1. MemoryType' /\ ReqsType' /\ NoneAhead /\ Items(running)'
      BY <1>1, <1>2, <2>1, <2>3 DEF MemoryType, memory, ReqsType, NoneAhead, Planning, Alive,
         Items, Item, LiveInv, TypesInv
    <3>2. Quiet /\ SameProgress
      BY <1>1, <2>1, <2>3 DEF Quiet, SameProgress, Alive, Places
    <3>3. RunningInv'
      <4>1. ASSUME NEW n \in DOMAIN running, NEW i, i = running[n]
            PROVE  /\ Alive(i.r)' /\ req'[i.r].st = "active"
                   /\ Follows(i)'
                   /\ req'[i.r].chunks = 0
        <5>1. /\ i.r \in Reqs /\ Alive(i.r) /\ Follows(i)
              /\ req[i.r].st = "active" /\ req[i.r].chunks = 0
          BY <1>1, <1>2, <4>1, ItemFacts DEF LiveInv, RunningInv
        <5> QED
          BY <3>2, <5>1, QuietFollows
      <4> QED
        BY <1>2, <2>1, <4>1 DEF RunningInv
    <3> QED
      BY <1>3, <2>3, <3>1, <3>3
  <2> QED
    BY <2>1, <2>2, <2>3
<1>5. CASE Len(running) # 1
  <2> DEFINE rec == req[Last(running).r]
             after == CacheFinished(Last(running).r, rec, FALSE)
             left == Len(running) - 1
  <2>1. /\ \E gone \in Reclaim(after.cache, after.free, left * RetractSteps) :
              /\ cache' = Evicted(after.cache, gone)
              /\ free' = FreedByEviction(after.cache, after.free, gone)
        /\ freeRows' = [freeRows EXCEPT ![rec.row] = @ + 1]
        /\ req' = [req EXCEPT ![Last(running).r] = Retracted(rec)]
        /\ running' = Front(running)
        /\ pc' \in {"step", "retract"}
    BY <1>5 DEF Retract
  <2>2. Len(running) \in Nat /\ Len(running) >= 2 /\ DOMAIN running = 1 .. Len(running)
    <3>1. Len(running) \in Nat /\ DOMAIN running = 1 .. Len(running)
      BY <1>2, ItemFacts
    <3>2. Len(running) # 0
      BY <1>2, EmptyFacts DEF Items
    <3> QED
      BY <1>5, <3>1, <3>2
  <2>3. PICK r \in Reqs : r = running[Len(running)].r
    BY <1>2, <2>2, ItemFacts
  <2>4. Last(running).r = r
    BY <2>3 DEF Last
  <2>5. /\ ReqsType /\ ReqType(r, req[r]) /\ req[r].st = "active"
    BY <1>1, <2>2, <2>3 DEF LiveInv, TypesInv, ReqsType, RunningInv
  <2>6. CacheType(after.cache) /\ after.free \in [Slots -> Int]
    <3>1. CanStore(req[r]) /\ req[r].out \in Int /\ MemoryType
      BY <1>1, <2>5 DEF LiveInv, TypesInv, ReqType, CanStore
    <3>2. LET after0 == CacheFinished(r, req[r], FALSE)
          IN  CacheType(after0.cache) /\ after0.free \in [Slots -> Int]
      BY <3>1, FinishedFacts
    <3> QED
      BY <2>4, <3>2
  <2>7. MemoryType'
    <3> HIDE DEF after
    <3>1. CacheType(cache') /\ free' \in [Slots -> Int]
      BY <2>1, <2>6, EvictionType
    <3> QED
      BY <1>1, <2>1, <3>1 DEF MemoryType, LiveInv, TypesInv
  <2>8. /\ DOMAIN running' = 1 .. Len(running) - 1 /\ Items(running)'
        /\ running' # <<>>
        /\ \A n \in DOMAIN running' : running'[n] = running[n] /\ running[n].r # r
    <3>1. Len(running) - 1 \in Int /\ running' = SubSeq(running, 1, Len(running) - 1)
      BY <2>1, <2>2 DEF Front
    <3>2. /\ IsSeq(running') /\ DOMAIN running' = 1 .. Len(running) - 1
          /\ \A n \in 1 .. Len(running) - 1 : running'[n] = running[n]
      <4>1. /\ IsSeq(SubSeq(running, 1, Len(running) - 1))
            /\ DOMAIN SubSeq(running, 1, Len(running) - 1) = 1 .. Len(running) - 1 - 1 + 1
            /\ \A k \in 1 .. Len(running) - 1 - 1 + 1 :
                  SubSeq(running, 1, Len(running) - 1)[k] = running[1 + k - 1]
        BY <3>1, SubSeqIsSeq
      <4> QED
        BY <2>2, <3>1, <4>1
    <3>3. ASSUME NEW n \in 1 .. Len(running) - 1
          PROVE  n \in DOMAIN running /\ Len(running) \in DOMAIN running /\ n # Len(running)
      <4>1. PICK m \in Nat : m = Len(running) /\ m >= 2
        BY <2>2
      <4>2. n \in 1 .. m - 1
        BY <4>1
      <4>3. n \in 1 .. m /\ m \in 1 .. m /\ n # m
        BY <4>1, <4>2
      <4> QED
        BY <2>2, <4>1, <4>3
    <3>4. \A n \in 1 .. Len(running) - 1 : running[n].r # r
      BY <1>2, <2>3, <3>3 DEF Items
    <3>5. Items(running')
      BY <1>2, <3>2, <3>3 DEF Items
    <3>6. running' # <<>>
      BY <2>2, <3>2, EmptyFacts
    <3> QED
      BY <3>2, <3>4, <3>5, <3>6
  <2>9. /\ req'[r] = Retracted(req[r]) /\ \A q \in Reqs \ {r} : req'[q] = req[q]
        /\ DOMAIN req' = Reqs
    BY <2>1, <2>4, <2>5 DEF ReqsType
  <2>10. ReqType(r, req'[r]) /\ req'[r].st = "waiting"
    BY <2>5, <2>9, EmptyIsSeq DEF ReqType, Retracted, NewReq
  <2>11. ReqsType' /\ NoneAhead
    <3>1. ReqsType'
      BY <2>5, <2>9, <2>10 DEF ReqsType
    <3>2. ~ Planning'
      BY <2>1 DEF Planning
    <3> QED
      BY <2>9, <2>10, <3>1, <3>2 DEF NoneAhead, Alive
  <2>12. RunningInv'
    <3>1. ASSUME NEW n \in DOMAIN running', NEW i, i = running'[n]
          PROVE  /\ Alive(i.r)' /\ req'[i.r].st = "active"
                 /\ Follows(i)'
                 /\ req'[i.r].chunks = 0
      <4>1. n \in DOMAIN running /\ i = running[n] /\ i.r # r
        BY <2>2, <2>8, <3>1
      <4>2. /\ i.r \in Reqs /\ Alive(i.r) /\ Follows(i)
            /\ req[i.r].st = "active" /\ req[i.r].chunks = 0
        BY <1>1, <1>2, <4>1, ItemFacts DEF LiveInv, RunningInv
      <4>3. req'[i.r] = req[i.r]
        BY <2>9, <4>1, <4>2
      <4>4. Due(i.r)' = Due(i.r)
        <5>1. Quiet
          BY <1>1, <2>1 DEF Quiet, Places
        <5> QED
          BY <5>1, QuietFlight
      <4> QED
        BY <4>2, <4>3, <4>4 DEF Follows, Alive
    <3> QED
      BY <2>8, <3>1 DEF RunningInv
  <2> QED
    BY <1>3, <2>1, <2>7, <2>8, <2>11, <2>12
<1> QED
  BY <1>4, <1>5

-----------------------------------------------------------------------------
(* A batch is launched.                                                     *)

\* The new batch is the one after the one whose result is due, or that one.
Launch ==
    /\ pc \notin {"run", "process", "dead"} /\ pc' = "run" /\ todo = 0
    /\ UNCHANGED <<mode, last, queue, todo>>
    /\ cur'.kind # "none"

LEMMA LaunchFlight ==
    ASSUME QueueInv, Launch, Items(cur'.items)
    PROVE  /\ QueueInv'
           /\ Pending' = IF mode.overlap THEN Pending ELSE cur'
           /\ \A r : Due(r)' = Due(r) + One(r \in ReqsOf(cur'.items) /\ ~ Partial(cur', r))
           /\ \A r : Chunks(r)' = Chunks(r) + One(r \in ReqsOf(cur'.items) /\ Partial(cur', r))
           /\ ~ mode.overlap => \A r : ~ Old(r)
           /\ \A r : Due(r) \in Nat /\ Chunks(r) \in Nat
<1>1. cur = NoBatch /\ \A r : ~ New(r)
  BY NothingNew DEF Launch
<1>2. Pending' = IF mode.overlap THEN Pending ELSE cur'
  BY DEF Pending, Launch
<1>3. After' = IF mode.overlap THEN cur' ELSE NoBatch
  BY DEF After, Launch
<1>4. QueueInv'
  <2>1. ~ JustLaunched /\ ~ JustLaunched'
    BY <1>1 DEF JustLaunched, NoBatch, Launch
  <2>2. mode.overlap => Same(last, Pending)' = Same(last, Pending)
    BY <1>2 DEF Same, Launch
  <2>3. mode.overlap => QueueShape'
    BY <1>2, <2>1, <2>2 DEF QueueInv, QueueShape, Launch
  <2> QED
    BY <2>3 DEF QueueInv, Launch, Launched
<1>5. \A r : New(r)' <=> mode.overlap /\ r \in ReqsOf(cur'.items)
  <2>1. ReqsOf(NoBatch.items) = {}
    BY DEF ReqsOf, NoBatch
  <2>2. \A r : New(r)' <=> r \in ReqsOf(After'.items)
    BY DEF New, ReqsOf
  <2> QED
    BY <1>3, <2>1, <2>2
<1>6. ~ mode.overlap => \A r : ~ Old(r)
  BY <1>1 DEF Old, Pending, NoBatch, Launch
<1>7. \A r : Old(r)' <=> IF mode.overlap THEN Old(r) ELSE r \in ReqsOf(cur'.items)
  <2>1. CASE mode.overlap
    BY <1>2, <2>1 DEF Old, Launch
  <2>2. CASE ~ mode.overlap
    <3>1. Pending' = cur' /\ todo' = 0
      BY <1>2, <2>2 DEF Launch
    <3>2. DOMAIN cur'.items = 0 + 1 .. Len(cur'.items)
      BY ItemFacts
    <3>3. \A r : Old(r)' <=> \E k \in 0 + 1 .. Len(cur'.items) : cur'.items[k].r = r
      BY <3>1 DEF Old
    <3> QED
      BY <2>2, <3>2, <3>3 DEF ReqsOf
  <2> QED
    BY <2>1, <2>2
<1>8. ASSUME NEW r
      PROVE  /\ Due(r)' = Due(r) + One(r \in ReqsOf(cur'.items) /\ ~ Partial(cur', r))
             /\ Chunks(r)' = Chunks(r) + One(r \in ReqsOf(cur'.items) /\ Partial(cur', r))
             /\ Due(r) \in Nat /\ Chunks(r) \in Nat
  <2>1. /\ Due(r)' = One(Old(r)' /\ ~ Partial(Pending', r)) + One(New(r)' /\ ~ Partial(After', r))
        /\ Chunks(r)' = One(Old(r)' /\ Partial(Pending', r)) + One(New(r)' /\ Partial(After', r))
    BY DEF Due, Chunks, Partial, One
  <2>2. /\ Due(r) = One(Old(r) /\ ~ Partial(Pending, r))
        /\ Chunks(r) = One(Old(r) /\ Partial(Pending, r))
    BY <1>1 DEF Due, Chunks, One
  <2> QED
    BY <1>2, <1>3, <1>5, <1>6, <1>7, <2>1, <2>2 DEF One
<1> QED
  BY <1>2, <1>4, <1>6, <1>8

LEMMA PrepareKeeps == ASSUME OrderInv, PrepareDecode PROVE OrderInv'
<1> DEFINE slots == Taken(free, Len(running))
           stepped == [k \in DOMAIN running |-> [running[k] EXCEPT !.len = @ + 1]]
<1>1. /\ LiveInv /\ QueueInv /\ pc = "step" /\ chunked = None /\ pc' = "run"
      /\ free' = Rest(free, slots)
      /\ running' = stepped
      /\ cur' = [NoBatch EXCEPT !.kind = "decode", !.items = stepped, !.loc = slots]
      /\ UNCHANGED <<mode, req, cache, freeRows, chunked, last, queue, adder, ratio, todo>>
  BY DEF OrderInv, PrepareDecode, LiveInv, ChunkedInv
<1>2. Items(running) /\ running # <<>> /\ todo = 0 /\ BatchType(last) /\ BatchType(Pending)
  BY <1>1 DEF LiveInv, TypesInv, BatchesType, RunningInv
<1>3. MemoryType'
  <2>1. MemoryType
    BY <1>1 DEF LiveInv, TypesInv
  <2>2. IsSeq(slots)
    BY <1>2, <2>1, ItemFacts, Constants, TakenIsSeq DEF MemoryType
  <2> HIDE DEF slots
  <2> QED
    BY <1>1, <2>1, <2>2, FreeListType DEF MemoryType
<1>4. /\ Items(stepped) /\ stepped # <<>> /\ DOMAIN stepped = DOMAIN running
      /\ \A k \in DOMAIN running : /\ stepped[k].r = running[k].r
                                   /\ stepped[k].len = running[k].len + 1
  <2>1. DOMAIN stepped = DOMAIN running
    OBVIOUS
  <2>2. \A k \in DOMAIN running : /\ Item(stepped[k])
                                  /\ stepped[k].r = running[k].r
                                  /\ stepped[k].len = running[k].len + 1
    BY <1>2 DEF Items, Item
  <2>3. IsSeq(stepped)
    <3>1. DOMAIN running = 1 .. Len(running) /\ Len(running) \in Nat
      BY <1>2, ItemFacts
    <3>2. stepped = [k \in 1 .. Len(running) |-> stepped[k]]
      BY <3>1
    <3> HIDE DEF stepped
    <3> QED
      BY <3>1, <3>2, FunctionIsSeq
  <2> HIDE DEF stepped
  <2>4. stepped # <<>>
    BY <1>2, <2>1, <2>3, EmptyFacts DEF Items
  <2>5. Items(stepped)
    BY <1>2, <2>1, <2>2, <2>3 DEF Items
  <2> QED
    BY <2>1, <2>2, <2>4, <2>5
<1>5. /\ cur'.kind = "decode" /\ cur'.items = stepped /\ cur'.chunked = None
      /\ DOMAIN cur' = DOMAIN NoBatch
  BY <1>1 DEF NoBatch
<1> HIDE DEF slots, stepped
<1>6. Launch /\ \A r : ~ Partial(cur', r)
  BY <1>1, <1>2, <1>5 DEF Launch, Partial
<1>7. ReqsOf(cur'.items) = ReqsOf(running)
  BY <1>4, <1>5 DEF ReqsOf
<1>8. /\ QueueInv'
      /\ Pending' = IF mode.overlap THEN Pending ELSE cur'
      /\ \A r : Due(r)' = Due(r) + One(r \in ReqsOf(running))
      /\ \A r : Chunks(r)' = Chunks(r)
      /\ ~ mode.overlap => \A r : ~ Old(r)
      /\ \A r : Due(r) \in Nat /\ Chunks(r) \in Nat
  BY <1>1, <1>4, <1>5, <1>6, <1>7, LaunchFlight DEF One
<1>9. TypesInv'
  <2>1. BatchType(cur')
    BY <1>4, <1>5 DEF BatchType
  <2>2. BatchType(Pending')
    BY <1>2, <1>8, <2>1
  <2>3. todo' \in 0 .. Len(Pending'.items)
    <3>1. Len(Pending'.items) \in Nat
      BY <2>2, ItemFacts DEF BatchType
    <3> QED
      BY <1>1, <1>2, <3>1
  <2>4. BatchesType'
    BY <1>1, <1>2, <1>4, <1>5, <2>1, <2>2, <2>3 DEF BatchesType, BatchType, Items, Item, ReqsOf
  <2>5. ReqsType' /\ mode' \in Modes /\ pc' \in Places
    BY <1>1 DEF LiveInv, TypesInv, ReqsType, Places
  <2> QED
    BY <1>3, <2>4, <2>5 DEF TypesInv
<1>10. ASSUME NEW k \in DOMAIN stepped, NEW i, i = stepped[k]
       PROVE  /\ i.r \in Reqs /\ Alive(i.r)' /\ Follows(i)'
              /\ req[i.r].st = "active" => req[i.r].chunks = 0
              /\ ~ mode.overlap /\ req[i.r].st = "active" =>
                    i.len = Len(Prompt[i.r]) + req[i.r].out
  <2>1. PICK r \in Reqs : r = running[k].r /\ r = i.r /\ running[k].len \in Int
                          /\ i.len = running[k].len + 1
    BY <1>2, <1>4, <1>10, ItemFacts
  <2>2. /\ Alive(r)
        /\ req[r].st = "active" => running[k].len = Len(Prompt[r]) + req[r].out - 1 + Due(r)
        /\ req[r].st = "active" => req[r].chunks = 0
    BY <1>1, <1>4, <2>1 DEF LiveInv, RunningInv, Follows
  <2>3. Due(r)' = Due(r) + 1 /\ Due(r) \in Nat
    <3>1. r \in ReqsOf(running)
      BY <1>4, <2>1 DEF ReqsOf
    <3> QED
      BY <1>8, <3>1 DEF One
  <2>4. Len(Prompt[r]) \in Int /\ req[r].out \in Int
    BY <1>1, <2>1, Constants DEF LiveInv, TypesInv, ReqsType, ReqType
  <2>5. Follows(i)'
    <3>1. req[r].st = "active" => i.len = Len(Prompt[r]) + req[r].out - 1 + (Due(r) + 1)
      <4> DEFINE a == running[k].len
                 b == Len(Prompt[r])
                 o == req[r].out
                 d == Due(r)
      <4>1. a \in Int /\ b \in Int /\ o \in Int /\ d \in Int /\ i.len = a + 1
        BY <2>1, <2>3, <2>4
      <4>2. req[r].st = "active" => a = b + o - 1 + d
        BY <2>2
      <4> HIDE DEF a, b, o, d
      <4>3. req[r].st = "active" => i.len = b + o - 1 + (d + 1)
        BY <4>1, <4>2
      <4> QED
        BY <4>3 DEF b, o, d
    <3> QED
      BY <1>1, <2>1, <2>3, <3>1 DEF Follows
  <2>6. ~ mode.overlap => Due(r) = 0
    <3>1. \A q : ~ New(q)
      BY <1>1, NothingNew
    <3> QED
      BY <1>8, <3>1 DEF Due, One
  <2> QED
    <3>1. Alive(i.r)' /\ (req[i.r].st = "active" => req[i.r].chunks = 0)
      BY <1>1, <2>1, <2>2 DEF Alive
    <3>2. ASSUME ~ mode.overlap, req[r].st = "active"
          PROVE  i.len = Len(Prompt[r]) + req[r].out
      <4> DEFINE a == running[k].len
                 b == Len(Prompt[r])
                 o == req[r].out
      <4>1. a \in Int /\ b \in Int /\ o \in Int /\ i.len = a + 1 /\ a = b + o - 1 + 0
        BY <2>1, <2>2, <2>4, <2>6, <3>2
      <4> HIDE DEF a, b, o
      <4> QED
        BY <4>1 DEF b, o
    <3> QED
      BY <2>1, <2>5, <3>1, <3>2
<1>11. OldInv'
  <2>1. CASE mode.overlap
    <3>1. Pending' = Pending /\ todo' = todo /\ req' = req /\ ~ Planning'
      BY <1>1, <1>8, <2>1 DEF Planning
    <3> QED
      BY <1>1, <3>1 DEF LiveInv, OldInv, Partial
  <2>2. CASE ~ mode.overlap
    <3>1. Pending' = cur' /\ todo' = 0 /\ req' = req /\ ~ Planning'
      BY <1>1, <1>2, <1>8, <2>2 DEF Planning
    <3>2. DOMAIN stepped = 0 + 1 .. Len(stepped)
      BY <1>4, ItemFacts
    <3> QED
      BY <1>5, <1>10, <2>2, <3>1, <3>2 DEF OldInv
  <2> QED
    BY <2>1, <2>2
<1>12. ActiveInv'
  BY <1>1, <1>8 DEF LiveInv, ActiveInv
<1>13. RunningInv' /\ CurInv'
  <2>1. RunningInv'
    BY <1>1, <1>10 DEF RunningInv
  <2>2. CurInv'
    BY <1>1, <1>5, <1>10 DEF CurInv
  <2> QED
    BY <2>1, <2>2
<1>14. ChunkedInv' /\ LastInv' /\ AdderInv'
  BY <1>1 DEF ChunkedInv, LastInv, AdderInv
<1> QED
  BY <1>8, <1>9, <1>11, <1>12, <1>13, <1>14 DEF OrderInv, LiveInv

\* The same requests at the same length: only their tokens were filled in.
Alike(s, t) ==
    /\ IsSeq(t) /\ DOMAIN s = DOMAIN t
    /\ \A k \in DOMAIN s : s[k].r = t[k].r /\ s[k].len = t[k].len
    /\ \A k \in DOMAIN s : DOMAIN s[k] = DOMAIN t[k]

LEMMA AlikeFacts ==
    ASSUME NEW s, NEW t, Alike(s, t), Items(s)
    PROVE  /\ Items(t) /\ ReqsOf(s) = ReqsOf(t) /\ Len(s) = Len(t)
           /\ s # <<>> => t # <<>>
<1>1. Items(t)
  BY DEF Alike, Items, Item
<1>2. ReqsOf(s) = ReqsOf(t)
  BY DEF Alike, ReqsOf
<1>3. s # <<>> => t # <<>>
  BY EmptyFacts DEF Alike, Items
<1>4. Len(s) = Len(t)
  <2>1. 1 .. Len(s) = 1 .. Len(t) /\ Len(s) \in Nat /\ Len(t) \in Nat
    BY <1>1, ItemFacts DEF Alike
  <2> QED
    BY <2>1
<1> QED
  BY <1>1, <1>2, <1>3, <1>4

\* Filling in the tokens of a sequence of items.
LEMMA FilledIsAlike ==
    ASSUME NEW s, Items(s), NEW t,
           t = [k \in DOMAIN s |-> t[k]],
           \A k \in DOMAIN s : /\ DOMAIN t[k] = DOMAIN s[k]
                               /\ t[k].r = s[k].r /\ t[k].len = s[k].len
    PROVE  Alike(s, t)
<1>1. DOMAIN s = 1 .. Len(s) /\ Len(s) \in Nat
  BY ItemFacts
<1>2. t = [k \in 1 .. Len(s) |-> t[k]]
  BY <1>1
<1>3. IsSeq(t)
  BY <1>1, <1>2, FunctionIsSeq
<1> QED
  BY <1>3 DEF Alike

LEMMA PairIsAppended == \A x, y : Append(<<x>>, y) = <<x, y>>
<1> SUFFICES ASSUME NEW x, NEW y PROVE Append(<<x>>, y) = <<x, y>>
  OBVIOUS
<1> DEFINE s == Append(<<x>>, y)
           t == <<x, y>>
<1>1. IsSeq(<<x>>) /\ Len(<<x>>) = 1 /\ <<x>>[1] = x
  BY EmptyIsSeq
<1>2. IsSeq(s) /\ Len(s) = 2 /\ s[1] = x /\ s[2] = y
  BY <1>1, AppendIsSeq
<1>3. t \in Seq({x, y}) /\ Len(t) = 2 /\ t[1] = x /\ t[2] = y
  OBVIOUS
<1>4. IsSeq(t)
  BY <1>3, InSeqIsSeq
<1> HIDE DEF s, t
<1>5. /\ s = [k \in 1 .. Len(s) |-> s[k]]
      /\ t = [k \in 1 .. Len(t) |-> t[k]]
  BY <1>2, <1>4, SeqFacts
<1>6. s = [k \in 1 .. 2 |-> s[k]] /\ t = [k \in 1 .. 2 |-> t[k]]
  BY <1>2, <1>3, <1>5
<1>7. \A k \in 1 .. 2 : s[k] = t[k]
  BY <1>2, <1>3
<1>8. s = t
  BY <1>6, <1>7
<1> QED
  BY <1>8 DEF s, t

\* The batch runs: its result is the newest in the queue.
LEMMA RunFlight ==
    ASSUME QueueInv, BatchType(cur), pc = "run", pc' = "process", todo = 0,
           UNCHANGED <<mode, last, todo>>,
           queue' = IF mode.overlap THEN Append(queue, cur') ELSE queue,
           cur'.kind = cur.kind, cur'.chunked = cur.chunked, Alike(cur.items, cur'.items)
    PROVE  /\ QueueInv'
           /\ Pending' = IF mode.overlap THEN Pending ELSE cur'
           /\ ~ mode.overlap => Pending = cur
           /\ \A r : Due(r)' = Due(r) /\ Chunks(r)' = Chunks(r)
<1>1. cur.kind # "none" /\ ~ JustLaunched /\ JustLaunched'
  BY DEF QueueInv, JustLaunched
<1>2. ASSUME mode.overlap PROVE QueueShape' /\ Pending' = Pending
  <2>1. CASE last.kind = "none"
    <3>1. queue = <<>>
      BY <1>1, <1>2, <2>1 DEF QueueInv, QueueShape
    <3>2. queue' = <<cur'>>
      BY <1>2, <3>1
    <3>3. QueueShape'
      BY <1>1, <2>1, <3>2 DEF QueueShape
    <3> QED
      BY <1>2, <2>1, <3>3 DEF Pending
  <2>2. CASE last.kind # "none"
    <3>1. queue = <<Pending>> /\ Same(last, Pending)
      BY <1>1, <1>2, <2>2 DEF QueueInv, QueueShape
    <3>2. queue' = <<Pending, cur'>>
      <4>1. queue' = Append(queue, cur')
        BY <1>2
      <4> QED
        BY <3>1, <4>1, PairIsAppended
    <3>3. Pending' = Pending
      BY <1>2, <2>2, <3>2 DEF Pending
    <3>4. Same(last, Pending)'
      BY <3>1, <3>3 DEF Same
    <3> QED
      BY <1>1, <2>2, <3>2, <3>3, <3>4 DEF QueueShape
  <2> QED
    BY <2>1, <2>2
<1>3. QueueInv'
  BY <1>2 DEF QueueInv, Launched
<1>4. /\ Pending' = IF mode.overlap THEN Pending ELSE cur'
      /\ ~ mode.overlap => Pending = cur
  BY <1>2 DEF Pending
<1>5. ReqsOf(cur.items) = ReqsOf(cur'.items) /\ Len(cur.items) = Len(cur'.items)
      /\ DOMAIN cur.items = 1 .. Len(cur.items)
  BY AlikeFacts, ItemFacts DEF BatchType
<1>6. \A r : New(r)' <=> New(r)
  <2>1. CASE mode.overlap
    <3>1. After' = cur' /\ After = cur
      BY <2>1 DEF After
    <3> QED
      BY <1>5, <3>1 DEF New
  <2>2. CASE ~ mode.overlap
    BY <2>2 DEF New, After, ReqsOf
  <2> QED
    BY <2>1, <2>2
<1>7. \A r : Old(r)' <=> Old(r)
  <2>1. CASE mode.overlap
    BY <1>4, <2>1 DEF Old
  <2>2. CASE ~ mode.overlap
    <3>1. DOMAIN cur.items = 0 + 1 .. Len(cur.items)
      BY <1>5
    <3>2. \A k \in 0 + 1 .. Len(cur.items) : cur'.items[k].r = cur.items[k].r
      BY <3>1 DEF Alike
    <3> QED
      BY <1>4, <1>5, <2>2, <3>2 DEF Old
  <2> QED
    BY <2>1, <2>2
<1>8. \A r : Partial(Pending, r)' <=> Partial(Pending, r)
  BY <1>4 DEF Partial
<1>9. \A r : Partial(After, r)' <=> Partial(After, r)
  BY DEF Partial, After
<1>10. \A r : Due(r)' = Due(r) /\ Chunks(r)' = Chunks(r)
  BY <1>6, <1>7, <1>8, <1>9 DEF Due, Chunks, One
<1> QED
  BY <1>3, <1>4, <1>10

LEMMA RunKeeps == ASSUME OrderInv, RunBatch PROVE OrderInv'
<1> DEFINE results == [k \in DOMAIN cur.items |-> TokenAt(cur.items[k].r, cur.items[k].len)]
           done == [k \in DOMAIN cur.items |->
                       [cur.items[k] EXCEPT !.token = results[k],
                                            !.future = IF mode.overlap THEN FutureOf(k) ELSE 0]]
<1>1. /\ LiveInv /\ QueueInv /\ pc = "run" /\ pc' = "process"
      /\ cur' = [kind |-> cur.kind, items |-> done, loc |-> cur.loc, chunked |-> cur.chunked]
      /\ running' = IF cur.kind = "decode" THEN done
                    ELSE IF mode.overlap THEN Overwritten(running, results) ELSE running
      /\ queue' = IF mode.overlap THEN Append(queue, cur') ELSE queue
      /\ UNCHANGED <<mode, req, cache, free, freeRows, chunked, last, adder, ratio, todo>>
  BY DEF OrderInv, RunBatch, memory
<1>2. /\ Items(running) /\ Items(cur.items) /\ BatchType(cur) /\ BatchType(last)
      /\ BatchType(Pending) /\ todo = 0
  BY <1>1 DEF LiveInv, TypesInv, BatchesType, BatchType
<1>3. Alike(cur.items, done)
  <2>1. \A k \in DOMAIN cur.items : /\ DOMAIN done[k] = DOMAIN cur.items[k]
                                    /\ done[k].r = cur.items[k].r
                                    /\ done[k].len = cur.items[k].len
    BY <1>2 DEF Items, Item
  <2>2. done = [k \in DOMAIN cur.items |-> done[k]]
    OBVIOUS
  <2> HIDE DEF done
  <2> QED
    BY <1>2, <2>1, <2>2, FilledIsAlike
<1> HIDE DEF done
<1>4. Alike(running, Overwritten(running, results))
  <2> DEFINE over == Overwritten(running, results)
  <2> HIDE DEF results
  <2>1. \A k \in DOMAIN running : /\ DOMAIN over[k] = DOMAIN running[k]
                                  /\ over[k].r = running[k].r
                                  /\ over[k].len = running[k].len
    BY <1>2 DEF Items, Item, Overwritten
  <2>2. over = [k \in DOMAIN running |-> over[k]]
    BY DEF Overwritten
  <2> HIDE DEF over
  <2>3. Alike(running, over)
    BY <1>2, <2>1, <2>2, FilledIsAlike
  <2> QED
    BY <2>3 DEF over
<1> HIDE DEF results
<1>5. Alike(running, running') /\ (cur.kind = "decode" => running' = done)
  <2>1. CASE cur.kind = "decode"
    <3>1. running = cur.items
      BY <1>1, <2>1 DEF LiveInv, CurInv, Launched
    <3> QED
      BY <1>1, <1>3, <2>1, <3>1
  <2>2. Alike(running, running)
    BY <1>2 DEF Alike, Items
  <2> QED
    BY <1>1, <1>4, <2>1, <2>2
<1>6. /\ cur'.kind = cur.kind /\ cur'.items = done /\ cur'.chunked = cur.chunked
      /\ DOMAIN cur' = DOMAIN NoBatch
  BY <1>1 DEF NoBatch
<1>7. /\ Items(done) /\ ReqsOf(done) = ReqsOf(cur.items)
      /\ cur.items # <<>> => done # <<>>
      /\ Items(running') /\ ReqsOf(running') = ReqsOf(running)
  BY <1>2, <1>3, <1>5, AlikeFacts
<1>8. /\ QueueInv'
      /\ Pending' = IF mode.overlap THEN Pending ELSE cur'
      /\ ~ mode.overlap => Pending = cur
      /\ \A r : Due(r)' = Due(r) /\ Chunks(r)' = Chunks(r)
  BY <1>1, <1>2, <1>3, <1>6, RunFlight
<1>9. TypesInv'
  <2>1. cur.kind # "none" /\ cur.items # <<>>
    BY <1>1 DEF LiveInv, TypesInv, BatchesType, QueueInv
  <2>2. BatchType(cur')
    BY <1>2, <1>6, <1>7 DEF BatchType
  <2>3. BatchType(Pending')
    BY <1>2, <1>8, <2>2
  <2>4. todo' \in 0 .. Len(Pending'.items)
    <3>1. Len(Pending'.items) \in Nat
      BY <2>3, ItemFacts DEF BatchType
    <3> QED
      BY <1>1, <1>2, <3>1
  <2>5. BatchesType'
    BY <1>1, <1>2, <1>6, <1>7, <2>1, <2>2, <2>3, <2>4
       DEF BatchesType, BatchType, Items, Item, ReqsOf
  <2>6. ReqsType' /\ MemoryType' /\ mode' \in Modes /\ pc' \in Places
    BY <1>1 DEF LiveInv, TypesInv, ReqsType, MemoryType, Places
  <2> QED
    BY <2>5, <2>6 DEF TypesInv
<1>10. \A i, j : i.r = j.r /\ i.len = j.len /\ Follows(i) => Follows(j)'
  BY <1>1, <1>8 DEF Follows
<1>11. OldInv'
  <2>1. CASE mode.overlap
    <3>1. Pending' = Pending /\ todo' = todo /\ req' = req /\ ~ Planning'
      BY <1>1, <1>8, <2>1 DEF Planning
    <3> QED
      BY <1>1, <3>1 DEF LiveInv, OldInv, Partial
  <2>2. CASE ~ mode.overlap
    <3>1. Pending' = cur' /\ Pending = cur /\ todo' = 0 /\ req' = req /\ ~ Planning'
      BY <1>1, <1>2, <1>8, <2>2 DEF Planning
    <3>2. /\ DOMAIN done = DOMAIN cur.items /\ DOMAIN done = 0 + 1 .. Len(done)
          /\ DOMAIN cur.items = 0 + 1 .. Len(cur.items)
          /\ \A k \in DOMAIN done : done[k].r = cur.items[k].r /\ done[k].len = cur.items[k].len
      BY <1>2, <1>3, <1>7, ItemFacts DEF Alike
    <3>3. \A r : Partial(cur', r) <=> Partial(cur, r)
      BY <1>6 DEF Partial
    <3>4. ASSUME NEW k \in DOMAIN done, NEW r, r = done[k].r,
                 req[r].st = "active", ~ Partial(cur, r)
          PROVE  done[k].len = Len(Prompt[r]) + req[r].out /\ req[r].chunks = 0
      BY <1>1, <1>2, <3>1, <3>2, <3>4 DEF LiveInv, OldInv
    <3> QED
      BY <1>6, <3>1, <3>2, <3>3, <3>4 DEF OldInv
  <2> QED
    BY <2>1, <2>2
<1>12. ActiveInv'
  BY <1>1, <1>8 DEF LiveInv, ActiveInv
<1>13. RunningInv'
  <2>1. ASSUME NEW k \in DOMAIN running', NEW i, i = running'[k]
        PROVE  /\ Alive(i.r)' /\ Follows(i)'
               /\ req'[i.r].st = "active" => req'[i.r].chunks = 0
    <3>1. k \in DOMAIN running /\ i.r = running[k].r /\ i.len = running[k].len
      BY <1>5, <2>1 DEF Alike
    <3>2. /\ Alive(running[k].r) /\ Follows(running[k])
          /\ req[running[k].r].st = "active" => req[running[k].r].chunks = 0
      BY <1>1, <3>1 DEF LiveInv, RunningInv
    <3> QED
      BY <1>1, <1>10, <3>1, <3>2 DEF Alive
  <2> QED
    BY <1>1, <2>1 DEF RunningInv
<1>14. CurInv'
  <2>1. ASSUME NEW k \in DOMAIN done, NEW i, i = done[k]
        PROVE  /\ Alive(i.r)'
               /\ cur.kind = "extend" => i.r \notin ReqsOf(running)
               /\ cur.kind = "extend" /\ mode.overlap =>
                     req[i.r].st = "active" /\ (Old(i.r)' => Partial(Pending', i.r))
               /\ ~ Partial(cur, i.r) => Follows(i)'
    <3>1. k \in DOMAIN cur.items /\ i.r = cur.items[k].r /\ i.len = cur.items[k].len
      BY <1>3, <2>1 DEF Alike
    <3>2. /\ Alive(i.r)
          /\ cur.kind = "extend" => i.r \notin ReqsOf(running)
          /\ cur.kind = "extend" /\ mode.overlap =>
                req[i.r].st = "active" /\ (Old(i.r) => Partial(Pending, i.r))
          /\ ~ Partial(cur, i.r) => Follows(cur.items[k])
      BY <1>1, <3>1 DEF LiveInv, CurInv, Launched
    <3>3. mode.overlap => Pending' = Pending /\ (Old(i.r)' <=> Old(i.r))
      BY <1>1, <1>8 DEF Old
    <3> QED
      BY <1>1, <1>10, <3>1, <3>2, <3>3 DEF Alive
  <2>2. chunked = cur.chunked
    BY <1>1 DEF LiveInv, CurInv, Launched
  <2>3. \A r : Partial(cur', r) <=> Partial(cur, r)
    BY <1>6 DEF Partial
  <2>4. ReqsOf(running)' = ReqsOf(running)
    BY <1>7 DEF ReqsOf
  <2> QED
    BY <1>1, <1>5, <1>6, <2>1, <2>2, <2>3, <2>4 DEF CurInv, Partial
<1>15. ChunkedInv'
  <2>1. PICK c : c = chunked
    OBVIOUS
  <2>2. Due(c)' = Due(c) /\ chunked' = c
    BY <1>1, <1>8, <2>1
  <2>3. Due(chunked)' = Due(c)' /\ ReqsOf(running)' = ReqsOf(running)
    BY <1>7, <2>2 DEF ReqsOf
  <2> QED
    BY <1>1, <2>1, <2>2, <2>3 DEF LiveInv, ChunkedInv
<1>16. LastInv' /\ AdderInv'
  BY <1>1 DEF LastInv, AdderInv
<1> QED
  BY <1>8, <1>9, <1>11, <1>12, <1>13, <1>14, <1>15, <1>16 DEF OrderInv, LiveInv

-----------------------------------------------------------------------------
(* The iteration ends.                                                      *)

LEMMA TailFacts ==
    \A x, y : Head(<<x>>) = x /\ Tail(<<x>>) = <<>> /\ Tail(<<x, y>>) = <<y>>
OBVIOUS

\* The batch that was launched is the one whose result is due next.
LEMMA EndFlight ==
    ASSUME OrderInv, EndIteration
    PROVE  /\ QueueInv'
           /\ Pending' = IF mode.overlap THEN cur ELSE NoBatch
           /\ \A r : ~ Old(r)
           /\ \A r : Due(r)' = Due(r) /\ Chunks(r)' = Chunks(r)
<1>1. /\ LiveInv /\ QueueInv /\ pc = "process" /\ pc' = "recv"
      /\ Pending # NoBatch \/ cur # NoBatch
      /\ todo = Len(Pending.items) /\ todo' = 0 /\ mode' = mode
      /\ last' = IF cur.kind = "decode" THEN [NoBatch EXCEPT !.kind = "decode"] ELSE cur
      /\ cur' = NoBatch
      /\ queue' = IF Pending = NoBatch \/ ~ mode.overlap THEN queue ELSE Tail(queue)
  BY DEF OrderInv, EndIteration, Popped
<1>2. /\ last'.kind = cur.kind
      /\ Same(last', cur)
      /\ cur.kind = "none" <=> cur = NoBatch
  <2>1. CASE cur.kind = "decode"
    BY <1>1, <2>1 DEF NoBatch, Same
  <2>2. CASE cur.kind # "decode"
    BY <1>1, <2>2 DEF NoBatch, Same, LiveInv, TypesInv, BatchesType
  <2> QED
    BY <2>1, <2>2
<1>3. ~ JustLaunched' /\ ~ Launched'
  BY <1>1 DEF JustLaunched, Launched
<1>4. ASSUME mode.overlap
      PROVE  /\ Pending' = cur
             /\ queue' = IF cur = NoBatch THEN <<>> ELSE <<cur>>
  <2>1. JustLaunched <=> cur # NoBatch
    BY <1>1, <1>2 DEF JustLaunched
  <2>2. CASE last.kind = "none"
    <3>1. Pending = NoBatch
      BY <1>4, <2>2 DEF Pending
    <3>2. cur # NoBatch /\ queue = <<cur>>
      BY <1>1, <1>4, <2>1, <2>2, <3>1 DEF QueueInv, QueueShape
    <3>3. queue' = <<cur>> /\ last'.kind # "none"
      BY <1>1, <1>2, <3>1, <3>2
    <3>4. Pending' = cur
      <4>1. Pending' = Head(queue')
        BY <1>1, <1>4, <3>3 DEF Pending
      <4> QED
        BY <3>3, <4>1, TailFacts
    <3> QED
      BY <3>2, <3>3, <3>4
  <2>3. CASE last.kind # "none"
    <3>1. /\ Same(last, Pending)
          /\ queue = IF cur = NoBatch THEN <<Pending>> ELSE <<Pending, cur>>
      BY <1>1, <1>4, <2>1, <2>3 DEF QueueInv, QueueShape
    <3>2. Pending # NoBatch
      BY <2>3, <3>1 DEF Same, NoBatch
    <3>3. queue' = IF cur = NoBatch THEN <<>> ELSE <<cur>>
      <4>1. \A x, y : Tail(<<x>>) = <<>> /\ Tail(<<x, y>>) = <<y>>
        BY TailFacts
      <4> QED
        BY <1>1, <1>4, <3>1, <3>2, <4>1
    <3>4. Pending' = cur
      <4>1. Pending' = IF cur = NoBatch THEN NoBatch ELSE Head(queue')
        BY <1>1, <1>2, <1>4 DEF Pending
      <4> QED
        BY <3>3, <4>1, TailFacts
    <3> QED
      BY <3>3, <3>4
  <2> QED
    BY <2>2, <2>3
<1>5. QueueInv'
  <2>1. CASE mode.overlap
    <3>1. QueueShape'
      <4>1. CASE cur = NoBatch
        BY <1>2, <1>3, <1>4, <2>1, <4>1 DEF QueueShape
      <4>2. CASE cur # NoBatch
        <5>1. last'.kind # "none" /\ queue' = <<Pending'>>
          BY <1>2, <1>4, <2>1, <4>2
        <5>2. Same(last, Pending)'
          BY <1>2, <1>4, <2>1 DEF Same
        <5> QED
          BY <1>3, <5>1, <5>2 DEF QueueShape
      <4> QED
        BY <4>1, <4>2
    <3> QED
      BY <1>1, <2>1, <3>1 DEF QueueInv
  <2>2. CASE ~ mode.overlap
    BY <1>1, <2>2 DEF QueueInv
  <2> QED
    BY <2>1, <2>2
<1>6. Pending' = IF mode.overlap THEN cur ELSE NoBatch
  BY <1>1, <1>4 DEF Pending
<1>7. Items(cur.items) /\ Len(Pending.items) \in Nat
  BY <1>1, ItemFacts DEF LiveInv, TypesInv, BatchesType, BatchType
<1>8. \A r : ~ Old(r)
  <2>1. todo + 1 .. Len(Pending.items) = {}
    BY <1>1, <1>7
  <2> QED
    BY <2>1 DEF Old
<1>9. ReqsOf(NoBatch.items) = {} /\ Len(NoBatch.items) = 0
  BY DEF ReqsOf, NoBatch
<1>10. \A r : ~ New(r)'
  <2>1. After' = NoBatch
    BY <1>1 DEF After
  <2> QED
    BY <1>9, <2>1 DEF New
<1>11. \A r : Old(r)' <=> New(r)
  <2>1. CASE mode.overlap
    <3>1. DOMAIN cur.items = 0 + 1 .. Len(cur.items)
      BY <1>7, ItemFacts
    <3>2. \A r : Old(r)' <=> \E k \in 0 + 1 .. Len(cur.items) : cur.items[k].r = r
      BY <1>1, <1>6, <2>1 DEF Old
    <3> QED
      BY <2>1, <3>1, <3>2 DEF New, After, ReqsOf
  <2>2. CASE ~ mode.overlap
    <3>1. \A r : ~ Old(r)'
      BY <1>1, <1>6, <1>9, <2>2 DEF Old
    <3> QED
      BY <1>9, <2>2, <3>1 DEF New, After
  <2> QED
    BY <2>1, <2>2
<1>12. \A r : New(r) => (Partial(Pending, r)' <=> Partial(After, r))
  BY <1>6, <1>9 DEF New, After, Partial
<1>13. \A r : Due(r)' = Due(r) /\ Chunks(r)' = Chunks(r)
  <2> SUFFICES ASSUME NEW r PROVE Due(r)' = Due(r) /\ Chunks(r)' = Chunks(r)
    OBVIOUS
  <2>1. /\ Due(r)' = One(New(r) /\ ~ Partial(After, r))
        /\ Chunks(r)' = One(New(r) /\ Partial(After, r))
    BY <1>10, <1>11, <1>12 DEF Due, Chunks, One
  <2>2. /\ Due(r) = One(New(r) /\ ~ Partial(After, r))
        /\ Chunks(r) = One(New(r) /\ Partial(After, r))
    BY <1>8 DEF Due, Chunks, One
  <2> QED
    BY <2>1, <2>2
<1> QED
  BY <1>5, <1>6, <1>8, <1>13

LEMMA EndKeeps == ASSUME OrderInv, EndIteration PROVE OrderInv'
<1>1. /\ LiveInv /\ QueueInv /\ pc = "process" /\ pc' = "recv"
      /\ todo' = 0
      /\ last' = IF cur.kind = "decode" THEN [NoBatch EXCEPT !.kind = "decode"] ELSE cur
      /\ cur' = NoBatch
      /\ UNCHANGED <<mode, req, cache, free, freeRows, running, chunked, adder, ratio>>
  BY DEF OrderInv, EndIteration, memory
<1>2. /\ QueueInv'
      /\ Pending' = IF mode.overlap THEN cur ELSE NoBatch
      /\ \A r : ~ Old(r)
      /\ \A r : Due(r)' = Due(r) /\ Chunks(r)' = Chunks(r)
  BY EndFlight
<1>3. /\ Items(running) /\ BatchType(cur) /\ Items(cur.items)
      /\ cur.kind = "none" => cur = NoBatch
      /\ cur.kind # "none" => cur.items # <<>>
  BY <1>1 DEF LiveInv, TypesInv, BatchesType, BatchType
<1>4. BatchType(NoBatch) /\ Len(NoBatch.items) = 0
  BY EmptyIsSeq DEF BatchType, NoBatch, Items
<1>5. /\ BatchType(last') /\ last'.kind = cur.kind /\ last'.chunked = cur.chunked
      /\ cur.kind # "decode" => last' = cur
  <2>1. CASE cur.kind = "decode"
    <3>1. /\ DOMAIN last' = DOMAIN NoBatch
          /\ last'.kind = "decode" /\ last'.items = <<>> /\ last'.chunked = None
      BY <1>1, <2>1 DEF NoBatch
    <3>2. Items(<<>>)
      BY EmptyIsSeq DEF Items
    <3> QED
      BY <1>3, <2>1, <3>1, <3>2 DEF BatchType
  <2>2. CASE cur.kind # "decode"
    BY <1>1, <1>3, <2>2
  <2> QED
    BY <2>1, <2>2
<1>6. TypesInv'
  <2>1. BatchType(Pending') /\ Len(Pending'.items) \in Nat
    BY <1>2, <1>3, <1>4, ItemFacts
  <2>2. Items(running)' /\ BatchType(cur)' /\ BatchType(last)' /\ BatchType(Pending)'
    BY <1>1, <1>3, <1>4, <1>5, <2>1 DEF BatchType, Items, Item, ReqsOf
  <2>3. BatchesType'
    BY <1>1, <2>1, <2>2 DEF BatchesType, NoBatch
  <2>4. ReqsType' /\ MemoryType' /\ mode' \in Modes /\ pc' \in Places
    BY <1>1 DEF LiveInv, TypesInv, ReqsType, MemoryType, Places
  <2> QED
    BY <2>3, <2>4 DEF TypesInv
<1>7. ASSUME NEW k \in DOMAIN cur.items, NEW i, i = cur.items[k]
      PROVE  /\ i.r \in Reqs /\ Alive(i.r)
             /\ cur.kind = "extend" => i.r \notin ReqsOf(running)
             /\ cur.kind = "extend" /\ mode.overlap => req[i.r].st = "active"
             /\ ~ Partial(cur, i.r) => Follows(i)
             /\ req[i.r].st = "active" /\ ~ Partial(cur, i.r) =>
                   /\ req[i.r].chunks = 0
                   /\ mode.overlap => i.len = Len(Prompt[i.r]) + req[i.r].out
  <2>1. i.r \in Reqs
    BY <1>3, <1>7, ItemFacts
  <2>2. /\ Alive(i.r)
        /\ cur.kind = "extend" => i.r \notin ReqsOf(running)
        /\ cur.kind = "extend" /\ mode.overlap => req[i.r].st = "active"
        /\ ~ Partial(cur, i.r) => Follows(i)
    BY <1>1, <1>7 DEF LiveInv, CurInv, Launched
  <2>3. ASSUME req[i.r].st = "active", ~ Partial(cur, i.r)
        PROVE  /\ req[i.r].chunks = 0
               /\ mode.overlap => i.len = Len(Prompt[i.r]) + req[i.r].out
    <3>1. ~ Partial(After, i.r)
      BY <2>3 DEF After, Partial, NoBatch
    <3>2. Chunks(i.r) = 0
      BY <1>2, <3>1 DEF Chunks, One
    <3>3. req[i.r].chunks = 0
      BY <1>1, <2>1, <2>3, <3>2 DEF LiveInv, ActiveInv
    <3>4. mode.overlap => Due(i.r) = 1
      <4>1. mode.overlap => New(i.r)
        BY <1>7 DEF New, After, ReqsOf
      <4> QED
        BY <1>2, <3>1, <4>1 DEF Due, One
    <3>5. Len(Prompt[i.r]) \in Int /\ req[i.r].out \in Int
      BY <1>1, <2>1, Constants DEF LiveInv, TypesInv, ReqsType, ReqType
    <3>6. mode.overlap => i.len = Len(Prompt[i.r]) + req[i.r].out - 1 + 1
      BY <2>2, <2>3, <3>4 DEF Follows
    <3> QED
      BY <3>3, <3>5, <3>6
  <2> QED
    BY <2>1, <2>2, <2>3
<1>8. \A i : Follows(i)' <=> Follows(i)
  BY <1>1, <1>2 DEF Follows
<1>9. OldInv'
  <2>1. CASE mode.overlap
    <3>1. Pending' = cur /\ todo' = 0 /\ DOMAIN cur.items = 0 + 1 .. Len(cur.items)
      BY <1>1, <1>2, <1>3, <2>1, ItemFacts
    <3>2. \A r : Alive(r)' <=> Alive(r)
      BY <1>1 DEF Alive
    <3> QED
      BY <1>1, <1>7, <2>1, <3>1, <3>2 DEF OldInv, Partial
  <2>2. CASE ~ mode.overlap
    <3>1. todo' + 1 .. Len(Pending'.items) = {}
      BY <1>1, <1>2, <1>4, <2>2
    <3> QED
      BY <3>1 DEF OldInv
  <2> QED
    BY <2>1, <2>2
<1>10. ActiveInv'
  BY <1>1, <1>2 DEF LiveInv, ActiveInv
<1>11. RunningInv'
  BY <1>1, <1>8 DEF LiveInv, RunningInv, Alive
<1>12. CurInv' /\ AdderInv'
  BY <1>1 DEF CurInv, AdderInv, Launched
<1>13. ChunkedInv'
  <2>1. PICK c : c = chunked
    OBVIOUS
  <2>2. Due(chunked)' = Due(c)' /\ ReqsOf(running)' = ReqsOf(running)
    BY <1>1, <2>1 DEF ReqsOf
  <2> QED
    BY <1>1, <1>2, <2>1, <2>2 DEF LiveInv, ChunkedInv
<1>14. LastInv'
  <2>1. chunked = cur.chunked
    BY <1>1 DEF LiveInv, CurInv, Launched
  <2>2. cur.kind = "decode" => running # <<>>
    BY <1>1, <1>3 DEF LiveInv, CurInv, Launched
  <2>3. ReqsOf(running)' = ReqsOf(running) /\ \A r : Alive(r)' <=> Alive(r)
    BY <1>1 DEF ReqsOf, Alive
  <2>4. CASE cur.kind = "extend"
    <3>1. last' = cur
      BY <1>5, <2>4
    <3> QED
      BY <1>1, <1>3, <1>7, <1>8, <2>1, <2>3, <2>4, <3>1 DEF LastInv, Partial
  <2>5. CASE cur.kind # "extend"
    BY <1>1, <1>5, <2>1, <2>2, <2>5 DEF LastInv
  <2> QED
    BY <2>4, <2>5
<1> QED
  BY <1>2, <1>6, <1>9, <1>10, <1>11, <1>12, <1>13, <1>14 DEF OrderInv, LiveInv

\* The loop at rest: nothing was launched, nothing is due.
AtRest ==
    /\ mode \in Modes /\ pc = "recv" /\ MemoryType /\ ReqsType
    /\ last = NoBatch /\ cur = NoBatch /\ queue = <<>> /\ todo = 0 /\ chunked = None
    /\ Items(running)
    /\ \A k \in DOMAIN running :
          LET i == running[k]
          IN  /\ Alive(i.r)
              /\ req[i.r].st = "active" => i.len = Len(Prompt[i.r]) + req[i.r].out - 1
    /\ \A r \in Reqs : req[r].st = "active" => req[r].chunks = 0

LEMMA RestIsOrdered == AtRest => OrderInv
<1> SUFFICES ASSUME AtRest PROVE OrderInv
  OBVIOUS
<1>1. NoBatch.kind = "none" /\ NoBatch.chunked = None /\ NoBatch.items = <<>>
  BY DEF NoBatch
<1>2. BatchType(NoBatch) /\ ReqsOf(NoBatch.items) = {} /\ Len(NoBatch.items) = 0
  BY EmptyIsSeq DEF BatchType, NoBatch, Items, ReqsOf
<1>3. Pending = NoBatch /\ After = NoBatch /\ todo + 1 .. Len(Pending.items) = {}
  <2>1. Pending = NoBatch /\ After = NoBatch
    BY <1>1 DEF AtRest, Pending, After
  <2> QED
    BY <1>2, <2>1 DEF AtRest
<1>4. \A r : Due(r) = 0 /\ Chunks(r) = 0
  BY <1>2, <1>3 DEF Due, Chunks, One, Old, New
<1>5. QueueInv
  BY <1>1 DEF AtRest, QueueInv, QueueShape, JustLaunched, Launched
<1>6. TypesInv
  BY <1>1, <1>2, <1>3 DEF AtRest, TypesInv, BatchesType, Places
<1>7. OldInv
  BY <1>3 DEF OldInv
<1>8. ActiveInv
  BY <1>4 DEF AtRest, ActiveInv
<1>9. RunningInv
  <2>1. ASSUME NEW k \in DOMAIN running, NEW r \in Reqs, r = running[k].r
        PROVE  /\ Alive(r) /\ Follows(running[k])
               /\ req[r].st = "active" => req[r].chunks = 0
    <3>1. /\ Alive(r) /\ Due(r) = 0
          /\ req[r].st = "active" => running[k].len = Len(Prompt[r]) + req[r].out - 1
          /\ req[r].st = "active" => req[r].chunks = 0
      BY <1>4, <2>1 DEF AtRest
    <3>2. Len(Prompt[r]) \in Int /\ req[r].out \in Int
      BY <2>1, Constants DEF AtRest, ReqsType, ReqType
    <3>3. req[r].st = "active" => running[k].len = Len(Prompt[r]) + req[r].out - 1 + 0
      BY <3>1, <3>2
    <3> QED
      BY <2>1, <3>1, <3>3 DEF Follows
  <2>2. \A k \in DOMAIN running : running[k].r \in Reqs
    BY ItemFacts DEF AtRest
  <2> QED
    BY <2>1, <2>2 DEF AtRest, RunningInv
<1>10. CurInv /\ LastInv /\ ChunkedInv /\ AdderInv
  BY <1>1 DEF AtRest, CurInv, LastInv, ChunkedInv, AdderInv, Launched
<1> QED
  BY <1>5, <1>6, <1>7, <1>8, <1>9, <1>10 DEF OrderInv, LiveInv

LEMMA RestIsOrderedNext == AtRest' => OrderInv'
BY RestIsOrdered, PTL

LEMMA EmptyMemory ==
    /\ CacheType(EmptyCache)
    /\ [s \in Slots |-> 1] \in [Slots -> Int]
    /\ DOMAIN [k \in Rows |-> 1] = Rows
<1>1. IsFiniteSet(DOMAIN <<>>) /\ DOMAIN <<>> = {}
  BY FS_EmptySet
<1>2. <<>> = [p \in {} |-> <<>>[p]]
  OBVIOUS
<1>3. TreeType(<<>>)
  BY <1>1, <1>2 DEF TreeType
<1> QED
  BY <1>3 DEF CacheType, EmptyCache

LEMMA InitKeeps == Init => OrderInv
<1> SUFFICES ASSUME Init PROVE AtRest
  BY RestIsOrdered
<1>1. MemoryType
  <2>1. ratio \in Int
    BY Constants DEF Init
  <2> QED
    BY <2>1, EmptyMemory DEF Init, MemoryType
<1>2. ASSUME NEW r \in Reqs PROVE ReqType(r, NewReq)
  <2>1. 0 \in 0 .. MaxNew(r) /\ 0 < MaxNew(r)
    BY Constants
  <2> QED
    BY <2>1, EmptyIsSeq DEF ReqType, NewReq
<1>3. ReqsType /\ \A r \in Reqs : req[r].st = "new"
  BY <1>2 DEF Init, ReqsType, NewReq
<1>4. Items(running) /\ DOMAIN running = {}
  BY EmptyIsSeq DEF Init, Items
<1> QED
  BY <1>1, <1>3, <1>4 DEF Init, AtRest

LEMMA IdleKeeps == ASSUME OrderInv, Idle PROVE OrderInv'
<1>1. /\ LiveInv /\ QueueInv /\ pc = "process" /\ pc' \in {"dead", "recv"}
      /\ Pending = NoBatch /\ cur = NoBatch
      /\ last' = NoBatch
      /\ ratio' \in {ratio, InitRatio}
      /\ UNCHANGED <<mode, req, cache, free, freeRows, running, chunked, cur, queue, todo>>
  BY DEF OrderInv, Idle, memory
<1>2. NoBatch.kind = "none" /\ NoBatch.chunked = None /\ NoBatch.items = <<>>
  BY DEF NoBatch
<1>3. queue = <<>>
  <2>1. CASE mode.overlap
    <3>1. ~ JustLaunched
      BY <1>1, <1>2 DEF JustLaunched
    <3>2. last.kind = "none"
      BY <1>1, <1>2, <2>1, <3>1 DEF QueueInv, QueueShape, Same
    <3> QED
      BY <1>1, <2>1, <3>1, <3>2 DEF QueueInv, QueueShape
  <2>2. CASE ~ mode.overlap
    BY <1>1, <2>2 DEF QueueInv
  <2> QED
    BY <2>1, <2>2
<1>4. QueueInv'
  BY <1>1, <1>2, <1>3 DEF QueueInv, QueueShape, JustLaunched, Launched
<1>5. CASE pc' = "dead"
  BY <1>4, <1>5 DEF OrderInv
<1>6. CASE pc' = "recv"
  <2>1. todo = 0 /\ todo + 1 .. Len(Pending.items) = {} /\ ReqsOf(NoBatch.items) = {}
    <3>1. Len(NoBatch.items) = 0
      BY <1>2
    <3>2. todo \in 0 .. 0
      BY <1>1, <3>1 DEF LiveInv, TypesInv, BatchesType
    <3> QED
      BY <1>1, <1>2, <3>1, <3>2 DEF ReqsOf
  <2>2. \A r : Due(r) = 0 /\ Chunks(r) = 0
    <3>1. After = NoBatch
      BY <1>1 DEF After
    <3> QED
      BY <1>1, <2>1, <3>1 DEF Due, Chunks, One, Old, New
  <2>3. chunked = None
    BY <1>1, <1>2 DEF LiveInv, CurInv, Launched
  <2>4. MemoryType'
    <3>1. InitRatio \in Int
      BY Constants
    <3> QED
      BY <1>1, <3>1 DEF LiveInv, TypesInv, MemoryType
  <2>5. Items(running) /\ ReqsType
    BY <1>1 DEF LiveInv, TypesInv, BatchesType
  <2>6. ASSUME NEW k \in DOMAIN running, NEW r \in Reqs, r = running[k].r
        PROVE  /\ Alive(r)
               /\ req[r].st = "active" => running[k].len = Len(Prompt[r]) + req[r].out - 1
    <3>1. /\ Alive(r)
          /\ req[r].st = "active" => running[k].len = Len(Prompt[r]) + req[r].out - 1 + 0
      BY <1>1, <2>2, <2>6 DEF LiveInv, RunningInv, Follows
    <3>2. Len(Prompt[r]) \in Int /\ req[r].out \in Int
      BY <2>5, <2>6, Constants DEF ReqsType, ReqType
    <3> QED
      BY <3>1, <3>2
  <2>7. \A k \in DOMAIN running : running[k].r \in Reqs
    BY <2>5, ItemFacts
  <2>8. \A r \in Reqs : req[r].st = "active" => req[r].chunks = 0
    BY <1>1, <2>2 DEF LiveInv, ActiveInv
  <2>9. ReqsType' /\ Items(running)' /\ mode' \in Modes
    BY <1>1, <2>5 DEF ReqsType, Items, Item, LiveInv, TypesInv
  <2>10. AtRest'
    BY <1>1, <1>3, <1>6, <2>1, <2>3, <2>4, <2>6, <2>7, <2>8, <2>9 DEF AtRest, Alive
  <2> QED
    BY <2>10, RestIsOrderedNext
<1> QED
  BY <1>1, <1>5, <1>6

\* A flush that takes no request's memory finds no result in flight.
LEMMA FlushKeeps ==
    ASSUME OrderInv, FlushCache, \A r \in Reqs : req[r].st # "active"
    PROVE  OrderInv'
<1>1. /\ LiveInv /\ QueueInv /\ pc = "recv" /\ pc' = "recv" /\ running = <<>>
      /\ cache' = IF mode.radix THEN EmptyCache ELSE cache
      /\ free' = [s \in Slots |-> 1] /\ freeRows' = [k \in Rows |-> 1]
      /\ last' = NoBatch /\ cur' = NoBatch
      /\ UNCHANGED <<mode, req, running, chunked, queue, ratio, todo>>
  BY DEF OrderInv, FlushCache
<1>2. chunked = None /\ todo = 0
  BY <1>1 DEF LiveInv, ChunkedInv, TypesInv, BatchesType
<1>3. queue = <<>>
  <2>1. CASE mode.overlap
    <3>1. ~ JustLaunched
      BY <1>1 DEF JustLaunched
    <3>2. last.kind # "decode"
      BY <1>1 DEF LiveInv, LastInv
    <3>3. last.kind # "extend"
      <4> SUFFICES ASSUME last.kind = "extend" PROVE FALSE
        OBVIOUS
      <4>1. Items(last.items) /\ last.items # <<>>
        BY <1>1 DEF LiveInv, LastInv, TypesInv, BatchesType, BatchType
      <4>2. PICK k \in DOMAIN last.items : TRUE
        BY <4>1, EmptyFacts DEF Items
      <4>3. last.items[k].r \in Reqs
        BY <4>1, ItemFacts
      <4>4. req[last.items[k].r].st = "active"
        BY <1>1, <2>1 DEF LiveInv, LastInv
      <4> QED
        BY <1>1, <4>3, <4>4
    <3>4. last.kind = "none"
      BY <1>1, <3>2, <3>3 DEF LiveInv, TypesInv, BatchesType, BatchType
    <3> QED
      BY <1>1, <2>1, <3>1, <3>4 DEF QueueInv, QueueShape
  <2>2. CASE ~ mode.overlap
    BY <1>1, <2>2 DEF QueueInv
  <2> QED
    BY <2>1, <2>2
<1>4. MemoryType'
  BY <1>1, EmptyMemory DEF MemoryType, LiveInv, TypesInv
<1>5. ReqsType' /\ mode' \in Modes
  BY <1>1 DEF ReqsType, LiveInv, TypesInv
<1>6. Items(running)' /\ DOMAIN running' = {}
  BY <1>1, EmptyIsSeq DEF Items
<1>7. AtRest'
  BY <1>1, <1>2, <1>3, <1>4, <1>5, <1>6 DEF AtRest
<1> QED
  BY <1>7, RestIsOrderedNext

-----------------------------------------------------------------------------
(* The prefill batch.                                                       *)

LEMMA NewTokensIsNat ==
    ASSUME ReqsType, IsSeq(adder.can), \A k \in DOMAIN adder.can : adder.can[k] \in Reqs
    PROVE  NewTokens(Len(adder.can)) \in Nat
<1> DEFINE f == [k \in 1 .. Len(adder.can) |-> ExtendLen(adder.can[k])]
<1>1. DOMAIN adder.can = 1 .. Len(adder.can) /\ IsFiniteSet(DOMAIN adder.can)
  BY SeqFacts
<1>2. ASSUME NEW k \in 1 .. Len(adder.can) PROVE f[k] \in Int
  <2>1. adder.can[k] \in Reqs
    BY <1>1
  <2>2. req[adder.can[k]].fill \in Int /\ Len(req[adder.can[k]].pre) \in Nat
    BY <2>1, SeqFacts DEF ReqsType, ReqType
  <2> QED
    BY <2>2 DEF ExtendLen
<1>3. DOMAIN f = 1 .. Len(adder.can)
  OBVIOUS
<1> HIDE DEF f
<1>4. Total(f) \in Nat
  BY <1>1, <1>2, <1>3, TotalIsNat
<1> QED
  BY <1>4 DEF NewTokens, f

\* Who is admitted is in the new batch, once, at the length that was filled.
LEMMA PrefillFacts ==
    ASSUME LiveInv, pc = "admit", adder.can # <<>>, NEW rowOf, IsSeq(rowOf),
           Len(rowOf) = Len(adder.can)
    PROVE  /\ Items(PrefillItems(rowOf)) /\ PrefillItems(rowOf) # <<>>
           /\ DOMAIN PrefillItems(rowOf) = DOMAIN adder.can
           /\ \A k \in DOMAIN adder.can :
                 /\ PrefillItems(rowOf)[k].r = adder.can[k]
                 /\ PrefillItems(rowOf)[k].len = req[adder.can[k]].fill
           /\ ReqsOf(PrefillItems(rowOf)) = ToSet(adder.can)
<1> DEFINE items == PrefillItems(rowOf)
<1>1. /\ IsSeq(adder.can)
      /\ \A j, k \in DOMAIN adder.can : adder.can[j] = adder.can[k] => j = k
      /\ \A k \in DOMAIN adder.can : adder.can[k] \in Reqs
  BY DEF LiveInv, AdderInv
<1>2. /\ DOMAIN adder.can = 1 .. Len(adder.can) /\ DOMAIN rowOf = 1 .. Len(adder.can)
      /\ Len(adder.can) \in Nat
  BY <1>1, SeqFacts
<1>3. \A k \in DOMAIN adder.can : req[adder.can[k]].fill \in Int
  BY <1>1 DEF LiveInv, TypesInv, ReqsType, ReqType
<1>4. /\ DOMAIN items = DOMAIN adder.can
      /\ \A k \in DOMAIN adder.can :
            /\ items[k].r = adder.can[k] /\ items[k].len = req[adder.can[k]].fill
            /\ DOMAIN items[k] = {"r", "row", "len", "future", "token"}
  BY <1>2 DEF PrefillItems
<1>5. items = [k \in 1 .. Len(adder.can) |-> items[k]]
  BY <1>2 DEF PrefillItems
<1> HIDE DEF items
<1>6. IsSeq(items)
  BY <1>2, <1>5, FunctionIsSeq
<1>7. Items(items)
  BY <1>1, <1>3, <1>4, <1>6 DEF Items, Item
<1>8. items # <<>>
  BY <1>1, <1>4, <1>6, EmptyFacts
<1>9. ReqsOf(items) = ToSet(adder.can)
  BY <1>4 DEF ReqsOf, ToSet
<1> QED
  BY <1>4, <1>7, <1>8, <1>9 DEF items

LEMMA PartlyFilledFacts ==
    ASSUME LiveInv, pc = "admit"
    PROVE  PartlyFilled \in ToSet(adder.can) \cup {None}
BY DEF LiveInv, AdderInv, PartlyFilled

\* What starting the admitted requests makes of each.
LEMMA StartedFacts ==
    ASSUME LiveInv, pc = "admit", NEW rowOf, req' = Started(rowOf)
    PROVE  /\ ReqsType'
           /\ \A q \in Reqs \ ToSet(adder.can) : req'[q] = req[q]
           /\ \A q \in ToSet(adder.can) :
                 /\ req'[q].st = "active" /\ req'[q].out = req[q].out
                 /\ req'[q].chunks = req[q].chunks + One(q = PartlyFilled)
<1>1. ReqsType /\ ToSet(adder.can) \subseteq Reqs
      /\ \A q \in ToSet(adder.can) : req[q].st \in {"waiting", "active"}
  BY DEF LiveInv, TypesInv, AdderInv, ToSet
<1>2. DOMAIN req' = Reqs /\ \A q \in Reqs \ ToSet(adder.can) : req'[q] = req[q]
  BY DEF Started
<1>3. ASSUME NEW q \in ToSet(adder.can)
      PROVE  /\ ReqType(q, req'[q])
             /\ req'[q].st = "active" /\ req'[q].out = req[q].out
             /\ req'[q].chunks = req[q].chunks + One(q = PartlyFilled)
  <2> DEFINE row == rowOf[CHOOSE k \in DOMAIN rowOf : adder.can[k] = q]
             more == IF q = PartlyFilled THEN 1 ELSE 0
             x == [req[q] EXCEPT !.st = "active", !.row = row, !.retracted = FALSE,
                                 !.chunks = @ + more]
  <2>1. q \in Reqs /\ ReqType(q, req[q]) /\ req[q].st \in {"waiting", "active"}
    BY <1>1 DEF ReqsType
  <2>2. req'[q] = x
    BY <2>1 DEF Started
  <2>3. more = One(q = PartlyFilled) /\ more \in Nat
    BY DEF One
  <2> HIDE DEF row, more
  <2>4. /\ DOMAIN x = DOMAIN req[q]
        /\ x.st = "active" /\ x.out = req[q].out /\ x.chunks = req[q].chunks + more
        /\ x.fill = req[q].fill /\ x.pre = req[q].pre /\ x.node = req[q].node
        /\ x.retracted = FALSE
    BY <2>1 DEF ReqType, NewReq
  <2> HIDE DEF x
  <2>5. ReqType(q, x)
    BY <2>1, <2>3, <2>4 DEF ReqType
  <2> QED
    BY <2>2, <2>3, <2>4, <2>5
<1>4. ReqsType'
  <2>1. ASSUME NEW q \in Reqs PROVE ReqType(q, req'[q])
    BY <1>1, <1>2, <1>3 DEF ReqsType
  <2> QED
    BY <1>2, <2>1 DEF ReqsType
<1> QED
  BY <1>2, <1>3, <1>4

LEMMA LaunchKeeps == ASSUME OrderInv, LaunchPrefill PROVE OrderInv'
<1> DEFINE need == NewTokens(Len(adder.can))
           rowOf == Taken(freeRows, Len(adder.can))
           available(gone) == FreedByEviction(cache, free, gone)
           slots(gone) == Taken(available(gone), need)
           Can == ToSet(adder.can)
<1>1. /\ LiveInv /\ QueueInv /\ pc = "admit" /\ adder.can # <<>>
      /\ chunked' = PartlyFilled
      /\ UNCHANGED <<mode, running, last, queue, ratio, todo>>
  BY DEF OrderInv, LaunchPrefill
<1>2. PICK gone \in ToEvict(need) :
         \/ /\ Len(rowOf) = Len(adder.can)
            /\ cache' = Evicted(cache, gone)
            /\ free' = Rest(available(gone), slots(gone))
            /\ freeRows' = Rest(freeRows, rowOf)
            /\ req' = Started(rowOf)
            /\ cur' = [kind |-> "extend", items |-> PrefillItems(rowOf),
                       loc |-> slots(gone), chunked |-> PartlyFilled]
            /\ pc' = "run"
         \/ pc' = "dead" /\ cur' = cur
  BY DEF LaunchPrefill
<1>3. CASE pc' = "dead" /\ cur' = cur
  <2>1. QueueInv'
    BY <1>1, <1>3, QueueKeeps
  <2> QED
    BY <1>3, <2>1 DEF OrderInv
<1>4. CASE /\ Len(rowOf) = Len(adder.can)
           /\ cache' = Evicted(cache, gone)
           /\ free' = Rest(available(gone), slots(gone))
           /\ freeRows' = Rest(freeRows, rowOf)
           /\ req' = Started(rowOf)
           /\ cur' = [kind |-> "extend", items |-> PrefillItems(rowOf),
                      loc |-> slots(gone), chunked |-> PartlyFilled]
           /\ pc' = "run"
  <2> DEFINE items == PrefillItems(rowOf)
  <2>1. /\ MemoryType /\ ReqsType /\ IsSeq(adder.can) /\ Can \subseteq Reqs
        /\ Items(running) /\ BatchType(last) /\ BatchType(Pending) /\ todo = 0
    BY <1>1 DEF LiveInv, TypesInv, AdderInv, ToSet, BatchesType
  <2>2. Len(adder.can) \in Nat /\ need \in Nat
    <3>1. \A k \in DOMAIN adder.can : adder.can[k] \in Reqs
      BY <2>1 DEF ToSet
    <3> QED
      BY <2>1, <3>1, NewTokensIsNat, SeqFacts
  <2>3. IsSeq(rowOf)
    BY <2>1, <2>2, Constants, TakenIsSeq DEF MemoryType
  <2>4. MemoryType'
    <3>1. CacheType(cache') /\ available(gone) \in [Slots -> Int]
      BY <1>4, <2>1, EvictionType DEF MemoryType, ToEvict
    <3> HIDE DEF available, need
    <3>2. IsSeq(slots(gone))
      <4>1. IsFiniteSet(DOMAIN available(gone))
        BY <3>1, Constants
      <4> QED
        BY <2>2, <4>1, TakenIsSeq
    <3> HIDE DEF slots, rowOf
    <3>3. free' \in [Slots -> Int] /\ DOMAIN freeRows' = Rows
      BY <1>4, <2>1, <2>3, <3>1, <3>2, FreeListType DEF MemoryType
    <3> QED
      BY <1>1, <2>1, <3>1, <3>3 DEF MemoryType
  <2> HIDE DEF rowOf, available, slots, need
  <2>5. /\ Items(items) /\ items # <<>>
        /\ DOMAIN items = DOMAIN adder.can
        /\ \A k \in DOMAIN adder.can :
              items[k].r = adder.can[k] /\ items[k].len = req[adder.can[k]].fill
        /\ ReqsOf(items) = Can
    BY <1>1, <1>4, <2>3, PrefillFacts
  <2> HIDE DEF items
  <2>6. /\ cur'.kind = "extend" /\ cur'.items = items /\ cur'.chunked = PartlyFilled
        /\ DOMAIN cur' = DOMAIN NoBatch
    BY <1>4 DEF NoBatch, items
  <2>7. PartlyFilled \in Can \cup {None} /\ None \notin Reqs
    BY <1>1, PartlyFilledFacts, Constants
  <2>8. /\ ReqsType'
        /\ \A q \in Reqs \ Can : req'[q] = req[q]
        /\ \A q \in Can :
              /\ req'[q].st = "active" /\ req'[q].out = req[q].out
              /\ req'[q].chunks = req[q].chunks + One(q = PartlyFilled)
    BY <1>1, <1>4, StartedFacts
  <2>9. Launch
    BY <1>1, <1>4, <2>1, <2>6 DEF Launch
  <2>10. \A q : Partial(cur', q) <=> q = PartlyFilled
    BY <2>6 DEF Partial
  <2>11. /\ QueueInv'
         /\ Pending' = IF mode.overlap THEN Pending ELSE cur'
         /\ \A q : Due(q)' = Due(q) + One(q \in Can /\ q # PartlyFilled)
         /\ \A q : Chunks(q)' = Chunks(q) + One(q \in Can /\ q = PartlyFilled)
         /\ ~ mode.overlap => \A q : ~ Old(q)
         /\ \A q : Due(q) \in Nat /\ Chunks(q) \in Nat
    BY <1>1, <2>5, <2>6, <2>9, <2>10, LaunchFlight
  <2>12. \A q \in Can : /\ q \in Reqs /\ q \notin ReqsOf(running)
                        /\ Due(q) = 0 /\ req[q].chunks = Chunks(q)
                        /\ q = PartlyFilled \/ req[q].fill = Len(Prompt[q]) + req[q].out
    BY <1>1 DEF LiveInv, AdderInv, ToSet
  <2>13. TypesInv'
    <3>1. BatchType(cur')
      BY <2>5, <2>6, <2>7 DEF BatchType
    <3>2. BatchType(Pending')
      BY <2>1, <2>11, <3>1
    <3>3. todo' \in 0 .. Len(Pending'.items)
      <4>1. Len(Pending'.items) \in Nat
        BY <3>2, ItemFacts DEF BatchType
      <4> QED
        BY <1>1, <2>1, <4>1
    <3>4. BatchesType'
      BY <1>1, <1>4, <2>1, <2>5, <2>6, <3>1, <3>2, <3>3
         DEF BatchesType, BatchType, Items, Item, ReqsOf
    <3>5. mode' \in Modes /\ pc' \in Places
      BY <1>1, <1>4 DEF LiveInv, TypesInv, Places
    <3> QED
      BY <2>4, <2>8, <3>4, <3>5 DEF TypesInv
  <2>14. ASSUME NEW k \in DOMAIN items, NEW i, i = items[k], NEW q, q = i.r
         PROVE  /\ q \in Can /\ Alive(q)' /\ req'[q].st = "active"
                /\ q \notin ReqsOf(running)
                /\ mode.overlap => (Old(q)' => Partial(Pending', q))
                /\ q # PartlyFilled =>
                      /\ i.len = Len(Prompt[q]) + req'[q].out
                      /\ Follows(i)'
                      /\ ~ mode.overlap => req'[q].chunks = 0
    <3>1. q \in Can /\ q = adder.can[k] /\ i.len = req[q].fill
      BY <2>5, <2>14 DEF ReqsOf
    <3>2. req'[q].st = "active" /\ req'[q].out = req[q].out /\ q \in Reqs
      BY <2>8, <2>12, <3>1
    <3>3. ASSUME q # PartlyFilled
          PROVE  /\ i.len = Len(Prompt[q]) + req'[q].out
                 /\ Follows(i)'
                 /\ ~ mode.overlap => req'[q].chunks = 0
      <4>1. i.len = Len(Prompt[q]) + req'[q].out
        BY <2>12, <3>1, <3>2, <3>3
      <4>2. Due(q)' = 1
        BY <2>11, <2>12, <3>1, <3>3 DEF One
      <4>3. Len(Prompt[q]) \in Int /\ req'[q].out \in Int
        BY <2>8, <3>2, Constants DEF ReqsType, ReqType
      <4>4. i.len = Len(Prompt[q]) + req'[q].out - 1 + 1
        BY <4>1, <4>3
      <4>5. Follows(i)'
        BY <2>14, <4>2, <4>4 DEF Follows
      <4>6. ~ mode.overlap => Chunks(q) = 0
        <5>1. \A r : ~ New(r)
          BY <1>1, NothingNew
        <5> QED
          BY <2>11, <5>1 DEF Chunks, One
      <4>7. req'[q].chunks = Chunks(q) + 0
        BY <2>8, <2>12, <3>1, <3>3 DEF One
      <4> QED
        BY <4>1, <4>5, <4>6, <4>7
    <3>4. mode.overlap => (Old(q)' => Partial(Pending', q))
      <4>1. Due(q) = 0
        BY <2>12, <3>1
      <4>2. Old(q) => Partial(Pending, q)
        BY <4>1 DEF Due, One
      <4>3. mode.overlap => Pending' = Pending /\ (Old(q)' <=> Old(q))
        BY <1>1, <2>11 DEF Old
      <4> QED
        BY <4>2, <4>3
    <3> QED
      BY <2>12, <3>1, <3>2, <3>3, <3>4 DEF Alive
  <2>15. OldInv'
    <3>1. CASE mode.overlap
      <4>1. Pending' = Pending /\ todo' = todo /\ ~ Planning'
        BY <1>1, <1>4, <2>11, <3>1 DEF Planning
      <4>2. ASSUME NEW k \in todo + 1 .. Len(Pending.items), NEW i, i = Pending.items[k],
                   req'[i.r].st = "active", ~ Partial(Pending, i.r)
            PROVE  i.len = Len(Prompt[i.r]) + req'[i.r].out /\ req'[i.r].chunks = 0
        <5>1. i.r \in Reqs
          <6>1. k \in DOMAIN Pending.items
            BY <2>1, <4>2, ItemFacts DEF BatchType
          <6> QED
            BY <2>1, <4>2, <6>1, ItemFacts DEF BatchType
        <5>2. Old(i.r)
          BY <4>2 DEF Old
        <5>3. Due(i.r) # 0
          BY <4>2, <5>2 DEF Due, One
        <5>4. i.r \notin Can
          BY <2>12, <5>3
        <5>5. req'[i.r] = req[i.r]
          BY <2>8, <5>1, <5>4
        <5> QED
          BY <1>1, <4>2, <5>5 DEF LiveInv, OldInv
      <4> QED
        BY <4>1, <4>2 DEF OldInv, Partial
    <3>2. CASE ~ mode.overlap
      <4>1. Pending' = cur' /\ todo' = 0 /\ ~ Planning' /\ DOMAIN items = 0 + 1 .. Len(items)
        BY <1>1, <1>4, <2>1, <2>5, <2>11, <3>2, ItemFacts DEF Planning
      <4> QED
        BY <2>6, <2>10, <2>14, <3>2, <4>1 DEF OldInv
    <3> QED
      BY <3>1, <3>2
  <2>16. ActiveInv'
    <3>1. ASSUME NEW q \in Reqs, req'[q].st = "active" PROVE req'[q].chunks = Chunks(q)'
      <4>1. CASE q \in Can
        BY <2>8, <2>11, <2>12, <4>1
      <4>2. CASE q \notin Can
        BY <1>1, <2>8, <2>11, <3>1, <4>2 DEF LiveInv, ActiveInv, One
      <4> QED
        BY <4>1, <4>2
    <3> QED
      BY <3>1 DEF ActiveInv
  <2>17. RunningInv'
    <3>1. ASSUME NEW k \in DOMAIN running, NEW i, i = running[k]
          PROVE  /\ Alive(i.r)' /\ Follows(i)'
                 /\ req'[i.r].st = "active" => req'[i.r].chunks = 0
      <4>1. /\ i.r \in Reqs /\ i.r \in ReqsOf(running)
            /\ Alive(i.r) /\ Follows(i)
            /\ req[i.r].st = "active" => req[i.r].chunks = 0
        BY <1>1, <2>1, <3>1, ItemFacts DEF LiveInv, RunningInv, ReqsOf
      <4>2. i.r \notin Can
        BY <2>12, <4>1
      <4>3. req'[i.r] = req[i.r] /\ Due(i.r)' = Due(i.r)
        BY <2>8, <2>11, <4>1, <4>2 DEF One
      <4> QED
        BY <4>1, <4>3 DEF Follows, Alive
    <3> QED
      BY <1>1, <1>4, <3>1 DEF RunningInv
  <2>18. CurInv'
    <3>1. ReqsOf(running)' = ReqsOf(running)
      BY <1>1 DEF ReqsOf
    <3> QED
      BY <1>1, <2>6, <2>10, <2>14, <3>1 DEF CurInv, Partial
  <2>19. ChunkedInv'
    <3>1. PICK c : c = PartlyFilled
      OBVIOUS
    <3>2. c \in Reqs \cup {None}
      BY <2>1, <2>7, <3>1
    <3>3. ASSUME c # None
          PROVE  req'[c].st = "active" /\ c \notin ReqsOf(running) /\ Due(c)' = 0
      <4>1. c \in Can
        BY <2>7, <3>1, <3>3
      <4> QED
        BY <2>8, <2>11, <2>12, <3>1, <4>1 DEF One
    <3>4. chunked' = c /\ ReqsOf(running)' = ReqsOf(running)
      BY <1>1, <3>1 DEF ReqsOf
    <3>5. Due(chunked)' = Due(c)'
      BY <3>4
    <3> QED
      BY <1>4, <3>2, <3>3, <3>4, <3>5 DEF ChunkedInv
  <2>20. LastInv' /\ AdderInv'
    BY <1>4 DEF LastInv, AdderInv
  <2> QED
    BY <2>11, <2>13, <2>15, <2>16, <2>17, <2>18, <2>19, <2>20 DEF OrderInv, LiveInv
<1> QED
  BY <1>2, <1>3, <1>4
-----------------------------------------------------------------------------
(* A result is applied.                                                     *)

\* The result of one request is taken; what it leaves behind is a request
\* that got its token, or its chunk, or that has ended.
Applied(r) ==
    /\ pc = "process" /\ todo < Len(Pending.items) /\ Pending.items[todo + 1].r = r
    /\ todo' = todo + 1
    /\ UNCHANGED <<mode, pc, running, chunked, last, cur, queue, adder, ratio>>
GotToken(r) ==
    /\ req[r].st = "active" /\ req'[r].st = "active"
    /\ req'[r].out = req[r].out + One(~ Partial(Pending, r))
    /\ req'[r].chunks = req[r].chunks - One(Partial(Pending, r))
Ended(r) ==
    /\ req[r].st = "active" /\ req[r].chunks = 0 /\ ~ Partial(Pending, r)
    /\ req'[r].st = "done"
WasLate(r) == req[r].st # "active" /\ req'[r].st = req[r].st

\* What is in flight for the request is less by this result.
LEMMA AppliedFlight ==
    ASSUME Items(Pending.items), todo \in Nat, NEW r \in Reqs, Applied(r)
    PROVE  /\ Pending' = Pending /\ After' = After
           /\ Old(r) /\ ~ Old(r)'
           /\ \A q : q # r => (Old(q)' <=> Old(q)) /\ Due(q)' = Due(q) /\ Chunks(q)' = Chunks(q)
           /\ Due(r)' = Due(r) - One(~ Partial(Pending, r))
           /\ Chunks(r)' = Chunks(r) - One(Partial(Pending, r))
           /\ ~ Partial(Pending, r) => Due(r) # 0
           /\ Partial(Pending, r) => Chunks(r) # 0
<1>1. Pending' = Pending /\ After' = After
  BY DEF Applied, Pending, After
<1> DEFINE items == Pending.items
           n == Len(items)
<1>2. n \in Nat /\ DOMAIN items = 1 .. n
  BY ItemFacts
<1>3. items[todo + 1].r = r /\ todo' = todo + 1 /\ todo < n
  BY DEF Applied
<1>4. todo + 1 \in DOMAIN items /\ todo + 1 \in todo + 1 .. n
  BY <1>2, <1>3
<1>5. todo + 1 .. n = {todo + 1} \cup (todo + 2 .. n)
  BY <1>2, <1>3
<1>6. ~ \E k \in todo + 2 .. n : items[k].r = r
  <2> SUFFICES ASSUME NEW k \in todo + 2 .. n, items[k].r = r PROVE FALSE
    OBVIOUS
  <2>1. k \in DOMAIN items /\ k # todo + 1
    BY <1>2
  <2>2. items[k].r = items[todo + 1].r
    BY <1>3
  <2> QED
    BY <1>4, <2>1, <2>2 DEF Items
<1>7. \A q : Old(q) <=> \E k \in todo + 1 .. n : items[k].r = q
  BY DEF Old
<1>8. \A q : Old(q)' <=> \E k \in todo + 2 .. n : items[k].r = q
  <2>1. todo' + 1 = todo + 2
    BY <1>3
  <2> QED
    BY <1>1, <2>1 DEF Old
<1> HIDE DEF items, n
<1>9. Old(r) /\ ~ Old(r)'
  BY <1>3, <1>4, <1>6, <1>7, <1>8
<1>10. \A q : q # r => (Old(q)' <=> Old(q))
  BY <1>3, <1>5, <1>7, <1>8
<1>11. \A q : (New(q)' <=> New(q)) /\ (Partial(Pending, q)' <=> Partial(Pending, q))
               /\ (Partial(After, q)' <=> Partial(After, q))
  BY <1>1 DEF New, ReqsOf, Partial
<1>12. \A q : q # r => Due(q)' = Due(q) /\ Chunks(q)' = Chunks(q)
  BY <1>10, <1>11 DEF Due, Chunks, One
<1>13. /\ Due(r) = One(~ Partial(Pending, r)) + One(New(r) /\ ~ Partial(After, r))
       /\ Chunks(r) = One(Partial(Pending, r)) + One(New(r) /\ Partial(After, r))
  BY <1>9 DEF Due, Chunks, One
<1>14. /\ Due(r)' = 0 + One(New(r) /\ ~ Partial(After, r))
       /\ Chunks(r)' = 0 + One(New(r) /\ Partial(After, r))
  BY <1>9, <1>11 DEF Due, Chunks, One
<1>15. /\ Due(r)' = Due(r) - One(~ Partial(Pending, r))
       /\ Chunks(r)' = Chunks(r) - One(Partial(Pending, r))
       /\ ~ Partial(Pending, r) => Due(r) # 0
       /\ Partial(Pending, r) => Chunks(r) # 0
  BY <1>13, <1>14 DEF One
<1> QED
  BY <1>1, <1>9, <1>10, <1>12, <1>15

LEMMA AppliedKeeps ==
    ASSUME OrderInv, NEW r \in Reqs, Applied(r), MemoryType', DOMAIN req' = Reqs,
           \A q \in Reqs \ {r} : req'[q] = req[q], ReqType(r, req'[r]),
           GotToken(r) \/ Ended(r) \/ WasLate(r)
    PROVE  OrderInv'
<1>1. /\ LiveInv /\ QueueInv /\ pc = "process" /\ pc' = "process"
      /\ todo < Len(Pending.items) /\ todo' = todo + 1
      /\ UNCHANGED <<mode, running, chunked, last, cur, queue, adder, ratio>>
  BY DEF OrderInv, Applied
<1>2. Items(Pending.items) /\ todo \in Nat /\ Len(Pending.items) \in Nat
  <2>1. Items(Pending.items) /\ todo \in 0 .. Len(Pending.items)
    BY <1>1 DEF LiveInv, TypesInv, BatchesType, BatchType
  <2> QED
    BY <2>1, ItemFacts
<1>3. /\ Pending' = Pending /\ After' = After
      /\ Old(r) /\ ~ Old(r)'
      /\ \A q : q # r => (Old(q)' <=> Old(q)) /\ Due(q)' = Due(q) /\ Chunks(q)' = Chunks(q)
      /\ Due(r)' = Due(r) - One(~ Partial(Pending, r))
      /\ Chunks(r)' = Chunks(r) - One(Partial(Pending, r))
      /\ ~ Partial(Pending, r) => Due(r) # 0
      /\ Partial(Pending, r) => Chunks(r) # 0
  BY <1>2, AppliedFlight
<1>4. \A q : /\ Partial(Pending, q)' <=> Partial(Pending, q)
             /\ Partial(cur, q)' <=> Partial(cur, q)
             /\ Due(q) \in Int /\ Chunks(q) \in Int
  BY <1>1, <1>3 DEF Partial, Due, Chunks, One
<1>5. ReqType(r, req[r]) /\ Len(Prompt[r]) \in Int
  BY <1>1, Constants DEF LiveInv, TypesInv, ReqsType
<1>6. \A q \in Reqs : Alive(q) => Alive(q)'
  BY <1>3 DEF Alive, GotToken, Ended, WasLate
<1>7. ASSUME NEW i, i.r \in Reqs, i.len \in Int, Follows(i) PROVE Follows(i)'
  <2>1. CASE i.r # r
    <3>1. Due(i.r)' = Due(i.r) /\ req'[i.r] = req[i.r]
      BY <1>3, <1>7, <2>1
    <3> QED
      BY <1>7, <3>1 DEF Follows
  <2>2. CASE i.r = r
    <3> SUFFICES ASSUME req'[r].st = "active"
                 PROVE  i.len = Len(Prompt[r]) + req'[r].out - 1 + Due(r)'
      BY <2>2 DEF Follows
    <3>1. GotToken(r)
      BY DEF Ended, WasLate
    <3>2. i.len = Len(Prompt[r]) + req[r].out - 1 + Due(r)
      BY <1>7, <2>2, <3>1 DEF Follows, GotToken
    <3>3. req'[r].out = req[r].out + One(~ Partial(Pending, r))
      BY <3>1 DEF GotToken
    <3> DEFINE a == Len(Prompt[r])
               b == req[r].out
               c == req'[r].out
               d == Due(r)
               e == Due(r)'
               u == One(~ Partial(Pending, r))
    <3>4. /\ a \in Int /\ b \in Int /\ d \in Int /\ u \in Int
          /\ i.len = a + b - 1 + d /\ c = b + u /\ e = d - u
      BY <1>3, <1>4, <1>5, <3>2, <3>3 DEF ReqType, One
    <3> HIDE DEF a, b, c, d, e, u
    <3>5. i.len = a + c - 1 + e
      BY <3>4
    <3> QED
      BY <3>5 DEF a, c, e
  <2> QED
    BY <2>1, <2>2
<1>8. TypesInv'
  <2>1. ReqsType'
    BY <1>1 DEF ReqsType, LiveInv, TypesInv
  <2>2. BatchesType'
    <3>1. todo' \in 0 .. Len(Pending.items)
      BY <1>1, <1>2
    <3> QED
      BY <1>1, <1>3, <3>1
        DEF LiveInv, TypesInv, BatchesType, BatchType, Items, Item, ReqsOf
  <2> QED
    BY <1>1, <2>1, <2>2 DEF LiveInv, TypesInv
<1>9. OldInv'
  <2>1. ASSUME NEW k \in todo + 2 .. Len(Pending.items), NEW i, i = Pending.items[k]
        PROVE  req'[i.r].st = "active" /\ ~ Partial(Pending, i.r) =>
                  i.len = Len(Prompt[i.r]) + req'[i.r].out /\ req'[i.r].chunks = 0
    <3>1. k \in todo + 1 .. Len(Pending.items) /\ k \in DOMAIN Pending.items /\ i.r \in Reqs
      BY <1>2, <2>1, ItemFacts
    <3>2. todo' + 1 = todo + 2
      BY <1>1, <1>2
    <3>3. Old(i.r)'
      BY <1>3, <2>1, <3>2 DEF Old
    <3>4. i.r # r
      BY <1>3, <3>3
    <3>5. req'[i.r] = req[i.r]
      BY <3>1, <3>4
    <3> QED
      BY <1>1, <2>1, <3>1, <3>5 DEF LiveInv, OldInv
  <2>2. ~ Planning' /\ todo' + 1 = todo + 2
    BY <1>1, <1>2 DEF Planning
  <2> QED
    BY <1>3, <1>4, <2>1, <2>2 DEF OldInv
<1>10. ActiveInv'
  <2> SUFFICES ASSUME NEW q \in Reqs, req'[q].st = "active"
               PROVE  req'[q].chunks = Chunks(q)'
    BY DEF ActiveInv
  <2>1. CASE q = r
    <3>1. GotToken(r)
      BY <2>1 DEF Ended, WasLate
    <3>2. req[r].chunks = Chunks(r)
      BY <1>1, <3>1 DEF LiveInv, ActiveInv, GotToken
    <3> QED
      BY <1>3, <2>1, <3>1, <3>2 DEF GotToken
  <2>2. CASE q # r
    <3>1. req'[q] = req[q] /\ Chunks(q)' = Chunks(q)
      BY <1>3, <2>2
    <3> QED
      BY <1>1, <3>1 DEF LiveInv, ActiveInv
  <2> QED
    BY <2>1, <2>2
<1>11. RunningInv'
  <2>1. ASSUME NEW k \in DOMAIN running, NEW i, i = running[k]
        PROVE  /\ Alive(i.r)' /\ Follows(i)'
               /\ req'[i.r].st = "active" => req'[i.r].chunks = 0
    <3>1. Items(running) /\ i.r \in Reqs /\ i.len \in Int
      BY <1>1, <2>1, ItemFacts DEF LiveInv, TypesInv, BatchesType
    <3>2. Alive(i.r) /\ Follows(i) /\ (req[i.r].st = "active" => req[i.r].chunks = 0)
      BY <1>1, <2>1 DEF LiveInv, RunningInv
    <3>3. ASSUME req'[i.r].st = "active" PROVE req'[i.r].chunks = 0
      <4>1. CASE i.r = r
        <5>1. req'[r].st = "active"
          BY <3>3, <4>1
        <5>2. GotToken(r)
          BY <5>1 DEF Ended, WasLate
        <5>3. req[r].chunks = 0 /\ req'[r].chunks = req[r].chunks - One(Partial(Pending, r))
          BY <3>2, <4>1, <5>2 DEF GotToken
        <5>4. req'[r].chunks \in Nat
          BY DEF ReqType
        <5>5. One(Partial(Pending, r)) \in {0, 1}
          BY DEF One
        <5> QED
          BY <4>1, <5>3, <5>4, <5>5
      <4>2. CASE i.r # r
        <5>1. req'[i.r] = req[i.r]
          BY <3>1, <4>2
        <5> QED
          BY <3>2, <3>3, <5>1
      <4> QED
        BY <4>1, <4>2
    <3> QED
      BY <1>6, <1>7, <3>1, <3>2, <3>3
  <2> QED
    BY <1>1, <2>1 DEF RunningInv
<1>12. CurInv'
  <2>1. ASSUME NEW k \in DOMAIN cur.items, NEW i, i = cur.items[k]
        PROVE  /\ Alive(i.r)'
               /\ cur.kind = "extend" => i.r \notin ReqsOf(running)
               /\ cur.kind = "extend" /\ mode.overlap =>
                     req'[i.r].st = "active" /\ (Old(i.r)' => Partial(Pending, i.r))
               /\ ~ Partial(cur, i.r) => Follows(i)'
    <3>1. i.r \in Reqs /\ i.len \in Int
      BY <1>1, <2>1, ItemFacts DEF LiveInv, TypesInv, BatchesType, BatchType
    <3>2. /\ Alive(i.r)
          /\ cur.kind = "extend" => i.r \notin ReqsOf(running)
          /\ cur.kind = "extend" /\ mode.overlap =>
                req[i.r].st = "active" /\ (Old(i.r) => Partial(Pending, i.r))
          /\ ~ Partial(cur, i.r) => Follows(i)
      BY <1>1, <2>1 DEF LiveInv, CurInv, Launched
    <3>3. ASSUME cur.kind = "extend", mode.overlap
          PROVE  req'[i.r].st = "active" /\ (Old(i.r)' => Partial(Pending, i.r))
      <4>1. CASE i.r = r
        BY <1>3, <3>2, <3>3, <4>1 DEF Ended, WasLate, GotToken
      <4>2. CASE i.r # r
        <5>1. req'[i.r] = req[i.r] /\ (Old(i.r)' <=> Old(i.r))
          BY <1>3, <3>1, <4>2
        <5> QED
          BY <3>2, <3>3, <5>1
      <4> QED
        BY <4>1, <4>2
    <3> QED
      BY <1>6, <1>7, <3>1, <3>2, <3>3
  <2>2. ReqsOf(running)' = ReqsOf(running)
    BY <1>1 DEF ReqsOf
  <2>3. /\ cur.kind = "decode" => running = cur.items
        /\ chunked = cur.chunked
    BY <1>1 DEF LiveInv, CurInv, Launched
  <2> QED
    BY <1>1, <1>4, <2>1, <2>2, <2>3 DEF CurInv
<1>13. ChunkedInv'
  <2>1. PICK c : c = chunked
    OBVIOUS
  <2>2. Due(chunked)' = Due(c)' /\ ReqsOf(running)' = ReqsOf(running) /\ chunked' = c
    BY <1>1, <2>1 DEF ReqsOf
  <2>3. /\ c \in Reqs \cup {None}
        /\ c # None => req[c].st = "active" /\ c \notin ReqsOf(running) /\ Due(c) = 0
    BY <1>1, <2>1 DEF LiveInv, ChunkedInv
  <2>4. ASSUME c # None PROVE req'[c].st = "active" /\ Due(c)' = 0
    <3>1. CASE c = r
      <4>1. Partial(Pending, r)
        BY <1>3, <2>3, <2>4, <3>1
      <4>2. GotToken(r)
        BY <2>3, <2>4, <3>1, <4>1 DEF Ended, WasLate
      <4>3. Due(r)' = 0
        BY <1>3, <2>3, <2>4, <3>1, <4>1 DEF One
      <4> QED
        BY <3>1, <4>2, <4>3 DEF GotToken
    <3>2. CASE c # r
      <4>1. req'[c] = req[c] /\ Due(c)' = Due(c)
        BY <1>3, <2>3, <2>4, <3>2
      <4> QED
        BY <2>3, <2>4, <4>1
    <3> QED
      BY <3>1, <3>2
  <2> QED
    BY <1>1, <2>2, <2>3, <2>4 DEF ChunkedInv
<1>14. LastInv' /\ AdderInv'
  BY <1>1 DEF LastInv, AdderInv
<1>15. QueueInv'
  <2>1. JustLaunched' <=> JustLaunched
    BY <1>1 DEF JustLaunched
  <2>2. Same(last, Pending)' <=> Same(last, Pending)
    BY <1>1, <1>3 DEF Same
  <2>3. QueueShape' <=> QueueShape
    BY <1>1, <1>3, <2>1, <2>2 DEF QueueShape
  <2> QED
    BY <1>1, <2>3 DEF QueueInv, Launched
<1> QED
  BY <1>8, <1>9, <1>10, <1>11, <1>12, <1>13, <1>14, <1>15 DEF OrderInv, LiveInv

\* Three things a result can mean: the request has ended before, it has one
\* chunk more, or it has one token more.
LEMMA ProcessKeeps == ASSUME OrderInv, ProcessItem PROVE OrderInv'
<1> DEFINE k == todo + 1
<1>1. /\ LiveInv /\ pc = "process" /\ pc' = "process"
      /\ todo < Len(Pending.items)
      /\ ProcessLate(k) \/ ProcessChunk(k) \/ ProcessToken(k)
      /\ todo' = todo + 1
      /\ UNCHANGED <<mode, running, chunked, last, cur, queue, adder, ratio>>
  BY DEF OrderInv, ProcessItem, batches
<1>2. TypesInv /\ MemoryType /\ ReqsType
  BY <1>1 DEF LiveInv, TypesInv
<1>3. Items(Pending.items) /\ todo \in Nat /\ k \in DOMAIN Pending.items
      /\ k \in todo + 1 .. Len(Pending.items)
  <2>1. Items(Pending.items) /\ todo \in 0 .. Len(Pending.items)
    BY <1>2 DEF TypesInv, BatchesType, BatchType
  <2> QED
    BY <1>1, <2>1, ItemFacts
<1>4. PICK i : i = Pending.items[k]
  OBVIOUS
<1>5. PICK r \in Reqs : r = i.r
  BY <1>3, <1>4, ItemFacts
<1>6. Applied(r)
  BY <1>1, <1>4, <1>5 DEF Applied
<1>7. ReqType(r, req[r]) /\ DOMAIN req = Reqs /\ MaxNew(r) \in Nat
  BY <1>2, Constants DEF ReqsType
<1>8. CanStore(req[r]) /\ req[r].out \in Nat
  BY <1>7 DEF CanStore, ReqType
<1>9. Partial(Pending, r) => Chunks(r) # 0
  BY <1>3, <1>6, AppliedFlight
<1>10. req[r].st = "active" /\ req[r].chunks # 0 => Partial(Pending, r)
  BY <1>1, <1>3, <1>4, <1>5 DEF LiveInv, OldInv
<1>11. req[r].st = "active" /\ req[r].chunks = 0 => ~ Partial(Pending, r)
  BY <1>1, <1>9 DEF LiveInv, ActiveInv
<1> HIDE DEF k
<1>12. CASE ProcessLate(k)
  <2>1. /\ Delayed(i) /\ free' = Freed(free, LateSlot(k))
        /\ UNCHANGED <<req, cache, rows, freeRows>>
    BY <1>4, <1>12 DEF ProcessLate
  <2>2. req[r].st # "active"
    BY <1>5, <1>7, <2>1 DEF Delayed, ReqType
  <2>3. IsSeq(LateSlot(k))
    BY EmptyIsSeq DEF LateSlot
  <2>4. MemoryType'
    BY <1>1, <1>2, <2>1, <2>3, FreeListType DEF MemoryType
  <2>5. WasLate(r)
    BY <2>1, <2>2 DEF WasLate
  <2> QED
    BY <1>6, <1>7, <2>1, <2>4, <2>5, AppliedKeeps
<1>13. CASE ProcessChunk(k)
  <2> DEFINE x == [req[r] EXCEPT !.chunks = @ - 1]
  <2>1. req[r].chunks > 0 /\ req' = [req EXCEPT ![r] = x] /\ UNCHANGED memory
    BY <1>4, <1>5, <1>13 DEF ProcessChunk
  <2>2. req[r].st = "active"
    BY <1>7, <2>1 DEF ReqType
  <2>3. Partial(Pending, r)
    BY <1>7, <1>10, <2>1, <2>2
  <2>4. ReqType(r, x) /\ x.st = "active" /\ x.out = req[r].out /\ x.chunks = req[r].chunks - 1
    BY <1>7, <2>1, <2>2 DEF ReqType, NewReq
  <2> HIDE DEF x
  <2>5. DOMAIN req' = Reqs /\ req'[r] = x /\ \A q \in Reqs \ {r} : req'[q] = req[q]
    BY <1>7, <2>1
  <2>6. GotToken(r)
    BY <1>8, <2>2, <2>3, <2>4, <2>5 DEF GotToken, One
  <2>7. MemoryType'
    BY <1>1, <1>2, <2>1 DEF MemoryType, memory
  <2> QED
    BY <1>6, <2>4, <2>5, <2>6, <2>7, AppliedKeeps
<1>14. CASE ProcessToken(k)
  <2> DEFINE rec == [req[r] EXCEPT !.out = @ + 1]
             ends == rec.abort \/ rec.out >= MaxNew(r)
  <2>1. /\ rec.out = req[r].out + 1 /\ CanStore(rec)
        /\ rec.st = req[r].st /\ rec.chunks = req[r].chunks
        /\ DOMAIN rec = DOMAIN NewReq
    BY <1>7, <1>8 DEF CanStore, ReqType, NewReq
  <2>2. rec.st = "active" /\ rec.chunks = 0 /\ ~ rec.retracted
    BY <1>4, <1>5, <1>14 DEF ProcessToken
  <2>3. ~ Partial(Pending, r)
    BY <1>11, <2>1, <2>2
  <2>4. rec.out \in 0 .. MaxNew(r) /\ (~ ends => rec.out < MaxNew(r))
    BY <1>7, <1>8, <2>1, <2>2 DEF ReqType
  <2>5. CASE /\ LET after == CacheFinished(r, rec, TRUE)
                IN  cache' = after.cache /\ free' = after.free
             /\ freeRows' = [freeRows EXCEPT ![rec.row] = @ + 1]
             /\ req' = [req EXCEPT ![r] = [NewReq EXCEPT !.st = "done", !.out = rec.out]]
    <3> DEFINE x == [NewReq EXCEPT !.st = "done", !.out = rec.out]
    <3>1. ReqType(r, x) /\ x.st = "done"
      BY <2>4, EmptyIsSeq DEF ReqType, NewReq
    <3>2. req' = [req EXCEPT ![r] = x]
      BY <2>5
    <3>3. CacheType(cache') /\ free' \in [Slots -> Int]
      <4> HIDE DEF rec
      <4>1. rec.out \in Int
        BY <1>8, <2>1
      <4>2. PICK after : after = CacheFinished(r, rec, TRUE)
        OBVIOUS
      <4>3. CacheType(after.cache) /\ after.free \in [Slots -> Int]
        BY <1>2, <2>1, <4>1, <4>2, FinishedFacts
      <4>4. cache' = after.cache /\ free' = after.free
        BY <2>5, <4>2
      <4> QED
        BY <4>3, <4>4
    <3>4. DOMAIN freeRows' = Rows /\ ratio' \in Int
      BY <1>1, <1>2, <2>5 DEF MemoryType
    <3> HIDE DEF x, rec
    <3>5. DOMAIN req' = Reqs /\ req'[r] = x /\ \A q \in Reqs \ {r} : req'[q] = req[q]
      BY <1>7, <3>2
    <3>6. Ended(r)
      BY <2>1, <2>2, <2>3, <3>1, <3>5 DEF Ended
    <3>7. MemoryType'
      BY <3>3, <3>4 DEF MemoryType
    <3> QED
      BY <1>6, <3>1, <3>5, <3>6, <3>7, AppliedKeeps
  <2>6. CASE /\ ~ ends
             /\ LET after == CacheUnfinished(r, rec)
                IN  /\ cache' = after.cache /\ free' = after.free
                    /\ req' = [req EXCEPT ![r] = [rec EXCEPT !.pre = after.slots,
                                                             !.node = after.node]]
             /\ freeRows' = freeRows
    <3>1. PICK after : after = CacheUnfinished(r, rec)
      OBVIOUS
    <3>2. /\ cache' = after.cache /\ free' = after.free
          /\ req' = [req EXCEPT ![r] = [rec EXCEPT !.pre = after.slots, !.node = after.node]]
      BY <2>6, <3>1
    <3>3. /\ CacheType(after.cache) /\ after.free \in [Slots -> Int]
          /\ IsSeq(after.slots) /\ IsSeq(after.node)
      BY <1>2, <2>1, <3>1, UnfinishedFacts
    <3> HIDE DEF rec
    <3> DEFINE x == [rec EXCEPT !.pre = after.slots, !.node = after.node]
    <3>4. /\ DOMAIN x = DOMAIN NewReq
          /\ x.pre = after.slots /\ x.node = after.node
          /\ x.st = rec.st /\ x.out = rec.out /\ x.fill = rec.fill /\ x.chunks = rec.chunks
          /\ x.retracted = rec.retracted
      BY <2>1 DEF NewReq
    <3> HIDE DEF x
    <3>5. rec.fill \in Int /\ rec.out < MaxNew(r)
      BY <2>1, <2>4, <2>6 DEF CanStore
    <3>6. ReqType(r, x)
      BY <2>2, <2>4, <3>3, <3>4, <3>5 DEF ReqType
    <3>7. DOMAIN req' = Reqs /\ req'[r] = x /\ \A q \in Reqs \ {r} : req'[q] = req[q]
      BY <1>7, <3>2 DEF x
    <3>8. GotToken(r)
      BY <1>8, <2>1, <2>2, <2>3, <3>4, <3>7 DEF GotToken, One
    <3>9. MemoryType'
      BY <1>1, <1>2, <2>6, <3>2, <3>3 DEF MemoryType
    <3> QED
      BY <1>6, <3>6, <3>7, <3>8, <3>9, AppliedKeeps
  <2>7. CASE ~ ends /\ req' = [req EXCEPT ![r] = rec] /\ UNCHANGED memory
    <3>1. ReqType(r, rec)
      BY <1>7, <2>1, <2>2, <2>4, <2>7 DEF ReqType
    <3>2. MemoryType'
      BY <1>1, <1>2, <2>7 DEF MemoryType, memory
    <3> HIDE DEF rec
    <3>3. DOMAIN req' = Reqs /\ req'[r] = rec /\ \A q \in Reqs \ {r} : req'[q] = req[q]
      BY <1>7, <2>7
    <3>4. GotToken(r)
      BY <1>8, <2>1, <2>2, <2>3, <3>3 DEF GotToken, One
    <3> QED
      BY <1>6, <3>1, <3>2, <3>3, <3>4, AppliedKeeps
  <2> QED
    <3> HIDE DEF ends
    <3> QED
      BY <1>4, <1>5, <1>14, <2>5, <2>6, <2>7 DEF ProcessToken, ends
<1> QED
  BY <1>1, <1>12, <1>13, <1>14 DEF k

-----------------------------------------------------------------------------
(* The results.                                                             *)

\* A flush that takes nobody's memory, the one http_server.py:615 promises.
SparingFlush == FlushCache => \A r \in Reqs : req[r].st # "active"

LEMMA NextKeeps == ASSUME OrderInv, [Next /\ SparingFlush]_vars PROVE OrderInv'
<1>1. CASE UNCHANGED vars
  <2>1. UNCHANGED <<mode, pc, req, cache, free, rows, freeRows, running, full, chunked,
                    last, cur, queue, adder, ratio, todo>>
    BY <1>1 DEF vars, memory, batches
  <2>2. Pending' = Pending /\ After' = After
    BY <2>1 DEF Pending, After
  <2>3. \A r : /\ Old(r)' <=> Old(r)
               /\ Alive(r)' <=> Alive(r)
               /\ Due(r)' = Due(r) /\ Chunks(r)' = Chunks(r)
    BY <2>1, <2>2 DEF Old, New, Due, Chunks, Partial, Alive, ReqsOf
  <2>4. \A i : Follows(i)' <=> Follows(i)
    BY <2>1, <2>3 DEF Follows
  <2>5. TypesInv => TypesInv'
    BY <2>1, <2>2 DEF TypesInv, MemoryType, ReqsType, ReqType, BatchesType, BatchType,
                      Items, Item, ReqsOf
  <2>6. (OldInv => OldInv') /\ (ActiveInv => ActiveInv') /\ (RunningInv => RunningInv')
    BY <2>1, <2>2, <2>3, <2>4 DEF OldInv, ActiveInv, RunningInv, Planning, Partial
  <2>7. (CurInv => CurInv') /\ (LastInv => LastInv')
    BY <2>1, <2>2, <2>3, <2>4 DEF CurInv, LastInv, Launched, Partial, ReqsOf
  <2>8. ChunkedInv => ChunkedInv'
    <3>1. PICK c : c = chunked
      OBVIOUS
    <3>2. Due(chunked)' = Due(c)' /\ Due(c)' = Due(chunked)
      BY <2>1, <2>3, <3>1
    <3> QED
      BY <2>1, <3>2 DEF ChunkedInv, ReqsOf
  <2>9. AdderInv => AdderInv'
    BY <2>1, <2>3 DEF AdderInv, Exhausted, Remaining, Count, PartlyFilled, ReqsOf
  <2>10. QueueInv => QueueInv'
    BY <2>1, <2>2 DEF QueueInv, QueueShape, Same, JustLaunched, Launched
  <2> QED
    BY <2>1, <2>5, <2>6, <2>7, <2>8, <2>9, <2>10 DEF OrderInv, LiveInv
<1>2. CASE SchedulerStep
  BY <1>2, StashKeeps, MergeKeeps, NoPrefillKeeps, StartKeeps, AdmitKeeps, LaunchKeeps,
     UpdateRunningKeeps, RetractKeeps, PrepareKeeps, RunKeeps, ProcessKeeps, EndKeeps,
     IdleKeeps DEF SchedulerStep
<1>3. CASE \/ \E r \in Reqs : Arrive(r)
           \/ \E r \in MayAbort : Abort(r)
  <2>1. MayAbort \subseteq Reqs
    BY SchedulerAssumption
  <2> QED
    BY <1>3, <2>1, ArrivalKeeps
<1>4. CASE FlushCache /\ SparingFlush
  BY <1>4, FlushKeeps DEF SparingFlush
<1> QED
  BY <1>1, <1>2, <1>3, <1>4 DEF Next

LEMMA OrderHolds == Spec /\ FlushSparesRequests => []OrderInv
<1>1. [Next]_vars /\ [FlushCache => \A r \in Reqs : req[r].st # "active"]_vars
         => [Next /\ SparingFlush]_vars
  BY DEF SparingFlush
<1>2. OrderInv /\ [Next]_vars /\ [FlushCache => \A r \in Reqs : req[r].st # "active"]_vars
         => OrderInv'
  BY <1>1, NextKeeps
<1> QED
  BY <1>2, InitKeeps, PTL DEF Spec, FlushSparesRequests

\* process_batch_result meets every request as it was when its batch was
\* launched, or later than it can tell: one that was retracted, that ended or
\* that is due a chunk without a token. So it is with and without the overlap
\* loop, whatever is retracted, aborted or chunked in between, as long as
\* flush_cache takes no request's memory.
THEOREM ResultsApplied == Spec /\ FlushSparesRequests => []ResultsInOrder
<1>1. OrderInv => ResultsInOrder
  <2> SUFFICES ASSUME OrderInv, pc = "process", todo < Len(Pending.items),
                      NEW i, i = Pending.items[todo + 1],
                      req[i.r].st = "active", req[i.r].chunks = 0
               PROVE  i.len = Len(Prompt[i.r]) + req[i.r].out
    BY DEF ResultsInOrder
  <2>1. LiveInv
    BY DEF OrderInv
  <2>2. Items(Pending.items) /\ todo \in 0 .. Len(Pending.items)
    BY <2>1 DEF LiveInv, TypesInv, BatchesType, BatchType
  <2>3. todo + 1 \in todo + 1 .. Len(Pending.items) /\ todo + 1 \in DOMAIN Pending.items
    BY <2>2, ItemFacts
  <2>4. i.r \in Reqs /\ Old(i.r)
    BY <2>2, <2>3, ItemFacts DEF Old
  <2>5. Chunks(i.r) = 0
    BY <2>1, <2>4 DEF LiveInv, ActiveInv
  <2>6. ~ Partial(Pending, i.r)
    BY <2>4, <2>5 DEF Chunks, One
  <2> QED
    BY <2>1, <2>3, <2>6 DEF LiveInv, OldInv
<1> QED
  BY <1>1, OrderHolds, PTL

\* The result queue of event_loop_overlap: popleft never meets an empty deque,
\* no result waits longer than one iteration, and without the overlap loop
\* there is none, as long as flush_cache takes no request's memory.
THEOREM ResultQueue == Spec /\ FlushSparesRequests => []OneResultDue
<1>1. OrderInv => OneResultDue
  <2> SUFFICES ASSUME QueueInv PROVE OneResultDue
    BY DEF OrderInv
  <2>1. CASE ~ mode.overlap
    BY <2>1 DEF QueueInv, OneResultDue
  <2>2. CASE mode.overlap
    <3>1. QueueShape
      BY <2>2 DEF QueueInv
    <3> DEFINE waits == IF last.kind = "none" THEN 0 ELSE 1
               launched == IF JustLaunched THEN 1 ELSE 0
    <3>2. /\ waits = 0 /\ launched = 0 => queue = <<>>
          /\ waits = 0 /\ launched = 1 => queue = <<cur>>
          /\ waits = 1 /\ launched = 0 => queue = <<Pending>>
          /\ waits = 1 /\ launched = 1 => queue = <<Pending, cur>>
      BY <3>1 DEF QueueShape
    <3>3. waits \in {0, 1} /\ launched \in {0, 1}
      OBVIOUS
    <3> HIDE DEF waits, launched
    <3>4. \A a, b : Len(<<>>) = 0 /\ Len(<<a>>) = 1 /\ Len(<<a, b>>) = 2
      OBVIOUS
    <3>5. Len(queue) = waits + launched
      <4>1. CASE waits = 0 /\ launched = 0
        BY <3>2, <3>4, <4>1
      <4>2. CASE waits = 0 /\ launched = 1
        <5>1. Len(queue) = 1
          BY <3>2, <3>4, <4>2
        <5> QED
          BY <4>2, <5>1
      <4>3. CASE waits = 1 /\ launched = 0
        <5>1. Len(queue) = 1
          BY <3>2, <3>4, <4>3
        <5> QED
          BY <4>3, <5>1
      <4>4. CASE waits = 1 /\ launched = 1
        <5>1. Len(queue) = 2
          BY <3>2, <3>4, <4>4
        <5> QED
          BY <4>4, <5>1
      <4> QED
        BY <3>3, <4>1, <4>2, <4>3, <4>4
    <3> QED
      BY <2>2, <3>5 DEF waits, launched, JustLaunched, OneResultDue
  <2> QED
    BY <2>1, <2>2
<1> QED
  BY <1>1, OrderHolds, PTL
=============================================================================
