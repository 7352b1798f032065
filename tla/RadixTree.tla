------------------------------ MODULE RadixTree -------------------------------
(***************************************************************************)
(* The prefix tree of RadixCache (page_size 1), as operators.  A node is   *)
(* named by the tokens from the root to its end: its key is what is left   *)
(* of them after its parent's.  A split puts a new node above a node and   *)
(* leaves that node its name.                                              *)
(*                                                                         *)
(* tree: path -> [slots, lock], slots the KV slots of the node's key.      *)
(* cache: [tree, evictable, protected], with evictable_size_ and           *)
(* protected_size_ as the code counts them.                                *)
(***************************************************************************)
EXTENDS Integers, TLC, SequencesExt, FiniteSetsExt, Numbers

Upto(s, n) == SubSeq(s, 1, n)

EmptyCache == [tree |-> <<>>, evictable |-> 0, protected |-> 0]

Below(tree, prefix) == {p \in DOMAIN tree : IsPrefix(prefix, p)}
Above(tree, path) == {p \in DOMAIN tree : IsPrefix(p, path)}
Shortest(paths) == CHOOSE p \in paths : \A q \in paths : Len(p) <= Len(q)
ParentLen(tree, path) ==
    Max({0} \cup {Len(q) : q \in Above(tree, path) \ {path}})
KeyLen(tree, path) == Len(tree[path].slots)
KeyLens(tree, paths) == Total([p \in paths |-> KeyLen(tree, p)])

\* _match_prefix_helper: how many tokens of key the tree holds
MatchLen(tree, key) ==
    Max({0} \cup {n \in 1 .. Len(key) : Below(tree, Upto(key, n)) # {}})

\* the slots of the first n tokens of key
SlotsOf(tree, key, n) ==
    [k \in 1 .. n |->
        LET p == Shortest(Below(tree, Upto(key, k)))
        IN  tree[p].slots[k - ParentLen(tree, p)]]

\* one more node
AddNode(tree, path, node) ==
    [p \in DOMAIN tree \cup {path} |-> IF p = path THEN node ELSE tree[p]]

\* faulty variant: the upper half of a split node is not locked
SplitAt_Unlocked(tree, path) ==
    IF path = <<>> \/ path \in DOMAIN tree THEN tree
    ELSE LET low == Shortest(Below(tree, path))
             k == Len(path) - ParentLen(tree, low)
         IN  AddNode([tree EXCEPT ![low].slots = SubSeq(@, k + 1, Len(@))],
                     path, [slots |-> Upto(tree[low].slots, k), lock |-> 0])

\* _split_node, where a match ends inside a node
SplitAt(tree, path) ==
    IF path = <<>> \/ path \in DOMAIN tree THEN tree
    ELSE LET low == Shortest(Below(tree, path))
             k == Len(path) - ParentLen(tree, low)
         IN  AddNode([tree EXCEPT ![low].slots = SubSeq(@, k + 1, Len(@))],
                     path, [slots |-> Upto(tree[low].slots, k), lock |-> tree[low].lock])

\* match_prefix: the tree it leaves
Matched(cache, key) ==
    [cache EXCEPT !.tree = SplitAt(@, Upto(key, MatchLen(@, key)))]

\* insert: what is not there yet becomes a leaf
Inserted(cache, key, slots) ==
    LET n == MatchLen(cache.tree, key)
        split == SplitAt(cache.tree, Upto(key, n))
    IN  IF n = Len(key) THEN [cache EXCEPT !.tree = split]
        ELSE [cache EXCEPT
                !.tree = AddNode(split, key,
                                 [slots |-> SubSeq(slots, n + 1, Len(key)), lock |-> 0]),
                !.evictable = @ + Len(key) - n]

\* inc_lock_ref and dec_lock_ref, from a node up to the root
Relocked(cache, path, d, edge) ==
    LET up == Above(cache.tree, path)
        moved == KeyLens(cache.tree, {p \in up : cache.tree[p].lock = edge})
    IN  [tree |-> [p \in DOMAIN cache.tree |->
                      IF p \in up THEN [cache.tree[p] EXCEPT !.lock = @ + d]
                                  ELSE cache.tree[p]],
         evictable |-> cache.evictable - d * moved,
         protected |-> cache.protected + d * moved]
IncLock(cache, path) == Relocked(cache, path, 1, 0)
DecLock(cache, path) == Relocked(cache, path, -1, 1)

Evictable(tree) == {p \in DOMAIN tree : tree[p].lock = 0}

\* evict: leaf after leaf, in an order the policy chooses, until need tokens
\* are gone or no unlocked leaf is left
Evictions(tree, need) ==
    LET free == Evictable(tree)
    IN  {gone \in SUBSET free :
            /\ \A p \in gone : Below(tree, p) \subseteq gone
            /\ \/ KeyLens(tree, gone) >= need
               \/ \A p \in free \ gone : ~ (Below(tree, p) \subseteq gone \cup {p})
            /\ \/ gone = {}
               \/ \E p \in gone : /\ Above(tree, p) \cap gone = {p}
                                  /\ KeyLens(tree, gone \ {p}) < need}
Evicted(cache, gone) ==
    [cache EXCEPT !.tree = [p \in DOMAIN cache.tree \ gone |-> cache.tree[p]],
                  !.evictable = @ - KeyLens(cache.tree, gone)]
SlotsIn(tree, paths) == UNION {ToSet(tree[p].slots) : p \in paths}
=============================================================================
