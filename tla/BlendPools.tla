----------------------------- MODULE BlendPools -----------------------------
(***************************************************************************)
(* The process-wide KV pools of srt/utils/cache_blender_info.py            *)
(* (HackBlendKVPool, ContextBlendPool) as values, with the class methods   *)
(* that the loader threads and the scheduler thread call on them as        *)
(* operators.                                                              *)
(*                                                                         *)
(* A pool is a Python list of per-layer tensors.  Its length matters       *)
(* (writing past it raises IndexError, put_kv grows it), so a pool is a    *)
(* record [len, kv]; the tensors themselves are abstracted to the sample   *)
(* they were computed for and what happened to them since.  The K list and *)
(* the V list are always written together and are one slot here.           *)
(***************************************************************************)
EXTENDS Integers

CONSTANTS
    NumLayers,  \* model_config.num_hidden_layers
    Samples,    \* the samples: each has a chunk and a query cache directory
    None        \* an empty slot (Python None)

Layers == 0 .. NumLayers - 1

(***************************************************************************)
(* "raw"     : the KV the model computed for the sample, before RoPE       *)
(* "blended" : rotated in place and partly overwritten by CacheBlender     *)
(* "joined"  : put_kv/put_q concatenated onto what the slot already held   *)
(* "garbled" : bytes of one directory read with the metadata of another,   *)
(*             or of a cache that was saved wrong                          *)
(***************************************************************************)
Forms == {"raw", "blended", "joined", "garbled"}
KV == [of : Samples, form : Forms]
Raw(s) == [of |-> s, form |-> "raw"]

ASSUME PoolAssumption ==
    /\ NumLayers \in Nat \ {0}
    /\ None \notin KV
    /\ None \notin Samples

Pools == [len : 0 .. NumLayers, kv : [Layers -> KV \cup {None}]]

Cleared  == [len |-> 0, kv |-> [l \in Layers |-> None]]
Prepared == [len |-> NumLayers, kv |-> [l \in Layers |-> None]]

HasKV(pool, l) == l < pool.len /\ pool.kv[l] # None

\* k_buffer[l] = tensor; raises IndexError unless l < pool.len
Stored(pool, l, kv) == [pool EXCEPT !.kv[l] = kv]

\* faulty variant: the list grows one entry too far
Appended_TooLong(pool, l, s) ==
    [len |-> l + 2, kv |-> [pool.kv EXCEPT ![l] = Raw(s)]]

\* put_kv, put_q: grow the list, then set or concatenate
Appended(pool, l, s) ==
    [len |-> IF pool.len > l THEN pool.len ELSE l + 1,
     kv  |-> [pool.kv EXCEPT ![l] =
                IF @ = None THEN Raw(s) ELSE [of |-> s, form |-> "joined"]]]

\* faulty variant: clear_layer is forgotten
KeptOnly_All(pool, keep) == pool

\* clear_layer on every layer outside keep
KeptOnly(pool, keep) ==
    [pool EXCEPT !.kv = [l \in Layers |-> IF l \in keep THEN @[l] ELSE None]]

\* every layer of S holds the untouched KV of sample s
AllRaw(pool, S, s) == \A l \in S : pool.kv[l] = Raw(s)
=============================================================================
