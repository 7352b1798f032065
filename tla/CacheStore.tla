----------------------------- MODULE CacheStore -----------------------------
(***************************************************************************)
(* What the cache files promise to the runs of the experiment, whatever is *)
(* on disk: per sample a chunk cache, shared by the baselines, and at most *)
(* one query cache.  A run serves the samples in order, each from a whole  *)
(* chunk cache and the whole query cache of its own baseline.  Before that *)
(* it may compute caches anew, but never takes one from a sample that has  *)
(* the query cache it wants, and makes query caches of its own baseline    *)
(* only.  A run may stop anywhere, and stopping changes no cache.          *)
(***************************************************************************)
EXTENDS Naturals

CONSTANTS Samples, Baselines, None

VARIABLES
    chunks,   \* the samples that have a whole chunk cache
    query,    \* the baseline whose query cache a sample has, or None
    user,     \* the baseline of the current run
    served    \* how many samples it has served

vars == <<chunks, query, user, served>>

Init ==
    /\ chunks = {}
    /\ query = [s \in Samples |-> None]
    /\ user \in Baselines
    /\ served = 0

StartRun ==
    /\ user' \in Baselines
    /\ served' = 0
    /\ UNCHANGED <<chunks, query>>

\* a run takes away a chunk cache to compute it anew, never one that comes
\* with the query cache it wants
Invalidate(s) ==
    /\ served = 0
    /\ query[s] # user
    /\ chunks' = chunks \ {s}
    /\ UNCHANGED <<query, user, served>>

\* the new chunk cache is complete; the query cache there was may go
SaveChunks(s) ==
    /\ served = 0
    /\ query[s] # user
    /\ chunks' = chunks \cup {s}
    /\ query' \in {query, [query EXCEPT ![s] = None]}
    /\ UNCHANGED <<user, served>>

SaveQuery(s) ==
    /\ served = 0
    /\ s \in chunks
    /\ query' = [query EXCEPT ![s] = user]
    /\ UNCHANGED <<chunks, user, served>>

Serve ==
    /\ served \in Samples
    /\ served \in chunks /\ query[served] = user
    /\ served' = served + 1
    /\ UNCHANGED <<chunks, query, user>>

\* a crash, a run that gives up, a server that dies
Stop == served' = 0 /\ UNCHANGED <<chunks, query, user>>

Next == \/ StartRun \/ Serve \/ Stop
        \/ \E s \in Samples : Invalidate(s) \/ SaveChunks(s) \/ SaveQuery(s)

Spec == Init /\ [][Next]_vars
=============================================================================
