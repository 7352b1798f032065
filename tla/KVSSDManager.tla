---------------------------- MODULE KVSSDManager ----------------------------
(***************************************************************************)
(* srt/utils/kv_ssd_manager.py, online half: the class-level state of      *)
(* KVSSDManager, the two KV pools it fills, and the daemon threads that    *)
(* read a sample's caches from SSD while the scheduler thread runs the     *)
(* model.  The operations the scheduler calls are operators here; the      *)
(* scheduler itself is module BlendServer.                                 *)
(***************************************************************************)
EXTENDS BlendPools, FiniteSets

CONSTANTS
    Critical,   \* critical_layers of the requests
    Start,      \* start: the layer at which DO_BLEND selects the tokens
    Reqs,       \* the requests; each starts its loader threads at most once
                \* at a time
    IOErrors    \* TRUE: any metadata or layer read may raise

VARIABLES
    mode,   \* _online / _offline: at most one of the two flags is ever set
    dir,    \* _sample_dir_chunk, _sample_dir_query: the sample they belong to
    ready,  \* _layer_ready_events: the layers whose event is set
    taskB,  \* task_b_event
    err,    \* _loader_error is not None
    hack,   \* HackBlendKVPool.k_buffer / v_buffer
    ctx,    \* ContextBlendPool.k_buffer / v_buffer
    disk,   \* the caches of a sample: "absent", "good", "bad" (saved wrong)
    thr     \* the loader threads

mgrVars == <<mode, dir, ready, taskB, err>>

\* qcompute_end = max(critical_layers) + 1
LastCritical == CHOOSE m \in Critical : \A c \in Critical : c <= m
QEnd == LastCritical + 1

ASSUME ManagerAssumption ==
    /\ Critical \in SUBSET Layers
    /\ \E m \in Critical : \A c \in Critical : c <= m
    /\ Start \in Layers
    /\ Start < NumLayers - 1   \* so the prefetch always has a layer to load
    /\ IOErrors \in BOOLEAN

DigestLayers == 0 .. QEnd - 1
BlendLayers  == Start + 1 .. NumLayers - 1  \* prefetch_from .. num_layers - 1

(***************************************************************************)
(* Loader threads.  A thread is named by the request whose preparation     *)
(* started it and by its kind:                                             *)
(*   query    ssd-query-cache-prefetch, checks and starts the next two     *)
(*   digest   ssd-query-digest-prefetch                                    *)
(*   critical ssd-query-critical-prefetch                                  *)
(*   taskb    ssd-task-b-prefetch                                          *)
(*   blend    ssd-do-blend-prefetch                                        *)
(* meta is the directory whose metadata it holds, file the one it last     *)
(* opened, kv the layer it has read and not yet put into a pool.           *)
(***************************************************************************)
Kinds == {"query", "digest", "critical", "taskb", "blend"}
Threads == Reqs \X Kinds
Kind(t) == t[2]

PCs == {"off",      \* not started, or returned
        "meta",     \* about to load or check the metadata
        "check",    \* about to test has_kv(next layer)
        "load", "put", "set",
        "enter",    \* about to call wait_layer_ready(0)
        "blocked",  \* inside Event.wait() on the current event list
        "orphaned", \* inside Event.wait() on a list configure() replaced
        "woken",    \* wait() returned, the error check is still to come
        "finish",   \* load_fn returned; task_b_event.set() to come
        "fail"}     \* an exception is recorded; the waiters to be released

Thread == [pc : PCs, todo : SUBSET Layers, meta : Samples \cup {None},
           file : Samples \cup {None}, kv : KV \cup {None}]
Off == [pc |-> "off", todo |-> {}, meta |-> None, file |-> None, kv |-> None]

At(t, pc) == thr[t].pc = pc
Live(t) == ~ At(t, "off")

\* faulty variant: a failing loader wakes nobody who waits for a layer
Release_Nothing(kind) == {}

\* release_layer_ids and release_task_b of each loader
Release(kind) == CASE kind = "query"    -> DigestLayers \cup Critical
                   [] kind = "digest"   -> DigestLayers
                   [] kind = "critical" -> Critical
                   [] kind = "taskb"    -> Critical
                   [] kind = "blend"    -> BlendLayers
\* faulty variant: a failing loader leaves task_b_event unset
ReleasesTaskB_Never(kind) == FALSE
ReleasesTaskB(kind) == kind \in {"query", "critical", "taskb"}

ManagerTypeOK ==
    /\ mode \in {"none", "online", "offline"}
    /\ dir \in Samples \cup {None}
    /\ ready \in SUBSET Layers
    /\ taskB \in BOOLEAN
    /\ err \in BOOLEAN
    /\ hack \in Pools
    /\ ctx \in Pools
    /\ disk \in [Samples -> {"absent", "good", "bad"}]
    /\ thr \in [Threads -> Thread]

ManagerInit ==
    /\ mode = "none"
    /\ dir = None
    /\ ready = {}
    /\ taskB = FALSE
    /\ err = FALSE
    /\ hack = Cleared
    /\ ctx = Cleared
    /\ disk \in [Samples -> {"absent", "good"}]
    /\ thr = [t \in Threads |-> Off]

-----------------------------------------------------------------------------
(* Operations of the scheduler thread.                                     *)

\* Event.set() on the layers of S: a thread blocked on one of them returns
\* from wait() even if the event is cleared again before it runs.  Only the
\* critical loader ever waits, and only for layer 0.
Woken(f, S) ==
    [u \in Threads |-> IF 0 \in S /\ f[u].pc = "blocked"
                       THEN [f[u] EXCEPT !.pc = "woken"] ELSE f[u]]

\* configure() installs a new event list: nobody sets the old events again
Orphaned(f) ==
    [u \in Threads |-> IF f[u].pc = "blocked"
                       THEN [f[u] EXCEPT !.pc = "orphaned"] ELSE f[u]]

Spawned(f, t, pc, todo, meta) ==
    [f EXCEPT ![t] = [Off EXCEPT !.pc = pc, !.todo = todo, !.meta = meta]]

Configure(m, s) ==
    /\ mode' = m
    /\ dir' = s
    /\ ready' = {}
    /\ taskB' = FALSE
    /\ err' = FALSE

\* reset(): the directories stay configured
Reset ==
    /\ mode' = "none"
    /\ ready' = {}
    /\ taskB' = FALSE
    /\ err' = FALSE
    /\ UNCHANGED dir

\* faulty variant: the loader error is cleared along with the events
ResetLayerEvents_AndError ==
    /\ ready' = {}
    /\ err' = FALSE
    /\ UNCHANGED <<mode, dir, taskB>>

ResetLayerEvents ==
    /\ ready' = {}
    /\ UNCHANGED <<mode, dir, taskB, err>>

\* cleanup_runtime_state()
Cleanup ==
    /\ hack' = Cleared
    /\ ctx' = Cleared
    /\ Reset

-----------------------------------------------------------------------------
(* Steps of the loader threads.                                            *)

Step(t, new) == thr' = [thr EXCEPT ![t] = new]
Goto(t, pc)  == Step(t, [thr[t] EXCEPT !.pc = pc])
Next0(t)     == CHOOSE l \in thr[t].todo : \A m \in thr[t].todo : l <= m
Rest(t)      == thr[t].todo \ {Next0(t)}

\* on to the next layer, or out of load_fn with nothing left to do
Advance(t, pc) ==
    IF Rest(t) = {} THEN Off
    ELSE [thr[t] EXCEPT !.pc = pc, !.todo = Rest(t), !.kv = None]

\* an exception leaves load_fn: _record_loader_error, then (a step later)
\* _set_layers_ready and task_b_event.set()
Raise(t) == err' = TRUE /\ Goto(t, "fail")

MayRaise(s) == IOErrors \/ disk[s] = "absent"

\* what reading a layer of directory file gives to a thread that describes
\* the bytes with the metadata of directory meta
Read(meta, file) ==
    [of |-> file,
     form |-> IF meta = file /\ disk[file] = "good" THEN "raw" ELSE "garbled"]

\* the checks of _query_worker; the metadata was read by the scheduler
StartQuery(t) ==
    /\ Kind(t) = "query" /\ At(t, "meta")
    /\ LET digest   == <<t[1], "digest">>
           critical == <<t[1], "critical">>
           started  == Spawned(Spawned(thr, digest, "meta", DigestLayers, thr[t].meta),
                               critical, "enter", Critical, thr[t].meta)
       IN  thr' = [started EXCEPT ![t] = Off]
    /\ UNCHANGED <<mgrVars, hack, ctx, disk>>

RejectQuery(t) ==
    /\ Kind(t) = "query" /\ At(t, "meta")
    /\ IOErrors
    /\ Raise(t)
    /\ UNCHANGED <<mode, dir, ready, taskB, hack, ctx, disk>>

\* _load_query_layers_progressively: the transfer pool, then the file of
\* whatever directory is configured now
OpenDigest(t) ==
    /\ Kind(t) = "digest" /\ At(t, "meta")
    /\ Step(t, [thr[t] EXCEPT !.pc = "load", !.file = dir])
    /\ UNCHANGED <<mgrVars, hack, ctx, disk>>

\* _load_packed_meta(cls._sample_dir_chunk) of start_task_b and
\* start_do_blend_prefetch
LoadMeta(t) ==
    /\ Kind(t) \in {"taskb", "blend"} /\ At(t, "meta")
    /\ disk[dir] # "absent"
    /\ Step(t, [thr[t] EXCEPT !.meta = dir,
                              !.pc = IF Kind(t) = "blend" THEN "check" ELSE "load"])
    /\ UNCHANGED <<mgrVars, hack, ctx, disk>>

FailOpen(t) ==
    /\ Kind(t) \in {"digest", "taskb", "blend"} /\ At(t, "meta")
    /\ MayRaise(dir)
    /\ Raise(t)
    /\ UNCHANGED <<mode, dir, ready, taskB, hack, ctx, disk>>

\* the has_kv test of _layerwise_worker, under hack_pool_lock
SkipLoaded(t) ==
    /\ At(t, "check")
    /\ HasKV(hack, Next0(t))
    /\ thr' = Woken([thr EXCEPT ![t] = Advance(t, "check")], {Next0(t)})
    /\ ready' = ready \cup {Next0(t)}
    /\ UNCHANGED <<mode, dir, taskB, err, hack, ctx, disk>>

FindMissing(t) ==
    /\ At(t, "check")
    /\ ~ HasKV(hack, Next0(t))
    /\ Goto(t, "load")
    /\ UNCHANGED <<mgrVars, hack, ctx, disk>>

\* SSD -> pinned buffer -> GPU, one layer (critical: the whole block).  The
\* digest loader keeps its file open; the others open the directory
\* configured at this moment.
LoadLayer(t) ==
    /\ At(t, "load")
    /\ LET file == IF Kind(t) = "digest" THEN thr[t].file ELSE dir
       IN  /\ disk[file] # "absent"
           /\ Step(t, [thr[t] EXCEPT !.pc = "put", !.file = file,
                                     !.kv = Read(thr[t].meta, file)])
    /\ UNCHANGED <<mgrVars, hack, ctx, disk>>

FailLoad(t) ==
    /\ At(t, "load")
    /\ MayRaise(IF Kind(t) = "digest" THEN thr[t].file ELSE dir)
    /\ Raise(t)
    /\ UNCHANGED <<mode, dir, ready, taskB, hack, ctx, disk>>

\* ContextBlendPool.k_buffer[l] = k under context_pool_lock
PutDigest(t) ==
    /\ Kind(t) = "digest" /\ At(t, "put")
    /\ Next0(t) < ctx.len
    /\ ctx' = Stored(ctx, Next0(t), thr[t].kv)
    /\ Step(t, [thr[t] EXCEPT !.pc = "set", !.kv = None])
    /\ UNCHANGED <<mgrVars, hack, disk>>

\* HackBlendKVPool.k_buffer[l] = k under hack_pool_lock; the prefetch then
\* sets the layer's event, the critical and the Task B loader do not
PutHack(t) ==
    /\ Kind(t) # "digest" /\ At(t, "put")
    /\ Next0(t) < hack.len
    /\ hack' = Stored(hack, Next0(t), thr[t].kv)
    /\ Step(t, CASE Kind(t) = "blend" -> [thr[t] EXCEPT !.pc = "set", !.kv = None]
                 [] Kind(t) # "blend" /\ Rest(t) = {} ->
                        [thr[t] EXCEPT !.pc = "finish", !.kv = None, !.todo = {}]
                 [] Kind(t) = "taskb" /\ Rest(t) # {} -> Advance(t, "load")
                 [] OTHER -> [thr[t] EXCEPT !.todo = Rest(t)])
    /\ UNCHANGED <<mgrVars, ctx, disk>>

\* the list was emptied under the loader: IndexError
PutOutOfRange(t) ==
    /\ At(t, "put")
    /\ Next0(t) >= (IF Kind(t) = "digest" THEN ctx.len ELSE hack.len)
    /\ Raise(t)
    /\ UNCHANGED <<mode, dir, ready, taskB, hack, ctx, disk>>

SetReady(t) ==
    /\ At(t, "set")
    /\ LET next == IF Kind(t) = "blend" THEN "check" ELSE "load"
       IN  thr' = Woken([thr EXCEPT ![t] = Advance(t, next)], {Next0(t)})
    /\ ready' = ready \cup {Next0(t)}
    /\ UNCHANGED <<mode, dir, taskB, err, hack, ctx, disk>>

\* _load_critical_layers: wait_layer_ready(digest_layer_ids[0])
EnterWait(t) ==
    /\ At(t, "enter")
    /\ Goto(t, IF 0 \in ready THEN "woken" ELSE "blocked")
    /\ UNCHANGED <<mgrVars, hack, ctx, disk>>

LeaveWait(t) ==
    /\ At(t, "woken")
    /\ IF err THEN Raise(t) ELSE Goto(t, "load") /\ UNCHANGED err
    /\ UNCHANGED <<mode, dir, ready, taskB, hack, ctx, disk>>

\* the else branch of _worker
FinishLoad(t) ==
    /\ At(t, "finish")
    /\ taskB' = TRUE
    /\ Step(t, Off)
    /\ UNCHANGED <<mode, dir, ready, err, hack, ctx, disk>>

\* the except branch of _worker, after the error is recorded
ReleaseWaiters(t) ==
    /\ At(t, "fail")
    /\ ready' = ready \cup Release(Kind(t))
    /\ taskB' = (taskB \/ ReleasesTaskB(Kind(t)))
    /\ thr' = Woken([thr EXCEPT ![t] = Off], Release(Kind(t)))
    /\ UNCHANGED <<mode, dir, err, hack, ctx, disk>>

LoaderStep(t) ==
    \/ StartQuery(t) \/ RejectQuery(t) \/ OpenDigest(t) \/ LoadMeta(t)
    \/ FailOpen(t) \/ SkipLoaded(t) \/ FindMissing(t) \/ LoadLayer(t)
    \/ FailLoad(t) \/ PutDigest(t) \/ PutHack(t) \/ PutOutOfRange(t)
    \/ SetReady(t) \/ EnterWait(t) \/ LeaveWait(t) \/ FinishLoad(t)
    \/ ReleaseWaiters(t)
=============================================================================
