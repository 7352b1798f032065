-------------------------- MODULE BlendProperties ---------------------------
(***************************************************************************)
(* What module BlendServer is checked for.                                 *)
(***************************************************************************)
EXTENDS BlendServer

(***************************************************************************)
(* Whenever the scheduler's wait at a layer is over and no loader error is *)
(* recorded, the KV it goes on to read is the untouched KV of the request's *)
(* own sample: wait_layer_ready / wait_task_b really publish the data, no   *)
(* loader of another request has written the slot, an earlier DO_BLEND      *)
(* round has neither rotated nor overwritten it, and the query vectors the  *)
(* selection reads are those of the sample's own QCOMPUTE.                  *)
(***************************************************************************)
ReadsOwnKV ==
    alive /\ Cur # None /\ Layer < LastLayer(Cur) /\ Waits /\ Released /\ ~ err =>
        LET s == Sample(Cur)
        IN  CASE Style(Cur) = "QCOMPUTE" -> ctx.kv[Layer] = Raw(s)
              [] Style(Cur) # "QCOMPUTE" /\ Selects ->
                     AllRaw(hack, Critical, s) /\ AllRaw(qbuf, Critical, s)
              [] OTHER -> hack.kv[Layer] = Raw(s)

(***************************************************************************)
(* A chunk or query cache on SSD holds the KV of its own sample only: what *)
(* put_kv appends to is empty whenever a KVCOMPUTE begins.                 *)
(***************************************************************************)
SavedCachePure == \A s \in Samples : disk[s] # "bad"

(***************************************************************************)
(* cleanup_runtime_state leaves nothing of a request behind: once the      *)
(* manager is neither online nor offline no loader thread is left that     *)
(* could still write a pool, set an event or record an error.              *)
(***************************************************************************)
NoStrayLoader == alive /\ mode = "none" => \A t \in Threads : ~ Live(t)

(***************************************************************************)
(* A loader error stays recorded until the process has died of it: no      *)
(* configure() or reset() wipes it before a waiter has raised it, so no    *)
(* request is answered after one of its loads failed.                      *)
(***************************************************************************)
ErrorSticks == [][err => err']_vars

(***************************************************************************)
(* Whatever the clients and the scheduler do, KV that one blend round has  *)
(* rotated and overwritten in place is never the input of another pass:    *)
(* outside a blend forward pass the pool holds none of it, and inside one  *)
(* only the layers already run do.                                         *)
(***************************************************************************)
Blended(l) == hack.kv[l] # None /\ hack.kv[l].form = "blended"
BlendedNeverReused ==
    alive => \A l \in Layers : Blended(l) =>
                Cur # None /\ Style(Cur) \in BlendStyles /\ l < Layer

(***************************************************************************)
(* An offline or QCOMPUTE forward pass ends, or an exception ends the      *)
(* server: every event it waits for is set by its loaders, failing ones    *)
(* included.  The exception is an is_contextblend QCOMPUTE with            *)
(* context_cache_source="none": prepare_for_extend accepts it and starts   *)
(* only the selection loader, but CacheBlender.blend waits for the event   *)
(* of every layer, so it hangs at the first one.                           *)
(***************************************************************************)
InForward(styles) == Cur # None /\ Style(Cur) \in styles
PassEnded == Cur = None \/ ~ alive
ComputeEnds ==
    InForward({"KVCOMPUTE", "QCOMPUTE"}) /\ req[Cur].job.source # "none" ~> PassEnded

(***************************************************************************)
(* A blend forward pass ends, or an exception ends the server, provided    *)
(* that the critical loader of the sample's QCOMPUTE had got past its wait *)
(* for layer 0 when the events were reset.                                 *)
(***************************************************************************)
CriticalWaits == \E t \in Threads : thr[t].pc \in {"enter", "blocked"}
BlendEnds == InForward(BlendStyles) /\ ~ CriticalWaits ~> PassEnded

-----------------------------------------------------------------------------
(* The inductive invariant behind TypeOK and BlendedNeverReused.            *)

\* a thread that is about to handle a layer has one, knows its file, and
\* carries only KV that comes from SSD
GoodLoader(x, kind) ==
    /\ x.pc \in {"check", "load", "put", "set", "enter", "blocked",
                 "orphaned", "woken"} => x.todo # {}
    /\ x.pc = "meta" /\ kind # "query" => x.todo # {}
    /\ x.pc = "check" => kind = "blend"
    /\ x.pc \in {"enter", "blocked", "orphaned", "woken"} => kind = "critical"
    /\ kind = "digest" /\ x.pc \in {"load", "put", "set"} => x.file \in Samples
    /\ x.pc = "put" => x.kv # None
    /\ x.kv # None => x.kv.form # "blended"

GoodLoaders(f) == /\ f \in [Threads -> Thread]
                  /\ \A t \in Threads : GoodLoader(f[t], Kind(t))

LoadersInv == /\ GoodLoaders(thr)
              /\ dir \in Samples \/ \A t \in Threads : ~ Live(t)

\* a submitted request has a job; the pass in progress is of such a request
RequestsInv ==
    /\ \A r \in Reqs : req[r].state # "unsent" => req[r].job \in Job
    /\ \A c \in Clients : client[c].stage = "primed" => client[c].sample \in Samples
    /\ Cur # None => req[Cur].state = "forward"
    /\ mode # "none" => dir \in Samples
    /\ Cur # None => mode # "none"
    /\ Cur # None /\ Style(Cur) \in BlendStyles => mode = "online"

\* in-place writes happen after the selection, on the layers the pass has
\* run, and on a kept layer only in the last round
BlendedInv ==
    \A l \in Layers : Blended(l) =>
        /\ Cur # None
        /\ Style(Cur) \in BlendStyles
        /\ l < Layer
        /\ Style(Cur) = "DO_BLEND" => l \notin Critical

IInv == TypeOK /\ LoadersInv /\ RequestsInv /\ BlendedInv

-----------------------------------------------------------------------------
(* The inductive invariant behind ReadsOwnKV, SavedCachePure, NoStrayLoader *)
(* and ErrorSticks, when one client keeps to the runner's protocol.  A      *)
(* session of a sample lasts from the preparation of its QCOMPUTE to the    *)
(* cleanup after its DO_BLEND_FINISH, which is as long as the manager is    *)
(* online.                                                                  *)

RunnerProtocol ==
    /\ \A c, d \in Clients : c = d
    /\ Deviations \subseteq {"retract"}

Active(r) == req[r].state \notin {"unsent", "finished"}
InSession(r) ==
    \/ Style(r) = "QCOMPUTE" /\ req[r].state # "waiting"
    \/ Style(r) = "DO_BLEND"
    \/ Style(r) = "DO_BLEND_FINISH" /\ req[r].state # "running"

\* the client has one request under way, and it belongs to the client's session
OneAtATime ==
    /\ \A r \in Reqs : req[r].state # "unsent" => req[r].client \in Clients
    /\ \A q, r \in Reqs : Active(q) /\ Active(r) => q = r
    /\ \A r \in Reqs : req[r].state = "forward" => Cur = r

SessionInv ==
    /\ \A r \in Reqs : Active(r) =>
          /\ InSession(r) <=> mode = "online"
          /\ mode = "online" => Sample(r) = dir
          /\ Style(r) = "KVCOMPUTE" /\ req[r].state = "forward" =>
                mode = "offline" /\ dir = Sample(r)
          /\ ~ req[r].job.ratio0
          /\ \A c \in Clients : client[c] = IF Style(r) \in {"QCOMPUTE", "DO_BLEND"}
                                            THEN Primed(Sample(r)) ELSE Idle
    /\ (\A r \in Reqs : ~ Active(r)) =>
          \A c \in Clients : client[c] = IF mode = "online" THEN Primed(dir) ELSE Idle

\* outside a session no loader runs, no error is pending and the KV pool is
\* empty, but for what a KVCOMPUTE pass has put there
RestInv ==
    mode # "online" =>
        /\ \A t \in Threads : ~ Live(t)
        /\ ~ err
        /\ \A l \in Layers : hack.kv[l] = IF Cur # None /\ l < Layer
                                          THEN Raw(dir) ELSE None

\* a blend pass has overwritten the layer in place
Overwritten(l) ==
    /\ InForward(BlendStyles)
    /\ Start < l /\ l < Layer
    /\ Style(Cur) = "DO_BLEND" => l \notin Critical

\* inside a session the pools hold nothing but the sample's KV, and what an
\* event announces is there
PoolsInv ==
    mode = "online" =>
        /\ \A l \in Layers : hack.kv[l] \in {None, Raw(dir)} \/ Overwritten(l)
        /\ \A l \in Layers : ctx.kv[l] \in {None, Raw(dir)}
        /\ \A l \in Layers :
              IF InForward({"QCOMPUTE"})
              THEN qbuf.kv[l] = IF l \in Critical /\ l < Layer THEN Raw(dir) ELSE None
              ELSE l \in Critical => qbuf.kv[l] = Raw(dir)
        /\ ~ err /\ taskB =>
              \A l \in Critical : hack.kv[l] = Raw(dir) \/ Overwritten(l)
        /\ ~ err /\ InForward({"QCOMPUTE"}) => \A l \in ready : ctx.kv[l] # None
        /\ ~ err /\ InForward(BlendStyles) => \A l \in ready : hack.kv[l] # None
        /\ InForward(BlendStyles) /\ Layer = NumLayers => ~ err

\* the loaders that can end in task_b_event.set()
Selecting == {"query", "critical", "taskb"}
Together(j, k) == j # k /\ "query" \notin {j, k} /\ ~ {j, k} \subseteq Selecting

\* which loaders run at which point of the session
CrewInv ==
    mode = "online" =>
        /\ \A t, u \in Threads :
              Live(t) /\ Live(u) /\ t # u => Together(Kind(t), Kind(u))
        /\ \A t \in Threads : Live(t) =>
              /\ Kind(t) \in {"query", "digest"} =>
                    InForward({"QCOMPUTE"}) /\ Layer < QEnd /\ req[Cur].job.source = "query"
              /\ Kind(t) \in Selecting =>
                    ~ taskB /\ (InForward(BlendStyles) => Layer <= Start)
              /\ Kind(t) = "blend" => InForward(BlendStyles) /\ Layer < NumLayers

\* a loader works with the metadata and the files of the session's sample, and
\* has loaded the layers it no longer has to do
OwnLoader(x, kind) ==
    /\ x.pc = "fail" => err
    /\ kind = "query" => x.pc \in {"meta", "fail"}
    /\ x.meta = dir \/ (kind \in {"taskb", "blend"} /\ x.pc \in {"meta", "fail"})
    /\ kind = "digest" /\ x.pc \in {"load", "put", "set"} => x.file = dir
    /\ x.pc = "put" => x.kv = Raw(dir)
    /\ x.pc = "set" => kind \in {"digest", "blend"}
    /\ x.pc = "finish" => x.todo = {} /\ kind \in {"critical", "taskb"}
    /\ ~ err =>
        /\ kind = "query" => ready = {}
        /\ kind = "digest" => x.todo \in SUBSET DigestLayers /\ QEnd - 1 \in x.todo
        /\ kind = "blend" => x.todo \in SUBSET BlendLayers /\ NumLayers - 1 \in x.todo
        /\ kind \in {"digest", "blend"} => x.todo \cap ready = {}
        /\ x.pc = "set" => \A l \in x.todo : (\A m \in x.todo : l <= m) =>
              \/ kind = "digest" /\ ctx.kv[l] # None
              \/ kind = "blend" /\ hack.kv[l] # None
        /\ kind \in {"critical", "taskb"} =>
              \A l \in Critical \ x.todo : hack.kv[l] = Raw(dir)

OwnLoaders == mode = "online" => \A t \in Threads : Live(t) => OwnLoader(thr[t], Kind(t))

RunnerInv ==
    /\ IInv
    /\ SavedCachePure
    /\ alive => OneAtATime /\ SessionInv /\ RestInv /\ PoolsInv /\ CrewInv /\ OwnLoaders

-----------------------------------------------------------------------------
(* Statements of the source that the code does not keep.                   *)

(***************************************************************************)
(* schedule_batch.py:1556 "Clear stale layer events from QCOMPUTE before   *)
(* DO_BLEND prefetch": an event that is cleared is stale, no loader still  *)
(* has to see it set.                                                      *)
(***************************************************************************)
OnlyStaleEventsCleared ==
    [][\A t \in Threads : At(t, "enter") /\ 0 \in ready => 0 \in ready']_vars

(***************************************************************************)
(* schedule_batch.py:1545 "First DO_BLEND without prior QCOMPUTE needs     *)
(* full online initialization": such a blend forward pass ends.            *)
(***************************************************************************)
FirstBlendEnds == InForward(BlendStyles) ~> PassEnded
=============================================================================
