---------------------------- MODULE BlendServer -----------------------------
(***************************************************************************)
(* The scheduler thread serving blend requests over KVSSDManager:          *)
(*   ScheduleBatch.prepare_for_extend    PrepareKVCompute / PrepareQCompute *)
(*                                       / PrepareBlend                     *)
(*   CacheBlender.blend, layer by layer  Forward...                        *)
(*   _post_forward_blend_cleanup         PostForward                       *)
(*   cache_finished_req                  Finish, Retract                   *)
(* and the clients that send the requests (blend/sglang_blend_ssd.py).     *)
(* A batch holds one request.  An exception on the scheduler thread ends   *)
(* the server process, its daemon loader threads included.                 *)
(***************************************************************************)
EXTENDS KVSSDManager

CONSTANTS
    Clients,     \* the clients; each waits for a response before it sends on
    Styles,      \* the blend styles the clients use
    Sources,     \* where a QCOMPUTE takes its context from:
                 \*   "query" is_contextblend, context_cache_source="query"
                 \*   "none"  is_contextblend, context_cache_source="none"
                 \*   "chunk" not is_contextblend
    Deviations   \* what clients and server do beyond the runner's protocol

AllStyles == {"KVCOMPUTE", "QCOMPUTE", "DO_BLEND", "DO_BLEND_FINISH"}
BlendStyles == {"DO_BLEND", "DO_BLEND_FINISH"}

ASSUME ServerAssumption ==
    /\ Reqs \subseteq Nat
    /\ None \notin Reqs
    /\ None \notin Clients
    /\ Styles \subseteq AllStyles
    /\ Sources \subseteq {"query", "none", "chunk"}
    /\ Deviations \subseteq
          {"skip_query",   \* DO_BLEND(_FINISH) with no QCOMPUTE before it
           "abandon",      \* a QCOMPUTE that no DO_BLEND_FINISH follows
           "zero_ratio",   \* DO_BLEND(_FINISH) with ratio <= 0
           "retract"}      \* the scheduler retracts a decoding request

VARIABLES
    req,     \* the requests
    client,  \* each client's session: nothing, or a QCOMPUTE to follow up
    fwd,     \* the forward pass in progress and the next layer it runs
    qbuf,    \* HackBlendKVPool.q_buffer
    alive    \* the server process runs

serverVars == <<req, client, fwd, qbuf, alive>>
poolVars   == <<hack, ctx, disk>>
vars == <<mode, dir, ready, taskB, err, hack, ctx, disk, thr,
          req, client, fwd, qbuf, alive>>

Job == [style : AllStyles, sample : Samples,
        source : {"query", "none", "chunk"}, ratio0 : BOOLEAN]
Request == [state : {"unsent", "waiting", "forward", "running", "finished"},
            client : Clients \cup {None}, job : Job \cup {None}]
Session == [stage : {"idle", "primed"}, sample : Samples \cup {None}]

Idle == [stage |-> "idle", sample |-> None]
Primed(s) == [stage |-> "primed", sample |-> s]
NoForward == [req |-> None, layer |-> 0]

Style(r)   == req[r].job.style
Sample(r)  == req[r].job.sample
Busy(c)    == \E r \in Reqs : /\ req[r].client = c
                              /\ req[r].state \notin {"unsent", "finished"}

ServerTypeOK ==
    /\ req \in [Reqs -> Request]
    /\ client \in [Clients -> Session]
    /\ fwd \in [req : Reqs \cup {None}, layer : 0 .. NumLayers]
    /\ qbuf \in Pools
    /\ alive \in BOOLEAN

\* The type invariant of the manager, the loaders, the server and its clients.
TypeOK == ManagerTypeOK /\ ServerTypeOK

Init ==
    /\ ManagerInit
    /\ req = [r \in Reqs |-> [state |-> "unsent", client |-> None, job |-> None]]
    /\ client = [c \in Clients |-> Idle]
    /\ fwd = NoForward
    /\ qbuf = Cleared
    /\ alive = TRUE

-----------------------------------------------------------------------------
(* Clients.  phase1_offline computes what is not cached; phase2_online      *)
(* sends QCOMPUTE and then DO_BLEND_FINISH for each cached sample.          *)

Offline(j) == /\ j.style = "KVCOMPUTE" /\ disk[j.sample] = "absent"
              /\ j.source = "query" /\ ~ j.ratio0
Query(j)   == /\ j.style = "QCOMPUTE" /\ disk[j.sample] # "absent"
              /\ j.source \in Sources /\ ~ j.ratio0
Blend(j)   == /\ j.style \in BlendStyles /\ disk[j.sample] # "absent"
              /\ j.source = "query" /\ (j.ratio0 => "zero_ratio" \in Deviations)

\* what client c may send next: the rounds of the sample it has computed the
\* query of, or a new sample
JobsOf(c) ==
    LET primed == client[c].stage = "primed"
    IN  {j \in Job :
            /\ j.style \in Styles
            /\ \/ primed /\ Blend(j) /\ j.sample = client[c].sample
               \/ /\ primed => "abandon" \in Deviations
                  /\ \/ Offline(j) \/ Query(j)
                     \/ Blend(j) /\ "skip_query" \in Deviations}

Submit(c, r) ==
    /\ alive
    /\ ~ Busy(c)
    /\ req[r].state = "unsent"
    /\ \A q \in Reqs : q < r => req[q].state # "unsent"
    /\ \E j \in JobsOf(c) :
          /\ req' = [req EXCEPT ![r] = [state |-> "waiting", client |-> c, job |-> j]]
          /\ client' = [client EXCEPT ![c] =
                IF j.style \in {"KVCOMPUTE", "DO_BLEND_FINISH"}
                THEN Idle ELSE Primed(j.sample)]
    /\ UNCHANGED <<mgrVars, poolVars, thr, fwd, qbuf, alive>>

-----------------------------------------------------------------------------
(* prepare_for_extend.                                                      *)

\* an exception leaves the event loop: the process ends, its daemon threads
\* with it
Die == /\ alive
       /\ alive' = FALSE
       /\ thr' = [t \in Threads |-> Off]
       /\ UNCHANGED <<mgrVars, poolVars, req, client, fwd, qbuf>>

Admit(r) ==
    /\ alive
    /\ fwd = NoForward
    /\ req[r].state = "waiting"
    /\ req' = [req EXCEPT ![r].state = "forward"]
    /\ fwd' = [req |-> r, layer |-> 0]
    /\ UNCHANGED <<client, alive>>

PrepareKVCompute(r) ==
    /\ Admit(r)
    /\ Style(r) = "KVCOMPUTE"
    /\ Configure("offline", Sample(r))
    /\ thr' = Orphaned(thr)
    /\ UNCHANGED <<poolVars, qbuf>>

\* restore_query_metadata reads the metadata on this thread, before the
\* query thread starts
PrepareQCompute(r) ==
    /\ Admit(r)
    /\ Style(r) = "QCOMPUTE"
    /\ hack' = Prepared
    /\ ctx' = Prepared
    /\ qbuf' = Cleared
    /\ Configure("online", Sample(r))
    /\ thr' = IF req[r].job.source = "query"
              THEN Spawned(Orphaned(thr), <<r, "query">>, "meta", {}, Sample(r))
              ELSE Spawned(Orphaned(thr), <<r, "taskb">>, "meta", Critical, None)
    /\ UNCHANGED disk

\* ... and an unreadable one raises out of prepare_for_extend
FailRestore(r) ==
    /\ fwd = NoForward
    /\ req[r].state = "waiting"
    /\ Style(r) = "QCOMPUTE" /\ req[r].job.source = "query"
    /\ MayRaise(Sample(r))
    /\ Die

\* the prefetch starts on the pools as they are; only a server that is not
\* online is configured first.  (A request is re-admitted after a retraction
\* only when its own earlier prefetch has returned: bound on thread names.)
PrepareBlend(r) ==
    /\ ~ Live(<<r, "blend">>)
    /\ Admit(r)
    /\ Style(r) \in BlendStyles
    /\ IF mode = "online"
       THEN /\ ResetLayerEvents
            /\ thr' = Spawned(thr, <<r, "blend">>, "meta", BlendLayers, None)
            /\ UNCHANGED <<hack, qbuf>>
       ELSE /\ hack' = Prepared
            /\ qbuf' = Cleared
            /\ Configure("online", Sample(r))
            /\ thr' = Spawned(Orphaned(thr), <<r, "blend">>, "meta", BlendLayers, None)
    /\ UNCHANGED <<ctx, disk>>

-----------------------------------------------------------------------------
(* The forward pass: one step per layer, its wait included.                 *)

Cur   == fwd.req
Layer == fwd.layer
LastLayer(r) == IF Style(r) = "QCOMPUTE" THEN QEnd ELSE NumLayers
AtLayerOf(styles) == /\ alive
                     /\ Cur # None
                     /\ Style(Cur) \in styles
                     /\ Layer < LastLayer(Cur)
NextLayer == fwd' = [fwd EXCEPT !.layer = Layer + 1]

\* put_kv; after the last layer build_context_pool clears the context pool
\* and the save writes what the KV pool holds into the configured directory
ForwardKVCompute ==
    /\ AtLayerOf({"KVCOMPUTE"})
    /\ hack' = Appended(hack, Layer, Sample(Cur))
    /\ IF Layer = NumLayers - 1
       THEN /\ ctx' = Cleared
            /\ disk' = IF mode = "offline"
                       THEN [disk EXCEPT ![dir] =
                               IF AllRaw(hack', Layers, dir) THEN "good" ELSE "bad"]
                       ELSE disk
       ELSE UNCHANGED <<ctx, disk>>
    /\ NextLayer
    /\ UNCHANGED <<mgrVars, thr, req, client, qbuf, alive>>

\* What the layer the forward pass is about to run waits for, and what it
\* reads once the wait has returned without an error
Selects == Layer = Start /\ ~ req[Cur].job.ratio0

\* faulty variant: the selection does not wait for task_b_event
Waits_NotTaskB ==
    CASE Style(Cur) = "QCOMPUTE" -> req[Cur].job.source # "chunk"
      [] Style(Cur) \in BlendStyles -> mode = "online" /\ Layer > Start
      [] OTHER -> FALSE

Waits ==
    CASE Style(Cur) = "QCOMPUTE" -> req[Cur].job.source # "chunk"
      [] Style(Cur) \in BlendStyles -> mode = "online" /\ (Selects \/ Layer > Start)
      [] OTHER -> FALSE
Released ==
    IF Style(Cur) \in BlendStyles /\ Layer = Start THEN taskB ELSE Layer \in ready
Readable ==
    CASE Style(Cur) = "QCOMPUTE" -> req[Cur].job.source = "chunk" \/ HasKV(ctx, Layer)
      [] Style(Cur) \in BlendStyles /\ Selects ->
            \A c \in Critical : HasKV(hack, c) /\ HasKV(qbuf, c)
      [] Style(Cur) \in BlendStyles /\ Layer > Start -> HasKV(hack, Layer)
      [] OTHER -> TRUE

Proceeds == (Waits => Released /\ ~ err) /\ Readable
\* context of another sample usually differs in length: ValueError
Mismatch == /\ Style(Cur) = "QCOMPUTE" /\ req[Cur].job.source # "chunk"
            /\ ctx.kv[Layer] # Raw(Sample(Cur))
Throws   == (Waits => Released) /\ ((Waits /\ err) \/ ~ Readable \/ Mismatch)

ForwardQCompute ==
    /\ AtLayerOf({"QCOMPUTE"})
    /\ Proceeds
    /\ qbuf' = IF Layer \in Critical THEN Appended(qbuf, Layer, Sample(Cur)) ELSE qbuf
    /\ NextLayer
    /\ UNCHANGED <<mgrVars, poolVars, thr, req, client, alive>>

\* layers up to start: plain attention, then the selection of the tokens
ForwardSelect ==
    /\ AtLayerOf(BlendStyles)
    /\ Layer <= Start
    /\ Proceeds
    /\ NextLayer
    /\ UNCHANGED <<mgrVars, poolVars, thr, req, client, qbuf, alive>>

\* layers after start: the recomputed rows are written into the loaded KV,
\* in place unless the layer is kept for another round (keep_layers_set)
ForwardBlend ==
    /\ AtLayerOf(BlendStyles)
    /\ Layer > Start
    /\ Proceeds
    /\ hack' = IF Style(Cur) = "DO_BLEND_FINISH" \/ (mode = "online" /\ Layer \notin Critical)
               THEN [hack EXCEPT !.kv[Layer].form = "blended"]
               ELSE hack
    /\ NextLayer
    /\ UNCHANGED <<mgrVars, ctx, disk, thr, req, client, qbuf, alive>>

\* the loader's error, a missing tensor or a short list ends the process
ForwardThrows ==
    /\ AtLayerOf(AllStyles \ {"KVCOMPUTE"})
    /\ Throws
    /\ Die

\* faulty variant: the pools are left as they are after the save
AfterKVCompute_Kept == UNCHANGED <<hack, qbuf, ctx, mgrVars, disk, thr>>

\* _post_forward_blend_cleanup, by style.  HackBlendKVPool.clear() drops the
\* query vectors with the KV.
AfterKVCompute ==
    /\ IF mode = "offline"
       THEN hack' = Cleared /\ qbuf' = Cleared /\ ctx' = Cleared
       ELSE UNCHANGED <<hack, qbuf, ctx>>
    /\ UNCHANGED <<mgrVars, disk, thr>>

AfterDoBlend ==
    /\ IF mode = "online"   \* clear_do_blend_layers
       THEN hack' = KeptOnly(hack, Critical) /\ ResetLayerEvents
       ELSE UNCHANGED <<hack, mgrVars>>
    /\ UNCHANGED <<ctx, disk, thr, qbuf>>

CleanupRuntimeState == Cleanup /\ qbuf' = Cleared /\ UNCHANGED <<disk, thr>>

PostForward ==
    /\ alive
    /\ Cur # None
    /\ Layer = LastLayer(Cur)
    /\ \/ Style(Cur) = "KVCOMPUTE" /\ AfterKVCompute
       \/ Style(Cur) = "QCOMPUTE" /\ UNCHANGED <<mgrVars, poolVars, thr, qbuf>>
       \/ Style(Cur) = "DO_BLEND" /\ AfterDoBlend
       \/ Style(Cur) = "DO_BLEND_FINISH" /\ CleanupRuntimeState
    /\ req' = [req EXCEPT ![Cur].state = "running"]
    /\ fwd' = NoForward
    /\ UNCHANGED <<client, alive>>

-----------------------------------------------------------------------------
(* Decoding ends, or the request is sent back to the queue.  The overlap    *)
(* loop handles a result after it has launched later batches, so both come  *)
(* at any point between two forward passes.                                 *)

FinishCleanup(r) == IF Style(r) = "DO_BLEND_FINISH"
               THEN CleanupRuntimeState
               ELSE UNCHANGED <<mgrVars, poolVars, thr, qbuf>>

Finish(r) ==
    /\ alive
    /\ fwd = NoForward
    /\ req[r].state = "running"
    /\ FinishCleanup(r)
    /\ req' = [req EXCEPT ![r].state = "finished"]
    /\ UNCHANGED <<client, fwd, alive>>

\* retract_decode leaves the last decoding request alone
Retract(r) ==
    /\ alive
    /\ "retract" \in Deviations
    /\ fwd = NoForward
    /\ req[r].state = "running"
    /\ Style(r) \in BlendStyles
    /\ \E q \in Reqs \ {r} : req[q].state = "running"
    /\ FinishCleanup(r)
    /\ req' = [req EXCEPT ![r].state = "waiting"]
    /\ UNCHANGED <<client, fwd, alive>>

SchedulerStep ==
    \/ \E r \in Reqs : \/ PrepareKVCompute(r) \/ PrepareQCompute(r)
                       \/ FailRestore(r) \/ PrepareBlend(r)
                       \/ Finish(r) \/ Retract(r)
    \/ ForwardKVCompute \/ ForwardQCompute \/ ForwardSelect \/ ForwardBlend
    \/ ForwardThrows \/ PostForward

Loader(t) == LoaderStep(t) /\ UNCHANGED serverVars

Next ==
    \/ \E c \in Clients, r \in Reqs : Submit(c, r)
    \/ SchedulerStep
    \/ \E t \in Threads : Loader(t)

Spec == Init /\ [][Next]_vars

\* While loader threads can run the operating system runs one of them (each
\* has finitely many steps, so every one gets its turn), and the scheduler
\* loops as long as it has a step to take; clients owe nothing.
FairSpec ==
    /\ Spec
    /\ WF_vars(SchedulerStep)
    /\ WF_vars(\E t \in Threads : Loader(t))
=============================================================================
