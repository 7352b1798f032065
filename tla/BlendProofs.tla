---------------------------- MODULE BlendProofs -----------------------------
(***************************************************************************)
(* TypeOK and BlendedNeverReused are invariants of BlendServer for every   *)
(* model size, every set of samples, requests and clients, every order in  *)
(* which the clients send and with every deviation enabled.  With one      *)
(* client that keeps to the runner's protocol, every pass reads the        *)
(* untouched KV of its own sample, saved caches are pure, no loader        *)
(* survives its session and no loader error is wiped.                      *)
(***************************************************************************)
EXTENDS BlendProperties, TLAPS, WellFoundedInduction

USE DEF Style, Sample, Cur, Layer, Kind

-----------------------------------------------------------------------------
(* Layers, and the least element a loader picks.                            *)

LEMMA LayerSets ==
    /\ QEnd \in 1 .. NumLayers
    /\ DigestLayers \subseteq Layers /\ DigestLayers # {}
    /\ BlendLayers \subseteq Layers /\ BlendLayers # {}
    /\ Critical \subseteq Layers /\ Critical # {}
    /\ 0 \in Layers
<1>1. NumLayers \in Nat \ {0}
  BY PoolAssumption
<1>2. Critical \subseteq Layers /\ Critical # {}
  BY ManagerAssumption
<1>3. LastCritical \in Critical
  BY ManagerAssumption DEF LastCritical
<1>5. QEnd \in 1 .. NumLayers
  BY <1>1, <1>2, <1>3 DEF QEnd, Layers
<1>6. DigestLayers \subseteq Layers /\ 0 \in DigestLayers
  BY <1>1, <1>5 DEF DigestLayers, Layers
<1>7. Start \in Layers /\ Start < NumLayers - 1
  BY ManagerAssumption
<1>8. BlendLayers \subseteq Layers /\ Start + 1 \in BlendLayers
  BY <1>1, <1>7 DEF BlendLayers, Layers
<1> QED
  BY <1>2, <1>5, <1>6, <1>8

\* what a loader handles next is the least of the layers it has to do
LEMMA NextInTodo ==
    ASSUME NEW t \in Threads, thr[t].todo \in SUBSET Layers, thr[t].todo # {}
    PROVE  Next0(t) \in thr[t].todo /\ \A m \in thr[t].todo : Next0(t) <= m
<1> DEFINE T == thr[t].todo
           R == {ss \in Nat \X Nat : ss[1] < ss[2]}
<1>1. T \subseteq Nat /\ T # {}
  BY PoolAssumption DEF Layers
<1>2. IsWellFoundedOn(R, Nat)
  BY NatLessThanWellFounded DEF OpToRel
<1>3. PICK l \in T : \A m \in T : ~ (<<m, l>> \in R)
  <2> HIDE DEF R, T
  <2> QED
    BY <1>1, <1>2, WFMin
<1>4. ASSUME NEW m \in T PROVE l <= m
  <2>1. l \in Nat /\ m \in Nat /\ ~ (<<m, l>> \in R)
    BY <1>1, <1>3
  <2>2. ~ (m < l)
    BY <2>1
  <2> QED
    BY <2>1, <2>2
<1> QED
  BY <1>4 DEF Next0

-----------------------------------------------------------------------------
(* Thread tables.                                                           *)

LEMMA OffGood ==
    Off \in Thread /\ \A k : GoodLoader(Off, k)
BY DEF Off, Thread, PCs, GoodLoader

LEMMA SetLoader ==
    ASSUME NEW f, GoodLoaders(f), NEW t \in Threads,
           NEW x \in Thread, GoodLoader(x, Kind(t))
    PROVE  GoodLoaders([f EXCEPT ![t] = x])
BY DEF GoodLoaders

LEMMA WakeLoaders ==
    ASSUME NEW f, GoodLoaders(f), NEW S
    PROVE  GoodLoaders(Woken(f, S)) /\ GoodLoaders(Orphaned(f))
<1>1. ASSUME NEW u \in Threads, f[u].pc = "blocked", NEW pc \in {"woken", "orphaned"}
      PROVE  /\ [f[u] EXCEPT !.pc = pc] \in Thread
             /\ GoodLoader([f[u] EXCEPT !.pc = pc], Kind(u))
  BY <1>1 DEF GoodLoaders, GoodLoader, Thread, PCs
<1> QED
  BY <1>1 DEF GoodLoaders, Woken, Orphaned

LEMMA SpawnLoader ==
    ASSUME NEW f, GoodLoaders(f), NEW t \in Threads,
           NEW pc \in PCs, NEW todo \in SUBSET Layers, NEW meta \in Samples \cup {None},
           pc = "meta" \/ (pc = "enter" /\ Kind(t) = "critical"),
           todo # {} \/ (pc = "meta" /\ Kind(t) = "query")
    PROVE  GoodLoaders(Spawned(f, t, pc, todo, meta))
<1> DEFINE x == [Off EXCEPT !.pc = pc, !.todo = todo, !.meta = meta]
<1>1. x \in Thread /\ GoodLoader(x, Kind(t))
  BY DEF Off, Thread, GoodLoader
<1> QED
  BY <1>1, SetLoader DEF Spawned

LEMMA AdvanceGood ==
    ASSUME NEW t \in Threads, GoodLoaders(thr), thr[t].todo # {},
           NEW pc \in {"check", "load"}, pc = "check" => Kind(t) = "blend",
           pc = "load" /\ Kind(t) = "digest" => thr[t].file \in Samples
    PROVE  /\ Advance(t, pc) \in Thread
           /\ GoodLoader(Advance(t, pc), Kind(t))
           /\ Next0(t) \in Layers
<1>1. thr[t] \in Thread
  BY DEF GoodLoaders
<1>2. thr[t].todo \in SUBSET Layers
  BY <1>1 DEF Thread
<1>3. Next0(t) \in Layers
  BY <1>2, NextInTodo
<1>4. CASE Rest(t) = {}
  BY <1>3, <1>4, OffGood DEF Advance
<1>5. CASE Rest(t) # {}
  <2>1. Advance(t, pc) = [thr[t] EXCEPT !.pc = pc, !.todo = Rest(t), !.kv = None]
    BY <1>5 DEF Advance
  <2>2. Rest(t) \in SUBSET Layers
    BY <1>2 DEF Rest
  <2> QED
    BY <1>1, <1>3, <1>5, <2>1, <2>2 DEF Thread, PCs, GoodLoader
<1> QED
  BY <1>4, <1>5

-----------------------------------------------------------------------------
(* Pools.                                                                   *)

LEMMA PoolOperations ==
    /\ Cleared \in Pools /\ Prepared \in Pools
    /\ \A p \in Pools, l \in Layers, kv \in KV : Stored(p, l, kv) \in Pools
    /\ \A p \in Pools, l \in Layers, s \in Samples : Appended(p, l, s) \in Pools
    /\ \A S : \A p \in Pools : KeptOnly(p, S) \in Pools
<1>1. NumLayers \in Nat \ {0}
  BY PoolAssumption
<1>2. Cleared \in Pools /\ Prepared \in Pools
  BY <1>1 DEF Cleared, Prepared, Pools
<1>3. ASSUME NEW p \in Pools, NEW l \in Layers, NEW kv \in KV
      PROVE  Stored(p, l, kv) \in Pools
  BY DEF Stored, Pools
<1>4. ASSUME NEW p \in Pools, NEW l \in Layers, NEW s \in Samples
      PROVE  Appended(p, l, s) \in Pools
  <2>1. (IF p.len > l THEN p.len ELSE l + 1) \in 0 .. NumLayers
    BY <1>1 DEF Pools, Layers
  <2>2. (IF p.kv[l] = None THEN Raw(s) ELSE [of |-> s, form |-> "joined"])
            \in KV \cup {None}
    BY DEF Raw, KV, Forms
  <2>3. [p.kv EXCEPT ![l] = IF @ = None THEN Raw(s)
                            ELSE [of |-> s, form |-> "joined"]]
            \in [Layers -> KV \cup {None}]
    BY <2>2 DEF Pools
  <2> QED
    BY <2>1, <2>3 DEF Appended, Pools
<1>5. ASSUME NEW p \in Pools, NEW S PROVE KeptOnly(p, S) \in Pools
  BY DEF KeptOnly, Pools
<1> QED
  BY <1>2, <1>3, <1>4, <1>5

-----------------------------------------------------------------------------
(* The loader threads.                                                      *)

\* what every step of a loader keeps, and what it leaves alone
LoaderEffect ==
    /\ GoodLoaders(thr')
    /\ ready' \in SUBSET Layers /\ taskB' \in BOOLEAN /\ err' \in BOOLEAN
    /\ hack' \in Pools /\ ctx' \in Pools
    /\ \A l \in Layers : Blended(l)' => Blended(l)
    /\ UNCHANGED <<mode, dir, disk>>

\* an exception changes the error and the thread
LEMMA RaiseEffect ==
    ASSUME TypeOK, GoodLoaders(thr), NEW t \in Threads, Raise(t),
           UNCHANGED <<mode, dir, ready, taskB, hack, ctx, disk>>
    PROVE  LoaderEffect
<1> DEFINE x == [thr[t] EXCEPT !.pc = "fail"]
<1>1. x \in Thread /\ GoodLoader(x, Kind(t))
  BY DEF GoodLoaders, GoodLoader, Thread, PCs
<1>2. GoodLoaders([thr EXCEPT ![t] = x])
  BY <1>1, SetLoader
<1> QED
  BY <1>2 DEF Raise, Goto, Step, LoaderEffect, TypeOK, ManagerTypeOK, Blended

\* a step that changes only the thread's own entry
LEMMA StepEffect ==
    ASSUME TypeOK, GoodLoaders(thr), NEW t \in Threads,
           NEW x \in Thread, GoodLoader(x, Kind(t)), Step(t, x),
           UNCHANGED <<mgrVars, hack, ctx, disk>>
    PROVE  LoaderEffect
<1>1. GoodLoaders([thr EXCEPT ![t] = x])
  BY SetLoader
<1> QED
  BY <1>1 DEF Step, LoaderEffect, TypeOK, ManagerTypeOK, Blended, mgrVars

\* a step that wakes the waiters for the layers it makes ready
LEMMA WakeEffect ==
    ASSUME TypeOK, GoodLoaders(thr), NEW t \in Threads,
           NEW x \in Thread, GoodLoader(x, Kind(t)), NEW S \in SUBSET Layers,
           thr' = Woken([thr EXCEPT ![t] = x], S), ready' = ready \cup S,
           taskB' \in BOOLEAN, UNCHANGED <<mode, dir, err, hack, ctx, disk>>
    PROVE  LoaderEffect
<1>1. GoodLoaders([thr EXCEPT ![t] = x])
  BY SetLoader
<1>2. GoodLoaders(thr')
  <2> DEFINE f == [thr EXCEPT ![t] = x]
  <2> HIDE DEF f
  <2>1. GoodLoaders(f) /\ thr' = Woken(f, S)
    BY <1>1 DEF f
  <2> QED
    BY <2>1, WakeLoaders
<1> QED
  BY <1>2 DEF LoaderEffect, TypeOK, ManagerTypeOK, Blended

LEMMA LoaderEffects ==
    ASSUME TypeOK, LoadersInv, NEW t \in Threads, LoaderStep(t)
    PROVE  LoaderEffect
<1> DEFINE x == thr[t]
<1>1. GoodLoaders(thr) /\ x \in Thread /\ GoodLoader(x, Kind(t))
  BY DEF LoadersInv, GoodLoaders
<1>2. x.pc # "off" => dir \in Samples
  BY DEF LoadersInv, Live, At
<1>3. x.todo # {} => Next0(t) \in Layers
  BY <1>1, NextInTodo DEF Thread
<1>4. CASE StartQuery(t)
  <2> DEFINE f == Spawned(thr, <<t[1], "digest">>, "meta", DigestLayers, x.meta)
             g == Spawned(f, <<t[1], "critical">>, "enter", Critical, x.meta)
  <2>1. /\ <<t[1], "digest">> \in Threads /\ <<t[1], "critical">> \in Threads
        /\ x.meta \in Samples \cup {None}
    BY <1>1 DEF Threads, Kinds, Thread
  <2>2. GoodLoaders(f)
    BY <1>1, <2>1, LayerSets, SpawnLoader DEF PCs
  <2>3. GoodLoaders(g)
    <3> HIDE DEF f
    <3> QED
      BY <2>1, <2>2, LayerSets, SpawnLoader DEF PCs
  <2>4. thr' = [g EXCEPT ![t] = Off]
    BY <1>4 DEF StartQuery
  <2>5. GoodLoaders(thr')
    <3> HIDE DEF g
    <3> QED
      BY <2>3, <2>4, OffGood, SetLoader
  <2>6. UNCHANGED <<mgrVars, hack, ctx, disk>>
    BY <1>4 DEF StartQuery
  <2> QED
    BY <2>5, <2>6 DEF LoaderEffect, TypeOK, ManagerTypeOK, Blended, mgrVars
<1>5. CASE RejectQuery(t)
  BY <1>1, <1>5, RaiseEffect DEF RejectQuery
<1>6. CASE OpenDigest(t)
  <2> DEFINE y == [x EXCEPT !.pc = "load", !.file = dir]
  <2>1. dir \in Samples /\ Kind(t) = "digest" /\ x.pc = "meta"
    BY <1>2, <1>6 DEF OpenDigest, At
  <2>2. y \in Thread /\ GoodLoader(y, Kind(t))
    BY <1>1, <2>1 DEF Thread, PCs, GoodLoader
  <2> QED
    BY <1>1, <1>6, <2>2, StepEffect DEF OpenDigest
<1>7. CASE LoadMeta(t)
  <2> DEFINE y == [x EXCEPT !.meta = dir,
                            !.pc = IF Kind(t) = "blend" THEN "check" ELSE "load"]
  <2>1. dir \in Samples /\ Kind(t) \in {"taskb", "blend"} /\ x.pc = "meta"
    BY <1>2, <1>7 DEF LoadMeta, At
  <2>2. y \in Thread /\ GoodLoader(y, Kind(t))
    BY <1>1, <2>1 DEF Thread, PCs, GoodLoader
  <2> QED
    BY <1>1, <1>7, <2>2, StepEffect DEF LoadMeta
<1>8. CASE FailOpen(t)
  BY <1>1, <1>8, RaiseEffect DEF FailOpen
<1>9. CASE SkipLoaded(t)
  <2>1. x.pc = "check" /\ x.todo # {}
    BY <1>1, <1>9 DEF SkipLoaded, At, GoodLoader
  <2>2. Advance(t, "check") \in Thread /\ GoodLoader(Advance(t, "check"), Kind(t))
    BY <1>1, <2>1, AdvanceGood DEF GoodLoader
  <2>3. {Next0(t)} \in SUBSET Layers
    BY <1>3, <2>1
  <2> QED
    BY <1>1, <1>9, <2>2, <2>3, WakeEffect DEF SkipLoaded, TypeOK, ManagerTypeOK
<1>10. CASE FindMissing(t)
  <2>1. [x EXCEPT !.pc = "load"] \in Thread
    BY <1>1 DEF Thread, PCs
  <2>2. GoodLoader([x EXCEPT !.pc = "load"], Kind(t))
    BY <1>1, <1>10 DEF FindMissing, At, GoodLoader, Thread
  <2> QED
    BY <1>1, <1>10, <2>1, <2>2, StepEffect DEF FindMissing, Goto
<1>11. CASE LoadLayer(t)
  <2> DEFINE file == IF Kind(t) = "digest" THEN x.file ELSE dir
             y == [x EXCEPT !.pc = "put", !.file = file, !.kv = Read(x.meta, file)]
  <2>1. x.pc = "load" /\ file \in Samples
    BY <1>1, <1>2, <1>11 DEF LoadLayer, At, GoodLoader
  <2>2. Read(x.meta, file) \in KV /\ Read(x.meta, file).form # "blended"
    BY <2>1 DEF Read, KV, Forms
  <2>3. y \in Thread /\ GoodLoader(y, Kind(t))
    <3> HIDE DEF file
    <3> QED
      BY <1>1, <2>1, <2>2, PoolAssumption DEF Thread, PCs, GoodLoader
  <2> QED
    BY <1>1, <1>11, <2>3, StepEffect DEF LoadLayer
<1>12. CASE FailLoad(t)
  BY <1>1, <1>12, RaiseEffect DEF FailLoad
<1>13. CASE PutDigest(t)
  <2> DEFINE y == [x EXCEPT !.pc = "set", !.kv = None]
             l == Next0(t)
  <2>1. x.pc = "put" /\ l \in Layers /\ l < ctx.len /\ ctx' = Stored(ctx, l, x.kv)
    BY <1>1, <1>3, <1>13 DEF PutDigest, At, GoodLoader
  <2>2. y \in Thread /\ GoodLoader(y, Kind(t))
    BY <1>1, <2>1 DEF Thread, PCs, GoodLoader
  <2>3. x.kv \in KV
    BY <1>1, <2>1 DEF Thread, GoodLoader
  <2>4. ctx' \in Pools
    BY <2>1, <2>3, PoolOperations DEF TypeOK, ManagerTypeOK
  <2>5. GoodLoaders([thr EXCEPT ![t] = y])
    BY <1>1, <2>2, SetLoader
  <2> QED
    BY <1>13, <2>4, <2>5
       DEF PutDigest, Step, LoaderEffect, TypeOK, ManagerTypeOK, Blended, mgrVars
<1>14. CASE PutHack(t)
  <2> DEFINE l == Next0(t)
             y == CASE Kind(t) = "blend" -> [x EXCEPT !.pc = "set", !.kv = None]
                    [] Kind(t) # "blend" /\ Rest(t) = {} ->
                           [x EXCEPT !.pc = "finish", !.kv = None, !.todo = {}]
                    [] Kind(t) = "taskb" /\ Rest(t) # {} -> Advance(t, "load")
                    [] OTHER -> [x EXCEPT !.todo = Rest(t)]
  <2>1. /\ x.pc = "put" /\ x.todo # {} /\ l \in Layers
        /\ Kind(t) # "digest" /\ hack' = Stored(hack, l, x.kv)
    BY <1>1, <1>3, <1>14 DEF PutHack, At, GoodLoader
  <2>2. x.kv \in KV /\ x.kv.form # "blended"
    BY <1>1, <2>1 DEF Thread, GoodLoader
  <2>3. y \in Thread /\ GoodLoader(y, Kind(t))
    <3>1. CASE Kind(t) = "blend"
      BY <1>1, <2>1, <3>1 DEF Thread, PCs, GoodLoader
    <3>2. CASE Kind(t) # "blend" /\ Rest(t) = {}
      BY <1>1, <2>1, <3>2 DEF Thread, PCs, GoodLoader
    <3>3. CASE Kind(t) = "taskb" /\ Rest(t) # {}
      <4>1. Advance(t, "load") \in Thread /\ GoodLoader(Advance(t, "load"), Kind(t))
        BY <1>1, <2>1, AdvanceGood
      <4> QED
        BY <3>3, <4>1
    <3>4. CASE Kind(t) \notin {"blend", "taskb"} /\ Rest(t) # {}
      <4>1. Rest(t) \in SUBSET Layers
        BY <1>1 DEF Thread, Rest
      <4>2. y = [x EXCEPT !.todo = Rest(t)]
        BY <3>4
      <4> QED
        BY <1>1, <2>1, <3>4, <4>1, <4>2 DEF Thread, PCs, GoodLoader
    <3> QED
      BY <3>1, <3>2, <3>3, <3>4
  <2>4. hack' \in Pools
    BY <2>1, <2>2, PoolOperations DEF TypeOK, ManagerTypeOK
  <2>5. GoodLoaders(thr')
    <3>1. thr' = [thr EXCEPT ![t] = y]
      BY <1>14 DEF PutHack, Step
    <3> HIDE DEF y
    <3> QED
      BY <1>1, <2>3, <3>1, SetLoader
  <2>6. \A k \in Layers : Blended(k)' => Blended(k)
    BY <2>1, <2>2 DEF Blended, Stored, TypeOK, ManagerTypeOK, Pools
  <2> QED
    BY <1>14, <2>4, <2>5, <2>6
       DEF PutHack, LoaderEffect, TypeOK, ManagerTypeOK, mgrVars
<1>15. CASE PutOutOfRange(t)
  BY <1>1, <1>15, RaiseEffect DEF PutOutOfRange
<1>16. CASE SetReady(t)
  <2> DEFINE next == IF Kind(t) = "blend" THEN "check" ELSE "load"
  <2>1. x.pc = "set" /\ x.todo # {}
    BY <1>1, <1>16 DEF SetReady, At, GoodLoader
  <2>2. Advance(t, next) \in Thread /\ GoodLoader(Advance(t, next), Kind(t))
    BY <1>1, <2>1, AdvanceGood DEF GoodLoader
  <2>3. {Next0(t)} \in SUBSET Layers
    BY <1>3, <2>1
  <2> QED
    BY <1>1, <1>16, <2>2, <2>3, WakeEffect DEF SetReady, TypeOK, ManagerTypeOK
<1>17. CASE EnterWait(t)
  <2> DEFINE pc == IF 0 \in ready THEN "woken" ELSE "blocked"
  <2>1. x.pc = "enter" /\ pc \in {"woken", "blocked"}
    BY <1>17 DEF EnterWait, At
  <2>2. [x EXCEPT !.pc = pc] \in Thread /\ GoodLoader([x EXCEPT !.pc = pc], Kind(t))
    <3> HIDE DEF pc
    <3> QED
      BY <1>1, <2>1 DEF Thread, PCs, GoodLoader
  <2> QED
    BY <1>1, <1>17, <2>2, StepEffect DEF EnterWait, Goto
<1>18. CASE LeaveWait(t)
  <2>1. CASE err
    BY <1>1, <1>18, <2>1, RaiseEffect DEF LeaveWait
  <2>2. CASE ~ err
    <3>1. x.pc = "woken"
      BY <1>18 DEF LeaveWait, At
    <3>2. /\ [x EXCEPT !.pc = "load"] \in Thread
          /\ GoodLoader([x EXCEPT !.pc = "load"], Kind(t))
      BY <1>1, <3>1 DEF Thread, PCs, GoodLoader
    <3>3. Step(t, [x EXCEPT !.pc = "load"]) /\ UNCHANGED <<mgrVars, hack, ctx, disk>>
      BY <1>18, <2>2 DEF LeaveWait, Goto, mgrVars
    <3> QED
      BY <1>1, <3>2, <3>3, StepEffect
  <2> QED
    BY <2>1, <2>2
<1>19. CASE FinishLoad(t)
  <2>1. GoodLoaders(thr')
    BY <1>1, <1>19, OffGood, SetLoader DEF FinishLoad, Step
  <2> QED
    BY <1>19, <2>1 DEF FinishLoad, LoaderEffect, TypeOK, ManagerTypeOK, Blended
<1>20. CASE ReleaseWaiters(t)
  <2>1. Kind(t) \in Kinds
    BY DEF Threads
  <2>2. Release(Kind(t)) \in SUBSET Layers
    BY <2>1, LayerSets DEF Release, Kinds
  <2>3. taskB' \in BOOLEAN
    BY <1>20 DEF ReleaseWaiters, TypeOK, ManagerTypeOK
  <2> QED
    BY <1>1, <1>20, <2>2, <2>3, OffGood, WakeEffect DEF ReleaseWaiters
<1> QED
  BY <1>4, <1>5, <1>6, <1>7, <1>8, <1>9, <1>10, <1>11, <1>12, <1>13, <1>14,
     <1>15, <1>16, <1>17, <1>18, <1>19, <1>20 DEF LoaderStep

LEMMA LoaderIsLive ==
    ASSUME NEW t \in Threads, LoaderStep(t) PROVE Live(t)
BY DEF LoaderStep, StartQuery, RejectQuery, OpenDigest, LoadMeta, FailOpen,
       SkipLoaded, FindMissing, LoadLayer, FailLoad, PutDigest, PutHack,
       PutOutOfRange, SetReady, EnterWait, LeaveWait, FinishLoad,
       ReleaseWaiters, At, Live

LEMMA LoaderKeeps ==
    ASSUME IInv, NEW t \in Threads, Loader(t) PROVE IInv'
<1>1. LoaderEffect /\ UNCHANGED serverVars
  BY LoaderEffects DEF IInv, Loader
<1>2. dir \in Samples
  BY LoaderIsLive DEF IInv, LoadersInv, Loader
<1>3. TypeOK'
  BY <1>1 DEF LoaderEffect, IInv, TypeOK, ManagerTypeOK, ServerTypeOK, serverVars,
              GoodLoaders
<1>4. LoadersInv'
  BY <1>1, <1>2 DEF LoaderEffect, LoadersInv
<1>5. RequestsInv'
  BY <1>1 DEF LoaderEffect, IInv, RequestsInv, serverVars
<1>6. BlendedInv'
  BY <1>1 DEF LoaderEffect, IInv, BlendedInv, serverVars
<1> QED
  BY <1>3, <1>4, <1>5, <1>6 DEF IInv

-----------------------------------------------------------------------------
(* The initial state.                                                       *)

LEMMA InitGood == Init => IInv
<1> SUFFICES ASSUME Init PROVE IInv
  OBVIOUS
<1>1. TypeOK
  <2>1. ManagerTypeOK
    BY PoolOperations, OffGood DEF Init, ManagerInit, ManagerTypeOK
  <2>2. ServerTypeOK
    BY PoolOperations, PoolAssumption
       DEF Init, ServerTypeOK, Request, Session, Idle, NoForward, Layers
  <2> QED
    BY <2>1, <2>2 DEF TypeOK
<1>2. LoadersInv
  BY OffGood DEF Init, ManagerInit, LoadersInv, GoodLoaders, Live, At, Off
<1>3. RequestsInv
  BY DEF Init, ManagerInit, RequestsInv, NoForward, Idle
<1>4. BlendedInv
  BY DEF Init, ManagerInit, BlendedInv, Blended, Cleared
<1> QED
  BY <1>1, <1>2, <1>3, <1>4 DEF IInv

-----------------------------------------------------------------------------
(* Clients.                                                                 *)

LEMMA SubmitKeeps ==
    ASSUME IInv, NEW c \in Clients, NEW r \in Reqs, Submit(c, r) PROVE IInv'
<1>1. PICK j \in JobsOf(c) :
          /\ req' = [req EXCEPT ![r] = [state |-> "waiting", client |-> c, job |-> j]]
          /\ client' = [client EXCEPT ![c] =
                IF j.style \in {"KVCOMPUTE", "DO_BLEND_FINISH"}
                THEN Idle ELSE Primed(j.sample)]
  BY DEF Submit
<1>2. j \in Job /\ j.sample \in Samples
  BY DEF JobsOf, Job
<1>3. UNCHANGED <<mgrVars, poolVars, thr, fwd, qbuf, alive>> /\ req[r].state = "unsent"
  BY DEF Submit
<1>4. Cur # None => Cur \in Reqs /\ Cur # r
  BY <1>3 DEF IInv, RequestsInv, TypeOK, ServerTypeOK
<1>5. Cur # None => req'[Cur] = req[Cur]
  BY <1>1, <1>4 DEF IInv, TypeOK, ServerTypeOK
<1>6. TypeOK'
  <2>1. req' \in [Reqs -> Request]
    BY <1>1, <1>2 DEF IInv, TypeOK, ServerTypeOK, Request
  <2>2. client' \in [Clients -> Session]
    BY <1>1, <1>2 DEF IInv, TypeOK, ServerTypeOK, Session, Idle, Primed
  <2> QED
    BY <1>3, <2>1, <2>2
       DEF IInv, TypeOK, ManagerTypeOK, ServerTypeOK, mgrVars, poolVars
<1>7. LoadersInv'
  BY <1>3 DEF IInv, LoadersInv, mgrVars, Live, At
<1>8. RequestsInv'
  <2>1. \A q \in Reqs : req'[q].state # "unsent" => req'[q].job \in Job
    BY <1>1, <1>2 DEF IInv, RequestsInv, TypeOK, ServerTypeOK
  <2>2. \A d \in Clients : client'[d].stage = "primed" => client'[d].sample \in Samples
    BY <1>1, <1>2 DEF IInv, RequestsInv, TypeOK, ServerTypeOK, Idle, Primed
  <2> QED
    BY <1>3, <1>5, <2>1, <2>2 DEF IInv, RequestsInv, mgrVars
<1>9. BlendedInv'
  BY <1>3, <1>5 DEF IInv, BlendedInv, Blended, mgrVars, poolVars
<1> QED
  BY <1>6, <1>7, <1>8, <1>9 DEF IInv

-----------------------------------------------------------------------------
(* The scheduler: preparing a batch, and dying.                             *)

LEMMA NoPassNoBlended ==
    ASSUME IInv, Cur = None PROVE \A l \in Layers : ~ Blended(l)
BY DEF IInv, BlendedInv

LEMMA FreshPools ==
    \A l \in Layers : Cleared.kv[l] = None /\ Prepared.kv[l] = None
BY DEF Cleared, Prepared

\* req and fwd after an admission
LEMMA AdmitKeeps ==
    ASSUME IInv, NEW r \in Reqs, Admit(r),
           mode' \in {"online", "offline"}, dir' \in Samples,
           Style(r) \in BlendStyles => mode' = "online"
    PROVE  /\ req' \in [Reqs -> Request] /\ client' \in [Clients -> Session]
           /\ fwd' \in [req : Reqs \cup {None}, layer : 0 .. NumLayers]
           /\ alive' \in BOOLEAN
           /\ RequestsInv'
<1>1. req' \in [Reqs -> Request] /\ client' \in [Clients -> Session]
  BY DEF Admit, IInv, TypeOK, ServerTypeOK, Request
<1>2. fwd' \in [req : Reqs \cup {None}, layer : 0 .. NumLayers] /\ alive' \in BOOLEAN
  BY PoolAssumption DEF Admit, IInv, TypeOK, ServerTypeOK
<1>3. fwd'.req = r /\ req'[r].state = "forward" /\ req'[r].job = req[r].job
  BY DEF Admit, IInv, TypeOK, ServerTypeOK, Request
<1>4. \A q \in Reqs : req'[q].state # "unsent" => req'[q].job \in Job
  BY DEF Admit, IInv, RequestsInv, TypeOK, ServerTypeOK, Request
<1>5. \A c \in Clients : client'[c].stage = "primed" => client'[c].sample \in Samples
  BY DEF Admit, IInv, RequestsInv
<1>6. RequestsInv'
  BY <1>3, <1>4, <1>5 DEF RequestsInv
<1> QED
  BY <1>1, <1>2, <1>6

LEMMA JobKnown ==
    ASSUME IInv, NEW r \in Reqs, req[r].state # "unsent" PROVE Sample(r) \in Samples
BY DEF IInv, RequestsInv, Job

LEMMA PrepareKVComputeKeeps ==
    ASSUME IInv, NEW r \in Reqs, PrepareKVCompute(r) PROVE IInv'
<1>1. Admit(r) /\ Cur = None /\ Sample(r) \in Samples
  BY JobKnown DEF PrepareKVCompute, Admit, NoForward
<1>2. /\ mode' = "offline" /\ dir' = Sample(r) /\ ready' = {}
      /\ taskB' = FALSE /\ err' = FALSE /\ thr' = Orphaned(thr)
      /\ UNCHANGED <<hack, ctx, disk, qbuf>> /\ Style(r) \notin BlendStyles
  BY DEF PrepareKVCompute, Configure, poolVars, BlendStyles
<1>3. GoodLoaders(thr')
  BY <1>2, WakeLoaders DEF IInv, LoadersInv
<1>4. TypeOK' /\ RequestsInv'
  BY <1>1, <1>2, <1>3, AdmitKeeps
     DEF IInv, TypeOK, ManagerTypeOK, ServerTypeOK, GoodLoaders
<1>5. LoadersInv'
  BY <1>1, <1>2, <1>3 DEF LoadersInv
<1>6. BlendedInv'
  BY <1>1, <1>2, NoPassNoBlended DEF BlendedInv, Blended
<1> QED
  BY <1>4, <1>5, <1>6 DEF IInv

LEMMA PrepareQComputeKeeps ==
    ASSUME IInv, NEW r \in Reqs, PrepareQCompute(r) PROVE IInv'
<1>1. Admit(r) /\ Cur = None /\ Sample(r) \in Samples
  BY JobKnown DEF PrepareQCompute, Admit, NoForward
<1>2. /\ mode' = "online" /\ dir' = Sample(r) /\ ready' = {}
      /\ taskB' = FALSE /\ err' = FALSE
      /\ hack' = Prepared /\ ctx' = Prepared /\ qbuf' = Cleared /\ disk' = disk
  BY DEF PrepareQCompute, Configure
<1>3. GoodLoaders(thr')
  <2> DEFINE f == Orphaned(thr)
  <2>1. GoodLoaders(f)
    BY WakeLoaders DEF IInv, LoadersInv
  <2>2. \/ thr' = Spawned(f, <<r, "query">>, "meta", {}, Sample(r))
        \/ thr' = Spawned(f, <<r, "taskb">>, "meta", Critical, None)
    BY DEF PrepareQCompute
  <2>3. <<r, "query">> \in Threads /\ <<r, "taskb">> \in Threads
    BY DEF Threads, Kinds
  <2> HIDE DEF f
  <2>4. GoodLoaders(Spawned(f, <<r, "query">>, "meta", {}, Sample(r)))
    BY <1>1, <2>1, <2>3, SpawnLoader DEF PCs
  <2>5. GoodLoaders(Spawned(f, <<r, "taskb">>, "meta", Critical, None))
    BY <2>1, <2>3, LayerSets, SpawnLoader DEF PCs
  <2> QED
    BY <2>2, <2>4, <2>5
<1>4. TypeOK' /\ RequestsInv'
  BY <1>1, <1>2, <1>3, AdmitKeeps, PoolOperations
     DEF IInv, TypeOK, ManagerTypeOK, ServerTypeOK, GoodLoaders
<1>5. LoadersInv'
  BY <1>1, <1>2, <1>3 DEF LoadersInv
<1>6. BlendedInv'
  BY <1>2, FreshPools DEF BlendedInv, Blended
<1> QED
  BY <1>4, <1>5, <1>6 DEF IInv

LEMMA PrepareBlendKeeps ==
    ASSUME IInv, NEW r \in Reqs, PrepareBlend(r) PROVE IInv'
<1>1. Admit(r) /\ Cur = None /\ Sample(r) \in Samples /\ <<r, "blend">> \in Threads
  BY JobKnown DEF PrepareBlend, Admit, NoForward, Threads, Kinds
<1>2. mode' = "online" /\ dir' \in Samples /\ ready' = {} /\ ctx' = ctx /\ disk' = disk
      /\ taskB' \in BOOLEAN /\ err' \in BOOLEAN
      /\ hack' \in {hack, Prepared} /\ qbuf' \in {qbuf, Cleared}
  <2>1. CASE mode = "online"
    <3>1. dir \in Samples
      BY <2>1 DEF IInv, RequestsInv
    <3> QED
      BY <2>1, <3>1 DEF PrepareBlend, ResetLayerEvents, IInv, TypeOK, ManagerTypeOK
  <2>2. CASE mode # "online"
    BY <1>1, <2>2 DEF PrepareBlend, Configure
  <2> QED
    BY <2>1, <2>2
<1>3. GoodLoaders(thr')
  <2>1. PICK f \in {thr, Orphaned(thr)} :
            thr' = Spawned(f, <<r, "blend">>, "meta", BlendLayers, None)
    BY DEF PrepareBlend
  <2>2. GoodLoaders(f)
    BY WakeLoaders DEF IInv, LoadersInv
  <2> QED
    BY <1>1, <2>1, <2>2, LayerSets, SpawnLoader DEF PCs
<1>4. TypeOK' /\ RequestsInv'
  BY <1>1, <1>2, <1>3, AdmitKeeps, PoolOperations
     DEF IInv, TypeOK, ManagerTypeOK, ServerTypeOK, GoodLoaders
<1>5. LoadersInv'
  BY <1>2, <1>3 DEF LoadersInv
<1>6. BlendedInv'
  BY <1>1, <1>2, FreshPools, NoPassNoBlended DEF BlendedInv, Blended
<1> QED
  BY <1>4, <1>5, <1>6 DEF IInv

LEMMA DieKeeps == ASSUME IInv, Die PROVE IInv'
<1>1. GoodLoaders(thr') /\ \A t \in Threads : thr'[t].pc = "off"
  BY OffGood DEF Die, GoodLoaders, Off
<1>2. TypeOK' /\ RequestsInv' /\ BlendedInv'
  BY <1>1 DEF Die, IInv, TypeOK, ManagerTypeOK, ServerTypeOK, RequestsInv,
              BlendedInv, Blended, GoodLoaders, mgrVars, poolVars
<1>3. LoadersInv'
  BY <1>1 DEF LoadersInv, Live, At
<1> QED
  BY <1>2, <1>3 DEF IInv

-----------------------------------------------------------------------------
(* The scheduler: the forward pass and what follows it.                     *)

\* every forward step leaves the requests, the manager's flags and the
\* threads alone, and goes on by one layer
ForwardFrame ==
    /\ Cur # None /\ Layer < NumLayers
    /\ fwd' = [fwd EXCEPT !.layer = Layer + 1]
    /\ hack' \in Pools /\ ctx' \in Pools /\ qbuf' \in Pools
    /\ disk' \in [Samples -> {"absent", "good", "bad"}]
    /\ UNCHANGED <<mgrVars, thr, req, client, alive>>

LEMMA FrameKeeps ==
    ASSUME IInv, ForwardFrame
    PROVE  /\ TypeOK' /\ LoadersInv' /\ RequestsInv'
           /\ fwd'.req = Cur /\ fwd'.layer = Layer + 1
           /\ Cur \in Reqs /\ Layer \in Layers
<1>1. fwd \in [req : Reqs \cup {None}, layer : 0 .. NumLayers]
  BY DEF IInv, TypeOK, ServerTypeOK
<1>2. Layer \in Layers /\ Layer + 1 \in 0 .. NumLayers /\ Cur \in Reqs
  BY <1>1, PoolAssumption DEF ForwardFrame, Layers
<1>3. fwd' \in [req : Reqs \cup {None}, layer : 0 .. NumLayers]
      /\ fwd'.req = Cur /\ fwd'.layer = Layer + 1
  BY <1>1, <1>2 DEF ForwardFrame
<1>4. TypeOK'
  BY <1>3 DEF ForwardFrame, IInv, TypeOK, ManagerTypeOK, ServerTypeOK, mgrVars
<1>5. LoadersInv'
  BY DEF ForwardFrame, IInv, LoadersInv, mgrVars, Live, At
<1>6. RequestsInv'
  BY <1>3 DEF ForwardFrame, IInv, RequestsInv, mgrVars
<1> QED
  BY <1>2, <1>3, <1>4, <1>5, <1>6

LEMMA AtLayer ==
    ASSUME IInv, NEW styles, AtLayerOf(styles)
    PROVE  /\ Cur \in Reqs /\ Layer \in Layers /\ Sample(Cur) \in Samples
           /\ Style(Cur) \in AllStyles
           /\ Layer \in Nat /\ Layer < NumLayers
<1>1. fwd \in [req : Reqs \cup {None}, layer : 0 .. NumLayers]
  BY DEF IInv, TypeOK, ServerTypeOK
<1>2. Cur \in Reqs /\ Layer < LastLayer(Cur) /\ req[Cur].state = "forward"
  BY <1>1 DEF AtLayerOf, IInv, RequestsInv
<1>3. LastLayer(Cur) \in 1 .. NumLayers
  BY PoolAssumption, LayerSets DEF LastLayer
<1>4. Layer \in Layers /\ Layer \in Nat /\ Layer < NumLayers
  BY <1>1, <1>2, <1>3, PoolAssumption DEF Layers
<1>5. req[Cur].job \in Job
  BY <1>2 DEF IInv, RequestsInv
<1> QED
  BY <1>2, <1>4, <1>5 DEF Job

LEMMA ForwardKVComputeKeeps ==
    ASSUME IInv, ForwardKVCompute PROVE IInv'
<1>1. /\ Cur \in Reqs /\ Layer \in Layers /\ Sample(Cur) \in Samples
      /\ Layer < NumLayers /\ Cur # None /\ Style(Cur) = "KVCOMPUTE"
  BY AtLayer DEF ForwardKVCompute, AtLayerOf
<1>2. hack' = Appended(hack, Layer, Sample(Cur)) /\ hack' \in Pools
  BY <1>1, PoolOperations DEF ForwardKVCompute, IInv, TypeOK, ManagerTypeOK
<1>3. ctx' \in Pools
  BY PoolOperations DEF ForwardKVCompute, IInv, TypeOK, ManagerTypeOK
<1>4. disk' \in [Samples -> {"absent", "good", "bad"}]
  <2>1. disk \in [Samples -> {"absent", "good", "bad"}]
    BY DEF IInv, TypeOK, ManagerTypeOK
  <2>2. \/ disk' = disk
        \/ \E b \in {"good", "bad"} : disk' = [disk EXCEPT ![dir] = b]
    BY DEF ForwardKVCompute
  <2> QED
    BY <2>1, <2>2
<1>5. ForwardFrame
  BY <1>1, <1>2, <1>3, <1>4
     DEF ForwardKVCompute, NextLayer, ForwardFrame, Layers, IInv, TypeOK, ServerTypeOK
<1>6. \A l \in Layers : Blended(l)' => Blended(l)
  BY <1>1, <1>2, FreshPools
     DEF Blended, Appended, Raw, IInv, TypeOK, ManagerTypeOK, Pools
<1>7. BlendedInv'
  BY <1>1, <1>6 DEF BlendedInv, IInv, BlendStyles
<1> QED
  BY <1>5, <1>7, FrameKeeps DEF IInv

LEMMA ForwardQComputeKeeps ==
    ASSUME IInv, ForwardQCompute PROVE IInv'
<1>1. /\ Cur \in Reqs /\ Layer \in Layers /\ Sample(Cur) \in Samples
      /\ Layer < NumLayers /\ Cur # None /\ Style(Cur) = "QCOMPUTE"
  BY AtLayer DEF ForwardQCompute, AtLayerOf
<1>2. qbuf' \in Pools
  BY <1>1, PoolOperations DEF ForwardQCompute, IInv, TypeOK, ServerTypeOK
<1>3. ForwardFrame
  BY <1>1, <1>2 DEF ForwardQCompute, NextLayer, ForwardFrame, Layers, poolVars,
                    IInv, TypeOK, ManagerTypeOK
<1>4. BlendedInv'
  BY <1>1 DEF ForwardQCompute, BlendedInv, Blended, IInv, BlendStyles, poolVars
<1> QED
  BY <1>3, <1>4, FrameKeeps DEF IInv

LEMMA ForwardSelectKeeps ==
    ASSUME IInv, ForwardSelect PROVE IInv'
<1>1. Cur \in Reqs /\ Layer \in Layers /\ Layer < NumLayers /\ Cur # None
  BY AtLayer DEF ForwardSelect, AtLayerOf
<1>2. ForwardFrame
  BY <1>1 DEF ForwardSelect, NextLayer, ForwardFrame, Layers, poolVars,
              IInv, TypeOK, ManagerTypeOK, ServerTypeOK
<1>3. fwd'.req = Cur /\ fwd'.layer = Layer + 1
  BY <1>2, FrameKeeps
<1>4. BlendedInv'
  BY <1>1, <1>3 DEF ForwardSelect, BlendedInv, Blended, IInv, poolVars, Layers
<1> QED
  BY <1>2, <1>4, FrameKeeps DEF IInv

LEMMA ForwardBlendKeeps ==
    ASSUME IInv, ForwardBlend PROVE IInv'
<1>1. /\ Cur \in Reqs /\ Layer \in Layers /\ Layer \in Nat
      /\ Layer < NumLayers /\ Cur # None /\ Style(Cur) \in BlendStyles
  BY AtLayer DEF ForwardBlend, AtLayerOf
<1> DEFINE written == [hack EXCEPT !.kv[Layer].form = "blended"]
<1>2. hack.kv[Layer] \in KV
  BY <1>1 DEF ForwardBlend, Proceeds, Readable, Selects, HasKV, BlendStyles,
              IInv, TypeOK, ManagerTypeOK, Pools
<1>3. /\ written \in Pools
      /\ \A l \in Layers \ {Layer} : written.kv[l] = hack.kv[l]
  BY <1>1, <1>2 DEF IInv, TypeOK, ManagerTypeOK, Pools, KV, Forms
<1>4. \/ hack' = hack
      \/ /\ hack' = written
         /\ Style(Cur) = "DO_BLEND" => Layer \notin Critical
  BY DEF ForwardBlend
<1>5. ForwardFrame
  BY <1>1, <1>3, <1>4 DEF ForwardBlend, NextLayer, ForwardFrame, Layers,
              IInv, TypeOK, ManagerTypeOK, ServerTypeOK
<1>6. fwd'.req = Cur /\ fwd'.layer = Layer + 1
  BY <1>5, FrameKeeps
<1>7. ASSUME NEW l \in Layers, Blended(l)'
      PROVE  l < Layer + 1 /\ (Style(Cur) = "DO_BLEND" => l \notin Critical)
  <2>1. CASE Blended(l)
    BY <1>1, <2>1 DEF IInv, BlendedInv, Layers
  <2>2. CASE ~ Blended(l)
    <3>1. l = Layer /\ hack' # hack
      BY <1>3, <1>4, <1>7, <2>2 DEF Blended
    <3>2. Style(Cur) = "DO_BLEND" => Layer \notin Critical
      BY <1>4, <3>1
    <3> QED
      BY <1>1, <3>1, <3>2
  <2> QED
    BY <2>1, <2>2
<1>8. BlendedInv'
  BY <1>1, <1>6, <1>7, <1>5 DEF BlendedInv, ForwardFrame
<1> QED
  BY <1>5, <1>8, FrameKeeps DEF IInv

\* a request changes state between two passes; the cleanup, if there is one,
\* empties pools and flags but keeps the directories and the threads
CleanupFrame ==
    /\ mode' \in {mode, "none"} /\ ready' \in SUBSET Layers
    /\ taskB' \in BOOLEAN /\ err' \in BOOLEAN
    /\ hack' \in Pools /\ ctx' \in Pools /\ qbuf' \in Pools
    /\ UNCHANGED <<dir, disk, thr>>

LEMMA BetweenPasses ==
    ASSUME IInv, CleanupFrame, NEW r \in Reqs, req[r].state # "unsent",
           NEW st \in {"running", "finished", "waiting"},
           req' = [req EXCEPT ![r].state = st], fwd' = NoForward,
           UNCHANGED <<client, alive>>, \A l \in Layers : ~ Blended(l)'
    PROVE  IInv'
<1>1. TypeOK'
  BY PoolAssumption DEF CleanupFrame, NoForward, IInv, TypeOK, ManagerTypeOK,
                        ServerTypeOK, Request
<1>2. LoadersInv'
  BY DEF CleanupFrame, IInv, LoadersInv, Live, At
<1>3. RequestsInv'
  <2>1. \A q \in Reqs : req'[q].state # "unsent" => req'[q].job \in Job
    BY DEF IInv, RequestsInv, TypeOK, ServerTypeOK, Request
  <2> QED
    BY <2>1 DEF CleanupFrame, NoForward, IInv, RequestsInv
<1>4. BlendedInv'
  BY DEF BlendedInv
<1> QED
  BY <1>1, <1>2, <1>3, <1>4 DEF IInv

LEMMA CleanupIsFrame ==
    ASSUME IInv, CleanupRuntimeState
    PROVE  CleanupFrame /\ \A l \in Layers : ~ Blended(l)'
<1>1. CleanupFrame
  BY PoolOperations DEF CleanupRuntimeState, Cleanup, Reset, CleanupFrame
<1>2. \A l \in Layers : ~ Blended(l)'
  BY FreshPools DEF CleanupRuntimeState, Cleanup, Blended
<1> QED
  BY <1>1, <1>2

LEMMA PostForwardKeeps ==
    ASSUME IInv, PostForward PROVE IInv'
<1>1. Cur \in Reqs /\ req[Cur].state # "unsent"
  BY DEF PostForward, IInv, RequestsInv, TypeOK, ServerTypeOK
<1>2. CleanupFrame /\ \A l \in Layers : ~ Blended(l)'
  <2>1. CASE Style(Cur) = "KVCOMPUTE" /\ AfterKVCompute
    <3>1. \A l \in Layers : ~ Blended(l)
      BY <2>1 DEF IInv, BlendedInv, BlendStyles
    <3>2. \A l \in Layers : ~ Blended(l)'
      BY <2>1, <3>1, FreshPools DEF AfterKVCompute, Blended
    <3> QED
      BY <2>1, <3>2, PoolOperations
         DEF AfterKVCompute, CleanupFrame, mgrVars, IInv, TypeOK, ManagerTypeOK,
             ServerTypeOK
  <2>2. CASE Style(Cur) = "QCOMPUTE" /\ UNCHANGED <<mgrVars, poolVars, thr, qbuf>>
    <3>1. \A l \in Layers : ~ Blended(l)
      BY <2>2 DEF IInv, BlendedInv, BlendStyles
    <3> QED
      BY <2>2, <3>1 DEF CleanupFrame, Blended, mgrVars, poolVars, IInv, TypeOK,
                        ManagerTypeOK, ServerTypeOK
  <2>3. CASE Style(Cur) = "DO_BLEND" /\ AfterDoBlend
    <3>1. mode = "online"
      BY <2>3 DEF PostForward, IInv, RequestsInv, BlendStyles
    <3>2. hack' = KeptOnly(hack, Critical) /\ hack' \in Pools
      BY <2>3, <3>1, PoolOperations DEF AfterDoBlend, IInv, TypeOK, ManagerTypeOK
    <3>3. ASSUME NEW l \in Layers, Blended(l)' PROVE FALSE
      <4>1. hack'.kv[l] = IF l \in Critical THEN hack.kv[l] ELSE None
        BY <3>2 DEF KeptOnly, IInv, TypeOK, ManagerTypeOK, Pools
      <4>2. l \in Critical /\ Blended(l)
        BY <3>3, <4>1 DEF Blended
      <4> QED
        BY <2>3, <4>2 DEF IInv, BlendedInv
    <3> QED
      BY <2>3, <3>1, <3>2, <3>3
         DEF AfterDoBlend, ResetLayerEvents, CleanupFrame, IInv, TypeOK,
             ManagerTypeOK, ServerTypeOK
  <2>4. CASE Style(Cur) = "DO_BLEND_FINISH" /\ CleanupRuntimeState
    BY <2>4, CleanupIsFrame
  <2> QED
    BY <2>1, <2>2, <2>3, <2>4 DEF PostForward
<1>3. /\ req' = [req EXCEPT ![Cur].state = "running"] /\ fwd' = NoForward
      /\ UNCHANGED <<client, alive>>
  BY DEF PostForward
<1> QED
  BY <1>1, <1>2, <1>3, BetweenPasses

LEMMA EndKeeps ==
    ASSUME IInv, NEW r \in Reqs, Finish(r) \/ Retract(r) PROVE IInv'
<1>1. /\ fwd = NoForward /\ fwd' = NoForward /\ req[r].state = "running"
      /\ FinishCleanup(r) /\ UNCHANGED <<client, alive>>
  BY DEF Finish, Retract
<1>2. PICK st \in {"finished", "waiting"} : req' = [req EXCEPT ![r].state = st]
  BY DEF Finish, Retract
<1>3. CleanupFrame /\ \A l \in Layers : ~ Blended(l)'
  <2>1. CASE CleanupRuntimeState
    BY <2>1, CleanupIsFrame
  <2>2. CASE UNCHANGED <<mgrVars, poolVars, thr, qbuf>>
    <3>1. \A l \in Layers : ~ Blended(l)
      BY <1>1, NoPassNoBlended DEF NoForward
    <3> QED
      BY <2>2, <3>1 DEF CleanupFrame, Blended, mgrVars, poolVars, IInv, TypeOK,
                        ManagerTypeOK, ServerTypeOK
  <2> QED
    BY <1>1, <2>1, <2>2 DEF FinishCleanup
<1> QED
  BY <1>1, <1>2, <1>3, BetweenPasses

-----------------------------------------------------------------------------
(* The invariant, and the theorems.                                         *)

LEMMA NextKeeps == IInv /\ [Next]_vars => IInv'
<1> SUFFICES ASSUME IInv, [Next]_vars PROVE IInv'
  OBVIOUS
<1>1. CASE \E c \in Clients, r \in Reqs : Submit(c, r)
  BY <1>1, SubmitKeeps
<1>2. CASE \E r \in Reqs : \/ PrepareKVCompute(r) \/ PrepareQCompute(r)
                           \/ FailRestore(r) \/ PrepareBlend(r)
                           \/ Finish(r) \/ Retract(r)
  BY <1>2, PrepareKVComputeKeeps, PrepareQComputeKeeps, PrepareBlendKeeps,
     DieKeeps, EndKeeps DEF FailRestore
<1>3. CASE ForwardKVCompute \/ ForwardQCompute \/ ForwardSelect \/ ForwardBlend
  BY <1>3, ForwardKVComputeKeeps, ForwardQComputeKeeps, ForwardSelectKeeps,
     ForwardBlendKeeps
<1>4. CASE ForwardThrows \/ PostForward
  BY <1>4, DieKeeps, PostForwardKeeps DEF ForwardThrows
<1>5. CASE \E t \in Threads : Loader(t)
  BY <1>5, LoaderKeeps
<1>6. CASE UNCHANGED vars
  BY <1>6 DEF vars, IInv, TypeOK, ManagerTypeOK, ServerTypeOK, LoadersInv,
              RequestsInv, BlendedInv, Blended, Live, At
<1> QED
  BY <1>1, <1>2, <1>3, <1>4, <1>5, <1>6 DEF Next, SchedulerStep

LEMMA InvariantHolds == Spec => []IInv
<1> QED
  BY InitGood, NextKeeps, PTL DEF Spec

(***************************************************************************)
(* Every variable of the manager, the loader threads, the scheduler and    *)
(* the clients keeps its type: no list grows past the number of layers, no *)
(* event is set for a layer the model does not have.                       *)
(***************************************************************************)
THEOREM TypeCorrect == Spec => []TypeOK
<1>1. IInv => TypeOK
  BY DEF IInv
<1> QED
  BY <1>1, InvariantHolds, PTL

(***************************************************************************)
(* KV that a blend round has rotated and overwritten in place is never the *)
(* input of another forward pass.  CacheBlender.blend writes in place in   *)
(* the last round, or on layers that clear_do_blend_layers drops after the *)
(* round; a loader only ever writes KV it has read from SSD.               *)
(***************************************************************************)
THEOREM BlendedSafe == Spec => []BlendedNeverReused
<1>1. IInv => BlendedNeverReused
  BY DEF IInv, BlendedInv, BlendedNeverReused
<1> QED
  BY <1>1, InvariantHolds, PTL

-----------------------------------------------------------------------------
(* One client that keeps to the runner's protocol, with any number of       *)
(* samples and requests, every choice of critical layers and start layer,   *)
(* and any read failing.                                                    *)

SessionParts ==
    OneAtATime /\ SessionInv /\ RestInv /\ PoolsInv /\ CrewInv /\ OwnLoaders

LEMMA RawKV == \A s \in Samples : Raw(s) \in KV /\ Raw(s) # None
BY PoolAssumption DEF Raw, KV, Forms

LEMMA LastCriticalBounds == \A c \in Critical : c < QEnd
<1>1. Critical \subseteq Nat /\ \E m \in Critical : \A c \in Critical : c <= m
  BY ManagerAssumption, PoolAssumption DEF Layers
<1>2. LastCritical \in Critical /\ \A c \in Critical : c <= LastCritical
  BY <1>1 DEF LastCritical
<1> QED
  BY <1>1, <1>2 DEF QEnd

-----------------------------------------------------------------------------
(* The loader threads.                                                      *)

\* the other threads go on as they were, or return from their wait
OthersGoOn(t) ==
    \A u \in Threads \ {t} :
        \/ thr'[u] = thr[u]
        \/ thr[u].pc = "blocked" /\ thr'[u] = [thr[u] EXCEPT !.pc = "woken"]

\* what a step of loader t does to the pools, the events and the other threads
Publishes(t) ==
    /\ UNCHANGED <<mode, dir, disk, req, client, fwd, qbuf, alive>>
    /\ err => err'
    /\ \A l \in Layers : /\ hack'.kv[l] \in {hack.kv[l], Raw(dir)}
                         /\ ctx'.kv[l] \in {ctx.kv[l], Raw(dir)}
    /\ \/ err'
       \/ ready' = ready
       \/ \E l \in thr[t].todo :
             /\ ready' = ready \cup {l}
             /\ \/ Kind(t) = "digest" /\ ctx'.kv[l] # None
                \/ Kind(t) = "blend" /\ hack'.kv[l] # None
    /\ \/ taskB' = taskB
       \/ /\ ~ Live(t)' /\ Kind(t) \in Selecting
          /\ err' \/ \A l \in Critical : hack'.kv[l] = Raw(dir)
    /\ OthersGoOn(t)

LEMMA PublishKeepsPools ==
    ASSUME IInv, PoolsInv, CrewInv, mode = "online",
           NEW t \in Threads, Live(t), Publishes(t), thr[t].todo \in SUBSET Layers
    PROVE  PoolsInv'
<1>1. dir \in Samples /\ Raw(dir) # None
  BY RawKV DEF IInv, RequestsInv
<1>2. /\ mode' = mode /\ dir' = dir /\ fwd' = fwd /\ req' = req /\ qbuf' = qbuf
      /\ \A l : Overwritten(l)' <=> Overwritten(l)
      /\ InForward({"QCOMPUTE"})' <=> InForward({"QCOMPUTE"})
      /\ InForward(BlendStyles)' <=> InForward(BlendStyles)
  BY DEF Publishes, Overwritten, InForward
<1>3. \A l \in Layers : hack'.kv[l] \in {None, Raw(dir)} \/ Overwritten(l)
  BY DEF Publishes, PoolsInv
<1>4. \A l \in Layers : ctx'.kv[l] \in {None, Raw(dir)}
  BY DEF Publishes, PoolsInv
<1>5. ~ err' /\ taskB' => \A l \in Critical : hack'.kv[l] = Raw(dir) \/ Overwritten(l)
  BY LayerSets DEF Publishes, PoolsInv
<1>6. ~ err' /\ InForward({"QCOMPUTE"}) => \A l \in ready' : ctx'.kv[l] # None
  <2> SUFFICES ASSUME ~ err', InForward({"QCOMPUTE"}), NEW l \in ready'
               PROVE  ctx'.kv[l] # None
    OBVIOUS
  <2>1. Kind(t) # "blend"
    BY DEF CrewInv, InForward, BlendStyles
  <2>2. CASE l \in ready
    BY <1>1, <2>2 DEF Publishes, PoolsInv, IInv, TypeOK, ManagerTypeOK
  <2>3. CASE l \notin ready
    BY <2>1, <2>3 DEF Publishes
  <2> QED
    BY <2>2, <2>3
<1>7. ~ err' /\ InForward(BlendStyles) => \A l \in ready' : hack'.kv[l] # None
  <2> SUFFICES ASSUME ~ err', InForward(BlendStyles), NEW l \in ready'
               PROVE  hack'.kv[l] # None
    OBVIOUS
  <2>1. Kind(t) # "digest"
    BY DEF CrewInv, InForward, BlendStyles
  <2>2. CASE l \in ready
    BY <1>1, <2>2 DEF Publishes, PoolsInv, IInv, TypeOK, ManagerTypeOK
  <2>3. CASE l \notin ready
    BY <2>1, <2>3 DEF Publishes
  <2> QED
    BY <2>2, <2>3
<1>8. ~ (InForward(BlendStyles) /\ Layer = NumLayers)
  <2> SUFFICES ASSUME InForward(BlendStyles), Layer = NumLayers PROVE FALSE
    OBVIOUS
  <2>1. Start < NumLayers - 1 /\ Start \in Nat /\ NumLayers \in Nat
    BY ManagerAssumption, PoolAssumption DEF Layers
  <2>2. Kind(t) \in Kinds
    BY DEF Threads
  <2> QED
    BY <2>1, <2>2 DEF CrewInv, Kinds, Selecting, InForward, BlendStyles
<1>9. \A l \in Layers :
          IF InForward({"QCOMPUTE"})
          THEN qbuf.kv[l] = IF l \in Critical /\ l < Layer THEN Raw(dir) ELSE None
          ELSE l \in Critical => qbuf.kv[l] = Raw(dir)
  BY DEF PoolsInv
<1> QED
  BY <1>2, <1>3, <1>4, <1>5, <1>6, <1>7, <1>8, <1>9 DEF PoolsInv

LEMMA PublishKeepsCrew ==
    ASSUME IInv, CrewInv, mode = "online",
           NEW t \in Threads, Live(t), Publishes(t)
    PROVE  CrewInv'
<1>1. \A u \in Threads : Live(u)' => Live(u)
  BY DEF Publishes, OthersGoOn, Live, At
<1>2. /\ fwd' = fwd /\ req' = req
      /\ InForward({"QCOMPUTE"})' <=> InForward({"QCOMPUTE"})
      /\ InForward(BlendStyles)' <=> InForward(BlendStyles)
  BY DEF Publishes, InForward
<1>3. ASSUME NEW u \in Threads, Live(u)', Kind(u) \in Selecting PROVE ~ taskB'
  <2>1. Live(u) /\ ~ taskB
    BY <1>1, <1>3 DEF CrewInv
  <2>2. CASE u = t
    BY <1>3, <2>1, <2>2 DEF Publishes
  <2>3. CASE u # t
    <3>1. Kind(t) \notin Selecting
      BY <1>3, <2>1, <2>3 DEF CrewInv, Together
    <3> QED
      BY <2>1, <3>1 DEF Publishes
  <2> QED
    BY <2>2, <2>3
<1>4. \A u, v \in Threads : Live(u)' /\ Live(v)' /\ u # v => Together(Kind(u), Kind(v))
  BY <1>1 DEF CrewInv
<1>5. \A u \in Threads : Live(u)' =>
          /\ Kind(u) \in {"query", "digest"} =>
                InForward({"QCOMPUTE"}) /\ Layer < QEnd /\ req[Cur].job.source = "query"
          /\ Kind(u) \in Selecting => ~ taskB' /\ (InForward(BlendStyles) => Layer <= Start)
          /\ Kind(u) = "blend" => InForward(BlendStyles) /\ Layer < NumLayers
  BY <1>1, <1>3 DEF CrewInv
<1> QED
  BY <1>2, <1>4, <1>5 DEF CrewInv, Together

LEMMA PublishKeepsLoaders ==
    ASSUME IInv, CrewInv, OwnLoaders, mode = "online",
           NEW t \in Threads, Live(t), Publishes(t), thr[t].todo \in SUBSET Layers,
           Live(t)' => OwnLoader(thr[t], Kind(t))'
    PROVE  OwnLoaders'
<1> SUFFICES ASSUME NEW u \in Threads, Live(u)', u # t
             PROVE  OwnLoader(thr[u], Kind(u))'
  BY DEF OwnLoaders
<1> DEFINE x == thr[u]
           y == thr'[u]
<1>1. dir \in Samples /\ Raw(dir) # None /\ mode' = mode /\ dir' = dir
  BY RawKV DEF IInv, RequestsInv, Publishes
<1>2. Live(u) /\ OwnLoader(x, Kind(u)) /\ x \in Thread
  BY DEF Publishes, OthersGoOn, Live, At, OwnLoaders, IInv, TypeOK, ManagerTypeOK
<1>3. /\ y.todo = x.todo /\ y.meta = x.meta /\ y.file = x.file /\ y.kv = x.kv
      /\ y.pc = x.pc \/ (x.pc = "blocked" /\ y.pc = "woken")
  <2>1. CASE y = x
    BY <2>1
  <2>2. CASE x.pc = "blocked" /\ y = [x EXCEPT !.pc = "woken"]
    BY <1>2, <2>2 DEF Thread
  <2> QED
    BY <2>1, <2>2 DEF Publishes, OthersGoOn
<1>4. Together(Kind(u), Kind(t))
  BY <1>2 DEF CrewInv
<1>5. /\ y.pc = "fail" => err'
      /\ Kind(u) = "query" => y.pc \in {"meta", "fail"}
      /\ y.meta = dir \/ (Kind(u) \in {"taskb", "blend"} /\ y.pc \in {"meta", "fail"})
      /\ Kind(u) = "digest" /\ y.pc \in {"load", "put", "set"} => y.file = dir
      /\ y.pc = "put" => y.kv = Raw(dir)
      /\ y.pc = "set" => Kind(u) \in {"digest", "blend"}
      /\ y.pc = "finish" => y.todo = {} /\ Kind(u) \in {"critical", "taskb"}
  BY <1>2, <1>3 DEF OwnLoader, Publishes
<1>6. ASSUME ~ err'
      PROVE  /\ Kind(u) = "query" => ready' = {}
             /\ Kind(u) \in {"digest", "blend"} => y.todo \cap ready' = {}
  <2>1. ~ err
    BY <1>6 DEF Publishes
  <2>2. Kind(u) # "query"
    BY <1>4 DEF Together
  <2>3. Kind(u) \in {"digest", "blend"} => Kind(t) \notin {"digest", "blend"}
    BY <1>2, <1>4 DEF Together, CrewInv, InForward, BlendStyles
  <2>4. Kind(u) \in {"digest", "blend"} => ready' = ready
    BY <1>6, <2>3 DEF Publishes
  <2> QED
    BY <1>2, <1>3, <2>1, <2>2, <2>4 DEF OwnLoader
<1>7. ASSUME ~ err'
      PROVE  /\ Kind(u) = "digest" => y.todo \in SUBSET DigestLayers /\ QEnd - 1 \in y.todo
             /\ Kind(u) = "blend" => y.todo \in SUBSET BlendLayers /\ NumLayers - 1 \in y.todo
  BY <1>2, <1>3, <1>7 DEF OwnLoader, Publishes
<1>8. ASSUME ~ err', y.pc = "set", NEW l \in y.todo, \A m \in y.todo : l <= m
      PROVE  \/ Kind(u) = "digest" /\ ctx'.kv[l] # None
             \/ Kind(u) = "blend" /\ hack'.kv[l] # None
  <2>1. x.pc = "set" /\ l \in x.todo /\ l \in Layers /\ \A m \in x.todo : l <= m
    BY <1>2, <1>3, <1>8 DEF Thread
  <2>2. \/ Kind(u) = "digest" /\ ctx.kv[l] # None
        \/ Kind(u) = "blend" /\ hack.kv[l] # None
    BY <1>2, <1>8, <2>1 DEF OwnLoader, Publishes
  <2> QED
    BY <1>1, <2>1, <2>2 DEF Publishes
<1>9. ASSUME ~ err', Kind(u) \in {"critical", "taskb"}, NEW l \in Critical \ y.todo
      PROVE  hack'.kv[l] = Raw(dir)
  <2>1. hack.kv[l] = Raw(dir) /\ l \in Layers
    BY <1>2, <1>3, <1>9, LayerSets DEF OwnLoader, Publishes
  <2> QED
    BY <2>1 DEF Publishes
<1> QED
  BY <1>1, <1>5, <1>6, <1>7, <1>8, <1>9 DEF OwnLoader

\* a step that changes only the thread's own entry
LEMMA OwnStep ==
    ASSUME IInv, mode = "online", NEW t \in Threads, NEW x, Step(t, x),
           Live(t), x.pc # "off" => OwnLoader(x, Kind(t)),
           UNCHANGED <<mgrVars, hack, ctx, disk, serverVars>>
    PROVE  Publishes(t) /\ (Live(t)' => OwnLoader(thr[t], Kind(t))')
<1>1. thr'[t] = x /\ OthersGoOn(t)
  BY DEF OthersGoOn, Step, IInv, TypeOK, ManagerTypeOK
<1>2. Publishes(t)
  BY <1>1 DEF Publishes, mgrVars, serverVars
<1>3. Live(t)' => OwnLoader(thr[t], Kind(t))'
  BY <1>1 DEF OwnLoader, Live, At, mgrVars
<1> QED
  BY <1>2, <1>3

LEMMA RaiseStep ==
    ASSUME IInv, OwnLoaders, mode = "online", NEW t \in Threads, Live(t), Raise(t),
           UNCHANGED <<mode, dir, ready, taskB, hack, ctx, disk, serverVars>>
    PROVE  Publishes(t) /\ (Live(t)' => OwnLoader(thr[t], Kind(t))')
<1> DEFINE x == thr[t]
           y == [x EXCEPT !.pc = "fail"]
<1>1. x \in Thread /\ OwnLoader(x, Kind(t))
  BY DEF OwnLoaders, IInv, TypeOK, ManagerTypeOK
<1>2. err' /\ thr'[t] = y /\ OthersGoOn(t)
  BY DEF OthersGoOn, Raise, Goto, Step, IInv, TypeOK, ManagerTypeOK
<1>3. Publishes(t)
  BY <1>2 DEF Publishes, serverVars
<1>4. y.pc = "fail" /\ y.meta = x.meta
  BY <1>1 DEF Thread
<1>5. OwnLoader(thr[t], Kind(t))'
  BY <1>1, <1>2, <1>4 DEF OwnLoader
<1> QED
  BY <1>3, <1>5

\* a step that wakes the waiters for the layers it makes ready
LEMMA WakeStep ==
    ASSUME IInv, NEW t \in Threads, NEW x, x.pc # "blocked", NEW S,
           thr' = Woken([thr EXCEPT ![t] = x], S)
    PROVE  thr'[t] = x /\ OthersGoOn(t)
<1>1. thr \in [Threads -> Thread]
  BY DEF IInv, TypeOK, ManagerTypeOK
<1> QED
  BY <1>1 DEF Woken, OthersGoOn

\* the loader that has made the layer Next0(t) ready goes on with the others
LEMMA PublishLayer ==
    ASSUME IInv, OwnLoaders, mode = "online",
           NEW t \in Threads, Kind(t) \in {"digest", "blend"}, thr[t].pc \in {"check", "set"},
           NEW pc \in {"check", "load"}, pc = "check" => Kind(t) = "blend",
           \/ Kind(t) = "digest" /\ (~ err => ctx.kv[Next0(t)] # None)
           \/ Kind(t) = "blend" /\ (~ err => hack.kv[Next0(t)] # None),
           thr[t].pc = "check" => Kind(t) = "blend",
           thr' = Woken([thr EXCEPT ![t] = Advance(t, pc)], {Next0(t)}),
           ready' = ready \cup {Next0(t)},
           UNCHANGED <<mode, dir, taskB, err, hack, ctx, disk, serverVars>>
    PROVE  Publishes(t) /\ (Live(t)' => OwnLoader(thr[t], Kind(t))')
<1> DEFINE x == thr[t]
           y == Advance(t, pc)
           l == Next0(t)
<1>1. x \in Thread /\ x.todo # {} /\ OwnLoader(x, Kind(t)) /\ Live(t)
  BY DEF OwnLoaders, IInv, TypeOK, ManagerTypeOK, LoadersInv, GoodLoaders, GoodLoader,
         Live, At
<1>2. l \in x.todo /\ (\A m \in x.todo : l <= m) /\ x.todo \in SUBSET Layers
  BY <1>1, NextInTodo DEF Thread
<1>3. CASE Rest(t) = {}
  <2>1. y = Off
    BY <1>3 DEF Advance
  <2>2. thr'[t] = Off /\ OthersGoOn(t)
    <3>1. thr' = Woken([thr EXCEPT ![t] = Off], {l}) /\ Off.pc # "blocked"
      BY <2>1 DEF Off
    <3> QED
      BY <3>1, WakeStep
  <2>3. Publishes(t)
    BY <1>2, <2>2 DEF Publishes, serverVars
  <2> QED
    BY <2>2, <2>3 DEF Live, At, Off
<1>4. CASE Rest(t) # {}
  <2>1. y = [x EXCEPT !.pc = pc, !.todo = Rest(t), !.kv = None]
    BY <1>4 DEF Advance
  <2>2. /\ y.pc = pc /\ y.todo = x.todo \ {l} /\ y.meta = x.meta /\ y.file = x.file
    BY <1>1, <2>1 DEF Thread, Rest
  <2>3. thr'[t] = y /\ OthersGoOn(t)
    <3>1. thr' = Woken([thr EXCEPT ![t] = y], {l}) /\ y.pc # "blocked"
      BY <2>2
    <3> HIDE DEF y, l
    <3> QED
      BY <3>1, WakeStep
  <2>4. Publishes(t)
    BY <1>2, <2>3 DEF Publishes, serverVars
  <2>5. ASSUME ~ err
        PROVE  /\ Kind(t) = "digest" => y.todo \in SUBSET DigestLayers /\ QEnd - 1 \in y.todo
               /\ Kind(t) = "blend" => y.todo \in SUBSET BlendLayers /\ NumLayers - 1 \in y.todo
    <3>1. PICK k \in Layers : k \in y.todo /\ l <= k /\ k # l
      BY <1>2, <1>4, <2>2 DEF Rest
    <3>2. CASE Kind(t) = "digest"
      <4>1. x.todo \in SUBSET DigestLayers /\ QEnd - 1 \in x.todo
        BY <1>1, <2>5, <3>2 DEF OwnLoader
      <4>2. k <= QEnd - 1 /\ k \in Nat /\ l \in Nat /\ QEnd \in Nat
        BY <1>2, <2>2, <3>1, <4>1, LayerSets, PoolAssumption DEF DigestLayers, Layers
      <4>3. l # QEnd - 1
        BY <3>1, <4>2
      <4> QED
        BY <2>2, <3>2, <4>1, <4>3
    <3>3. CASE Kind(t) = "blend"
      <4>1. x.todo \in SUBSET BlendLayers /\ NumLayers - 1 \in x.todo
        BY <1>1, <2>5, <3>3 DEF OwnLoader
      <4>2. k <= NumLayers - 1 /\ k \in Nat /\ l \in Nat /\ NumLayers \in Nat
        BY <1>2, <2>2, <3>1, <4>1, PoolAssumption DEF Layers
      <4>3. l # NumLayers - 1
        BY <3>1, <4>2
      <4> QED
        BY <2>2, <3>3, <4>1, <4>3
    <3> QED
      BY <3>2, <3>3
  <2>6. ~ err => y.todo \cap ready' = {}
    BY <1>1, <2>2 DEF OwnLoader
  <2>7. /\ x.meta = dir /\ (Kind(t) = "digest" => x.file = dir)
    BY <1>1 DEF OwnLoader
  <2>8. OwnLoader(thr[t], Kind(t))'
    <3> HIDE DEF y, l
    <3> QED
      BY <2>2, <2>3, <2>5, <2>6, <2>7 DEF OwnLoader
  <2> QED
    BY <2>4, <2>8
<1> QED
  BY <1>3, <1>4

LEMMA LoaderPublishes ==
    ASSUME IInv, SavedCachePure, PoolsInv, CrewInv, OwnLoaders, mode = "online",
           NEW t \in Threads, LoaderStep(t), ~ StartQuery(t), UNCHANGED serverVars
    PROVE  Publishes(t) /\ (Live(t)' => OwnLoader(thr[t], Kind(t))')
<1> DEFINE x == thr[t]
           l == Next0(t)
<1>1. /\ x \in Thread /\ GoodLoader(x, Kind(t)) /\ OwnLoader(x, Kind(t)) /\ Live(t)
      /\ Kind(t) \in Kinds
  BY LoaderIsLive DEF OwnLoaders, IInv, TypeOK, ManagerTypeOK, LoadersInv, GoodLoaders,
                      Threads
<1>2. dir \in Samples /\ Raw(dir) \in KV /\ Raw(dir) # None
  BY RawKV DEF IInv, RequestsInv
<1>3. x.todo # {} => /\ l \in x.todo /\ l \in Layers
                     /\ \A m \in x.todo : l <= m
  BY <1>1, NextInTodo DEF Thread
<1>4. hack \in Pools /\ ctx \in Pools /\ thr \in [Threads -> Thread]
  BY DEF IInv, TypeOK, ManagerTypeOK
<1>5. CASE RejectQuery(t)
  BY <1>1, <1>5, RaiseStep DEF RejectQuery
<1>6. CASE OpenDigest(t)
  <2> DEFINE y == [x EXCEPT !.pc = "load", !.file = dir]
  <2>1. /\ y.pc = "load" /\ y.file = dir /\ y.meta = x.meta /\ y.todo = x.todo
        /\ Kind(t) = "digest"
    BY <1>1, <1>6 DEF OpenDigest, Thread
  <2>2. OwnLoader(y, Kind(t))
    BY <1>1, <2>1 DEF OwnLoader
  <2> QED
    BY <1>1, <1>6, <2>2, OwnStep DEF OpenDigest
<1>7. CASE LoadMeta(t)
  <2> DEFINE y == [x EXCEPT !.meta = dir,
                            !.pc = IF Kind(t) = "blend" THEN "check" ELSE "load"]
  <2>1. /\ y.pc \in {"check", "load"} /\ y.meta = dir /\ y.todo = x.todo
        /\ Kind(t) \in {"taskb", "blend"}
    BY <1>1, <1>7 DEF LoadMeta, Thread
  <2>2. OwnLoader(y, Kind(t))
    BY <1>1, <2>1 DEF OwnLoader
  <2> QED
    BY <1>1, <1>7, <2>2, OwnStep DEF LoadMeta
<1>8. CASE FailOpen(t)
  BY <1>1, <1>8, RaiseStep DEF FailOpen
<1>9. CASE SkipLoaded(t)
  <2>1. x.pc = "check" /\ Kind(t) = "blend" /\ hack.kv[l] # None
    BY <1>1, <1>9 DEF SkipLoaded, At, GoodLoader, HasKV
  <2> QED
    BY <1>9, <2>1, PublishLayer DEF SkipLoaded
<1>10. CASE FindMissing(t)
  <2> DEFINE y == [x EXCEPT !.pc = "load"]
  <2>1. /\ y.pc = "load" /\ y.meta = x.meta /\ y.todo = x.todo
        /\ x.pc = "check" /\ Kind(t) = "blend"
    BY <1>1, <1>10 DEF FindMissing, At, Thread, GoodLoader
  <2>2. OwnLoader(y, Kind(t))
    BY <1>1, <2>1 DEF OwnLoader
  <2> QED
    BY <1>1, <1>10, <2>2, OwnStep DEF FindMissing, Goto
<1>11. CASE LoadLayer(t)
  <2> DEFINE file == IF Kind(t) = "digest" THEN x.file ELSE dir
             y == [x EXCEPT !.pc = "put", !.file = file, !.kv = Read(x.meta, file)]
  <2>1. x.pc = "load" /\ x.meta = dir /\ file = dir /\ disk[dir] = "good"
    <3>1. x.pc = "load" /\ disk[file] # "absent"
      BY <1>11 DEF LoadLayer, At
    <3>2. x.meta = dir /\ file = dir
      BY <1>1, <3>1 DEF OwnLoader
    <3>3. disk[dir] \in {"absent", "good", "bad"} /\ disk[dir] # "bad"
      BY <1>2 DEF IInv, TypeOK, ManagerTypeOK, SavedCachePure
    <3> QED
      BY <3>1, <3>2, <3>3
  <2>2. Read(x.meta, file) = Raw(dir)
    BY <2>1 DEF Read, Raw
  <2>3. /\ y.pc = "put" /\ y.file = dir /\ y.kv = Raw(dir) /\ y.meta = dir
        /\ y.todo = x.todo
    <3> HIDE DEF file
    <3> QED
      BY <1>1, <2>1, <2>2 DEF Thread
  <2>4. OwnLoader(y, Kind(t))
    <3> HIDE DEF y
    <3> QED
      BY <1>1, <2>1, <2>3 DEF OwnLoader
  <2> QED
    BY <1>1, <1>11, <2>4, OwnStep DEF LoadLayer
<1>12. CASE FailLoad(t)
  BY <1>1, <1>12, RaiseStep DEF FailLoad
<1>13. CASE PutDigest(t)
  <2> DEFINE y == [x EXCEPT !.pc = "set", !.kv = None]
  <2>1. /\ x.pc = "put" /\ x.kv = Raw(dir) /\ Kind(t) = "digest" /\ l \in Layers
        /\ l \in x.todo
    BY <1>1, <1>3, <1>13 DEF PutDigest, At, OwnLoader, GoodLoader
  <2>2. /\ ctx' = Stored(ctx, l, Raw(dir)) /\ thr'[t] = y /\ OthersGoOn(t)
        /\ UNCHANGED <<mgrVars, hack, disk>>
    BY <1>4, <1>13, <2>1 DEF PutDigest, Step, OthersGoOn
  <2>3. \A k \in Layers : ctx'.kv[k] = IF k = l THEN Raw(dir) ELSE ctx.kv[k]
    BY <1>4, <2>1, <2>2 DEF Stored, Pools
  <2>4. Publishes(t)
    BY <2>2, <2>3 DEF Publishes, mgrVars, serverVars
  <2>5. y.pc = "set" /\ y.todo = x.todo /\ y.meta = x.meta /\ y.file = x.file
    BY <1>1 DEF Thread
  <2>6. ASSUME NEW k \in x.todo, \A m \in x.todo : k <= m PROVE k = l
    BY <1>1, <1>3, <2>1, <2>6, PoolAssumption DEF Thread, Layers
  <2>7. \A k \in x.todo : (\A m \in x.todo : k <= m) => ctx'.kv[k] # None
    BY <1>2, <2>1, <2>3, <2>6
  <2>8. OwnLoader(thr[t], Kind(t))'
    <3> HIDE DEF y, l
    <3> QED
      BY <1>1, <2>1, <2>2, <2>5, <2>7 DEF OwnLoader, mgrVars
  <2> QED
    BY <2>4, <2>8
<1>14. CASE PutHack(t)
  <2> DEFINE y == CASE Kind(t) = "blend" -> [x EXCEPT !.pc = "set", !.kv = None]
                    [] Kind(t) # "blend" /\ Rest(t) = {} ->
                           [x EXCEPT !.pc = "finish", !.kv = None, !.todo = {}]
                    [] Kind(t) = "taskb" /\ Rest(t) # {} -> Advance(t, "load")
                    [] OTHER -> [x EXCEPT !.todo = Rest(t)]
  <2>1. /\ x.pc = "put" /\ x.kv = Raw(dir) /\ l \in Layers /\ l \in x.todo
        /\ x.meta = dir /\ Kind(t) \in {"critical", "taskb", "blend"}
    BY <1>1, <1>3, <1>14 DEF PutHack, At, OwnLoader, GoodLoader, Kinds
  <2>2. /\ hack' = Stored(hack, l, Raw(dir)) /\ UNCHANGED <<mgrVars, ctx, disk>>
    BY <1>14, <2>1 DEF PutHack
  <2>3. thr'[t] = y /\ OthersGoOn(t)
    <3>1. thr' = [thr EXCEPT ![t] = y]
      BY <1>14 DEF PutHack, Step
    <3> HIDE DEF y
    <3> QED
      BY <1>4, <3>1 DEF OthersGoOn
  <2>4. \A k \in Layers : hack'.kv[k] = IF k = l THEN Raw(dir) ELSE hack.kv[k]
    BY <1>4, <2>1, <2>2 DEF Stored, Pools
  <2>5. Publishes(t)
    BY <2>2, <2>3, <2>4 DEF Publishes, mgrVars, serverVars
  <2>6. OwnLoader(thr[t], Kind(t))'
    <3>1. CASE Kind(t) = "blend"
      <4>1. y.pc = "set" /\ y.todo = x.todo /\ y.meta = x.meta
        BY <1>1, <3>1 DEF Thread
      <4>2. ASSUME NEW k \in x.todo, \A m \in x.todo : k <= m PROVE k = l
        BY <1>1, <1>3, <2>1, <4>2, PoolAssumption DEF Thread, Layers
      <4>3. \A k \in x.todo : (\A m \in x.todo : k <= m) => hack'.kv[k] # None
        BY <1>2, <2>1, <2>4, <4>2
      <4> HIDE DEF y, l
      <4> QED
        BY <1>1, <2>1, <2>2, <2>3, <3>1, <4>1, <4>3 DEF OwnLoader, mgrVars
    <3>2. CASE Kind(t) # "blend"
      <4>1. /\ y.todo = x.todo \ {l} /\ y.meta = x.meta /\ y.kv \in {x.kv, None}
            /\ y.pc \in {"put", "load", "finish"}
            /\ y.pc = "put" => y.kv = x.kv
            /\ y.pc = "finish" => y.todo = {}
        <5>1. Rest(t) = x.todo \ {l}
          BY DEF Rest
        <5>2. CASE Rest(t) = {}
          <6>1. y = [x EXCEPT !.pc = "finish", !.kv = None, !.todo = {}]
            BY <3>2, <5>2
          <6> HIDE DEF y, l
          <6> QED
            BY <1>1, <5>1, <5>2, <6>1 DEF Thread
        <5>3. CASE Kind(t) = "taskb" /\ Rest(t) # {}
          <6>1. y = [x EXCEPT !.pc = "load", !.todo = Rest(t), !.kv = None]
            BY <5>3 DEF Advance
          <6> HIDE DEF y, l
          <6> QED
            BY <1>1, <5>1, <5>3, <6>1 DEF Thread
        <5>4. CASE Kind(t) # "taskb" /\ Rest(t) # {}
          <6>1. y = [x EXCEPT !.todo = Rest(t)]
            BY <3>2, <5>4
          <6> HIDE DEF y, l
          <6> QED
            BY <1>1, <2>1, <5>1, <5>4, <6>1 DEF Thread
        <5> QED
          BY <5>2, <5>3, <5>4
      <4>2. ~ err => \A k \in Critical \ y.todo : hack'.kv[k] = Raw(dir)
        BY <1>1, <2>1, <2>4, <3>2, <4>1, LayerSets DEF OwnLoader
      <4>3. Kind(t) \in {"critical", "taskb"}
        BY <2>1, <3>2
      <4> HIDE DEF y, l
      <4> QED
        BY <2>1, <2>2, <2>3, <4>1, <4>2, <4>3 DEF OwnLoader, mgrVars
    <3> QED
      BY <3>1, <3>2
  <2> QED
    BY <2>5, <2>6
<1>15. CASE PutOutOfRange(t)
  BY <1>1, <1>15, RaiseStep DEF PutOutOfRange
<1>16. CASE SetReady(t)
  <2> DEFINE next == IF Kind(t) = "blend" THEN "check" ELSE "load"
  <2>1. x.pc = "set" /\ x.todo # {}
    BY <1>1, <1>16 DEF SetReady, At, GoodLoader
  <2>2. ASSUME ~ err
        PROVE  \/ Kind(t) = "digest" /\ ctx.kv[l] # None
               \/ Kind(t) = "blend" /\ hack.kv[l] # None
    BY <1>1, <1>3, <2>1, <2>2 DEF OwnLoader
  <2>3. Kind(t) \in {"digest", "blend"}
    BY <1>1, <2>1 DEF OwnLoader
  <2> QED
    BY <1>16, <2>1, <2>2, <2>3, PublishLayer DEF SetReady
<1>17. CASE EnterWait(t)
  <2> DEFINE pc == IF 0 \in ready THEN "woken" ELSE "blocked"
             y == [x EXCEPT !.pc = pc]
  <2>1. x.pc = "enter" /\ pc \in {"woken", "blocked"} /\ Kind(t) = "critical"
    BY <1>1, <1>17 DEF EnterWait, At, GoodLoader
  <2>2. y.pc \in {"woken", "blocked"} /\ y.meta = x.meta /\ y.todo = x.todo
    <3> HIDE DEF pc
    <3> QED
      BY <1>1, <2>1 DEF Thread
  <2>3. OwnLoader(y, Kind(t))
    <3> HIDE DEF y
    <3> QED
      BY <1>1, <2>1, <2>2 DEF OwnLoader
  <2> QED
    BY <1>1, <1>17, <2>3, OwnStep DEF EnterWait, Goto
<1>18. CASE LeaveWait(t)
  <2>1. CASE err
    BY <1>1, <1>18, <2>1, RaiseStep DEF LeaveWait
  <2>2. CASE ~ err
    <3> DEFINE y == [x EXCEPT !.pc = "load"]
    <3>1. x.pc = "woken" /\ Kind(t) = "critical"
      BY <1>1, <1>18 DEF LeaveWait, At, GoodLoader
    <3>2. y.pc = "load" /\ y.meta = x.meta /\ y.todo = x.todo
      BY <1>1 DEF Thread
    <3>3. OwnLoader(y, Kind(t))
      <4> HIDE DEF y
      <4> QED
        BY <1>1, <3>1, <3>2 DEF OwnLoader
    <3>4. Step(t, y) /\ UNCHANGED <<mgrVars, hack, ctx, disk>>
      BY <1>18, <2>2 DEF LeaveWait, Goto, mgrVars
    <3> QED
      BY <1>1, <3>3, <3>4, OwnStep
  <2> QED
    BY <2>1, <2>2
<1>19. CASE FinishLoad(t)
  <2>1. x.pc = "finish" /\ x.todo = {} /\ Kind(t) \in {"critical", "taskb"}
    BY <1>1, <1>19 DEF FinishLoad, At, OwnLoader
  <2>2. ~ err => \A k \in Critical : hack.kv[k] = Raw(dir)
    BY <1>1, <2>1 DEF OwnLoader
  <2>3. thr'[t] = Off /\ OthersGoOn(t)
    BY <1>4, <1>19 DEF FinishLoad, Step, OthersGoOn
  <2>4. ~ Live(t)'
    BY <2>3 DEF Live, At, Off
  <2>5. Publishes(t)
    BY <1>19, <2>1, <2>2, <2>3, <2>4 DEF FinishLoad, Publishes, serverVars, Selecting
  <2> QED
    BY <2>4, <2>5
<1>20. CASE ReleaseWaiters(t)
  <2>1. err /\ err'
    BY <1>1, <1>20 DEF ReleaseWaiters, At, OwnLoader
  <2>2. thr' = Woken([thr EXCEPT ![t] = Off], Release(Kind(t))) /\ Off.pc # "blocked"
    BY <1>20 DEF ReleaseWaiters, Off
  <2>3. thr'[t] = Off /\ OthersGoOn(t)
    BY <2>2, WakeStep
  <2>4. ~ Live(t)'
    BY <2>3 DEF Live, At, Off
  <2>5. taskB' = taskB \/ Kind(t) \in Selecting
    BY <1>20 DEF ReleaseWaiters, ReleasesTaskB, Selecting, IInv, TypeOK, ManagerTypeOK
  <2>6. Publishes(t)
    BY <1>20, <2>1, <2>3, <2>4, <2>5 DEF ReleaseWaiters, Publishes, serverVars
  <2> QED
    BY <2>4, <2>6
<1> QED
  BY <1>5, <1>6, <1>7, <1>8, <1>9, <1>10, <1>11, <1>12, <1>13, <1>14, <1>15,
     <1>16, <1>17, <1>18, <1>19, <1>20 DEF LoaderStep

\* the query loader hands over to the digest and the critical loader
LEMMA StartQueryKeeps ==
    ASSUME IInv, SessionParts, mode = "online",
           NEW t \in Threads, StartQuery(t), UNCHANGED serverVars
    PROVE  PoolsInv' /\ CrewInv' /\ OwnLoaders'
<1> DEFINE d == <<t[1], "digest">>
           c == <<t[1], "critical">>
           forDigest   == [Off EXCEPT !.pc = "meta", !.todo = DigestLayers, !.meta = thr[t].meta]
           forCritical == [Off EXCEPT !.pc = "enter", !.todo = Critical, !.meta = thr[t].meta]
<1>1. /\ Kind(t) = "query" /\ Live(t) /\ d \in Threads /\ c \in Threads /\ d # t /\ c # t
      /\ d # c /\ t \in Threads
  BY DEF StartQuery, Live, At, Threads, Kinds
<1>2. thr' = [[[thr EXCEPT ![d] = forDigest] EXCEPT ![c] = forCritical] EXCEPT ![t] = Off]
  BY DEF StartQuery, Spawned
<1>3. /\ thr'[t] = Off /\ thr'[d] = forDigest /\ thr'[c] = forCritical
      /\ \A u \in Threads \ {t, d, c} : thr'[u] = thr[u]
  <2> HIDE DEF d, c, forDigest, forCritical
  <2> QED
    BY <1>1, <1>2 DEF IInv, TypeOK, ManagerTypeOK
<1>4. OwnLoader(thr[t], "query")
  BY <1>1 DEF SessionParts, OwnLoaders
<1>5. \A u \in Threads : Live(u)' => u \in {d, c}
  <2>1. \A u \in Threads \ {t} : ~ Live(u)
    BY <1>1 DEF SessionParts, CrewInv, Together
  <2> HIDE DEF d, c
  <2> QED
    BY <1>3, <2>1 DEF Live, At, Off
<1>6. UNCHANGED <<mgrVars, hack, ctx, disk, req, client, fwd, qbuf, alive>>
  BY DEF StartQuery, serverVars
<1>7. PoolsInv'
  BY <1>6 DEF SessionParts, PoolsInv, Overwritten, InForward, mgrVars
<1>8. Kind(d) = "digest" /\ Kind(c) = "critical"
  OBVIOUS
<1>9. /\ ~ taskB /\ (InForward(BlendStyles) => Layer <= Start)
      /\ InForward({"QCOMPUTE"}) /\ Layer < QEnd /\ req[Cur].job.source = "query"
  BY <1>1 DEF SessionParts, CrewInv, Selecting
<1>10. CrewInv'
  <2>1. \A u, v \in Threads : Live(u)' /\ Live(v)' /\ u # v => Together(Kind(u), Kind(v))
    <3>1. Together(Kind(d), Kind(c)) /\ Together(Kind(c), Kind(d))
      BY <1>8 DEF Together, Selecting
    <3> HIDE DEF d, c
    <3> QED
      BY <1>5, <3>1
  <2>2. ASSUME NEW u \in Threads, Live(u)'
        PROVE  Kind(u) \in {"digest", "critical"}
    <3> HIDE DEF d, c
    <3> QED
      BY <1>5, <1>8, <2>2
  <2> QED
    BY <1>6, <1>9, <2>1, <2>2 DEF CrewInv, Selecting, InForward, mgrVars
<1>11. thr[t].meta = dir
  BY <1>4 DEF OwnLoader
<1>12. OwnLoader(thr[d], Kind(d))'
  <2>1. thr'[d].pc = "meta" /\ thr'[d].todo = DigestLayers /\ thr'[d].meta = dir
    BY <1>3, <1>11 DEF Off
  <2>2. ~ err => ready = {}
    BY <1>4 DEF OwnLoader
  <2>3. QEnd - 1 \in DigestLayers
    BY LayerSets DEF DigestLayers
  <2> HIDE DEF d
  <2> QED
    BY <1>6, <1>8, <2>1, <2>2, <2>3 DEF OwnLoader, mgrVars
<1>13. OwnLoader(thr[c], Kind(c))'
  <2>1. thr'[c].pc = "enter" /\ thr'[c].todo = Critical /\ thr'[c].meta = dir
    BY <1>3, <1>11 DEF Off
  <2> HIDE DEF c
  <2> QED
    BY <1>6, <1>8, <2>1 DEF OwnLoader, mgrVars
<1>14. OwnLoaders'
  <2> HIDE DEF d, c
  <2> QED
    BY <1>5, <1>12, <1>13 DEF OwnLoaders
<1> QED
  BY <1>7, <1>10, <1>14

LEMMA LoaderKeepsSession ==
    ASSUME IInv, SavedCachePure, SessionParts, NEW t \in Threads, Loader(t)
    PROVE  SavedCachePure' /\ SessionParts' /\ (err => err')
<1>1. mode = "online" /\ LoaderStep(t) /\ Live(t) /\ UNCHANGED serverVars
  BY LoaderIsLive DEF SessionParts, RestInv, Loader
<1>2. UNCHANGED <<mode, dir, disk, req, client, fwd, qbuf, alive>>
  BY <1>1, LoaderEffects DEF IInv, LoaderEffect, serverVars
<1>3. PoolsInv' /\ CrewInv' /\ OwnLoaders' /\ (err => err')
  <2>1. CASE StartQuery(t)
    BY <1>1, <2>1, StartQueryKeeps DEF StartQuery, mgrVars
  <2>2. CASE ~ StartQuery(t)
    <3>1. Publishes(t) /\ (Live(t)' => OwnLoader(thr[t], Kind(t))')
      BY <1>1, <2>2, LoaderPublishes DEF SessionParts
    <3>2. thr[t].todo \in SUBSET Layers
      BY DEF IInv, TypeOK, ManagerTypeOK, Thread
    <3> QED
      BY <1>1, <3>1, <3>2, PublishKeepsPools, PublishKeepsCrew, PublishKeepsLoaders
         DEF SessionParts, Publishes
  <2> QED
    BY <2>1, <2>2
<1>4. OneAtATime' /\ SessionInv'
  BY <1>2 DEF SessionParts, OneAtATime, SessionInv, Active, InSession
<1>5. RestInv' /\ SavedCachePure'
  BY <1>1, <1>2 DEF RestInv, SavedCachePure
<1> QED
  BY <1>3, <1>4, <1>5 DEF SessionParts

-----------------------------------------------------------------------------
(* Steps that change the requests.                                          *)

\* between two passes the requests say nothing about pools and loaders
LEMMA BetweenPassesSame ==
    ASSUME SessionParts, Cur = None, fwd' = fwd, UNCHANGED <<mgrVars, poolVars, thr, qbuf>>
    PROVE  RestInv' /\ PoolsInv' /\ CrewInv' /\ OwnLoaders'
<1>1. RestInv'
  BY DEF SessionParts, RestInv, Live, At, mgrVars, poolVars
<1>2. /\ ~ InForward({"QCOMPUTE"}) /\ ~ InForward({"QCOMPUTE"})'
      /\ ~ InForward(BlendStyles) /\ ~ InForward(BlendStyles)'
  BY DEF InForward
<1>3. PoolsInv'
  BY <1>2 DEF SessionParts, PoolsInv, Overwritten, mgrVars, poolVars
<1>4. CrewInv'
  BY <1>2 DEF SessionParts, CrewInv, Live, At, mgrVars
<1>5. OwnLoaders'
  BY DEF SessionParts, OwnLoaders, OwnLoader, Live, At, mgrVars, poolVars
<1> QED
  BY <1>1, <1>3, <1>4, <1>5

LEMMA SubmitKeepsSession ==
    ASSUME RunnerProtocol, IInv, SavedCachePure, SessionParts,
           NEW c \in Clients, NEW r \in Reqs, Submit(c, r)
    PROVE  SavedCachePure' /\ SessionParts'
<1>1. PICK j \in JobsOf(c) :
          /\ req' = [req EXCEPT ![r] = [state |-> "waiting", client |-> c, job |-> j]]
          /\ client' = [client EXCEPT ![c] =
                IF j.style \in {"KVCOMPUTE", "DO_BLEND_FINISH"}
                THEN Idle ELSE Primed(j.sample)]
  BY DEF Submit
<1>2. /\ UNCHANGED <<mgrVars, poolVars, thr, fwd, qbuf, alive>>
      /\ req[r].state = "unsent" /\ ~ Busy(c)
  BY DEF Submit
<1>3. \A q \in Reqs : ~ Active(q)
  BY <1>2 DEF SessionParts, OneAtATime, Active, Busy, RunnerProtocol
<1>4. Cur = None
  BY <1>3 DEF IInv, RequestsInv, TypeOK, ServerTypeOK, Active
<1>5. /\ req'[r] = [state |-> "waiting", client |-> c, job |-> j]
      /\ \A q \in Reqs \ {r} : req'[q] = req[q]
  BY <1>1 DEF IInv, TypeOK, ServerTypeOK
<1>6. OneAtATime'
  <2>1. \A q \in Reqs : Active(q)' => q = r
    BY <1>3, <1>5 DEF Active
  <2>2. \A q \in Reqs : req'[q].state # "unsent" => req'[q].client \in Clients
    BY <1>5 DEF SessionParts, OneAtATime
  <2>3. \A q \in Reqs : req'[q].state # "forward"
    BY <1>3, <1>5 DEF Active
  <2> QED
    BY <2>1, <2>2, <2>3 DEF OneAtATime
<1>7. client[c] = IF mode = "online" THEN Primed(dir) ELSE Idle
  BY <1>3 DEF SessionParts, SessionInv
<1>8. /\ j.style \in AllStyles /\ ~ j.ratio0
      /\ mode = "online" => j.style \in BlendStyles /\ j.sample = dir
      /\ mode # "online" => j.style \in {"KVCOMPUTE", "QCOMPUTE"}
  BY <1>7 DEF JobsOf, Job, RunnerProtocol, Offline, Query, Blend, Primed, Idle
<1>9. \A d \in Clients : client'[d] = IF j.style \in {"QCOMPUTE", "DO_BLEND"}
                                      THEN Primed(j.sample) ELSE Idle
  <2>1. \A d \in Clients : d = c
    BY DEF RunnerProtocol
  <2>2. client'[c] = IF j.style \in {"KVCOMPUTE", "DO_BLEND_FINISH"}
                     THEN Idle ELSE Primed(j.sample)
    BY <1>1 DEF IInv, TypeOK, ServerTypeOK
  <2> QED
    BY <1>8, <2>1, <2>2 DEF AllStyles
<1>10. SessionInv'
  <2>1. \A q \in Reqs : Active(q)' => q = r
    BY <1>3, <1>5 DEF Active
  <2>2. Active(r)' /\ (InSession(r)' <=> mode = "online")
    BY <1>5, <1>8 DEF Active, InSession, BlendStyles
  <2>3. mode' = mode /\ dir' = dir
    BY <1>2 DEF mgrVars
  <2>4. req'[r].job = j /\ req'[r].state = "waiting"
    BY <1>5
  <2> QED
    BY <1>8, <1>9, <2>1, <2>2, <2>3, <2>4 DEF SessionInv
<1>11. RestInv' /\ PoolsInv' /\ CrewInv' /\ OwnLoaders'
  BY <1>2, <1>4, BetweenPassesSame
<1>12. SavedCachePure'
  BY <1>2 DEF SavedCachePure, poolVars
<1> QED
  BY <1>6, <1>10, <1>11, <1>12 DEF SessionParts

LEMMA AdmitKeepsSession ==
    ASSUME IInv, SessionParts, NEW r \in Reqs, Admit(r), dir' = Sample(r),
           mode' = IF Style(r) = "KVCOMPUTE" THEN "offline" ELSE "online"
    PROVE  /\ OneAtATime' /\ SessionInv'
           /\ fwd'.req = r /\ fwd'.layer = 0 /\ r # None /\ Cur = None
           /\ req'[r].job = req[r].job
           /\ mode = "online" <=> InSession(r)
           /\ mode = "online" => Sample(r) = dir
<1>1. /\ Active(r) /\ req[r].state = "waiting" /\ Style(r) \in AllStyles
      /\ Cur = None /\ r # None /\ fwd' = [req |-> r, layer |-> 0] /\ client' = client
  BY ServerAssumption DEF Admit, Active, IInv, RequestsInv, Job, NoForward
<1>2. /\ \A q \in Reqs \ {r} : req'[q] = req[q]
      /\ req'[r].state = "forward" /\ req'[r].job = req[r].job
      /\ req'[r].client = req[r].client
  BY DEF Admit, IInv, TypeOK, ServerTypeOK, Request
<1>3. \A q \in Reqs : Active(q)' => q = r
  BY <1>1, <1>2 DEF SessionParts, OneAtATime, Active
<1>4. Active(r)'
  BY <1>2 DEF Active
<1>5. OneAtATime'
  <2>1. \A q \in Reqs : req'[q].state # "unsent" => req'[q].client \in Clients
    BY <1>1, <1>2 DEF SessionParts, OneAtATime
  <2>2. \A q \in Reqs : req'[q].state = "forward" => q = r
    BY <1>3 DEF Active
  <2> QED
    BY <1>1, <1>3, <2>1, <2>2 DEF OneAtATime
<1>6. /\ InSession(r)' <=> mode' = "online"
      /\ Style(r)' = Style(r) /\ Sample(r)' = Sample(r)
  BY <1>1, <1>2 DEF InSession, AllStyles
<1>7. /\ ~ req[r].job.ratio0
      /\ \A c \in Clients : client[c] = IF Style(r) \in {"QCOMPUTE", "DO_BLEND"}
                                        THEN Primed(Sample(r)) ELSE Idle
      /\ mode = "online" <=> InSession(r)
      /\ mode = "online" => Sample(r) = dir
  BY <1>1 DEF SessionParts, SessionInv
<1>8. SessionInv'
  BY <1>1, <1>2, <1>3, <1>4, <1>6, <1>7 DEF SessionInv
<1> QED
  BY <1>1, <1>2, <1>5, <1>7, <1>8

LEMMA PrepareKVComputeKeepsSession ==
    ASSUME IInv, SavedCachePure, SessionParts, NEW r \in Reqs, PrepareKVCompute(r)
    PROVE  SavedCachePure' /\ SessionParts' /\ ~ err
<1>1. /\ Admit(r) /\ Style(r) = "KVCOMPUTE" /\ mode' = "offline" /\ dir' = Sample(r)
      /\ err' = FALSE /\ thr' = Orphaned(thr) /\ UNCHANGED <<hack, disk>>
  BY DEF PrepareKVCompute, Configure, poolVars
<1>2. OneAtATime' /\ SessionInv' /\ fwd'.layer = 0 /\ Cur = None /\ mode # "online"
  BY <1>1, AdmitKeepsSession DEF InSession
<1>3. (\A t \in Threads : ~ Live(t)) /\ ~ err /\ \A l \in Layers : hack.kv[l] = None
  BY <1>2 DEF SessionParts, RestInv
<1>4. \A t \in Threads : ~ Live(t)'
  BY <1>1, <1>3 DEF Orphaned, Live, At, IInv, TypeOK, ManagerTypeOK
<1>5. RestInv'
  BY <1>1, <1>2, <1>3, <1>4 DEF RestInv, Layers
<1>6. PoolsInv' /\ CrewInv' /\ OwnLoaders' /\ SavedCachePure'
  BY <1>1 DEF PoolsInv, CrewInv, OwnLoaders, SavedCachePure
<1> QED
  BY <1>2, <1>3, <1>5, <1>6 DEF SessionParts

LEMMA PrepareQComputeKeepsSession ==
    ASSUME IInv, SavedCachePure, SessionParts, NEW r \in Reqs, PrepareQCompute(r)
    PROVE  SavedCachePure' /\ SessionParts' /\ ~ err
<1>1. /\ Admit(r) /\ Style(r) = "QCOMPUTE" /\ mode' = "online" /\ dir' = Sample(r)
      /\ ready' = {} /\ taskB' = FALSE /\ err' = FALSE
      /\ hack' = Prepared /\ ctx' = Prepared /\ qbuf' = Cleared /\ disk' = disk
      /\ req[r].state = "waiting"
  BY DEF PrepareQCompute, Configure, Admit
<1>2. /\ OneAtATime' /\ SessionInv' /\ Cur = None /\ mode # "online" /\ r # None
      /\ fwd'.layer = 0 /\ fwd'.req = r /\ req'[r].job = req[r].job
  BY <1>1, AdmitKeepsSession DEF InSession
<1>3. (\A u \in Threads : thr[u].pc = "off") /\ ~ err
  BY <1>2 DEF SessionParts, RestInv, Live, At
<1>4. Orphaned(thr) = thr
  BY <1>3 DEF Orphaned, IInv, TypeOK, ManagerTypeOK
<1>5. PICK t \in Threads, x \in Thread :
          /\ thr' = [thr EXCEPT ![t] = x] /\ x.pc = "meta"
          /\ \/ Kind(t) = "query" /\ req[r].job.source = "query" /\ x.meta = Sample(r)
             \/ Kind(t) = "taskb" /\ x.todo = Critical
  <2>1. CASE req[r].job.source = "query"
    <3>1. thr' = [thr EXCEPT ![<<r, "query">>] =
                     [Off EXCEPT !.pc = "meta", !.todo = {}, !.meta = Sample(r)]]
      BY <1>4, <2>1 DEF PrepareQCompute, Spawned
    <3> DEFINE t == <<r, "query">>
               x == [Off EXCEPT !.pc = "meta", !.todo = {}, !.meta = Sample(r)]
    <3>2. /\ t \in Threads /\ Kind(t) = "query" /\ x.pc = "meta" /\ x.meta = Sample(r)
          /\ x \in Thread
      BY <1>1, JobKnown DEF Threads, Kinds, Off, Thread, PCs
    <3> HIDE DEF t, x
    <3> QED
      BY <2>1, <3>1, <3>2 DEF t, x
  <2>2. CASE req[r].job.source # "query"
    <3>1. thr' = [thr EXCEPT ![<<r, "taskb">>] =
                     [Off EXCEPT !.pc = "meta", !.todo = Critical, !.meta = None]]
      BY <1>4, <2>2 DEF PrepareQCompute, Spawned
    <3> DEFINE t == <<r, "taskb">>
               x == [Off EXCEPT !.pc = "meta", !.todo = Critical, !.meta = None]
    <3>2. /\ t \in Threads /\ Kind(t) = "taskb" /\ x.pc = "meta" /\ x.todo = Critical
          /\ x \in Thread
      BY LayerSets DEF Threads, Kinds, Off, Thread, PCs
    <3> HIDE DEF t, x
    <3> QED
      BY <3>1, <3>2 DEF t, x
  <2> QED
    BY <2>1, <2>2
<1>6. thr'[t] = x /\ \A u \in Threads \ {t} : thr'[u] = thr[u]
  BY <1>5 DEF IInv, TypeOK, ManagerTypeOK
<1>7. \A u \in Threads : Live(u)' => u = t
  BY <1>3, <1>6 DEF Live, At
<1>8. thr'[t].pc = "meta" /\ Kind(t) \in {"query", "taskb"}
  BY <1>5, <1>6
<1>9. InForward({"QCOMPUTE"})' /\ ~ InForward(BlendStyles)'
  BY <1>1, <1>2 DEF InForward, BlendStyles
<1>10. PoolsInv'
  BY <1>1, <1>2, <1>9 DEF PoolsInv, Prepared, Cleared, Layers
<1>11. CrewInv'
  <2>1. QEnd > 0
    BY LayerSets, PoolAssumption
  <2> QED
    BY <1>1, <1>2, <1>5, <1>7, <1>9, <2>1 DEF CrewInv, Selecting
<1>12. OwnLoader(thr[t], Kind(t))'
  BY <1>1, <1>5, <1>6, <1>8 DEF OwnLoader
<1>13. OwnLoaders'
  BY <1>7, <1>12 DEF OwnLoaders
<1>14. RestInv' /\ SavedCachePure'
  BY <1>1 DEF RestInv, SavedCachePure
<1> QED
  BY <1>2, <1>3, <1>10, <1>11, <1>13, <1>14 DEF SessionParts

LEMMA PrepareBlendKeepsSession ==
    ASSUME IInv, SavedCachePure, SessionParts, NEW r \in Reqs, PrepareBlend(r)
    PROVE  SavedCachePure' /\ SessionParts' /\ err' = err
<1> DEFINE t == <<r, "blend">>
           x == [Off EXCEPT !.pc = "meta", !.todo = BlendLayers, !.meta = None]
<1>1. Admit(r) /\ Style(r) \in BlendStyles /\ req[r].state = "waiting"
  BY DEF PrepareBlend, Admit
<1>2. mode = "online" /\ dir = Sample(r)
  BY <1>1 DEF SessionParts, SessionInv, InSession, BlendStyles, Active
<1>3. /\ UNCHANGED <<mode, dir, taskB, err, hack, qbuf, ctx, disk>> /\ ready' = {}
      /\ thr' = [thr EXCEPT ![t] = x]
  BY <1>2 DEF PrepareBlend, ResetLayerEvents, Spawned
<1>4. /\ OneAtATime' /\ SessionInv' /\ Cur = None /\ r # None
      /\ fwd'.layer = 0 /\ fwd'.req = r /\ req'[r].job = req[r].job
  BY <1>1, <1>2, <1>3, AdmitKeepsSession DEF BlendStyles
<1>5. t \in Threads /\ Kind(t) = "blend"
  BY DEF Threads, Kinds
<1>6. thr'[t] = x /\ \A u \in Threads \ {t} : thr'[u] = thr[u]
  <2> HIDE DEF t, x
  <2> QED
    BY <1>3, <1>5 DEF IInv, TypeOK, ManagerTypeOK
<1>7. /\ ~ InForward({"QCOMPUTE"}) /\ ~ InForward(BlendStyles)
      /\ ~ InForward({"QCOMPUTE"})' /\ InForward(BlendStyles)'
  BY <1>1, <1>4 DEF InForward, BlendStyles
<1>8. \A u \in Threads : Live(u) => Kind(u) \in {"critical", "taskb"} /\ ~ taskB
  BY <1>2, <1>7 DEF SessionParts, CrewInv, Threads, Kinds, Selecting
<1>9. \A l \in Layers : ~ Overwritten(l) /\ ~ Overwritten(l)'
  BY <1>4, <1>7, ManagerAssumption, PoolAssumption DEF Overwritten, Layers
<1>10. NumLayers \in Nat \ {0} /\ Start \in Nat /\ Start < NumLayers - 1
  BY ManagerAssumption, PoolAssumption DEF Layers
<1>11. PoolsInv'
  <2>1. \A l \in Layers : l \in Critical => qbuf.kv[l] = Raw(dir)
    BY <1>2, <1>7 DEF SessionParts, PoolsInv
  <2>2. \A l \in Layers : hack.kv[l] \in {None, Raw(dir)} /\ ctx.kv[l] \in {None, Raw(dir)}
    BY <1>2, <1>9 DEF SessionParts, PoolsInv
  <2>3. ~ err /\ taskB => \A l \in Critical : hack.kv[l] = Raw(dir)
    BY <1>2, <1>9, LayerSets DEF SessionParts, PoolsInv
  <2> QED
    BY <1>3, <1>4, <1>7, <1>10, <2>1, <2>2, <2>3 DEF PoolsInv
<1>12. CrewInv'
  <2>1. \A u \in Threads : Live(u)' => u = t \/ Live(u)
    BY <1>6 DEF Live, At
  <2>2. \A u, v \in Threads :
            Live(u)' /\ Live(v)' /\ u # v => Together(Kind(u), Kind(v))
    <3>1. \A u, v \in Threads : Live(u) /\ Live(v) /\ u # v => Together(Kind(u), Kind(v))
      BY <1>2 DEF SessionParts, CrewInv
    <3>2. \A u \in Threads : Live(u) => Together(Kind(u), Kind(t)) /\ Together(Kind(t), Kind(u))
      BY <1>5, <1>8 DEF Together, Selecting
    <3> HIDE DEF t
    <3> QED
      BY <2>1, <3>1, <3>2
  <2>3. \A u \in Threads : Live(u)' =>
            /\ Kind(u) \in {"critical", "taskb", "blend"}
            /\ Kind(u) # "blend" => ~ taskB
    <3> HIDE DEF t
    <3> QED
      BY <1>5, <1>8, <2>1
  <2> QED
    BY <1>3, <1>4, <1>7, <1>10, <2>2, <2>3 DEF CrewInv, Selecting
<1>13. ASSUME NEW u \in Threads, Live(u)' PROVE OwnLoader(thr[u], Kind(u))'
  <2>1. CASE u = t
    <3>1. thr'[u].pc = "meta" /\ thr'[u].todo = BlendLayers /\ thr'[u].meta = None
      BY <1>6, <2>1 DEF Off
    <3>2. NumLayers - 1 \in BlendLayers
      BY <1>10 DEF BlendLayers
    <3>3. Kind(u) = "blend"
      BY <2>1
    <3> QED
      BY <1>3, <3>1, <3>2, <3>3 DEF OwnLoader
  <2>2. CASE u # t
    <3>1. Live(u) /\ thr'[u] = thr[u] /\ Kind(u) \in {"critical", "taskb"}
      BY <1>6, <1>8, <1>13, <2>2 DEF Live, At
    <3>2. OwnLoader(thr[u], Kind(u))
      BY <1>2, <3>1 DEF SessionParts, OwnLoaders
    <3> QED
      BY <1>3, <3>1, <3>2 DEF OwnLoader
  <2> QED
    BY <2>1, <2>2
<1>14. OwnLoaders' /\ RestInv' /\ SavedCachePure'
  BY <1>2, <1>3, <1>13 DEF OwnLoaders, RestInv, SavedCachePure
<1> QED
  BY <1>3, <1>4, <1>11, <1>12, <1>14 DEF SessionParts

-----------------------------------------------------------------------------
(* The forward passes.                                                      *)

\* what the session says of the pass in progress
LEMMA InPass ==
    ASSUME IInv, SessionParts, Cur # None
    PROVE  /\ Cur \in Reqs /\ Active(Cur) /\ req[Cur].state = "forward"
           /\ ~ req[Cur].job.ratio0 /\ dir = Sample(Cur) /\ dir \in Samples
           /\ Style(Cur) \in AllStyles
           /\ mode = "online" <=> Style(Cur) # "KVCOMPUTE"
           /\ Style(Cur) = "KVCOMPUTE" => mode = "offline"
           /\ Layer \in 0 .. NumLayers
<1>1. Cur \in Reqs /\ req[Cur].state = "forward" /\ Active(Cur)
  BY DEF IInv, RequestsInv, TypeOK, ServerTypeOK, Active
<1>2. /\ InSession(Cur) <=> mode = "online"
      /\ mode = "online" => Sample(Cur) = dir
      /\ Style(Cur) = "KVCOMPUTE" => mode = "offline" /\ dir = Sample(Cur)
      /\ ~ req[Cur].job.ratio0
  BY <1>1 DEF SessionParts, SessionInv
<1>3. Style(Cur) \in AllStyles /\ Sample(Cur) \in Samples
  BY <1>1 DEF IInv, RequestsInv, Job
<1>4. InSession(Cur) <=> Style(Cur) # "KVCOMPUTE"
  BY <1>1, <1>3 DEF InSession, AllStyles
<1>5. Layer \in 0 .. NumLayers
  BY DEF IInv, TypeOK, ServerTypeOK
<1> QED
  BY <1>1, <1>2, <1>3, <1>4, <1>5

\* a forward step says nothing about the requests
LEMMA ForwardKeepsRequests ==
    ASSUME SessionParts, UNCHANGED <<mode, dir, req, client>>, fwd'.req = Cur
    PROVE  OneAtATime' /\ SessionInv'
BY DEF SessionParts, OneAtATime, SessionInv, Active, InSession

LEMMA ForwardKVComputeKeepsSession ==
    ASSUME IInv, SavedCachePure, SessionParts, ForwardKVCompute
    PROVE  SavedCachePure' /\ SessionParts' /\ err' = err
<1>1. /\ Cur # None /\ Style(Cur) = "KVCOMPUTE" /\ Layer \in Layers
      /\ mode = "offline" /\ dir = Sample(Cur) /\ dir \in Samples /\ Layer < NumLayers
  BY InPass, AtLayer DEF ForwardKVCompute, AtLayerOf
<1>2. /\ hack' = Appended(hack, Layer, dir) /\ fwd' = [fwd EXCEPT !.layer = Layer + 1]
      /\ UNCHANGED <<mgrVars, thr, req, client, qbuf, alive>>
  BY <1>1 DEF ForwardKVCompute, NextLayer
<1>3. fwd'.req = Cur /\ fwd'.layer = Layer + 1
  BY <1>2 DEF IInv, TypeOK, ServerTypeOK
<1>4. /\ \A t \in Threads : ~ Live(t)
      /\ ~ err
      /\ \A l \in Layers : hack.kv[l] = IF l < Layer THEN Raw(dir) ELSE None
  BY <1>1 DEF SessionParts, RestInv
<1>5. \A l \in Layers : hack'.kv[l] = IF l < Layer + 1 THEN Raw(dir) ELSE None
  <2>1. hack.kv[Layer] = None
    BY <1>1, <1>4, PoolAssumption DEF Layers
  <2>2. \A l \in Layers : hack'.kv[l] = IF l = Layer THEN Raw(dir) ELSE hack.kv[l]
    BY <1>1, <1>2, <2>1 DEF Appended, IInv, TypeOK, ManagerTypeOK, Pools
  <2> QED
    BY <1>1, <1>4, <2>2, PoolAssumption DEF Layers
<1>6. RestInv'
  BY <1>1, <1>2, <1>3, <1>4, <1>5 DEF RestInv, Live, At, mgrVars
<1>7. SavedCachePure'
  <2>1. CASE Layer = NumLayers - 1
    <3>1. AllRaw(hack', Layers, dir)
      BY <1>5, <2>1, PoolAssumption DEF AllRaw, Layers
    <3>2. disk' = [disk EXCEPT ![dir] = "good"]
      BY <1>1, <2>1, <3>1 DEF ForwardKVCompute
    <3> QED
      BY <3>2 DEF SavedCachePure, IInv, TypeOK, ManagerTypeOK
  <2>2. CASE Layer # NumLayers - 1
    BY <2>2 DEF ForwardKVCompute, SavedCachePure
  <2> QED
    BY <2>1, <2>2
<1>8. PoolsInv' /\ CrewInv' /\ OwnLoaders'
  BY <1>1, <1>2 DEF PoolsInv, CrewInv, OwnLoaders, mgrVars
<1> QED
  BY <1>2, <1>3, <1>6, <1>7, <1>8, ForwardKeepsRequests DEF SessionParts, mgrVars

LEMMA ForwardQComputeKeepsSession ==
    ASSUME IInv, SavedCachePure, SessionParts, ForwardQCompute
    PROVE  SavedCachePure' /\ SessionParts' /\ err' = err
<1>1. /\ Cur # None /\ Style(Cur) = "QCOMPUTE" /\ Layer \in Layers /\ Layer < QEnd
      /\ mode = "online" /\ dir = Sample(Cur) /\ dir \in Samples /\ Proceeds
  BY InPass, AtLayer DEF ForwardQCompute, AtLayerOf, LastLayer
<1>2. /\ qbuf' = IF Layer \in Critical THEN Appended(qbuf, Layer, dir) ELSE qbuf
      /\ fwd' = [fwd EXCEPT !.layer = Layer + 1]
      /\ UNCHANGED <<mgrVars, poolVars, thr, req, client, alive>>
  BY <1>1 DEF ForwardQCompute, NextLayer
<1>3. fwd'.req = Cur /\ fwd'.layer = Layer + 1
  BY <1>2 DEF IInv, TypeOK, ServerTypeOK
<1>4. /\ InForward({"QCOMPUTE"}) /\ InForward({"QCOMPUTE"})'
      /\ ~ InForward(BlendStyles) /\ ~ InForward(BlendStyles)'
  BY <1>1, <1>2, <1>3 DEF InForward, BlendStyles
<1>5. \A l \in Layers :
          qbuf'.kv[l] = IF l \in Critical /\ l < Layer + 1 THEN Raw(dir) ELSE None
  <2>1. \A l \in Layers :
            qbuf.kv[l] = IF l \in Critical /\ l < Layer THEN Raw(dir) ELSE None
    BY <1>1, <1>4 DEF SessionParts, PoolsInv
  <2>2. qbuf.kv[Layer] = None
    BY <1>1, <2>1, PoolAssumption DEF Layers
  <2>3. \A l \in Layers :
            qbuf'.kv[l] = IF l = Layer /\ l \in Critical THEN Raw(dir) ELSE qbuf.kv[l]
    BY <1>1, <1>2, <2>2 DEF Appended, IInv, TypeOK, ServerTypeOK, Pools
  <2> QED
    BY <1>1, <2>1, <2>3, PoolAssumption DEF Layers
<1>6. PoolsInv'
  <2>1. \A l \in Layers : ~ Overwritten(l)
    BY <1>4 DEF Overwritten
  <2> QED
    BY <1>1, <1>2, <1>3, <1>4, <1>5, <2>1
       DEF SessionParts, PoolsInv, Overwritten, mgrVars, poolVars
<1>7. ASSUME NEW t \in Threads, Live(t), Kind(t) \in {"query", "digest"}
      PROVE  Layer + 1 < QEnd
  <2>1. req[Cur].job.source = "query"
    BY <1>1, <1>7 DEF SessionParts, CrewInv
  <2>2. Layer \in ready /\ ~ err
    BY <1>1, <2>1 DEF Proceeds, Waits, Released, BlendStyles
  <2>3. OwnLoader(thr[t], Kind(t))
    BY <1>1, <1>7 DEF SessionParts, OwnLoaders
  <2>4. Kind(t) = "digest" /\ QEnd - 1 \in thr[t].todo /\ QEnd - 1 \notin ready
    BY <1>7, <2>2, <2>3 DEF OwnLoader
  <2>5. Layer # QEnd - 1
    BY <2>2, <2>4
  <2> QED
    BY <1>1, <2>5, LayerSets, PoolAssumption DEF Layers
<1>8. CrewInv'
  BY <1>1, <1>2, <1>3, <1>4, <1>7 DEF SessionParts, CrewInv, Live, At, mgrVars
<1>9. OwnLoaders' /\ RestInv' /\ SavedCachePure'
  BY <1>1, <1>2 DEF SessionParts, OwnLoaders, OwnLoader, RestInv, SavedCachePure, Live, At,
                    mgrVars, poolVars
<1> QED
  BY <1>2, <1>3, <1>6, <1>8, <1>9, ForwardKeepsRequests DEF SessionParts, mgrVars

LEMMA ForwardSelectKeepsSession ==
    ASSUME IInv, SavedCachePure, SessionParts, ForwardSelect
    PROVE  SavedCachePure' /\ SessionParts' /\ err' = err
<1>1. /\ Cur # None /\ Style(Cur) \in BlendStyles /\ Layer \in Layers /\ Layer <= Start
      /\ mode = "online" /\ ~ req[Cur].job.ratio0 /\ Proceeds
  BY InPass, AtLayer DEF ForwardSelect, AtLayerOf, BlendStyles
<1>2. /\ fwd' = [fwd EXCEPT !.layer = Layer + 1]
      /\ UNCHANGED <<mgrVars, poolVars, thr, req, client, qbuf, alive>>
  BY DEF ForwardSelect, NextLayer
<1>3. fwd'.req = Cur /\ fwd'.layer = Layer + 1
  BY <1>2 DEF IInv, TypeOK, ServerTypeOK
<1>4. /\ ~ InForward({"QCOMPUTE"}) /\ ~ InForward({"QCOMPUTE"})'
      /\ InForward(BlendStyles) /\ InForward(BlendStyles)'
  BY <1>1, <1>2, <1>3 DEF InForward, BlendStyles
<1>5. Layer + 1 < NumLayers /\ Layer \in Nat /\ Start \in Nat /\ Layers \subseteq Nat
  BY <1>1, ManagerAssumption, PoolAssumption DEF Layers
<1>6. ASSUME NEW l \in Layers PROVE ~ Overwritten(l) /\ ~ Overwritten(l)'
  <2>1. ~ (Start < l /\ l < Layer + 1) /\ l \in Nat
    BY <1>1, <1>5
  <2>2. ~ (Start < l /\ l < Layer)
    BY <1>5, <2>1
  <2> QED
    BY <1>3, <2>1, <2>2 DEF Overwritten
<1>7. PoolsInv'
  BY <1>1, <1>2, <1>3, <1>4, <1>5, <1>6, LayerSets
     DEF SessionParts, PoolsInv, mgrVars, poolVars
<1>8. ASSUME NEW t \in Threads, Live(t), Kind(t) \in Selecting PROVE Layer + 1 <= Start
  <2>1. ~ taskB
    BY <1>1, <1>8 DEF SessionParts, CrewInv
  <2>2. Layer # Start
    BY <1>1, <2>1 DEF Proceeds, Waits, Released, Selects, BlendStyles
  <2> QED
    BY <1>1, <1>5, <2>2
<1>9. CrewInv'
  BY <1>1, <1>2, <1>3, <1>4, <1>5, <1>8 DEF SessionParts, CrewInv, Live, At, mgrVars
<1>10. OwnLoaders' /\ RestInv' /\ SavedCachePure'
  BY <1>1, <1>2 DEF SessionParts, OwnLoaders, OwnLoader, RestInv, SavedCachePure, Live, At,
                    mgrVars, poolVars
<1> QED
  BY <1>2, <1>3, <1>7, <1>9, <1>10, ForwardKeepsRequests DEF SessionParts, mgrVars

LEMMA ForwardBlendKeepsSession ==
    ASSUME IInv, SavedCachePure, SessionParts, ForwardBlend
    PROVE  SavedCachePure' /\ SessionParts' /\ err' = err
<1>1. /\ Cur # None /\ Style(Cur) \in BlendStyles /\ Layer \in Layers /\ Start < Layer
      /\ mode = "online" /\ dir = Sample(Cur) /\ dir \in Samples /\ Proceeds
      /\ Layer < NumLayers
  BY InPass, AtLayer DEF ForwardBlend, AtLayerOf, BlendStyles
<1>2. /\ fwd' = [fwd EXCEPT !.layer = Layer + 1]
      /\ UNCHANGED <<mgrVars, ctx, disk, thr, req, client, qbuf, alive>>
  BY DEF ForwardBlend, NextLayer
<1>3. fwd'.req = Cur /\ fwd'.layer = Layer + 1
  BY <1>2 DEF IInv, TypeOK, ServerTypeOK
<1>4. /\ ~ InForward({"QCOMPUTE"}) /\ ~ InForward({"QCOMPUTE"})'
      /\ InForward(BlendStyles) /\ InForward(BlendStyles)'
  BY <1>1, <1>2, <1>3 DEF InForward, BlendStyles
<1>5. Layer \in Nat /\ Start \in Nat /\ NumLayers \in Nat /\ Layers \subseteq Nat
  BY <1>1, ManagerAssumption, PoolAssumption DEF Layers
<1>6. Layer \in ready /\ ~ err /\ Layer # Start
  BY <1>1, <1>5 DEF Proceeds, Waits, Released, BlendStyles
<1>7. ASSUME NEW t \in Threads, Live(t)
      PROVE  Kind(t) = "blend" /\ Layer + 1 < NumLayers
  <2>1. Kind(t) = "blend"
    BY <1>1, <1>4, <1>5, <1>7 DEF SessionParts, CrewInv, Threads, Kinds, Selecting
  <2>2. OwnLoader(thr[t], Kind(t))
    BY <1>1, <1>7 DEF SessionParts, OwnLoaders
  <2>3. NumLayers - 1 \notin ready
    BY <1>6, <2>1, <2>2 DEF OwnLoader
  <2>4. Layer # NumLayers - 1
    BY <1>6, <2>3
  <2> QED
    BY <1>1, <1>5, <2>1, <2>4
<1>8. CrewInv'
  <2>1. \A t \in Threads : Live(t)' => Live(t)
    BY <1>2 DEF Live, At
  <2>2. \A t, u \in Threads : Live(t) /\ Live(u) /\ t # u => Together(Kind(t), Kind(u))
    BY <1>1 DEF SessionParts, CrewInv
  <2> QED
    BY <1>3, <1>4, <1>7, <2>1, <2>2 DEF CrewInv, Selecting
\* what the pass writes in place
<1>9. \A l \in Layers : /\ l # Layer => hack'.kv[l] = hack.kv[l]
                        /\ hack.kv[l] # None => hack'.kv[l] # None
  <2> DEFINE written == [hack EXCEPT !.kv[Layer].form = "blended"]
  <2>1. hack.kv[Layer] \in KV
    BY <1>1, <1>4, <1>6 DEF SessionParts, PoolsInv, IInv, TypeOK, ManagerTypeOK, Pools
  <2>2. written.kv[Layer] \in KV /\ \A l \in Layers \ {Layer} : written.kv[l] = hack.kv[l]
    BY <1>1, <2>1 DEF IInv, TypeOK, ManagerTypeOK, Pools, KV, Forms
  <2>3. hack' \in {hack, written}
    BY DEF ForwardBlend
  <2> HIDE DEF written
  <2> QED
    BY <2>2, <2>3, PoolAssumption
<1>10. \/ hack' = hack
       \/ Style(Cur) = "DO_BLEND_FINISH"
       \/ Layer \notin Critical
  BY DEF ForwardBlend
<1>11. \A l \in Layers : Overwritten(l) => Overwritten(l)'
  <2>1. \A l \in Layers : l < Layer => l < Layer + 1
    BY <1>5
  <2> QED
    BY <1>2, <1>3, <1>4, <2>1 DEF Overwritten
<1>12. \A l \in Layers : l = Layer => hack' = hack \/ Overwritten(l)'
  <2>1. Start < Layer /\ Layer < Layer + 1
    BY <1>1, <1>5
  <2>2. hack' = hack \/ (Style(Cur) = "DO_BLEND" => Layer \notin Critical)
    BY <1>10
  <2> QED
    BY <1>2, <1>3, <1>4, <2>1, <2>2 DEF Overwritten
<1>13. PoolsInv'
  <2>1. \A l \in Layers : hack'.kv[l] \in {None, Raw(dir)} \/ Overwritten(l)'
    BY <1>1, <1>9, <1>11, <1>12 DEF SessionParts, PoolsInv
  <2>2. taskB => \A l \in Critical : hack'.kv[l] = Raw(dir) \/ Overwritten(l)'
    BY <1>1, <1>6, <1>9, <1>11, <1>12, LayerSets DEF SessionParts, PoolsInv
  <2>3. \A l \in ready : hack'.kv[l] # None
    BY <1>1, <1>4, <1>6, <1>9 DEF SessionParts, PoolsInv, IInv, TypeOK, ManagerTypeOK
  <2> QED
    BY <1>1, <1>2, <1>4, <1>6, <2>1, <2>2, <2>3 DEF SessionParts, PoolsInv, mgrVars
<1>14. ASSUME NEW t \in Threads, Live(t)' PROVE OwnLoader(thr[t], Kind(t))'
  <2>1. Live(t) /\ thr'[t] = thr[t] /\ Kind(t) = "blend"
    BY <1>2, <1>7, <1>14 DEF Live, At
  <2>2. OwnLoader(thr[t], Kind(t)) /\ thr[t].todo \in SUBSET Layers
    BY <1>1, <2>1 DEF SessionParts, OwnLoaders, IInv, TypeOK, ManagerTypeOK, Thread
  <2>3. thr[t].pc = "set" => \A l \in thr[t].todo : (\A m \in thr[t].todo : l <= m) =>
              hack'.kv[l] # None
    BY <1>6, <1>9, <2>1, <2>2 DEF OwnLoader
  <2>4. Raw(dir)' = Raw(dir)
    BY <1>2 DEF mgrVars
  <2> QED
    BY <1>2, <2>1, <2>2, <2>3, <2>4 DEF OwnLoader, mgrVars
<1>15. OwnLoaders' /\ RestInv' /\ SavedCachePure'
  BY <1>1, <1>2, <1>14 DEF OwnLoaders, RestInv, SavedCachePure, mgrVars
<1> QED
  BY <1>2, <1>3, <1>8, <1>13, <1>15, ForwardKeepsRequests DEF SessionParts, mgrVars

-----------------------------------------------------------------------------
(* The cleanup after a pass, and the end of a request.                      *)

\* request r goes on to its next state between two passes
LEMMA RequestGoesOn ==
    ASSUME IInv, SessionParts, NEW r \in Reqs, Active(r), NEW st \in {"running", "finished"},
           req' = [req EXCEPT ![r].state = st], client' = client, fwd' = NoForward,
           Cur \in {None, r}
    PROVE  /\ \A q \in Reqs : Active(q)' => q = r /\ st = "running"
           /\ st = "running" => Active(r)'
           /\ req'[r].state = st /\ req'[r].job = req[r].job
           /\ OneAtATime' /\ fwd'.req = None
<1>1. /\ \A q \in Reqs \ {r} : req'[q] = req[q] /\ ~ Active(q)
      /\ req'[r].state = st /\ req'[r].job = req[r].job /\ req'[r].client = req[r].client
  BY DEF SessionParts, OneAtATime, IInv, TypeOK, ServerTypeOK, Request
<1>2. /\ \A q \in Reqs : Active(q)' => q = r /\ st = "running"
      /\ st = "running" => Active(r)'
  BY <1>1 DEF Active
<1>3. \A q \in Reqs : req'[q].state # "unsent" => req'[q].client \in Clients
  BY <1>1 DEF SessionParts, OneAtATime, Active
<1>4. \A q \in Reqs : req'[q].state # "forward"
  BY <1>1 DEF Active
<1> QED
  BY <1>1, <1>2, <1>3, <1>4 DEF OneAtATime, NoForward

LEMMA PostForwardKeepsSession ==
    ASSUME IInv, SavedCachePure, SessionParts, PostForward
    PROVE  SavedCachePure' /\ SessionParts' /\ (err => err')
<1>0. PICK r \in Reqs : r = Cur
  BY InPass DEF PostForward
<1>1. /\ r # None /\ Layer = LastLayer(r) /\ req' = [req EXCEPT ![r].state = "running"]
      /\ fwd' = NoForward /\ client' = client
  BY <1>0 DEF PostForward
<1>2. /\ r \in Reqs /\ Active(r) /\ req[r].state = "forward" /\ ~ req[r].job.ratio0
      /\ dir = Sample(r) /\ Style(r) \in AllStyles
      /\ mode = "online" <=> Style(r) # "KVCOMPUTE"
      /\ Style(r) = "KVCOMPUTE" => mode = "offline"
  BY <1>0, <1>1, InPass
<1>3. /\ \A q \in Reqs : Active(q)' => q = r
      /\ Active(r)' /\ req'[r].state = "running" /\ req'[r].job = req[r].job
      /\ OneAtATime' /\ fwd'.req = None
  BY <1>0, <1>1, <1>2, RequestGoesOn
<1>4. \A c \in Clients : client[c] = IF Style(r) \in {"QCOMPUTE", "DO_BLEND"}
                                     THEN Primed(Sample(r)) ELSE Idle
  BY <1>2 DEF SessionParts, SessionInv
<1>5. /\ ~ InForward({"QCOMPUTE"})' /\ ~ InForward(BlendStyles)'
      /\ \A l \in Layers : ~ Overwritten(l)'
  BY <1>3 DEF InForward, Overwritten
<1>6. NumLayers \in Nat \ {0} /\ Start \in Nat /\ Start < NumLayers - 1 /\ Layers \subseteq Nat
  BY ManagerAssumption, PoolAssumption DEF Layers
<1>7. CASE Style(r) = "KVCOMPUTE"
  <2>1. AfterKVCompute /\ mode = "offline"
    BY <1>0, <1>2, <1>7 DEF PostForward
  <2>2. hack' = Cleared /\ UNCHANGED <<mgrVars, disk, thr>>
    BY <2>1 DEF AfterKVCompute
  <2>3. SessionInv'
    BY <1>1, <1>2, <1>3, <1>4, <1>7, <2>1, <2>2 DEF SessionInv, InSession, mgrVars
  <2>4. RestInv'
    BY <1>3, <2>1, <2>2 DEF SessionParts, RestInv, Cleared, Live, At, mgrVars
  <2> QED
    BY <1>3, <2>1, <2>2, <2>3, <2>4
       DEF SessionParts, PoolsInv, CrewInv, OwnLoaders, SavedCachePure, mgrVars
<1>8. CASE Style(r) = "QCOMPUTE"
  <2>1. mode = "online" /\ UNCHANGED <<mgrVars, poolVars, thr, qbuf>> /\ Layer = QEnd
    BY <1>0, <1>1, <1>2, <1>8 DEF PostForward, LastLayer
  <2>2. InForward({"QCOMPUTE"}) /\ ~ InForward(BlendStyles)
    BY <1>0, <1>1, <1>8 DEF InForward, BlendStyles
  <2>3. SessionInv'
    BY <1>1, <1>2, <1>3, <1>4, <1>8, <2>1 DEF SessionInv, InSession, mgrVars
  <2>4. \A l \in Critical : l < QEnd
    BY LastCriticalBounds
  <2>5. PoolsInv'
    BY <1>5, <2>1, <2>2, <2>4 DEF SessionParts, PoolsInv, Overwritten, mgrVars, poolVars
  <2>6. CrewInv'
    BY <1>5, <2>1, <2>2, LayerSets DEF SessionParts, CrewInv, Live, At, mgrVars
  <2>7. OwnLoaders' /\ RestInv' /\ SavedCachePure'
    BY <2>1 DEF SessionParts, OwnLoaders, OwnLoader, RestInv, SavedCachePure, Live, At,
                mgrVars, poolVars
  <2> QED
    BY <1>3, <2>1, <2>3, <2>5, <2>6, <2>7 DEF SessionParts, mgrVars
<1>9. CASE Style(r) \in BlendStyles
  <2>1. mode = "online" /\ Layer = NumLayers /\ InForward(BlendStyles)
    BY <1>0, <1>1, <1>2, <1>9 DEF LastLayer, InForward, BlendStyles
  <2>2. ~ err /\ \A t \in Threads : ~ Live(t)
    <3>1. ~ InForward({"QCOMPUTE"})
      BY <1>0, <1>9 DEF InForward, BlendStyles
    <3>2. ASSUME NEW t \in Threads, Live(t) PROVE FALSE
      BY <1>6, <2>1, <3>1, <3>2 DEF SessionParts, CrewInv, Threads, Kinds, Selecting
    <3> QED
      BY <2>1, <3>2 DEF SessionParts, PoolsInv
  <2>3. CASE Style(r) = "DO_BLEND"
    <3>1. /\ hack' = KeptOnly(hack, Critical) /\ ready' = {}
          /\ UNCHANGED <<mode, dir, taskB, err, ctx, disk, thr, qbuf>>
      BY <1>0, <2>1, <2>3 DEF PostForward, AfterDoBlend, ResetLayerEvents
    <3>2. SessionInv'
      BY <1>1, <1>2, <1>3, <1>4, <2>1, <2>3, <3>1 DEF SessionInv, InSession
    <3>3. \A l \in Layers : hack'.kv[l] = IF l \in Critical THEN hack.kv[l] ELSE None
      BY <3>1 DEF KeptOnly, IInv, TypeOK, ManagerTypeOK, Pools
    <3>4. \A l \in Critical : ~ Overwritten(l)
      BY <1>0, <2>3 DEF Overwritten
    <3>5. ~ InForward({"QCOMPUTE"})
      BY <1>0, <2>3 DEF InForward
    <3>6. PoolsInv'
      BY <1>5, <2>1, <3>1, <3>3, <3>4, <3>5, LayerSets DEF SessionParts, PoolsInv
    <3>7. \A t \in Threads : ~ Live(t)'
      BY <2>2, <3>1 DEF Live, At
    <3> QED
      BY <1>3, <2>1, <3>1, <3>2, <3>6, <3>7
         DEF SessionParts, CrewInv, OwnLoaders, RestInv, SavedCachePure
  <2>4. CASE Style(r) = "DO_BLEND_FINISH"
    <3>1. mode' = "none" /\ err' = FALSE /\ hack' = Cleared /\ UNCHANGED <<dir, disk, thr>>
      BY <1>0, <2>4 DEF PostForward, CleanupRuntimeState, Cleanup, Reset
    <3>2. SessionInv'
      BY <1>1, <1>2, <1>3, <1>4, <2>4, <3>1 DEF SessionInv, InSession
    <3>3. RestInv'
      BY <1>3, <2>2, <3>1 DEF RestInv, Cleared, Live, At
    <3> QED
      BY <1>3, <2>2, <3>1, <3>2, <3>3
         DEF SessionParts, PoolsInv, CrewInv, OwnLoaders, SavedCachePure
  <2> QED
    BY <1>9, <2>3, <2>4 DEF BlendStyles
<1> QED
  BY <1>2, <1>7, <1>8, <1>9 DEF AllStyles, BlendStyles

LEMMA FinishKeepsSession ==
    ASSUME IInv, SavedCachePure, SessionParts, NEW r \in Reqs, Finish(r)
    PROVE  SavedCachePure' /\ SessionParts' /\ (err => err')
<1>1. /\ fwd = NoForward /\ fwd' = fwd /\ Cur = None /\ req[r].state = "running"
      /\ req' = [req EXCEPT ![r].state = "finished"] /\ client' = client
      /\ FinishCleanup(r) /\ Active(r)
  BY DEF Finish, NoForward, Active
<1>2. (\A q \in Reqs : ~ Active(q)') /\ OneAtATime' /\ fwd'.req = None
  BY <1>1, RequestGoesOn
<1>3. /\ InSession(r) <=> mode = "online"
      /\ mode = "online" => Sample(r) = dir
      /\ \A c \in Clients : client[c] = IF Style(r) \in {"QCOMPUTE", "DO_BLEND"}
                                        THEN Primed(Sample(r)) ELSE Idle
  BY <1>1 DEF SessionParts, SessionInv
<1>4. Style(r) \in AllStyles
  BY <1>1 DEF IInv, RequestsInv, Job
<1>5. CASE Style(r) = "DO_BLEND_FINISH"
  <2>1. mode # "online"
    BY <1>1, <1>3, <1>5 DEF InSession
  <2>2. ~ err /\ \A t \in Threads : ~ Live(t)
    BY <2>1 DEF SessionParts, RestInv
  <2>3. mode' = "none" /\ err' = FALSE /\ hack' = Cleared /\ UNCHANGED <<dir, disk, thr>>
    BY <1>1, <1>5 DEF FinishCleanup, CleanupRuntimeState, Cleanup, Reset
  <2>4. SessionInv'
    BY <1>1, <1>2, <1>3, <1>5, <2>3 DEF SessionInv
  <2>5. RestInv'
    BY <1>2, <2>2, <2>3 DEF RestInv, Cleared, Live, At
  <2> QED
    BY <1>2, <2>2, <2>3, <2>4, <2>5
       DEF SessionParts, PoolsInv, CrewInv, OwnLoaders, SavedCachePure
<1>6. CASE Style(r) # "DO_BLEND_FINISH"
  <2>1. UNCHANGED <<mgrVars, poolVars, thr, qbuf>>
    BY <1>1, <1>6 DEF FinishCleanup
  <2>2. mode = "online" <=> Style(r) \in {"QCOMPUTE", "DO_BLEND"}
    BY <1>1, <1>3, <1>4, <1>6 DEF InSession, AllStyles
  <2>3. SessionInv'
    BY <1>1, <1>2, <1>3, <2>1, <2>2 DEF SessionInv, mgrVars
  <2>4. RestInv' /\ PoolsInv' /\ CrewInv' /\ OwnLoaders'
    BY <1>1, <2>1, BetweenPassesSame
  <2> QED
    BY <1>2, <2>1, <2>3, <2>4 DEF SessionParts, SavedCachePure, mgrVars, poolVars
<1> QED
  BY <1>5, <1>6

\* with one request under way there is no other one that still decodes
LEMMA NothingRetracted ==
    ASSUME SessionParts, NEW r \in Reqs, Retract(r) PROVE FALSE
BY DEF Retract, SessionParts, OneAtATime, Active

-----------------------------------------------------------------------------
(* The invariant, and the theorems.                                         *)

LEMMA InitRuns == Init => RunnerInv
<1> SUFFICES ASSUME Init PROVE RunnerInv
  OBVIOUS
<1>1. IInv
  BY InitGood
<1>2. SavedCachePure
  BY DEF Init, ManagerInit, SavedCachePure
<1>3. /\ mode = "none" /\ ~ err /\ Cur = None /\ hack = Cleared
      /\ \A t \in Threads : ~ Live(t)
      /\ \A r \in Reqs : req[r].state = "unsent" /\ ~ Active(r)
      /\ \A c \in Clients : client[c] = Idle
  BY DEF Init, ManagerInit, NoForward, Off, Live, At, Active
<1>4. OneAtATime /\ SessionInv
  BY <1>3 DEF OneAtATime, SessionInv
<1>5. RestInv /\ PoolsInv /\ CrewInv /\ OwnLoaders
  BY <1>3 DEF RestInv, PoolsInv, CrewInv, OwnLoaders, Cleared
<1> QED
  BY <1>1, <1>2, <1>4, <1>5 DEF RunnerInv

\* a step taken while the server runs; one that ends it leaves the disk alone
LEMMA StepKeepsSession ==
    ASSUME RunnerProtocol, IInv, SavedCachePure, SessionParts, Next
    PROVE  SavedCachePure' /\ (alive' => SessionParts') /\ (err => err')
<1>1. CASE \E c \in Clients, r \in Reqs : Submit(c, r)
  <2>1. PICK c \in Clients, r \in Reqs : Submit(c, r)
    BY <1>1
  <2>2. err' = err
    BY <2>1 DEF Submit, mgrVars
  <2> QED
    BY <2>1, <2>2, SubmitKeepsSession
<1>2. CASE \E r \in Reqs : \/ PrepareKVCompute(r) \/ PrepareQCompute(r) \/ PrepareBlend(r)
  BY <1>2, PrepareKVComputeKeepsSession, PrepareQComputeKeepsSession,
     PrepareBlendKeepsSession
<1>3. CASE Die
  BY <1>3 DEF Die, SavedCachePure, mgrVars, poolVars
<1>4. CASE \E r \in Reqs : Finish(r) \/ Retract(r)
  BY <1>4, FinishKeepsSession, NothingRetracted
<1>5. CASE ForwardKVCompute \/ ForwardQCompute \/ ForwardSelect \/ ForwardBlend
  BY <1>5, ForwardKVComputeKeepsSession, ForwardQComputeKeepsSession,
     ForwardSelectKeepsSession, ForwardBlendKeepsSession
<1>6. CASE PostForward
  BY <1>6, PostForwardKeepsSession
<1>7. CASE \E t \in Threads : Loader(t)
  BY <1>7, LoaderKeepsSession
<1> QED
  BY <1>1, <1>2, <1>3, <1>4, <1>5, <1>6, <1>7
     DEF Next, SchedulerStep, FailRestore, ForwardThrows

\* a server that has died takes no step that matters
LEMMA DeadStep ==
    ASSUME IInv, ~ alive, Next PROVE ~ alive' /\ disk' = disk /\ (err => err')
<1>1. PICK t \in Threads : Loader(t)
  BY DEF Next, SchedulerStep, Submit, PrepareKVCompute, PrepareQCompute, PrepareBlend,
         FailRestore, Die, Finish, Retract, Admit, ForwardKVCompute, ForwardQCompute,
         ForwardSelect, ForwardBlend, ForwardThrows, AtLayerOf, PostForward
<1>2. LoaderEffect /\ alive' = alive
  BY <1>1, LoaderEffects DEF IInv, Loader, serverVars
<1>3. err => err'
  BY <1>1 DEF Loader, LoaderStep, StartQuery, RejectQuery, OpenDigest, LoadMeta, FailOpen,
              SkipLoaded, FindMissing, LoadLayer, FailLoad, PutDigest, PutHack,
              PutOutOfRange, SetReady, EnterWait, LeaveWait, FinishLoad, ReleaseWaiters,
              Raise, mgrVars
<1> QED
  BY <1>2, <1>3 DEF LoaderEffect

LEMMA NextRuns ==
    ASSUME RunnerProtocol PROVE RunnerInv /\ [Next]_vars => RunnerInv' /\ (err => err')
<1> SUFFICES ASSUME RunnerInv, [Next]_vars PROVE RunnerInv' /\ (err => err')
  OBVIOUS
<1>1. IInv'
  BY NextKeeps DEF RunnerInv
<1>2. SavedCachePure' /\ (alive' => SessionParts') /\ (err => err')
  <2>1. CASE Next /\ alive
    BY <2>1, StepKeepsSession DEF RunnerInv, SessionParts
  <2>2. CASE Next /\ ~ alive
    BY <2>2, DeadStep DEF RunnerInv, SavedCachePure
  <2>3. CASE UNCHANGED vars
    BY <2>3 DEF vars, RunnerInv, SavedCachePure, SessionParts, OneAtATime, SessionInv,
                RestInv, PoolsInv, CrewInv, OwnLoaders, OwnLoader, Active, InSession,
                Overwritten, InForward, Live, At
  <2> QED
    BY <2>1, <2>2, <2>3
<1> QED
  BY <1>1, <1>2 DEF RunnerInv, SessionParts

LEMMA RunnerInvariant == ASSUME RunnerProtocol PROVE Spec => []RunnerInv
<1>1. RunnerInv /\ [Next]_vars => RunnerInv'
  BY NextRuns
<1> QED
  BY <1>1, InitRuns, PTL DEF Spec

(***************************************************************************)
(* Whenever the scheduler's wait for a layer or for task_b_event is over   *)
(* and no error is recorded, what the pass goes on to read is the          *)
(* untouched KV, and for the selection the query vectors, of the request's *)
(* own sample.                                                             *)
(***************************************************************************)
THEOREM ReadsOwn == ASSUME RunnerProtocol PROVE Spec => []ReadsOwnKV
<1>1. RunnerInv => ReadsOwnKV
  <2> SUFFICES ASSUME RunnerInv, alive, Cur # None, Layer < LastLayer(Cur),
                      Waits, Released, ~ err
               PROVE  CASE Style(Cur) = "QCOMPUTE" -> ctx.kv[Layer] = Raw(Sample(Cur))
                        [] Style(Cur) # "QCOMPUTE" /\ Selects ->
                               /\ AllRaw(hack, Critical, Sample(Cur))
                               /\ AllRaw(qbuf, Critical, Sample(Cur))
                        [] OTHER -> hack.kv[Layer] = Raw(Sample(Cur))
    BY DEF ReadsOwnKV
  <2>1. IInv /\ SessionParts
    BY DEF RunnerInv, SessionParts
  <2>2. /\ dir = Sample(Cur) /\ ~ req[Cur].job.ratio0 /\ Style(Cur) \in AllStyles
        /\ mode = "online" <=> Style(Cur) # "KVCOMPUTE"
        /\ Layer \in 0 .. NumLayers
    BY <2>1, InPass
  <2>3. /\ Layer \in Layers /\ Start \in Nat /\ Layers \subseteq Nat
    <3>1. AtLayerOf(AllStyles)
      BY <2>2 DEF AtLayerOf
    <3> QED
      BY <2>1, <3>1, AtLayer, ManagerAssumption, PoolAssumption DEF Layers
  <2>4. CASE Style(Cur) = "QCOMPUTE"
    <3>1. Layer \in ready /\ InForward({"QCOMPUTE"}) /\ mode = "online"
      BY <2>2, <2>4 DEF Released, BlendStyles, InForward
    <3>2. ctx.kv[Layer] = Raw(dir)
      BY <2>1, <2>3, <3>1 DEF SessionParts, PoolsInv
    <3> QED
      BY <2>2, <2>4, <3>2
  <2>5. CASE Style(Cur) \in BlendStyles
    <3>1. mode = "online" /\ InForward(BlendStyles) /\ ~ InForward({"QCOMPUTE"})
      BY <2>2, <2>5 DEF InForward, BlendStyles
    <3>2. CASE Layer = Start
      <4>1. taskB /\ Selects
        BY <2>2, <2>5, <3>2 DEF Released, Selects
      <4>2. ASSUME NEW l \in Layers PROVE ~ Overwritten(l)
        <5>1. ~ (Start < l /\ l < Layer)
          BY <2>3, <3>2
        <5> QED
          BY <5>1 DEF Overwritten
      <4>3. AllRaw(hack, Critical, dir) /\ AllRaw(qbuf, Critical, dir)
        BY <2>1, <3>1, <4>1, <4>2, LayerSets DEF SessionParts, PoolsInv, AllRaw
      <4> QED
        BY <2>2, <2>5, <4>1, <4>3 DEF BlendStyles
    <3>3. CASE Layer # Start
      <4>1. Layer \in ready /\ ~ Selects
        BY <2>5, <3>3 DEF Released, Selects
      <4>2. ~ Overwritten(Layer)
        BY <2>3 DEF Overwritten
      <4>3. hack.kv[Layer] = Raw(dir)
        BY <2>1, <2>3, <3>1, <4>1, <4>2 DEF SessionParts, PoolsInv
      <4> QED
        BY <2>2, <2>5, <4>1, <4>3 DEF BlendStyles
    <3> QED
      BY <3>2, <3>3
  <2>6. CASE Style(Cur) = "KVCOMPUTE"
    BY <2>6 DEF Waits, BlendStyles
  <2> QED
    BY <2>2, <2>4, <2>5, <2>6 DEF AllStyles, BlendStyles
<1> QED
  BY <1>1, RunnerInvariant, PTL

(***************************************************************************)
(* A KVCOMPUTE pass starts on an empty pool and ends with nothing in it    *)
(* but the sample's own KV, so every cache it saves is pure.               *)
(***************************************************************************)
THEOREM SavedPure == ASSUME RunnerProtocol PROVE Spec => []SavedCachePure
<1>1. RunnerInv => SavedCachePure
  BY DEF RunnerInv
<1> QED
  BY <1>1, RunnerInvariant, PTL

(***************************************************************************)
(* When DO_BLEND_FINISH has cleaned up, every loader of the session has    *)
(* returned: the pass has waited for task_b_event and for the last layer,  *)
(* and both come after the last step of the loaders that set them.         *)
(***************************************************************************)
THEOREM NoLoaderLeft == ASSUME RunnerProtocol PROVE Spec => []NoStrayLoader
<1>1. RunnerInv => NoStrayLoader
  BY DEF RunnerInv, RestInv, NoStrayLoader
<1> QED
  BY <1>1, RunnerInvariant, PTL

(***************************************************************************)
(* configure() and reset() run only when no loader error is pending.       *)
(***************************************************************************)
THEOREM ErrorKept == ASSUME RunnerProtocol PROVE Spec => ErrorSticks
<1>1. RunnerInv /\ [Next]_vars => [err => err']_vars
  BY NextRuns
<1> QED
  BY <1>1, RunnerInvariant, PTL DEF Spec, ErrorSticks
=============================================================================
