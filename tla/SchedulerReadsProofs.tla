------------------------- MODULE SchedulerReadsProofs --------------------------
(***************************************************************************)
(* With ChunkCache, what an active request's slots hold is always the KV   *)
(* of its own text: no step frees one of them, hands it to another request *)
(* or writes over it, from the launch that fills it to the last batch that *)
(* reads it, if what fills it is computed from the text's tokens.  In      *)
(* event_loop_normal it is: every batch has its requests' own tokens.      *)
(***************************************************************************)
EXTENDS SchedulerMemoryProofs

\* how many of a request's slots hold KV: those of the batch about to run are
\* still to be written
Written(r) ==
    IF pc = "run" /\ r \in ReqsOf(cur.items)
    THEN IF cur.kind = "decode" THEN Len(Row(r)) - 1 ELSE Len(req[r].pre)
    ELSE Len(Held(r))
\* what is written in an active request's slots is the KV of its own text
HoldsInv ==
    \A r \in Reqs : Active(r) =>
        \A n \in 1 .. Written(r) : kv[Held(r)[n]] = Upto(Text(r), n)
\* the slots a batch writes are those its requests are still to fill
LaunchedInv ==
    pc = "run" =>
        /\ \A k \in DOMAIN cur.items :
              LET i == cur.items[k]
              IN  Active(i.r) /\ (cur.kind = "extend" => i.len = req[i.r].fill)
        /\ \A r \in Reqs : Active(r) =>
              \A n \in 1 .. Len(Held(r)) : Held(r)[n] \in ToSet(cur.loc) <=> n > Written(r)

\* An active request's slots are its own.
HeldOnce ==
    \A r \in Reqs : Active(r) =>
        /\ IsSeq(Held(r)) /\ Len(Held(r)) \in Nat /\ DOMAIN Held(r) = 1 .. Len(Held(r))
        /\ Injective(Held(r))
        /\ \A s \in ToSet(Held(r)) : s \in Slots /\ free[s] = 0
        /\ \A q \in Reqs : \A s \in ToSet(Held(r)) : Active(q) /\ s \in ToSet(Held(q)) => q = r

-----------------------------------------------------------------------------
(* Texts.                                                                   *)

\* The first n tokens of a text are its first m and those after them.
LEMMA TextGoesOn ==
    ASSUME NEW t, NEW m \in Nat, NEW n \in Nat, m < n, NEW l \in Int, n <= l
    PROVE  /\ Upto(t, m) \o Upto(SubSeq(t, m + 1, l), n - m) = Upto(t, n)
           /\ n = m + 1 => Upto(t, m) \o Upto(<<t[n]>>, n - m) = Upto(t, n)
           /\ m = 0 => Upto(t, m) = <<>>
<1> DEFINE u == Upto(t, m)
           w == Upto(t, n)
<1>1. IsSeq(u) /\ Len(u) = m /\ \A k \in 1 .. m : u[k] = t[k]
  BY UptoIsSeq
<1>2. IsSeq(w) /\ Len(w) = n /\ \A k \in 1 .. n : w[k] = t[k]
  BY UptoIsSeq
<1> HIDE DEF u, w
<1>3. ASSUME NEW v, IsSeq(v), Len(v) = n - m, \A k \in 1 .. n - m : v[k] = t[m + k]
      PROVE  u \o v = w
  <2>1. /\ IsSeq(u \o v) /\ Len(u \o v) = n
        /\ \A k \in 1 .. n : (u \o v)[k] = IF k <= m THEN u[k] ELSE v[k - m]
    <3>1. m + (n - m) = n
      OBVIOUS
    <3> QED
      BY <1>1, <1>3, <3>1, ConcatIsSeq
  <2>2. ASSUME NEW k \in 1 .. n PROVE (u \o v)[k] = w[k]
    <3>1. CASE k <= m
      BY <1>1, <1>2, <2>1, <3>1
    <3>2. CASE ~ (k <= m)
      <4>1. k - m \in 1 .. n - m /\ m + (k - m) = k
        BY <3>2
      <4> QED
        BY <1>2, <1>3, <2>1, <3>2, <4>1
    <3> QED
      BY <3>1, <3>2
  <2> QED
    BY <1>2, <2>1, <2>2, SameSeq
<1>4. u \o Upto(SubSeq(t, m + 1, l), n - m) = w
  <2> DEFINE v == Upto(SubSeq(t, m + 1, l), n - m)
  <2>1. \A k \in 1 .. l - (m + 1) + 1 : SubSeq(t, m + 1, l)[k] = t[(m + 1) + k - 1]
    BY SubSeqIsSeq
  <2>2. IsSeq(v) /\ Len(v) = n - m /\ \A k \in 1 .. n - m : v[k] = SubSeq(t, m + 1, l)[k]
    <3>1. PICK d \in Int : d = n - m /\ 1 <= d
      OBVIOUS
    <3> DEFINE x == SubSeq(t, m + 1, l)
    <3> HIDE DEF x
    <3>2. /\ IsSeq(Upto(x, d)) /\ Len(Upto(x, d)) = d
          /\ \A k \in 1 .. d : Upto(x, d)[k] = x[k]
      BY <3>1, UptoIsSeq
    <3> QED
      BY <3>1, <3>2 DEF x
  <2>3. \A k \in 1 .. n - m : k \in 1 .. l - (m + 1) + 1 /\ (m + 1) + k - 1 = m + k
    OBVIOUS
  <2> HIDE DEF v
  <2>4. \A k \in 1 .. n - m : v[k] = t[m + k]
    BY <2>1, <2>2, <2>3
  <2>5. u \o v = w
    BY <1>3, <2>2, <2>4
  <2> QED
    BY <2>5 DEF v
<1>5. ASSUME n = m + 1 PROVE u \o Upto(<<t[n]>>, n - m) = w
  <2> DEFINE v == Upto(<<t[n]>>, n - m)
  <2>1. n - m = 1
    BY <1>5
  <2>2. IsSeq(v) /\ Len(v) = 1 /\ v[1] = <<t[n]>>[1]
    <3> DEFINE x == <<t[n]>>
    <3> HIDE DEF x
    <3>1. PICK d \in Int : d = n - m /\ d = 1
      BY <2>1
    <3>2. /\ IsSeq(Upto(x, d)) /\ Len(Upto(x, d)) = d
          /\ \A k \in 1 .. d : Upto(x, d)[k] = x[k]
      BY <3>1, UptoIsSeq
    <3>3. v = Upto(x, d)
      BY <3>1 DEF x
    <3> HIDE DEF v
    <3>4. 1 \in 1 .. d
      BY <3>1
    <3>5. Upto(x, d)[1] = x[1]
      BY <3>2, <3>4
    <3>6. IsSeq(v) /\ Len(v) = 1 /\ v[1] = x[1]
      BY <3>1, <3>2, <3>3, <3>5, Zenon
    <3> QED
      BY <3>6 DEF x
  <2> HIDE DEF v
  <2>3. v[1] = t[n]
    BY <2>2
  <2>4. \A k \in 1 .. n - m : k = 1 /\ m + k = n
    BY <1>5
  <2>5. u \o v = w
    BY <1>3, <2>1, <2>2, <2>3, <2>4
  <2> QED
    BY <2>5 DEF v
<1>6. m = 0 => u = <<>>
  BY <1>1, EmptyFacts
<1> QED
  BY <1>4, <1>5, <1>6 DEF u, w

-----------------------------------------------------------------------------
(* What is kept.                                                            *)

\* MemInv says that an active request's slots are its own.
LEMMA HeldsOnce == OrderInv /\ MemInv => HeldOnce
<1> SUFFICES ASSUME OrderInv, MemInv, NEW r \in Reqs, Active(r)
             PROVE  /\ IsSeq(Held(r)) /\ Len(Held(r)) \in Nat
                    /\ DOMAIN Held(r) = 1 .. Len(Held(r))
                    /\ Injective(Held(r))
                    /\ \A s \in ToSet(Held(r)) : s \in Slots /\ free[s] = 0
                    /\ \A q \in Reqs : \A s \in ToSet(Held(r)) :
                          Active(q) /\ s \in ToSet(Held(q)) => q = r
  BY DEF HeldOnce
<1>1. IsSeq(Held(r))
  <2>1. CASE Seated(r)
    BY <2>1, SeatedRow
  <2>2. CASE ~ Seated(r)
    BY <2>2, ReqFacts DEF Held, MemInv
  <2> QED
    BY <2>1, <2>2
<1>2. Injective(Held(r))
  BY DEF MemInv, SlotsInv
<1>3. \A q \in Reqs : Active(q) => Owned(q) = ToSet(Held(q))
  BY DEF Owned
<1> DEFINE own == [q \in Reqs |-> Owned(q)]
<1>4. OneOwner(free, Slots, own)
  BY DEF MemInv, SlotsInv
<1>5. \A q \in Reqs : own[q] = Owned(q)
  OBVIOUS
<1> HIDE DEF own
<1>6. \A s \in own[r] : s \in Slots /\ free[s] = 0
  BY <1>4, Constants, OwnedOnce
<1>7. \A q \in Reqs : \A s \in own[r] : s \in own[q] => q = r
  BY <1>4 DEF OneOwner
<1> QED
  BY <1>1, <1>2, <1>3, <1>5, <1>6, <1>7, SeqFacts

\* No step takes KV out of a slot that an active request owns after it.
LEMMA OwnKept ==
    ASSUME HeldOnce', kv' = kv \/ kv' = Forget(free'), NEW r \in Reqs, Active(r)',
           NEW s \in ToSet(Held(r)')
    PROVE  kv'[s] = kv[s]
<1>1. s \in Slots /\ free'[s] = 0
  BY DEF HeldOnce
<1>2. CASE kv' = Forget(free')
  BY <1>1, <1>2 DEF Forget
<1> QED
  BY <1>2

\* r was active before, and what it owns then was written before
StaysWritten(r) ==
    /\ Active(r)
    /\ \A n \in 1 .. Written(r)' : /\ n \in 1 .. Written(r) /\ n \in DOMAIN Held(r)'
                                   /\ Held(r)'[n] = Held(r)[n]

\* What was written stays written.
LEMMA HoldsKept ==
    ASSUME HeldOnce', HoldsInv, kv' = kv \/ kv' = Forget(free'),
           \A r \in Reqs : Active(r)' => StaysWritten(r) \/ Written(r)' = 0
    PROVE  HoldsInv'
<1> SUFFICES ASSUME NEW r \in Reqs, Active(r)', NEW n \in 1 .. Written(r)'
             PROVE  kv'[Held(r)'[n]] = Upto(Text(r), n)
  BY DEF HoldsInv
<1>1. Written(r)' # 0
  OBVIOUS
<1>2. StaysWritten(r)
  BY <1>1
<1>3. /\ Active(r) /\ n \in 1 .. Written(r) /\ n \in DOMAIN Held(r)'
      /\ Held(r)'[n] = Held(r)[n]
  BY <1>2 DEF StaysWritten
<1>4. kv[Held(r)[n]] = Upto(Text(r), n)
  BY <1>3 DEF HoldsInv
<1>5. Held(r)'[n] \in ToSet(Held(r)')
  BY <1>3 DEF ToSet
<1>6. kv'[Held(r)'[n]] = kv[Held(r)'[n]]
  BY <1>5, OwnKept
<1> QED
  BY <1>3, <1>4, <1>6

\* A step away from run_batch that leaves the active requests their slots.
LEMMA SlotsStay ==
    ASSUME HeldOnce, HeldOnce', HoldsInv, kv' = kv \/ kv' = Forget(free'),
           pc # "run", pc' # "run",
           \A r \in Reqs : Active(r)' => Active(r) /\ Held(r)' = Held(r)
    PROVE  HoldsInv' /\ LaunchedInv'
<1>1. LaunchedInv'
  BY DEF LaunchedInv
<1>2. ASSUME NEW r \in Reqs, Active(r)' PROVE StaysWritten(r)
  <2>1. Active(r) /\ Held(r)' = Held(r)
    BY <1>2
  <2>2. Written(r) = Len(Held(r)) /\ Written(r)' = Len(Held(r))
    BY <2>1 DEF Written
  <2>3. Len(Held(r)) \in Nat /\ DOMAIN Held(r) = 1 .. Len(Held(r))
    BY <2>1 DEF HeldOnce
  <2> QED
    BY <2>1, <2>2, <2>3 DEF StaysWritten
<1> QED
  BY <1>1, <1>2, HoldsKept

\* A request that keeps its place keeps its slots.
LEMMA PlaceKept ==
    ASSUME NEW r, Active(r), Active(r)', Stashed(r)' <=> Stashed(r), rows' = rows,
           req'[r].row = req[r].row, req'[r].pre = req[r].pre
    PROVE  Held(r)' = Held(r)
<1>1. Seated(r)' <=> Seated(r)
  BY DEF Seated
<1>2. Row(r)' = Row(r)
  BY DEF Row
<1> QED
  BY <1>1, <1>2 DEF Held

\* A step that leaves the requests and the rows as they are.
LEMMA AllStay ==
    ASSUME HeldOnce, HeldOnce', HoldsInv, kv' = kv \/ kv' = Forget(free'),
           pc # "run", pc' # "run", UNCHANGED <<req, rows>>,
           \A r \in Reqs : Stashed(r)' <=> Stashed(r)
    PROVE  HoldsInv' /\ LaunchedInv'
<1>1. ASSUME NEW r \in Reqs, Active(r)' PROVE Active(r) /\ Held(r)' = Held(r)
  <2>1. Active(r)
    BY <1>1 DEF Active
  <2> QED
    BY <1>1, <2>1, PlaceKept
<1> QED
  BY <1>1, SlotsStay

-----------------------------------------------------------------------------
(* Steps that leave the active requests their rows.                         *)

\* Requests arrive, or are aborted.
LEMMA ArrivalHolds ==
    ASSUME OrderInv, MemInv, HeldOnce, HeldOnce', HoldsInv,
           NEW r \in Reqs, Arrive(r) \/ Abort(r)
    PROVE  HoldsInv' /\ LaunchedInv'
<1>1. /\ pc = "recv" /\ pc' = "recv" /\ rows' = rows /\ kv' = kv
      /\ \A q \in Reqs : ~ Stashed(q) /\ ~ Stashed(q)'
  BY DEF Arrive, Abort, memory, Stashed
<1>2. DOMAIN req = Reqs /\ ReqType(r, req[r])
  BY AliveLoop DEF MemInv, ReqsType
<1>3. \A q \in Reqs : q # r => req'[q] = req[q]
  BY <1>2 DEF Arrive, Abort
<1>4. Active(r)' => Active(r) /\ req'[r].row = req[r].row /\ req'[r].pre = req[r].pre
  <2>1. CASE req' = [req EXCEPT ![r].st = "waiting"]
    <3>1. req'[r].st = "waiting"
      BY <1>2, <2>1 DEF ReqType, NewReq
    <3> QED
      BY <3>1 DEF Active
  <2>2. CASE req' = [req EXCEPT ![r] = [NewReq EXCEPT !.st = "done", !.out = req[r].out]]
    <3>1. req'[r].st = "done"
      BY <1>2, <2>2 DEF NewReq
    <3> QED
      BY <3>1 DEF Active
  <2>3. CASE req[r].st = "active" /\ req' = [req EXCEPT ![r].abort = TRUE]
    <3>1. req'[r].row = req[r].row /\ req'[r].pre = req[r].pre
      BY <1>2, <2>3 DEF ReqType, NewReq
    <3> QED
      BY <2>3, <3>1 DEF Active
  <2> QED
    BY <2>1, <2>2, <2>3 DEF Arrive, Abort
<1>5. ASSUME NEW q \in Reqs, Active(q)' PROVE Active(q) /\ Held(q)' = Held(q)
  <2>1. Active(q) /\ req'[q].row = req[q].row /\ req'[q].pre = req[q].pre
    BY <1>3, <1>4, <1>5 DEF Active
  <2> QED
    BY <1>1, <1>5, <2>1, PlaceKept
<1> QED
  BY <1>1, <1>5, SlotsStay

\* The loop moves on without touching requests or rows.
LEMMA LoopHolds ==
    ASSUME OrderInv, MemInv, HeldOnce, HeldOnce', HoldsInv,
           \/ MergeLast \/ SkipPrefill \/ NoPrefill \/ UpdateRunning
           \/ EndIteration \/ Idle
    PROVE  HoldsInv' /\ LaunchedInv'
<1>1. /\ UNCHANGED <<req, rows>> /\ pc # "run" /\ pc' # "run"
      /\ kv' = kv \/ kv' = Forget(free')
  BY DEF MergeLast, SkipPrefill, NoPrefill, UpdateRunning, EndIteration, Idle, memory
<1>2. None \notin Reqs
  BY Constants
<1>3. ASSUME NEW r \in Reqs PROVE Stashed(r)' <=> Stashed(r)
  <2>1. Active(r)' <=> Active(r)
    BY <1>1 DEF Active
  <2>2. CASE MergeLast
    <3>1. pc' = "plan" /\ chunked' = chunked
      BY <2>2 DEF MergeLast
    <3>2. (pc = "recv" /\ chunked = None) \/ pc = "merge"
      <4>1. pc = IF chunked = None THEN "recv" ELSE "merge"
        BY <2>2 DEF MergeLast
      <4> QED
        BY <4>1
    <3>3. r # None
      BY <1>2
    <3> QED
      BY <2>1, <3>1, <3>2, <3>3 DEF Stashed
  <2>3. CASE SkipPrefill
    <3>1. pc = "plan" /\ pc' = "decode" /\ chunked = None
      BY <2>3 DEF SkipPrefill
    <3> QED
      BY <1>2, <3>1 DEF Stashed
  <2>4. CASE NoPrefill
    <3>1. pc = "admit" /\ pc' = "decode" /\ adder.can = <<>>
      BY <2>4 DEF NoPrefill
    <3>2. ToSet(adder.can) = {}
      BY <3>1 DEF ToSet
    <3> QED
      BY <3>1, <3>2 DEF Stashed
  <2>5. CASE UpdateRunning \/ EndIteration \/ Idle
    <3>1. pc \in {"decode", "process"} /\ pc' \notin {"merge", "plan", "admit"}
      BY <2>5 DEF UpdateRunning, EndIteration, Idle
    <3> QED
      BY <3>1 DEF Stashed
  <2> QED
    BY <2>2, <2>3, <2>4, <2>5
<1> QED
  BY <1>1, <1>3, AllStay

\* Requests are considered for prefill.
LEMMA AdmissionHolds ==
    ASSUME OrderInv, MemInv, HeldOnce, HeldOnce', HoldsInv,
           StartAdder \/ \E r \in Reqs : Admit(r)
    PROVE  HoldsInv' /\ LaunchedInv'
<1>1. CASE StartAdder
  <2>1. /\ pc = "plan" /\ pc' = "admit" /\ rows' = rows /\ kv' = kv
    BY <1>1 DEF StartAdder, memory
  <2>2. ReqsType /\ DOMAIN NoAdder = {"can", "offset", "curOffset", "chunk", "newChunked", "stop"}
    BY AliveLoop DEF MemInv, NoAdder
  <2>3. CASE chunked = None
    <3>1. req' = req /\ adder'.can = <<>>
      BY <1>1, <2>3 DEF StartAdder, NoAdder
    <3>2. ToSet(adder'.can) = {}
      BY <3>1 DEF ToSet
    <3>3. \A r \in Reqs : ~ Stashed(r) /\ ~ Stashed(r)'
      BY <2>1, <2>3, <3>2, Constants DEF Stashed
    <3> QED
      BY <2>1, <3>1, <3>3, AllStay
  <2>4. CASE chunked # None
    <3>1. PICK f : req' = [req EXCEPT ![chunked].fill = f]
      BY <1>1, <2>4 DEF StartAdder
    <3>2. adder'.can = <<chunked>>
      BY <1>1, <2>4 DEF StartAdder, NoAdder
    <3>3. \A r \in Reqs : /\ req'[r].st = req[r].st /\ req'[r].row = req[r].row
                          /\ req'[r].pre = req[r].pre
      BY <2>2, <3>1 DEF ReqsType, ReqType, NewReq
    <3>4. ToSet(adder'.can) = {chunked}
      BY <3>2 DEF ToSet
    <3>5. ASSUME NEW r \in Reqs, Active(r)' PROVE Active(r) /\ Held(r)' = Held(r)
      <4>1. Active(r)
        BY <3>3, <3>5 DEF Active
      <4>2. Stashed(r)' <=> Stashed(r)
        BY <2>1, <3>4, <3>5, <4>1 DEF Stashed
      <4> QED
        BY <2>1, <3>3, <3>5, <4>1, <4>2, PlaceKept
    <3> QED
      BY <2>1, <3>5, SlotsStay
  <2> QED
    BY <2>3, <2>4
<1>2. CASE \E r \in Reqs : Admit(r)
  <2>1. PICK r \in Reqs : Admit(r)
    BY <1>2
  <2>2. /\ pc = "admit" /\ pc' = "admit" /\ rows' = rows /\ kv' = kv
        /\ req[r].st = "waiting"
    <3>1. /\ pc = "admit" /\ r \in Untried
          /\ UNCHANGED <<mode, pc, free, rows, freeRows, kv>>
      BY <2>1 DEF Admit
    <3> QED
      BY <3>1 DEF Untried, Waiting
  <2>3. CASE NotAdmitted
    <3>1. \A q \in Reqs : Stashed(q)' <=> Stashed(q)
      BY <2>2, <2>3 DEF NotAdmitted, Stashed, Active
    <3> QED
      BY <2>2, <2>3, <3>1, AllStay DEF NotAdmitted
  <2>4. CASE \E extend \in Nat : Admitted(r, extend)
    <3>1. /\ \A q \in Reqs : q # r => req'[q] = req[q]
          /\ req'[r].st = req[r].st /\ adder'.can = Append(adder.can, r)
      BY <2>4 DEF Admitted
    <3>2. IsSeq(adder.can)
      BY <2>2, AliveLoop DEF MemInv, LiveInv, AdderInv
    <3>3. \A q : q # r => (q \in ToSet(adder'.can) <=> q \in ToSet(adder.can))
      <4>1. /\ DOMAIN adder.can = 1 .. Len(adder.can) /\ Len(adder.can) \in Nat
            /\ DOMAIN adder'.can = 1 .. Len(adder.can) + 1
            /\ \A k \in 1 .. Len(adder.can) : adder'.can[k] = adder.can[k]
            /\ adder'.can[Len(adder.can) + 1] = r
        BY <3>1, <3>2, AppendIsSeq, SeqFacts
      <4>2. PICK N : N = Len(adder.can)
        OBVIOUS
      <4>3. \A k \in 1 .. N + 1 : k \in 1 .. N \/ k = N + 1
        BY <4>1, <4>2
      <4>4. \A k \in 1 .. N : k \in 1 .. N + 1
        BY <4>1, <4>2
      <4> QED
        BY <4>1, <4>2, <4>3, <4>4 DEF ToSet
    <3>4. ASSUME NEW q \in Reqs, Active(q)' PROVE Active(q) /\ Held(q)' = Held(q)
      <4>1. q # r
        BY <2>2, <3>1, <3>4 DEF Active
      <4>2. Active(q) /\ req'[q] = req[q]
        BY <3>1, <3>4, <4>1 DEF Active
      <4>3. Stashed(q)' <=> Stashed(q)
        BY <2>2, <3>3, <3>4, <4>1, <4>2 DEF Stashed
      <4> QED
        BY <2>2, <3>4, <4>2, <4>3, PlaceKept
    <3> QED
      BY <2>2, <3>4, SlotsStay
  <2> QED
    BY <2>1, <2>3, <2>4, AdmitFacts
<1> QED
  BY <1>1, <1>2

\* A flush that spares the requests.
LEMMA FlushHolds ==
    ASSUME FlushCache, \A r \in Reqs : req[r].st # "active"
    PROVE  HoldsInv' /\ LaunchedInv'
<1>1. pc' = "recv" /\ req' = req
  BY DEF FlushCache
<1>2. \A r \in Reqs : ~ Active(r)'
  BY <1>1 DEF Active
<1> QED
  BY <1>1, <1>2 DEF HoldsInv, LaunchedInv

\* What is retracted is no longer active; the others keep their rows.
LEMMA RetractHolds ==
    ASSUME OrderInv, MemInv, HeldOnce, HeldOnce', HoldsInv, Retract
    PROVE  HoldsInv' /\ LaunchedInv'
<1>1. /\ pc = "retract" /\ pc' \in {"step", "retract", "dead"} /\ pc # "run" /\ pc' # "run"
      /\ rows' = rows
      /\ kv' = kv \/ kv' = Forget(free')
  <2>1. pc = "retract"
    BY DEF Retract
  <2>2. rows' = rows
    BY DEF Retract, memory
  <2>3. kv' = kv \/ kv' = Forget(free')
    BY DEF Retract
  <2>4. pc' \in {"step", "retract", "dead"}
    BY DEF Retract
  <2> QED
    BY <2>1, <2>2, <2>3, <2>4
<1>2. \A r \in Reqs : Stashed(r)' <=> Stashed(r)
  BY <1>1 DEF Stashed
<1>3. CASE req' = req
  BY <1>1, <1>2, <1>3, AllStay
<1>4. CASE \E r \in Reqs : req' = [req EXCEPT ![r] = Retracted(req[r])]
  <2>1. PICK r \in Reqs : req' = [req EXCEPT ![r] = Retracted(req[r])]
    BY <1>4
  <2>2. DOMAIN req = Reqs
    BY AliveLoop DEF MemInv, ReqsType
  <2>3. req'[r].st = "waiting" /\ \A q \in Reqs : q # r => req'[q] = req[q]
    BY <2>1, <2>2 DEF Retracted, NewReq
  <2>4. ASSUME NEW q \in Reqs, Active(q)' PROVE Active(q) /\ Held(q)' = Held(q)
    <3>1. q # r
      BY <2>3, <2>4 DEF Active
    <3>2. Active(q) /\ req'[q] = req[q]
      BY <2>3, <2>4, <3>1 DEF Active
    <3> QED
      BY <1>1, <1>2, <2>4, <3>2, PlaceKept
  <2> QED
    BY <1>1, <2>4, SlotsStay
<1>5. req' = req \/ \E r \in Reqs : req' = [req EXCEPT ![r] = Retracted(req[r])]
  <2>1. CASE Len(running) = 1
    BY <2>1 DEF Retract
  <2>2. CASE Len(running) # 1
    <3>1. req' = [req EXCEPT ![Last(running).r] = Retracted(req[Last(running).r])]
      BY <2>2 DEF Retract
    <3>2. Last(running).r \in Reqs
      <4>1. Items(running) /\ running # <<>>
        BY <1>1, AliveLoop DEF MemInv, LiveInv, RunningInv
      <4>2. /\ Len(running) \in Nat /\ DOMAIN running = 1 .. Len(running) /\ Len(running) # 0
            /\ \A k \in DOMAIN running : running[k].r \in Reqs
        BY <4>1, ItemFacts, EmptyFacts DEF Items
      <4>3. Len(running) \in DOMAIN running
        BY <4>2
      <4> QED
        BY <4>2, <4>3 DEF Last
    <3> QED
      BY <3>1, <3>2
  <2> QED
    BY <2>1, <2>2
<1> QED
  BY <1>3, <1>4, <1>5

\* The chunked request keeps its slots in the cache instead of in its row.
LEMMA StashHolds ==
    ASSUME OrderInv, MemInv, HeldOnce, HeldOnce', HoldsInv, StashChunked
    PROVE  HoldsInv' /\ LaunchedInv'
<1>1. PICK c : c = chunked
  OBVIOUS
<1>2. PICK after : after = CacheUnfinished(c, req[c])
  OBVIOUS
<1>3. /\ pc = "recv" /\ pc' = "merge" /\ chunked' = c /\ kv' = Forget(free')
      /\ rows' = [rows EXCEPT ![req[c].row] = after.slots]
      /\ req' = [req EXCEPT ![c].pre = after.slots, ![c].node = after.node]
  BY <1>1, <1>2 DEF StashChunked, batches
<1>4. c \in Reqs /\ Active(c) /\ ReqsType /\ ~ mode.radix /\ DOMAIN rows = Rows
  <2>1. c # None /\ LiveInv
    BY <1>1, AliveLoop DEF StashChunked, MemInv
  <2> QED
    BY <1>1, <2>1, AliveLoop DEF LiveInv, ChunkedInv, Active, MemInv, CacheInv, RowsInv
<1>5. \A q \in Reqs : Seated(q) <=> Active(q)
  BY <1>3 DEF Seated, Stashed
<1>6. IsSeq(Row(c)) /\ req[c].row \in Rows /\ Held(c) = Row(c)
  BY <1>4, <1>5, SeatedRow
<1>7. after.slots = Row(c)
  <2>1. req[c].fill = Len(Row(c))
    BY <1>1, <1>3, <1>4, <1>5 DEF MemInv, FillInv
  <2>2. after.slots = Upto(rows[req[c].row], req[c].fill)
    BY <1>2, <1>4 DEF CacheUnfinished
  <2> QED
    BY <1>6, <2>1, <2>2, UptoWhole DEF Row
<1>8. \A w \in Rows : rows'[w] = rows[w]
  BY <1>3, <1>4, <1>7 DEF Row
<1>9. /\ \A q \in Reqs : req'[q].st = req[q].st /\ req'[q].row = req[q].row
      /\ req'[c].pre = Row(c)
  BY <1>3, <1>4, <1>7 DEF ReqsType, ReqType, NewReq
<1>10. ASSUME NEW q \in Reqs, Active(q)' PROVE Active(q) /\ Held(q)' = Held(q)
  <2>1. Active(q)
    BY <1>9, <1>10 DEF Active
  <2>2. CASE q = c
    <3>1. Stashed(c)'
      BY <1>3, <1>10, <2>2 DEF Stashed
    <3>2. ~ Seated(c)'
      BY <3>1 DEF Seated
    <3> QED
      BY <1>6, <1>9, <2>1, <2>2, <3>2 DEF Held
  <2>3. CASE q # c
    <3>1. ~ Stashed(q)'
      BY <1>3, <2>3 DEF Stashed
    <3>2. Seated(q)' /\ Seated(q)
      BY <1>5, <1>10, <2>1, <3>1 DEF Seated
    <3>3. req[q].row \in Rows
      BY <3>2, SeatedRow
    <3>4. Row(q)' = Row(q)
      BY <1>8, <1>9, <3>3 DEF Row
    <3> QED
      BY <2>1, <3>2, <3>4 DEF Held
  <2> QED
    BY <2>2, <2>3
<1> QED
  BY <1>3, <1>10, SlotsStay

-----------------------------------------------------------------------------
(* Results are processed.                                                   *)

\* The turn of a request that stays active with its row, or ends.
LEMMA TurnHolds ==
    ASSUME OrderInv, MemInv, HeldOnce, HeldOnce', HoldsInv, NEW r, Turn(r),
           kv' = kv \/ kv' = Forget(free'),
           Active(r)' => Active(r) /\ req'[r].row = req[r].row
    PROVE  HoldsInv' /\ LaunchedInv'
<1>1. pc # "run" /\ pc' # "run"
  BY DEF Turn
<1>2. ASSUME NEW q \in Reqs, Active(q)' PROVE Active(q) /\ Held(q)' = Held(q)
  <2>1. CASE q # r
    BY <1>2, <2>1, TurnOthers
  <2>2. CASE q = r
    <3>1. Active(q) /\ req'[q].row = req[q].row
      BY <1>2, <2>2
    <3>2. Seated(q) /\ Seated(q)'
      BY <1>2, <3>1, TurnFacts
    <3>3. req[q].row \in Rows
      BY <3>2, SeatedRow
    <3>4. Row(q)' = Row(q)
      BY <3>1, <3>3 DEF Row, Turn
    <3> QED
      BY <3>1, <3>2, <3>4 DEF Held
  <2> QED
    BY <2>1, <2>2
<1> QED
  BY <1>1, <1>2, SlotsStay

\* cache_unfinished_req writes a row back as it was.
LEMMA KeptTurn ==
    ASSUME OrderInv, MemInv, ProcessItem, NEW r \in Reqs, r = Pending.items[todo + 1].r,
           req[r].st = "active", req[r].chunks = 0, KeptNow(r)
    PROVE  Turn(r) /\ req'[r].row = req[r].row
<1>1. PICK rec : rec = OneMore(r)
  OBVIOUS
<1>2. PICK after : after = CacheUnfinished(r, rec)
  OBVIOUS
<1>3. PICK n : n = req[r].fill
  OBVIOUS
<1>4. PICK row : row = Row(r)
  OBVIOUS
<1>5. /\ DOMAIN rec = DOMAIN NewReq /\ rec.row = req[r].row /\ rec.fill = n
      /\ DOMAIN NewReq = {"st", "out", "fill", "pre", "node", "chunks", "retracted", "abort", "row"}
  BY <1>1, <1>3, OneMoreFacts
<1>6. Seated(r) /\ IsSeq(row) /\ req[r].row \in Rows /\ Len(row) \in Nat
  BY <1>4, TokenFacts, SeatedRow
<1>7. n \in Nat /\ n <= Len(row)
  <2>1. n \in Int /\ Len(req[r].pre) \in Nat
    BY <1>3, ReqFacts DEF MemInv
  <2>2. PICK p \in Nat : p = Len(req[r].pre)
    BY <2>1
  <2>3. p <= n /\ n <= Len(row)
    BY <1>3, <1>4, <1>6, <2>2 DEF MemInv, FillInv
  <2>4. PICK i \in Int : i = n
    BY <2>1
  <2>5. p <= i
    BY <2>3, <2>4
  <2>6. i \in Nat
    BY <2>5
  <2> QED
    BY <2>3, <2>4, <2>6
<1>8. after.slots = Upto(row, n)
  <2>1. ~ mode.radix
    BY ItemTurn
  <2>2. after.slots = Upto(rows[rec.row], rec.fill)
    BY <1>2, <2>1 DEF CacheUnfinished
  <2> QED
    BY <1>4, <1>5, <2>2 DEF Row
<1>9. after.slots \o SubSeq(row, n + 1, Len(row)) = row
  BY <1>6, <1>7, <1>8, UptoAndRest
<1>10. DOMAIN rows = Rows /\ DOMAIN req = Reqs
  BY ItemTurn
<1>11. /\ rows' = [rows EXCEPT ![req[r].row] = row]
       /\ req' = [req EXCEPT ![r] = [rec EXCEPT !.pre = after.slots, !.node = after.node]]
  <2>1. /\ rows' = [rows EXCEPT ![rec.row] = after.slots \o SubSeq(@, rec.fill + 1, Len(@))]
        /\ req' = [req EXCEPT ![r] = [rec EXCEPT !.pre = after.slots, !.node = after.node]]
    BY <1>1, <1>2 DEF KeptNow
  <2>2. rows[rec.row] = row
    BY <1>4, <1>5 DEF Row
  <2> QED
    BY <1>5, <1>9, <2>1, <2>2
<1>12. DOMAIN rows' = Rows /\ \A w \in Rows : rows'[w] = rows[w]
  BY <1>4, <1>10, <1>11 DEF Row
<1>13. req'[r].row = req[r].row /\ \A q \in Reqs : q # r => req'[q] = req[q]
  <2> DEFINE x == [rec EXCEPT !.pre = after.slots, !.node = after.node]
  <2>1. x.row = req[r].row
    BY <1>5
  <2>2. req' = [req EXCEPT ![r] = x]
    BY <1>11
  <2> HIDE DEF x
  <2> QED
    BY <1>10, <2>1, <2>2
<1> QED
  BY <1>12, <1>13, ItemTurn DEF Turn

\* Every turn leaves the active requests their slots.
LEMMA ProcessHolds ==
    ASSUME OrderInv, MemInv, HeldOnce, HeldOnce', HoldsInv, ProcessItem
    PROVE  HoldsInv' /\ LaunchedInv'
<1> DEFINE k == todo + 1
<1>1. PICK r \in Reqs : r = Pending.items[k].r
  BY ItemTurn
<1>2. kv' = Forget(free')
  BY DEF ProcessItem
<1>3. DOMAIN rows = Rows /\ DOMAIN req = Reqs /\ DOMAIN req[r] = DOMAIN NewReq
  BY ItemTurn
<1>4. ASSUME rows' = rows, \A q \in Reqs : q # r => req'[q] = req[q] PROVE Turn(r)
  BY <1>1, <1>3, <1>4, ItemTurn DEF Turn
<1>5. CASE ProcessLate(k)
  <2>1. UNCHANGED <<req, rows>>
    BY <1>5 DEF ProcessLate
  <2> QED
    BY <1>2, <1>4, <2>1, TurnHolds DEF Active
<1>6. CASE ProcessChunk(k)
  <2>1. rows' = rows /\ req' = [req EXCEPT ![r].chunks = @ - 1]
    BY <1>1, <1>6 DEF ProcessChunk, memory
  <2>2. /\ req'[r].st = req[r].st /\ req'[r].row = req[r].row
        /\ \A q \in Reqs : q # r => req'[q] = req[q]
    BY <1>3, <2>1 DEF NewReq
  <2> QED
    BY <1>2, <1>4, <2>1, <2>2, TurnHolds DEF Active
<1>7. CASE ProcessToken(k)
  <2>1. PICK rec : rec = OneMore(r)
    OBVIOUS
  <2>2. /\ rec.st = "active" /\ rec.chunks = 0
        /\ \/ EndsNow(r)
           \/ KeptNow(r)
           \/ /\ req' = [req EXCEPT ![r] = rec]
              /\ UNCHANGED <<cache, free, rows, freeRows>>
    BY <1>1, <1>7, <2>1 DEF ProcessToken, memory, OneMore, EndsNow, KeptNow
  <2>3. rec.row = req[r].row /\ rec.st = req[r].st /\ rec.chunks = req[r].chunks
    BY <2>1, OneMoreFacts
  <2>4. Active(r) /\ req[r].st = "active" /\ req[r].chunks = 0
    BY <2>2, <2>3 DEF Active
  <2>5. CASE EndsNow(r)
    <3>1. /\ rows' = rows
          /\ req' = [req EXCEPT ![r] = [NewReq EXCEPT !.st = "done", !.out = OneMore(r).out]]
      BY <2>5 DEF EndsNow
    <3>2. req'[r].st = "done" /\ \A q \in Reqs : q # r => req'[q] = req[q]
      BY <1>3, <3>1 DEF NewReq
    <3> QED
      BY <1>2, <1>4, <3>1, <3>2, TurnHolds DEF Active
  <2>6. CASE KeptNow(r)
    <3>1. Turn(r) /\ req'[r].row = req[r].row
      BY <1>1, <2>4, <2>6, KeptTurn
    <3> QED
      BY <1>2, <2>4, <3>1, TurnHolds
  <2>7. CASE req' = [req EXCEPT ![r] = rec] /\ UNCHANGED <<cache, free, rows, freeRows>>
    <3>1. req'[r].row = req[r].row /\ \A q \in Reqs : q # r => req'[q] = req[q]
      BY <1>3, <2>3, <2>7
    <3> QED
      BY <1>2, <1>4, <2>4, <2>7, <3>1, TurnHolds
  <2> QED
    BY <2>2, <2>5, <2>6, <2>7
<1> QED
  BY <1>5, <1>6, <1>7 DEF ProcessItem

-----------------------------------------------------------------------------
(* Batches are launched.                                                    *)

\* The slots a batch gets were free, so they are what its requests have on top
\* of what was written.
LEMMA NewSlots ==
    ASSUME HeldOnce, pc # "run", NEW slots, \A s \in ToSet(slots) : free[s] # 0,
           NEW r \in Reqs, NEW w \in Nat, w = Written(r)', StaysWritten(r) \/ w = 0,
           \A n \in w + 1 .. Len(Held(r)') : Held(r)'[n] \in ToSet(slots)
    PROVE  \A n \in 1 .. Len(Held(r)') : Held(r)'[n] \in ToSet(slots) <=> n > w
<1> SUFFICES ASSUME NEW n \in 1 .. Len(Held(r)')
             PROVE  Held(r)'[n] \in ToSet(slots) <=> n > w
  OBVIOUS
<1>1. CASE n > w
  <2>1. n \in w + 1 .. Len(Held(r)')
    BY <1>1
  <2> QED
    BY <1>1, <2>1
<1>2. CASE ~ (n > w)
  <2>1. n \in 1 .. w /\ w # 0
    BY <1>2
  <2>2. Active(r) /\ n \in 1 .. Written(r) /\ Held(r)'[n] = Held(r)[n]
    BY <2>1 DEF StaysWritten
  <2>3. n \in DOMAIN Held(r)
    BY <2>2 DEF HeldOnce, Written
  <2>4. free[Held(r)[n]] = 0
    BY <2>2, <2>3 DEF HeldOnce, ToSet
  <2> QED
    BY <1>2, <2>2, <2>4
<1> QED
  BY <1>1, <1>2

\* A request of a new batch has its slots behind those of its prefix.
LEMMA GrantedHolds ==
    ASSUME OrderInv, MemInv, HeldOnce, pc = "admit", NEW rowOf, NEW slots,
           NEW k \in Nat, NEW r \in Reqs, r \in ToSet(adder.can),
           Granted(k, r, rowOf, slots),
           pc' = "run", r \in ReqsOf(cur'.items), cur'.kind = "extend"
    PROVE  /\ Active(r)' /\ Written(r)' \in Nat
           /\ StaysWritten(r) \/ Written(r)' = 0
           /\ \A n \in Written(r)' + 1 .. Len(Held(r)') : Held(r)'[n] \in ToSet(slots)
<1>1. PICK pre, from, e : pre = req[r].pre /\ from = NewTokens(k - 1) /\ e = ExtendLen(r)
  OBVIOUS
<1>2. PICK part : part = SubSeq(slots, from + 1, NewTokens(k))
  OBVIOUS
<1>3. /\ req'[r].st = "active" /\ req'[r].row = rowOf[k] /\ req'[r].pre = pre
      /\ rows'[rowOf[k]] = pre \o part
      /\ IsSeq(part) /\ Len(part) = e
      /\ \A j \in 1 .. e : part[j] = slots[from + j] /\ from + j \in DOMAIN slots
  BY <1>1, <1>2 DEF Granted
<1>4. IsSeq(pre) /\ Len(pre) \in Nat /\ DOMAIN pre = 1 .. Len(pre)
  BY <1>1, ReqFacts, SeqFacts DEF MemInv
<1>5. Active(r)' /\ Seated(r)' /\ Held(r)' = pre \o part
  <2>1. Active(r)' /\ Seated(r)'
    BY <1>3 DEF Seated, Stashed, Active
  <2> QED
    BY <1>3, <2>1 DEF Held, Row
<1>6. Written(r)' = Len(pre)
  BY <1>3 DEF Written
<1>7. PICK l \in Nat : l = Len(pre)
  BY <1>4
<1>8. e \in Nat
  BY <1>3, SeqFacts
<1>9. /\ IsSeq(pre \o part) /\ Len(pre \o part) = l + e
      /\ \A n \in 1 .. l + e : (pre \o part)[n] = IF n <= l THEN pre[n] ELSE part[n - l]
  BY <1>3, <1>4, <1>7, ConcatIsSeq
<1>10. StaysWritten(r) \/ l = 0
  <2>1. CASE Active(r)
    <3>1. ~ Seated(r)
      BY <2>1 DEF Seated, Stashed
    <3>2. Held(r) = pre /\ Written(r) = l
      BY <1>1, <1>7, <3>1 DEF Held, Written
    <3>3. DOMAIN (pre \o part) = 1 .. l + e
      BY <1>9, SeqFacts
    <3>4. ASSUME NEW n \in 1 .. l
          PROVE  n \in DOMAIN (pre \o part) /\ (pre \o part)[n] = pre[n]
      <4>1. n \in 1 .. l + e /\ n <= l
        BY <1>7, <1>8
      <4> QED
        BY <1>9, <3>3, <4>1
    <3> QED
      BY <1>5, <1>6, <1>7, <2>1, <3>2, <3>4 DEF StaysWritten
  <2>2. CASE ~ Active(r)
    <3>1. pre = <<>>
      BY <1>1, <2>2 DEF MemInv, FillInv
    <3> QED
      BY <1>7, <3>1
  <2> QED
    BY <2>1, <2>2
<1>11. ASSUME NEW n \in l + 1 .. l + e PROVE (pre \o part)[n] \in ToSet(slots)
  <2>1. PICK j \in 1 .. e : n - l = j
    BY <1>7, <1>8
  <2>2. n \in 1 .. l + e /\ ~ (n <= l)
    BY <1>7, <1>8
  <2>3. (pre \o part)[n] = part[j]
    BY <1>9, <2>1, <2>2
  <2> QED
    BY <1>3, <2>3 DEF ToSet
<1> QED
  BY <1>5, <1>6, <1>7, <1>9, <1>10, <1>11

\* The admitted requests get their slots, the others keep theirs.
LEMMA LaunchHolds ==
    ASSUME OrderInv, MemInv, HeldOnce, HeldOnce', HoldsInv, LaunchPrefill
    PROVE  HoldsInv' /\ LaunchedInv'
<1>1. PICK rowOf, slots : Grants(rowOf, slots)
  BY LaunchFacts
<1>2. pc = "admit" /\ LiveInv
  BY AliveLoop DEF LaunchPrefill, MemInv
<1>3. PICK N \in Nat : /\ N = Len(adder.can) /\ DOMAIN adder.can = 1 .. N
                       /\ \A k \in 1 .. N : adder.can[k] \in Reqs
  BY <1>2, NewTokensFacts
<1>4. PICK items : items = PrefillItems(rowOf)
  OBVIOUS
<1>5. /\ DOMAIN rowOf = 1 .. N /\ \A w \in ToSet(rowOf) : w \in There(freeRows)
      /\ \A s \in ToSet(slots) : s \in There(free)
      /\ rows' = RowsWritten(rowOf, slots) /\ req' = Started(rowOf)
      /\ cur'.kind = "extend" /\ cur'.items = items /\ cur'.loc = slots
      /\ pc' = "run"
  BY <1>1, <1>3, <1>4 DEF Grants
<1>6. kv' = Forget(free')
  BY <1>5 DEF LaunchPrefill
<1>7. /\ DOMAIN items = 1 .. N
      /\ \A k \in 1 .. N : items[k].r = adder.can[k]
                           /\ items[k].len = req[adder.can[k]].fill
  BY <1>4, <1>5 DEF PrefillItems
<1> DEFINE Can == ToSet(adder.can)
<1>8. /\ \A q \in Can : \E k \in 1 .. N : adder.can[k] = q
      /\ \A k \in 1 .. N : adder.can[k] \in Can
  BY <1>3 DEF ToSet
<1>9. \A q : q \in ReqsOf(cur'.items) <=> q \in Can
  <2>1. ReqsOf(cur'.items) = {items[k].r : k \in 1 .. N}
    BY <1>5, <1>7 DEF ReqsOf
  <2> HIDE DEF Can
  <2>2. ASSUME NEW q, q \in ReqsOf(cur'.items) PROVE q \in Can
    <3>1. PICK k \in 1 .. N : q = items[k].r
      BY <2>1, <2>2
    <3> QED
      BY <1>7, <1>8, <3>1
  <2>3. ASSUME NEW q, q \in Can PROVE q \in ReqsOf(cur'.items)
    <3>1. PICK k \in 1 .. N : adder.can[k] = q
      BY <1>8, <2>3
    <3>2. q = items[k].r
      BY <1>7, <3>1
    <3> QED
      BY <2>1, <3>2
  <2> QED
    BY <2>2, <2>3
<1>10. ASSUME NEW k \in 1 .. N, NEW r \in Reqs, r = adder.can[k]
       PROVE  Granted(k, r, rowOf, slots)
  BY <1>1, <1>2, <1>3, <1>10, GrantFacts
<1> HIDE DEF Can
<1>11. ASSUME NEW q \in Reqs, q \in Can
       PROVE  /\ Active(q)' /\ Written(q)' \in Nat
              /\ StaysWritten(q) \/ Written(q)' = 0
              /\ \A n \in Written(q)' + 1 .. Len(Held(q)') : Held(q)'[n] \in ToSet(slots)
  <2>1. PICK k \in 1 .. N : q = adder.can[k]
    BY <1>8, <1>11
  <2>2. Granted(k, q, rowOf, slots)
    BY <1>10, <2>1
  <2>3. k \in Nat
    BY <1>3
  <2>4. q \in ToSet(adder.can)
    BY <1>11 DEF Can
  <2> QED
    BY <1>2, <1>5, <1>9, <1>11, <2>2, <2>3, <2>4, GrantedHolds
<1>12. ASSUME NEW q \in Reqs, q \notin Can, Active(q)'
       PROVE  /\ Written(q)' \in Nat /\ Written(q)' = Len(Held(q)')
              /\ StaysWritten(q)
  <2>1. req'[q] = req[q]
    BY <1>5, <1>12, Zenon DEF Started, Can
  <2>2. Active(q) /\ Seated(q) /\ Seated(q)'
    BY <1>2, <1>5, <1>12, <2>1 DEF Active, Seated, Stashed, Can
  <2>3. req[q].row \in Rows /\ Seat(q) = {req[q].row} /\ Held(q) = Row(q)
    BY <2>2, SeatedRow
  <2>4. freeRows[req[q].row] = 0
    <3>1. freeRows[req[q].row] = One(\A r \in Reqs : req[q].row \notin Seat(r))
      BY <2>3, Zenon DEF MemInv, RowsInv, OneOwner
    <3> QED
      BY <2>3, <3>1 DEF One
  <2>5. req[q].row \notin ToSet(rowOf)
    BY <1>5, <2>4 DEF There
  <2>6. rows'[req[q].row] = rows[req[q].row]
    BY <1>5, <2>3, <2>5 DEF RowsWritten
  <2>7. Held(q)' = Held(q)
    BY <2>1, <2>2, <2>6 DEF Held, Row
  <2>8. Written(q)' = Len(Held(q)') /\ Written(q) = Len(Held(q))
    BY <1>2, <1>9, <1>12 DEF Written
  <2>9. Len(Held(q)) \in Nat /\ DOMAIN Held(q) = 1 .. Len(Held(q))
    BY <2>2 DEF HeldOnce
  <2> QED
    BY <2>2, <2>7, <2>8, <2>9 DEF StaysWritten
<1>13. HoldsInv'
  BY <1>6, <1>11, <1>12, HoldsKept
<1>14. \A s \in ToSet(slots) : free[s] # 0
  BY <1>5 DEF There
<1>15. ASSUME NEW r \in Reqs, Active(r)'
       PROVE  \A n \in 1 .. Len(Held(r)') : Held(r)'[n] \in ToSet(slots) <=> n > Written(r)'
  <2>1. PICK w \in Nat : w = Written(r)'
    BY <1>11, <1>12, <1>15
  <2>2. /\ StaysWritten(r) \/ w = 0
        /\ \A n \in w + 1 .. Len(Held(r)') : Held(r)'[n] \in ToSet(slots)
    <3>1. CASE r \in Can
      BY <1>11, <2>1, <3>1
    <3>2. CASE r \notin Can
      <4>1. StaysWritten(r) /\ w = Len(Held(r)')
        BY <1>12, <1>15, <2>1, <3>2
      <4>2. ~ \E n : n \in w + 1 .. w
        BY <2>1
      <4> QED
        BY <4>1, <4>2
    <3> QED
      BY <3>1, <3>2
  <2> QED
    BY <1>2, <1>14, <2>1, <2>2, NewSlots
<1>16. ASSUME NEW k \in DOMAIN cur'.items
       PROVE  /\ req'[cur'.items[k].r].st = "active"
              /\ cur'.items[k].len = req'[cur'.items[k].r].fill
  <2>1. k \in 1 .. N
    BY <1>5, <1>7
  <2>2. PICK r \in Reqs : r = adder.can[k] /\ r \in Can
    BY <1>3, <1>8, <2>1
  <2>3. Granted(k, r, rowOf, slots)
    BY <1>10, <2>1, <2>2
  <2>4. req'[r].st = "active" /\ req'[r].fill = req[r].fill
    BY <2>3 DEF Granted
  <2>5. cur'.items[k].r = r /\ cur'.items[k].len = req[r].fill
    BY <1>5, <1>7, <2>1, <2>2
  <2> QED
    BY <2>4, <2>5
<1>17. LaunchedInv'
  BY <1>5, <1>15, <1>16 DEF LaunchedInv, Active
<1> QED
  BY <1>13, <1>17

\* Each running request gets one more slot.
LEMMA PrepareHolds ==
    ASSUME OrderInv, MemInv, HeldOnce, HeldOnce', HoldsInv, PrepareDecode
    PROVE  HoldsInv' /\ LaunchedInv'
<1>1. PICK slots : slots = Taken(free, Len(running))
  OBVIOUS
<1>2. /\ LiveInv /\ pc = "step" /\ req' = req /\ kv' = kv /\ pc' = "run"
      /\ running' = [k \in DOMAIN running |-> [running[k] EXCEPT !.len = @ + 1]]
      /\ cur'.kind = "decode" /\ cur'.items = running' /\ cur'.loc = slots
  BY <1>1 DEF OrderInv, PrepareDecode, NoBatch
<1>3. /\ \A k \in DOMAIN running : Stepped(k, running[k].r, slots)
      /\ \A q \in Reqs : Active(q) => Seated(q) /\ q \in ReqsOf(running)
  BY <1>1, SteppedFacts
<1>4. PICK M \in Nat : /\ M = Len(running) /\ DOMAIN running = 1 .. M /\ Items(running)
                       /\ \A k \in 1 .. M : running[k].r \in Reqs
  BY AliveLoop, ItemFacts DEF MemInv
<1>5. DOMAIN running' = 1 .. M /\ \A k \in 1 .. M : running'[k].r = running[k].r
  <2>1. \A k \in 1 .. M : DOMAIN running[k] = {"r", "row", "len", "future", "token"}
    BY <1>4 DEF Items, Item
  <2> QED
    BY <1>2, <1>4, <2>1
<1>6. DOMAIN slots = 1 .. M /\ \A s \in ToSet(slots) : free[s] # 0
  <2>1. NoneTwice(free) /\ DOMAIN free = Slots
    BY Constants, OwnedOnce DEF MemInv, SlotsInv
  <2>2. M <= Count(free) /\ Slots \subseteq Int
    BY <1>2, <1>4, AliveLoop DEF MemInv, RoomInv, Slots
  <2>3. Len(slots) = M /\ DOMAIN slots = 1 .. Len(slots) /\ \A s \in ToSet(slots) : s \in There(free)
    BY <1>1, <1>4, <2>1, <2>2, TakenFacts
  <2> QED
    BY <2>3 DEF There
<1>7. \A q : q \in ReqsOf(cur'.items) <=> q \in ReqsOf(running)
  BY <1>2, <1>4, <1>5 DEF ReqsOf
<1>8. ASSUME NEW r \in Reqs, Active(r)'
      PROVE  /\ Written(r)' \in Nat /\ StaysWritten(r)
             /\ \A n \in Written(r)' + 1 .. Len(Held(r)') : Held(r)'[n] \in ToSet(slots)
  <2>1. Active(r) /\ Seated(r) /\ r \in ReqsOf(running) /\ Seated(r)'
    <3>1. Active(r)
      BY <1>2, <1>8 DEF Active
    <3>2. Seated(r) /\ r \in ReqsOf(running)
      BY <1>3, <3>1
    <3>3. ~ Stashed(r)'
      BY <1>2 DEF Stashed
    <3> QED
      BY <1>8, <3>1, <3>2, <3>3 DEF Seated
  <2>2. PICK k \in 1 .. M : running[k].r = r
    BY <1>4, <2>1 DEF ReqsOf
  <2>3. rows'[req[r].row] = Append(Row(r), slots[k])
    BY <1>3, <1>4, <2>2 DEF Stepped
  <2>4. PICK row, l : /\ row = Row(r) /\ l = Len(row) /\ l \in Nat
                      /\ IsSeq(row) /\ DOMAIN row = 1 .. l
    BY <2>1, SeatedRow
  <2>5. Held(r) = row /\ Held(r)' = Append(row, slots[k]) /\ Row(r)' = Append(row, slots[k])
    BY <1>2, <2>1, <2>3, <2>4 DEF Held, Row
  <2>6. /\ Len(Append(row, slots[k])) = l + 1
        /\ DOMAIN Append(row, slots[k]) = 1 .. l + 1
        /\ \A n \in 1 .. l : Append(row, slots[k])[n] = row[n]
        /\ Append(row, slots[k])[l + 1] = slots[k]
    BY <2>4, AppendIsSeq
  <2>7. Written(r) = l
    BY <1>2, <2>4, <2>5 DEF Written
  <2>8. Written(r)' = l
    <3>1. r \in ReqsOf(cur'.items)
      BY <1>7, <2>1
    <3>2. Written(r)' = Len(Row(r)') - 1
      BY <1>2, <3>1 DEF Written
    <3> QED
      BY <2>4, <2>5, <2>6, <3>2
  <2>9. slots[k] \in ToSet(slots)
    BY <1>6 DEF ToSet
  <2>10. \A n \in 1 .. l : n \in 1 .. l + 1
    BY <2>4
  <2>11. \A n \in l + 1 .. l + 1 : n = l + 1
    BY <2>4
  <2>12. StaysWritten(r)
    BY <2>1, <2>5, <2>6, <2>7, <2>8, <2>10 DEF StaysWritten
  <2> QED
    BY <2>4, <2>5, <2>6, <2>8, <2>9, <2>11, <2>12
<1>9. HoldsInv'
  BY <1>2, <1>8, HoldsKept
<1>10. ASSUME NEW r \in Reqs, Active(r)'
       PROVE  \A n \in 1 .. Len(Held(r)') : Held(r)'[n] \in ToSet(slots) <=> n > Written(r)'
  <2>1. PICK w \in Nat : w = Written(r)'
    BY <1>8, <1>10
  <2>2. /\ StaysWritten(r)
        /\ \A n \in w + 1 .. Len(Held(r)') : Held(r)'[n] \in ToSet(slots)
    BY <1>8, <1>10, <2>1
  <2> QED
    BY <1>2, <1>6, <2>1, <2>2, NewSlots
<1>11. ASSUME NEW k \in DOMAIN cur'.items PROVE req'[cur'.items[k].r].st = "active"
  <2>1. k \in 1 .. M
    BY <1>2, <1>5
  <2>2. Seated(running[k].r)
    BY <1>3, <1>4, <2>1 DEF Stepped
  <2> QED
    BY <1>2, <1>5, <2>1, <2>2 DEF Seated, Active
<1>12. LaunchedInv'
  BY <1>2, <1>10, <1>11 DEF LaunchedInv, Active
<1> QED
  BY <1>9, <1>12

-----------------------------------------------------------------------------
(* Batches run.                                                             *)

\* Each request of a launched batch sits in its row, as far as its item says.
LEMMA LaunchedItem ==
    ASSUME OrderInv, MemInv, LaunchedInv, pc = "run", NEW k \in DOMAIN cur.items,
           NEW r, r = cur.items[k].r
    PROVE  /\ r \in Reqs /\ Active(r) /\ Seated(r) /\ r \in ReqsOf(cur.items)
           /\ cur.items[k].row = req[r].row /\ cur.items[k].len = Len(Row(r))
           /\ cur.kind = "extend" => cur.items[k].len = req[r].fill
           /\ cur.kind # "extend" => cur.kind = "decode" /\ Len(Row(r)) >= 1
<1>1. /\ LiveInv /\ Launched /\ BatchType(cur) /\ r \in Reqs
      /\ cur.kind \in {"extend", "decode"}
  <2>1. LiveInv /\ QueueInv /\ Items(cur.items)
    BY AliveLoop DEF MemInv
  <2>2. BatchType(cur)
    BY <2>1 DEF LiveInv, TypesInv, BatchesType
  <2> QED
    BY <2>1, <2>2, ItemFacts DEF QueueInv, Launched, BatchType
<1>2. Active(r) /\ r \in ReqsOf(cur.items)
      /\ (cur.kind = "extend" => cur.items[k].len = req[r].fill)
  BY DEF LaunchedInv, ReqsOf
<1>3. Seated(r)
  BY <1>2 DEF Seated, Stashed
<1>4. cur.items[k] \in ToSet(running) \cup ToSet(Joiners)
  <2>1. cur.items[k] \in ToSet(cur.items)
    BY DEF ToSet
  <2>2. CASE cur.kind = "decode"
    BY <1>1, <2>1, <2>2 DEF LiveInv, CurInv
  <2>3. CASE cur.kind = "extend"
    BY <1>1, <2>1, <2>3 DEF Joiners
  <2> QED
    BY <1>1, <2>2, <2>3
<1>5. /\ cur.items[k].row = req[r].row /\ cur.items[k].len = Len(Row(r))
      /\ r # chunked => cur.items[k].len >= Len(Prompt[r])
  BY <1>3, <1>4 DEF MemInv, PlacesInv
<1>6. ASSUME cur.kind = "decode" PROVE Len(Row(r)) >= 1
  <2>1. chunked = None
    BY <1>1, <1>6 DEF LiveInv, CurInv, BatchType
  <2>2. r # chunked
    BY <1>1, <2>1, Constants
  <2>3. Len(Prompt[r]) >= 1 /\ Len(Prompt[r]) \in Nat
    <3>1. Len(Prompt[r]) \in 1 .. Size - 7
      BY <1>1, SchedulerAssumption
    <3>2. Size - 7 \in Int
      BY Constants
    <3> QED
      BY <3>1, <3>2
  <2>4. Len(Row(r)) >= Len(Prompt[r]) /\ Len(Row(r)) \in Nat
    BY <1>1, <1>3, <1>5, <2>2, SeatedRow
  <2> QED
    BY <2>3, <2>4
<1> QED
  BY <1>1, <1>2, <1>3, <1>5, <1>6

\* What a batch computes for a request goes on with the request's own text,
\* because what is before it in the row is.
LEMMA ComputedOwn ==
    ASSUME OrderInv, MemInv, HoldsInv, LaunchedInv, FuturesResolve, pc = "run",
           NEW k \in DOMAIN cur.items, NEW r, r = cur.items[k].r
    PROVE  /\ DOMAIN Computed(cur.items[k]) = Written(r) + 1 .. Len(Row(r))
           /\ \A n \in Written(r) + 1 .. Len(Row(r)) :
                 Computed(cur.items[k])[n] = Upto(Text(r), n)
           /\ Written(r) \in Nat
<1>1. PICK i : i = cur.items[k]
  OBVIOUS
<1>2. /\ r \in Reqs /\ Active(r) /\ Seated(r) /\ r \in ReqsOf(cur.items)
      /\ i.row = req[r].row /\ i.len = Len(Row(r)) /\ i.r = r
      /\ cur.kind = "extend" => i.len = req[r].fill
      /\ cur.kind # "extend" => cur.kind = "decode" /\ Len(Row(r)) >= 1
  BY <1>1, LaunchedItem
<1>3. PICK row, l : /\ row = Row(r) /\ l = Len(row) /\ l \in Nat
                    /\ IsSeq(row) /\ DOMAIN row = 1 .. l /\ Held(r) = row
  BY <1>2, SeatedRow
<1>4. PICK from : from = Written(r)
  OBVIOUS
<1>5. from = IF cur.kind = "extend" THEN Len(req[i.r].pre) ELSE i.len - 1
  BY <1>2, <1>4 DEF Written
<1>6. from \in Nat /\ from <= l
  <2>1. CASE cur.kind = "extend"
    <3>1. Len(req[r].pre) \in Nat
      BY <1>2, ReqFacts
    <3>2. Len(req[r].pre) <= req[r].fill
      BY <1>2 DEF MemInv, FillInv
    <3> QED
      BY <1>2, <1>3, <1>5, <2>1, <3>1, <3>2
  <2>2. CASE cur.kind # "extend"
    BY <1>2, <1>3, <1>5, <2>2
  <2> QED
    BY <2>1, <2>2
<1>7. PICK t : t = Text(r)
  OBVIOUS
<1>8. PICK base : base = IF from = 0 THEN <<>> ELSE kv[row[from]]
  OBVIOUS
<1>9. PICK new : new = IF cur.kind = "extend" THEN SubSeq(t, from + 1, l) ELSE <<i.token>>
  OBVIOUS
<1>10. Computed(i) = [n \in from + 1 .. l |-> base \o Upto(new, n - from)]
  <2>1. i.len = l /\ rows[i.row] = row /\ Text(i.r) = t
    BY <1>2, <1>3, <1>7 DEF Row
  <2> QED
    BY <1>5, <1>8, <1>9, <2>1, Zenon DEF Computed
<1>11. base = Upto(t, from)
  <2>1. CASE from = 0
    <3>1. IsSeq(Upto(t, 0)) /\ Len(Upto(t, 0)) = 0
      BY UptoIsSeq
    <3> QED
      BY <1>8, <2>1, <3>1, EmptyFacts
  <2>2. CASE from # 0
    <3>1. from \in 1 .. Written(r)
      BY <1>4, <1>6, <2>2
    <3>2. kv[Held(r)[from]] = Upto(Text(r), from)
      BY <1>2, <3>1 DEF HoldsInv
    <3> QED
      BY <1>3, <1>7, <1>8, <2>2, <3>2
  <2> QED
    BY <2>1, <2>2
<1>12. ASSUME NEW n \in from + 1 .. l PROVE base \o Upto(new, n - from) = Upto(t, n)
  <2>1. n \in Nat /\ from < n /\ n <= l /\ l \in Int
    BY <1>3, <1>6
  <2>2. /\ Upto(t, from) \o Upto(SubSeq(t, from + 1, l), n - from) = Upto(t, n)
        /\ n = from + 1 => Upto(t, from) \o Upto(<<t[n]>>, n - from) = Upto(t, n)
    BY <1>6, <2>1, TextGoesOn
  <2>3. CASE cur.kind = "extend"
    BY <1>9, <1>11, <2>2, <2>3
  <2>4. CASE cur.kind # "extend"
    <3>1. cur.kind = "decode" /\ from = l - 1 /\ n = from + 1 /\ n = l
      BY <1>2, <1>3, <1>5, <1>6, <2>1, <2>4
    <3>2. i.token = t[n]
      BY <1>1, <1>2, <1>3, <1>7, <3>1 DEF FuturesResolve
    <3> QED
      BY <1>9, <1>11, <2>2, <2>4, <3>1, <3>2
  <2> QED
    BY <2>3, <2>4
<1>13. Computed(cur.items[k]) = [n \in from + 1 .. l |-> base \o Upto(new, n - from)]
  BY <1>1, <1>10
<1> QED
  BY <1>3, <1>4, <1>6, <1>7, <1>12, <1>13

\* What the batch writes into a slot that one of its requests is to fill is the
\* KV of that request's text.
LEMMA WritesOwn ==
    ASSUME OrderInv, MemInv, HeldOnce, HoldsInv, LaunchedInv, FuturesResolve, pc = "run",
           NEW k \in DOMAIN cur.items, NEW r, r = cur.items[k].r,
           NEW n \in Written(r) + 1 .. Len(Row(r)), NEW s, s = Row(r)[n],
           s \in ToSet(cur.loc)
    PROVE  KVWritten(cur.items)[s] = Upto(Text(r), n)
<1> DEFINE items == cur.items
           at == {p \in (DOMAIN items) \X Slots :
                     /\ p[2] \in DOMAIN Computed(items[p[1]])
                     /\ rows[items[p[1]].row][p[2]] = s}
<1>1. \A j \in DOMAIN items :
         LET q == items[j].r
         IN  /\ q \in Reqs /\ Active(q) /\ Seated(q) /\ items[j].row = req[q].row
             /\ DOMAIN Computed(items[j]) = Written(q) + 1 .. Len(Row(q))
             /\ Written(q) \in Nat
             /\ Held(q) = Row(q) /\ Injective(Row(q)) /\ IsSeq(Row(q))
             /\ Len(Row(q)) \in Nat /\ DOMAIN Row(q) = 1 .. Len(Row(q))
             /\ rows[items[j].row] = Row(q)
  <2> SUFFICES ASSUME NEW j \in DOMAIN items, NEW q, q = items[j].r
               PROVE  /\ q \in Reqs /\ Active(q) /\ Seated(q) /\ items[j].row = req[q].row
                      /\ DOMAIN Computed(items[j]) = Written(q) + 1 .. Len(Row(q))
                      /\ Written(q) \in Nat
                      /\ Held(q) = Row(q) /\ Injective(Row(q)) /\ IsSeq(Row(q))
                      /\ Len(Row(q)) \in Nat /\ DOMAIN Row(q) = 1 .. Len(Row(q))
                      /\ rows[items[j].row] = Row(q)
    OBVIOUS
  <2>1. q \in Reqs /\ Active(q) /\ Seated(q) /\ items[j].row = req[q].row
    BY LaunchedItem
  <2>2. /\ DOMAIN Computed(items[j]) = Written(q) + 1 .. Len(Row(q))
        /\ Written(q) \in Nat
    BY ComputedOwn
  <2>3. rows[items[j].row] = Row(q)
    BY <2>1 DEF Row
  <2> QED
    BY <2>1, <2>2, <2>3, SeatedRow
<1>2. /\ r \in Reqs /\ Seated(r) /\ IsSeq(Row(r)) /\ Injective(Row(r))
      /\ Written(r) \in Nat /\ Len(Row(r)) \in Nat /\ DOMAIN Row(r) = 1 .. Len(Row(r))
      /\ Held(r) = Row(r) /\ DOMAIN Computed(items[k]) = Written(r) + 1 .. Len(Row(r))
      /\ rows[items[k].row] = Row(r) /\ Active(r)
  BY <1>1
<1>3. n \in DOMAIN Row(r) /\ s \in ToSet(Row(r))
  <2>1. n \in DOMAIN Row(r)
    BY <1>2
  <2> QED
    BY <2>1 DEF ToSet
<1>4. n \in Slots /\ s \in Slots
  <2>1. ToSet(Row(r)) \subseteq Slots
    BY <1>2, SeatedRow
  <2>2. Len(Row(r)) = Cardinality(ToSet(Row(r)))
    BY <1>2, InjectiveCard
  <2>3. Cardinality(Slots) = Size /\ IsFiniteSet(Slots) /\ Size \in Nat
    BY Constants, FS_Interval DEF Slots
  <2>4. Len(Row(r)) <= Size
    BY <2>1, <2>2, <2>3, FS_Subset
  <2>5. n \in 1 .. Size
    BY <1>2, <1>3, <2>3, <2>4
  <2> QED
    BY <1>3, <2>1, <2>5 DEF Slots
<1>5. <<k, n>> \in at
  BY <1>2, <1>4
<1>6. ASSUME NEW p \in at PROVE p = <<k, n>>
  <2>1. PICK j \in DOMAIN items, m \in Slots : /\ p = <<j, m>>
                                              /\ m \in DOMAIN Computed(items[j])
                                              /\ rows[items[j].row][m] = s
    BY <1>6
  <2>2. PICK q : q = items[j].r
    OBVIOUS
  <2>3. /\ q \in Reqs /\ Active(q) /\ Held(q) = Row(q)
        /\ DOMAIN Row(q) = 1 .. Len(Row(q)) /\ Row(q)[m] = s
        /\ m \in Written(q) + 1 .. Len(Row(q)) /\ Written(q) \in Nat /\ Len(Row(q)) \in Nat
    BY <1>1, <2>1, <2>2
  <2>4. m \in DOMAIN Row(q)
    BY <2>3
  <2>5. s \in ToSet(Held(q))
    BY <2>3, <2>4 DEF ToSet
  <2>6. q = r
    BY <1>2, <1>3, <2>3, <2>5 DEF HeldOnce
  <2>7. m = n
    BY <1>2, <1>3, <2>3, <2>4, <2>6 DEF Injective
  <2>8. Items(cur.items)
    BY AliveLoop DEF MemInv
  <2>9. j = k
    BY <2>2, <2>6, <2>8 DEF Items
  <2> QED
    BY <2>1, <2>7, <2>9
<1>7. PICK c : c = CHOOSE p \in at : TRUE
  OBVIOUS
<1>8. c[1] = k /\ c[2] = n
  <2> HIDE DEF at
  <2>1. c = <<k, n>>
    BY <1>5, <1>6, <1>7
  <2> QED
    BY <2>1
<1>9. KVWritten(items)[s] = Computed(items[c[1]])[c[2]]
  BY <1>4, <1>7, Zenon DEF KVWritten
<1>10. Computed(items[k])[n] = Upto(Text(r), n)
  BY ComputedOwn
<1> QED
  BY <1>8, <1>9, <1>10

\* The batch writes what its requests are to hold, and nothing else of theirs.
LEMMA RunHolds ==
    ASSUME OrderInv, MemInv, HeldOnce, HoldsInv, LaunchedInv, FuturesResolve, RunBatch
    PROVE  HoldsInv' /\ LaunchedInv'
<1>1. /\ pc = "run" /\ pc' = "process" /\ req' = req /\ rows' = rows
      /\ kv' = KVWritten(cur.items)
  BY DEF RunBatch, memory
<1>2. ASSUME NEW r \in Reqs, Active(r)', NEW n \in 1 .. Written(r)'
      PROVE  kv'[Held(r)'[n]] = Upto(Text(r), n)
  <2>1. Active(r) /\ Seated(r) /\ Seated(r)'
    <3>1. Active(r)
      BY <1>1, <1>2 DEF Active
    <3>2. ~ Stashed(r) /\ ~ Stashed(r)'
      BY <1>1 DEF Stashed
    <3> QED
      BY <1>2, <3>1, <3>2 DEF Seated
  <2>2. PICK row, l : /\ row = Row(r) /\ l = Len(row) /\ l \in Nat
                      /\ DOMAIN row = 1 .. l /\ Held(r) = row /\ ToSet(row) \subseteq Slots
    BY <2>1, SeatedRow
  <2>3. Held(r)' = row
    BY <1>1, <2>1, <2>2 DEF Held, Row
  <2>4. Written(r)' = l
    BY <1>1, <2>2, <2>3 DEF Written
  <2>5. n \in 1 .. l
    BY <1>2, <2>4
  <2>6. PICK s : s = row[n]
    OBVIOUS
  <2>7. s \in Slots
    BY <2>2, <2>5, <2>6 DEF ToSet
  <2>8. s \in ToSet(cur.loc) <=> n > Written(r)
    BY <1>1, <2>1, <2>2, <2>5, <2>6 DEF LaunchedInv
  <2>9. CASE n > Written(r)
    <3>1. r \in ReqsOf(cur.items)
      <4>1. CASE r \notin ReqsOf(cur.items)
        <5>1. Written(r) = l
          BY <2>2, <4>1 DEF Written
        <5> QED
          BY <2>2, <2>5, <2>9, <5>1
      <4> QED
        BY <4>1
    <3>2. PICK k \in DOMAIN cur.items : r = cur.items[k].r
      BY <3>1 DEF ReqsOf
    <3>3. Written(r) \in Nat
      BY <1>1, <3>2, ComputedOwn
    <3>4. n \in Written(r) + 1 .. Len(Row(r))
      BY <2>2, <2>5, <2>9, <3>3
    <3>5. KVWritten(cur.items)[s] = Upto(Text(r), n)
      BY <1>1, <2>2, <2>6, <2>8, <2>9, <3>2, <3>4, WritesOwn
    <3> QED
      BY <1>1, <2>3, <2>6, <3>5
  <2>10. CASE ~ (n > Written(r))
    <3>1. KVWritten(cur.items)[s] = kv[s]
      BY <2>7, <2>8, <2>10, Zenon DEF KVWritten
    <3>2. Written(r) \in Int
      <4>1. CASE r \in ReqsOf(cur.items)
        <5>1. PICK k \in DOMAIN cur.items : r = cur.items[k].r
          BY <4>1 DEF ReqsOf
        <5>2. Written(r) \in Nat
          BY <1>1, <5>1, ComputedOwn
        <5> QED
          BY <5>2
      <4>2. CASE r \notin ReqsOf(cur.items)
        BY <2>2, <4>2 DEF Written
      <4> QED
        BY <4>1, <4>2
    <3>3. n \in 1 .. Written(r)
      BY <2>2, <2>5, <2>10, <3>2
    <3>4. kv[Held(r)[n]] = Upto(Text(r), n)
      BY <2>1, <3>3 DEF HoldsInv
    <3> QED
      BY <1>1, <2>2, <2>3, <2>6, <3>1, <3>4
  <2> QED
    BY <2>9, <2>10
<1>3. HoldsInv'
  BY <1>2 DEF HoldsInv
<1>4. LaunchedInv'
  BY <1>1 DEF LaunchedInv
<1> QED
  BY <1>3, <1>4

\* Each request of a batch has the KV of its own text up to what is computed.
LEMMA HeldIsRead ==
    ASSUME OrderInv, MemInv, HoldsInv, LaunchedInv
    PROVE  BatchReadsOwnKV
<1> SUFFICES ASSUME pc = "run", NEW k \in DOMAIN cur.items, NEW r, r = cur.items[k].r,
                    NEW known, known = cur.items[k].len
                                  - IF cur.kind = "decode" THEN 1 ELSE ExtendLen(r),
                    NEW n \in 1 .. known
             PROVE  kv[rows[cur.items[k].row][n]] = Upto(Text(r), n)
  BY DEF BatchReadsOwnKV
<1>1. /\ r \in Reqs /\ Active(r) /\ Seated(r) /\ r \in ReqsOf(cur.items)
      /\ cur.items[k].row = req[r].row /\ cur.items[k].len = Len(Row(r))
      /\ cur.kind = "extend" => cur.items[k].len = req[r].fill
      /\ cur.kind # "extend" => cur.kind = "decode"
  BY LaunchedItem
<1>2. known = Written(r)
  <2>1. CASE cur.kind = "decode"
    BY <1>1, <2>1 DEF Written
  <2>2. CASE cur.kind = "extend"
    <3>1. req[r].fill \in Int /\ Len(req[r].pre) \in Nat
      BY <1>1, ReqFacts DEF MemInv
    <3>2. known = req[r].fill - (req[r].fill - Len(req[r].pre))
      BY <1>1, <2>2 DEF ExtendLen
    <3>3. Written(r) = Len(req[r].pre)
      BY <1>1, <2>2 DEF Written
    <3> QED
      BY <3>1, <3>2, <3>3
  <2> QED
    BY <1>1, <2>1, <2>2
<1>3. kv[Held(r)[n]] = Upto(Text(r), n)
  BY <1>1, <1>2 DEF HoldsInv
<1> QED
  BY <1>1, <1>3 DEF Held, Row

-----------------------------------------------------------------------------
(* The loop.                                                                *)

\* Every step keeps what the slots of the active requests hold.
LEMMA NextHolds ==
    ASSUME OrderInv, MemInv, HeldOnce, HeldOnce', HoldsInv, LaunchedInv, FuturesResolve,
           [Next /\ SparingFlush]_vars
    PROVE  HoldsInv' /\ LaunchedInv'
<1>1. CASE UNCHANGED vars
  <2>1. UNCHANGED <<pc, req, rows, chunked, adder, cur, kv>>
    BY <1>1 DEF vars, memory, batches
  <2>2. \A r \in Reqs : /\ Active(r)' <=> Active(r)
                        /\ Held(r)' = Held(r) /\ Written(r)' = Written(r)
    BY <2>1 DEF Active, Held, Seated, Stashed, Row, Written
  <2>3. HoldsInv'
    BY <2>1, <2>2 DEF HoldsInv
  <2>4. LaunchedInv'
    BY <2>1, <2>2 DEF LaunchedInv, Active
  <2> QED
    BY <2>3, <2>4
<1>2. CASE SchedulerStep
  BY <1>2, StashHolds, LoopHolds, AdmissionHolds, LaunchHolds, RetractHolds, PrepareHolds,
     RunHolds, ProcessHolds DEF SchedulerStep
<1>3. CASE \/ \E r \in Reqs : Arrive(r)
           \/ \E r \in MayAbort : Abort(r)
  <2>1. MayAbort \subseteq Reqs
    BY SchedulerAssumption
  <2> QED
    BY <1>3, <2>1, ArrivalHolds
<1>4. CASE FlushCache /\ SparingFlush
  BY <1>4, FlushHolds DEF SparingFlush
<1> QED
  BY <1>1, <1>2, <1>3, <1>4 DEF Next

\* With ChunkCache, a batch only ever reads KV that was computed from the text
\* of the request it reads it for, whatever was retracted, aborted, chunked or
\* given to others in the meantime, as long as flush_cache takes no request's
\* memory and every decode finds its request's own token in the FutureMap.
THEOREM BatchesReadOwn ==
    ASSUME ChunkCacheOnly
    PROVE  Spec /\ FlushSparesRequests /\ []FuturesResolve => []BatchReadsOwnKV
<1>1. Init => HoldsInv /\ LaunchedInv
  BY DEF Init, NewReq, Active, HoldsInv, LaunchedInv
<1>2. [Next]_vars /\ [FlushCache => \A r \in Reqs : req[r].st # "active"]_vars
         => [Next /\ SparingFlush]_vars
  BY DEF SparingFlush
<1>3. OrderInv /\ MemInv /\ HeldOnce /\ HeldOnce' /\ HoldsInv /\ LaunchedInv /\ FuturesResolve
         /\ [Next]_vars /\ [FlushCache => \A r \in Reqs : req[r].st # "active"]_vars
         => (HoldsInv /\ LaunchedInv)'
  BY <1>2, NextHolds
<1>4. OrderInv /\ MemInv /\ HoldsInv /\ LaunchedInv => BatchReadsOwnKV
  BY HeldIsRead
<1>5. Spec /\ FlushSparesRequests => [](OrderInv /\ MemInv)
  BY MemHolds
<1>6. OrderInv /\ MemInv => HeldOnce
  BY HeldsOnce
<1> QED
  BY <1>1, <1>3, <1>4, <1>5, <1>6, PTL DEF Spec, FlushSparesRequests

-----------------------------------------------------------------------------
(* event_loop_normal hands every token on itself.                           *)

\* an item carries the token after the last one its batch computed
Carries(i) == i.token = TokenAt(i.r, i.len)
\* In event_loop_normal, output_ids of the running batch are the tokens to be
\* decoded next; a batch about to decode has them as its input.
TokensInv ==
    ~ mode.overlap =>
        /\ pc = "run" /\ cur.kind = "decode" =>
              \A k \in DOMAIN cur.items :
                 cur.items[k].token = Text(cur.items[k].r)[cur.items[k].len]
        /\ ~ (pc = "run" /\ cur.kind = "decode") =>
              \A k \in DOMAIN running : Active(running[k].r) => Carries(running[k])
        /\ pc = "process" => \A k \in DOMAIN cur.items : Carries(cur.items[k])
        /\ pc \in {"recv", "merge"} => \A k \in DOMAIN last.items : Carries(last.items[k])

\* A step that leaves the batches as they are, and makes no request of the
\* running batch active.
LEMMA TokensKept ==
    ASSUME TokensInv, pc # "run", pc' # "run", UNCHANGED <<mode, running, last, cur>>,
           pc' = "process" => pc = "process",
           pc' \in {"recv", "merge"} => pc \in {"recv", "merge"},
           \A k \in DOMAIN running : req'[running[k].r].st = "active" => Active(running[k].r)
    PROVE  TokensInv'
BY DEF TokensInv, Active

\* The running batch gets smaller, or comes in another order.
LEMMA TokensThinned ==
    ASSUME TokensInv, pc # "run", pc' \notin {"run", "recv", "merge"}, mode' = mode,
           pc' = "process" => cur' = NoBatch,
           \A n \in DOMAIN running' :
              \E k \in DOMAIN running :
                 /\ running'[n] = running[k]
                 /\ req'[running[k].r].st = "active" => Active(running[k].r)
    PROVE  TokensInv'
<1>1. DOMAIN NoBatch.items = {}
  BY DEF NoBatch
<1>2. ASSUME ~ mode.overlap, NEW n \in DOMAIN running', req'[running'[n].r].st = "active"
      PROVE  Carries(running'[n])
  <2>1. PICK k \in DOMAIN running :
                 /\ running'[n] = running[k]
                 /\ req'[running[k].r].st = "active" => Active(running[k].r)
    OBVIOUS
  <2>2. Active(running[k].r)
    BY <1>2, <2>1
  <2> QED
    BY <1>2, <2>1, <2>2 DEF TokensInv
<1> QED
  BY <1>1, <1>2 DEF TokensInv, Active

\* Requests arrive, are aborted or are considered for prefill.
LEMMA RequestTokens ==
    ASSUME OrderInv, TokensInv,
           \/ \E r \in Reqs : Arrive(r) \/ Abort(r)
           \/ StashChunked \/ SkipPrefill \/ StartAdder \/ NoPrefill
           \/ \E r \in Reqs : Admit(r)
    PROVE  TokensInv'
<1>1. /\ pc \notin {"run", "dead"} /\ pc' # "run" /\ UNCHANGED <<mode, running, last, cur>>
      /\ pc' # "process"
      /\ pc' \in {"recv", "merge"} => pc \in {"recv", "merge"}
  <2>1. CASE \E r \in Reqs : Arrive(r) \/ Abort(r)
    BY <2>1, Zenon DEF Arrive, Abort, batches
  <2>2. CASE \E r \in Reqs : Admit(r)
    BY <2>2 DEF Admit
  <2>3. CASE StashChunked
    BY <2>3 DEF StashChunked, batches
  <2>4. CASE SkipPrefill \/ StartAdder \/ NoPrefill
    BY <2>4 DEF SkipPrefill, StartAdder, NoPrefill
  <2> QED
    BY <2>1, <2>2, <2>3, <2>4
<1>2. ReqsType /\ Items(running)
  BY <1>1, AliveLoop
<1>3. ASSUME NEW q \in Reqs, Active(q)' PROVE Active(q)
  <2>1. CASE UNCHANGED req
    BY <1>3, <2>1 DEF Active
  <2>2. CASE \E r \in Reqs : Arrive(r) \/ Abort(r)
    <3>1. PICK r \in Reqs : Arrive(r) \/ Abort(r)
      BY <2>2
    <3>2. DOMAIN req = Reqs /\ ReqType(r, req[r])
      BY <1>2 DEF ReqsType
    <3>3. \/ req' = [req EXCEPT ![r].st = "waiting"]
          \/ req' = [req EXCEPT ![r] = [NewReq EXCEPT !.st = "done", !.out = req[r].out]]
          \/ req' = [req EXCEPT ![r].abort = TRUE]
      BY <3>1, Zenon DEF Arrive, Abort
    <3> QED
      BY <1>3, <3>2, <3>3 DEF ReqType, NewReq, Active
  <2>3. CASE \E r \in Reqs : \E f, p, node :
                req' = [req EXCEPT ![r].fill = f, ![r].pre = p, ![r].node = node]
    <3>1. PICK r \in Reqs : \E f, p, node :
                req' = [req EXCEPT ![r].fill = f, ![r].pre = p, ![r].node = node]
      BY <2>3
    <3>2. DOMAIN req = Reqs /\ ReqType(r, req[r])
      BY <1>2 DEF ReqsType
    <3> QED
      BY <1>3, <3>1, <3>2 DEF ReqType, NewReq, Active
  <2>4. CASE \E r \in Reqs : \E f : req' = [req EXCEPT ![r].fill = f]
    <3>1. PICK r \in Reqs : \E f : req' = [req EXCEPT ![r].fill = f]
      BY <2>4
    <3>2. DOMAIN req = Reqs /\ ReqType(r, req[r])
      BY <1>2 DEF ReqsType
    <3> QED
      BY <1>3, <3>1, <3>2 DEF ReqType, NewReq, Active
  <2>5. CASE \E r \in Reqs : \E p, node : req' = [req EXCEPT ![r].pre = p, ![r].node = node]
    <3>1. PICK r \in Reqs : \E p, node : req' = [req EXCEPT ![r].pre = p, ![r].node = node]
      BY <2>5
    <3>2. DOMAIN req = Reqs /\ ReqType(r, req[r])
      BY <1>2 DEF ReqsType
    <3> QED
      BY <1>3, <3>1, <3>2 DEF ReqType, NewReq, Active
  <2>6. CASE SkipPrefill \/ NoPrefill
    BY <2>1, <2>6 DEF SkipPrefill, NoPrefill
  <2>7. chunked \in Reqs \cup {None}
    BY <1>1, AliveLoop DEF LiveInv, ChunkedInv
  <2>8. CASE StashChunked
    <3>1. PICK p, node : req' = [req EXCEPT ![chunked].pre = p, ![chunked].node = node]
      BY <2>8 DEF StashChunked
    <3>2. chunked \in Reqs
      BY <2>7, <2>8 DEF StashChunked
    <3> QED
      BY <2>5, <3>1, <3>2
  <2>9. CASE StartAdder
    <3>1. CASE chunked = None
      BY <2>1, <2>9, <3>1 DEF StartAdder
    <3>2. CASE chunked # None
      <4>1. PICK f : req' = [req EXCEPT ![chunked].fill = f]
        BY <2>9, <3>2 DEF StartAdder
      <4> QED
        BY <2>4, <2>7, <3>2, <4>1
    <3> QED
      BY <3>1, <3>2
  <2>10. CASE \E r \in Reqs : Admit(r)
    <3>1. PICK r \in Reqs : Admit(r)
      BY <2>10
    <3> DEFINE len == Len(Prompt[r]) + req[r].out
               key == Upto(Text(r), len - 1)
               n == IF mode.radix THEN MatchLen(cache.tree, key) ELSE 0
               found == IF mode.radix THEN Matched(cache, key) ELSE cache
               f == n + Min({len - n, adder.chunk})
               p == SlotsOf(found.tree, key, n)
               node == Upto(key, n)
    <3>2. \/ req' = req
          \/ req' = [req EXCEPT ![r].fill = f, ![r].pre = p, ![r].node = node]
      BY <3>1 DEF Admit
    <3> HIDE DEF f, p, node
    <3> QED
      BY <2>1, <2>3, <3>2
  <2> QED
    BY <2>2, <2>6, <2>8, <2>9, <2>10
<1>4. \A k \in DOMAIN running : req'[running[k].r].st = "active" => Active(running[k].r)
  <2>1. \A k \in DOMAIN running : running[k].r \in Reqs
    BY <1>2, ItemFacts
  <2> QED
    BY <1>3, <2>1 DEF Active
<1> QED
  BY <1>1, <1>4, TokensKept

\* Batches are put together, filtered, and launched.
LEMMA MergeTokens == ASSUME OrderInv, TokensInv, MergeLast PROVE TokensInv'
<1>1. /\ pc \in {"recv", "merge"} /\ pc' = "plan" /\ UNCHANGED <<mode, req, cur, last>>
      /\ running' = IF last.kind = "extend" THEN running \o Joining ELSE running
  BY DEF MergeLast
<1>2. Items(running) /\ Items(last.items)
  BY <1>1, AliveLoop
<1>3. CASE last.kind # "extend"
  BY <1>1, <1>3, TokensKept DEF Active
<1>4. CASE last.kind = "extend"
  <2> DEFINE keep == {k \in DOMAIN last.items : /\ req[last.items[k].r].st = "active"
                                                /\ ~ Excluded(last.items[k].r)}
  <2>1. /\ Items(Joining)
        /\ \A n \in DOMAIN Joining : \E k \in DOMAIN last.items : Joining[n] = last.items[k]
    <3>1. keep \in SUBSET DOMAIN last.items /\ Joining = Kept(last.items, keep)
      BY DEF Joining
    <3> HIDE DEF keep
    <3> QED
      BY <1>2, <3>1, KeptFacts
  <2>2. PICK l, m : /\ l = Len(running) /\ m = Len(Joining) /\ l \in Nat /\ m \in Nat
                    /\ DOMAIN running = 1 .. l /\ DOMAIN Joining = 1 .. m
    BY <1>2, <2>1, ItemFacts
  <2>3. /\ DOMAIN running' = 1 .. l + m
        /\ \A n \in 1 .. l + m :
              running'[n] = IF n <= l THEN running[n] ELSE Joining[n - l]
    <3>1. IsSeq(running) /\ IsSeq(Joining)
      BY <1>2, <2>1 DEF Items
    <3>2. /\ IsSeq(running') /\ Len(running') = l + m
          /\ \A n \in 1 .. l + m :
                running'[n] = IF n <= l THEN running[n] ELSE Joining[n - l]
      BY <1>1, <1>4, <2>2, <3>1, ConcatIsSeq
    <3> QED
      BY <3>2, SeqFacts
  <2>4. ASSUME ~ mode.overlap, NEW n \in 1 .. l + m, req[running'[n].r].st = "active"
        PROVE  Carries(running'[n])
    <3>1. CASE n <= l
      <4>1. n \in DOMAIN running /\ running'[n] = running[n]
        BY <2>2, <2>3, <2>4, <3>1
      <4>2. Active(running[n].r)
        BY <2>4, <4>1 DEF Active
      <4>3. pc # "run"
        BY <1>1
      <4>4. \A j \in DOMAIN running : Active(running[j].r) => Carries(running[j])
        BY <2>4, <4>3 DEF TokensInv
      <4> QED
        BY <4>1, <4>2, <4>4
    <3>2. CASE ~ (n <= l)
      <4>1. n - l \in DOMAIN Joining /\ running'[n] = Joining[n - l]
        BY <2>2, <2>3, <2>4, <3>2
      <4>2. PICK k \in DOMAIN last.items : running'[n] = last.items[k]
        BY <2>1, <4>1
      <4>3. \A j \in DOMAIN last.items : Carries(last.items[j])
        BY <1>1, <2>4 DEF TokensInv
      <4> QED
        BY <4>2, <4>3
    <3> QED
      BY <3>1, <3>2
  <2> QED
    BY <1>1, <2>3, <2>4 DEF TokensInv, Active
<1> QED
  BY <1>3, <1>4

LEMMA UpdateTokens == ASSUME OrderInv, TokensInv, UpdateRunning PROVE TokensInv'
<1>1. /\ pc = "decode" /\ UNCHANGED <<mode, req, cur, last>>
      /\ \/ pc' = "process" /\ running' = <<>>
         \/ pc' \in {"step", "retract"} /\ running' \in {Unfinished, RetractOrder(Unfinished)}
  BY DEF UpdateRunning
<1>2. Items(running) /\ ReqsType /\ cur = NoBatch
  BY <1>1, AliveLoop DEF QueueInv, Launched
<1> DEFINE active == {k \in DOMAIN running : req[running[k].r].st = "active"}
<1>3. /\ Items(Unfinished)
      /\ \A n \in DOMAIN Unfinished : \E k \in DOMAIN running : Unfinished[n] = running[k]
  <2>1. active \in SUBSET DOMAIN running /\ Unfinished = Kept(running, active)
    BY DEF Unfinished
  <2> HIDE DEF active
  <2> QED
    BY <1>2, <2>1, KeptFacts
<1>4. /\ DOMAIN RetractOrder(Unfinished) = DOMAIN Unfinished
      /\ \A n \in DOMAIN Unfinished : \E k \in DOMAIN Unfinished :
            RetractOrder(Unfinished)[n] = Unfinished[k]
  BY <1>2, <1>3, RetractOrderFacts
<1>5. DOMAIN <<>> = {}
  OBVIOUS
<1>6. \A n \in DOMAIN running' : \E k \in DOMAIN running : running'[n] = running[k]
  BY <1>1, <1>3, <1>4, <1>5
<1>7. pc # "run" /\ pc' \notin {"run", "recv", "merge"} /\ cur' = NoBatch
  BY <1>1, <1>2
<1>8. \A k \in DOMAIN running : req'[running[k].r].st = "active" => Active(running[k].r)
  BY <1>1 DEF Active
<1> QED
  BY <1>1, <1>6, <1>7, <1>8, TokensThinned

LEMMA RetractTokens == ASSUME OrderInv, TokensInv, Retract PROVE TokensInv'
<1>1. /\ pc = "retract" /\ pc' \in {"step", "retract", "dead"}
      /\ UNCHANGED <<mode, cur, last>>
  <2>1. pc = "retract" /\ UNCHANGED <<mode, cur, last>>
    BY DEF Retract
  <2>2. pc' \in {"step", "retract", "dead"}
    BY DEF Retract
  <2> QED
    BY <2>1, <2>2
<1>2. /\ LiveInv /\ ReqsType /\ Items(running) /\ DOMAIN running = 1 .. Len(running)
      /\ Len(running) \in Nat /\ \A k \in DOMAIN running : running[k].r \in Reqs
  BY <1>1, AliveLoop, ItemFacts
<1>3. \A k \in DOMAIN running : Active(running[k].r)
  BY <1>1, <1>2 DEF LiveInv, RunningInv, Active
<1>4. \A n \in DOMAIN running' : \E k \in DOMAIN running : running'[n] = running[k]
  <2>1. CASE running' = running
    BY <2>1
  <2>2. CASE running' = Front(running)
    <3>1. PICK l : l = Len(running) - 1 /\ l \in Int
      BY <1>2
    <3>2. running' = SubSeq(running, 1, l)
      BY <2>2, <3>1 DEF Front
    <3>3. /\ DOMAIN SubSeq(running, 1, l) = 1 .. l - 1 + 1
          /\ \A n \in 1 .. l - 1 + 1 : SubSeq(running, 1, l)[n] = running[1 + n - 1]
      BY <3>1, SubSeqIsSeq
    <3>4. \A n \in 1 .. l - 1 + 1 : n \in DOMAIN running /\ 1 + n - 1 = n
      BY <1>2, <3>1
    <3> QED
      BY <3>2, <3>3, <3>4
  <2> QED
    BY <2>1, <2>2 DEF Retract
<1> QED
  BY <1>1, <1>3, <1>4, TokensThinned

\* The admitted requests are in no running batch.
LEMMA LaunchTokens == ASSUME OrderInv, TokensInv, LaunchPrefill PROVE TokensInv'
<1>1. /\ pc = "admit" /\ LiveInv /\ UNCHANGED <<mode, running, last>>
      /\ \/ pc' = "dead" /\ UNCHANGED <<req, cur>>
         \/ /\ pc' = "run" /\ cur'.kind = "extend"
            /\ req' = Started(Taken(freeRows, Len(adder.can)))
  BY AliveLoop DEF LaunchPrefill, memory
<1>2. ASSUME NEW k \in DOMAIN running, req'[running[k].r].st = "active"
      PROVE  Active(running[k].r)
  <2>1. PICK q \in Reqs : q = running[k].r /\ q \in ReqsOf(running)
    BY <1>1, AliveLoop, ItemFacts DEF ReqsOf
  <2>2. q \notin ToSet(adder.can)
    BY <1>1, <2>1 DEF LiveInv, AdderInv, ToSet
  <2>3. req'[q] = req[q]
    BY <1>1, <2>2, Zenon DEF Started
  <2> QED
    BY <1>2, <2>1, <2>3 DEF Active
<1> QED
  BY <1>1, <1>2 DEF TokensInv, Active

\* A decode finds the token after the ones its request has computed.
LEMMA PrepareTokens == ASSUME OrderInv, TokensInv, PrepareDecode PROVE TokensInv'
<1>1. /\ pc = "step" /\ pc' = "run" /\ UNCHANGED <<mode, req, last>>
      /\ running' = [k \in DOMAIN running |-> [running[k] EXCEPT !.len = @ + 1]]
      /\ cur'.kind = "decode" /\ cur'.items = running'
  BY DEF PrepareDecode, NoBatch
<1>2. LiveInv /\ QueueInv /\ Items(running)
  BY <1>1, AliveLoop
<1>3. \A k \in DOMAIN running : /\ running'[k].r = running[k].r
                                /\ running'[k].len = running[k].len + 1
                                /\ running'[k].token = running[k].token
  <2>1. \A k \in DOMAIN running : DOMAIN running[k] = {"r", "row", "len", "future", "token"}
    BY <1>2 DEF Items, Item
  <2> QED
    BY <1>1, <2>1
<1>4. ASSUME ~ mode.overlap, NEW k \in DOMAIN running, NEW r, r = running[k].r
      PROVE  running[k].token = Text(r)[running[k].len + 1]
  <2>1. r \in Reqs /\ req[r].st = "active" /\ Follows(running[k])
    BY <1>1, <1>2, <1>4, ItemFacts DEF LiveInv, RunningInv
  <2>2. cur = NoBatch
    BY <1>1, <1>2 DEF QueueInv, Launched
  <2>3. Due(r) = 0
    <3>1. todo = 0
      BY <1>1, <1>2 DEF LiveInv, TypesInv, BatchesType
    <3>2. Pending = NoBatch /\ After = NoBatch
      BY <1>4, <2>2 DEF Pending, After
    <3>3. NoBatch.items = <<>> /\ Len(NoBatch.items) = 0 /\ DOMAIN NoBatch.items = {}
      BY DEF NoBatch
    <3>4. ~ Old(r)
      BY <3>1, <3>2, <3>3 DEF Old
    <3>5. ~ New(r)
      BY <3>2, <3>3 DEF New, ReqsOf
    <3> QED
      BY <3>4, <3>5 DEF Due, One
  <2>4. PICK p, o, m : /\ p = Len(Prompt[r]) /\ o = req[r].out /\ m = MaxNew(r)
                       /\ p \in Nat /\ o \in Nat /\ m \in Nat /\ o < m
    BY <1>1, <2>1, ReqFacts
  <2>5. running[k].len = p + o - 1
    BY <1>4, <2>1, <2>3, <2>4 DEF Follows
  <2>6. Len(Text(r)) = p + m
    BY <2>1, <2>4, TextAssumption, ConcatIsSeq DEF Text, MaxNew, IsSeq
  <2>7. running[k].len < Len(Text(r))
    BY <2>4, <2>5, <2>6
  <2>8. Carries(running[k])
    BY <1>1, <1>4, <2>1 DEF TokensInv, Active
  <2> QED
    BY <1>4, <2>7, <2>8 DEF Carries, TokenAt
<1>5. ASSUME ~ mode.overlap, NEW k \in DOMAIN running'
      PROVE  running'[k].token = Text(running'[k].r)[running'[k].len]
  <2>1. k \in DOMAIN running
    BY <1>1
  <2>2. running[k].token = Text(running[k].r)[running[k].len + 1]
    BY <1>4, <1>5, <2>1
  <2> QED
    BY <1>3, <2>1, <2>2
<1> QED
  BY <1>1, <1>5 DEF TokensInv

\* The batch answers with the token after the ones it computed.
LEMMA RunTokens == ASSUME OrderInv, TokensInv, RunBatch PROVE TokensInv'
<1> DEFINE results == [k \in DOMAIN cur.items |-> TokenAt(cur.items[k].r, cur.items[k].len)]
           done == [k \in DOMAIN cur.items |->
                       [cur.items[k] EXCEPT !.token = results[k],
                                            !.future = IF mode.overlap THEN FutureOf(k) ELSE 0]]
<1>1. /\ pc = "run" /\ pc' = "process" /\ UNCHANGED <<mode, req, last>>
      /\ cur' = [kind |-> cur.kind, items |-> done, loc |-> cur.loc, chunked |-> cur.chunked]
      /\ running' = IF cur.kind = "decode" THEN done
                    ELSE IF mode.overlap THEN Overwritten(running, results) ELSE running
  BY DEF RunBatch
<1>2. \A k \in DOMAIN cur.items : DOMAIN cur.items[k] = {"r", "row", "len", "future", "token"}
  BY <1>1, AliveLoop DEF Items, Item
<1>3. DOMAIN done = DOMAIN cur.items /\ \A k \in DOMAIN done : Carries(done[k])
  BY <1>2, Zenon DEF Carries
<1> HIDE DEF done
<1>4. cur'.items = done
  BY <1>1
<1>5. ASSUME ~ mode.overlap, NEW k \in DOMAIN running', req[running'[k].r].st = "active"
      PROVE  Carries(running'[k])
  <2>1. CASE cur.kind = "decode"
    BY <1>1, <1>3, <1>5, <2>1
  <2>2. CASE cur.kind # "decode"
    <3>1. running' = running
      BY <1>1, <1>5, <2>2
    <3> QED
      BY <1>5, <2>2, <3>1 DEF TokensInv, Active
  <2> QED
    BY <2>1, <2>2
<1> QED
  BY <1>1, <1>3, <1>4, <1>5 DEF TokensInv, Active

\* Results make no request active.
LEMMA ProcessTokens == ASSUME OrderInv, TokensInv, ProcessItem PROVE TokensInv'
<1> DEFINE n == todo + 1
<1>1. /\ pc = "process" /\ pc' = "process" /\ UNCHANGED <<mode, running, cur, last>>
      /\ ProcessLate(n) \/ ProcessChunk(n) \/ ProcessToken(n)
  BY DEF ProcessItem, batches
<1>2. ReqsType /\ Items(running)
  BY <1>1, AliveLoop
<1>3. PICK r \in Reqs : r = Pending.items[n].r
  <2>1. /\ Items(Pending.items) /\ DOMAIN Pending.items = 1 .. Len(Pending.items)
        /\ Len(Pending.items) \in Nat /\ todo \in 0 .. Len(Pending.items)
        /\ todo < Len(Pending.items)
    BY <1>1, AliveLoop DEF ProcessItem
  <2>2. n \in DOMAIN Pending.items
    BY <2>1
  <2> QED
    BY <2>1, <2>2, ItemFacts
<1>4. DOMAIN req = Reqs /\ DOMAIN req[r] = DOMAIN NewReq
  BY <1>2 DEF ReqsType, ReqType
<1>5. ASSUME NEW q \in Reqs, Active(q)' PROVE Active(q)
  <2>1. CASE ProcessLate(n)
    BY <1>5, <2>1 DEF ProcessLate, Active
  <2>2. CASE ProcessChunk(n)
    <3>1. req' = [req EXCEPT ![r].chunks = @ - 1]
      BY <1>3, <2>2 DEF ProcessChunk
    <3>2. req'[q].st = req[q].st
      BY <1>4, <3>1 DEF NewReq
    <3> QED
      BY <1>5, <3>2 DEF Active
  <2>3. CASE ProcessToken(n)
    <3>1. PICK rec : rec = [req[r] EXCEPT !.out = @ + 1]
      OBVIOUS
    <3>2. rec.st = "active" /\ \E x : req' = [req EXCEPT ![r] = x]
      BY <1>3, <2>3, <3>1 DEF ProcessToken
    <3>3. Active(r)
      BY <1>4, <3>1, <3>2 DEF NewReq, Active
    <3>4. CASE q = r
      BY <3>3, <3>4
    <3>5. CASE q # r
      BY <1>4, <1>5, <3>2, <3>5 DEF Active
    <3> QED
      BY <3>4, <3>5
  <2> QED
    BY <1>1, <2>1, <2>2, <2>3
<1>6. \A k \in DOMAIN running : req'[running[k].r].st = "active" => Active(running[k].r)
  <2>1. \A k \in DOMAIN running : running[k].r \in Reqs
    BY <1>2, ItemFacts
  <2> QED
    BY <1>5, <2>1 DEF Active
<1> QED
  BY <1>1, <1>6, TokensKept

\* The iteration ends, or the last batch is forgotten.
LEMMA EndTokens ==
    ASSUME OrderInv, TokensInv, EndIteration \/ Idle \/ FlushCache
    PROVE  TokensInv'
<1>1. /\ UNCHANGED <<mode, req, running>> /\ pc # "run" /\ pc' \in {"recv", "dead"}
  BY DEF EndIteration, Idle, FlushCache, memory
<1>2. NoBatch.items = <<>> /\ DOMAIN NoBatch.items = {}
  BY DEF NoBatch
<1>3. \/ last'.items = <<>>
      \/ pc = "process" /\ last' = cur
  <2>1. CASE EndIteration
    <3>1. pc = "process" /\ last' = IF cur.kind = "decode"
                                    THEN [NoBatch EXCEPT !.kind = "decode"] ELSE cur
      BY <2>1 DEF EndIteration
    <3>2. [NoBatch EXCEPT !.kind = "decode"].items = <<>>
      BY DEF NoBatch
    <3> QED
      BY <3>1, <3>2
  <2>2. CASE Idle \/ FlushCache
    BY <1>2, <2>2 DEF Idle, FlushCache
  <2> QED
    BY <2>1, <2>2
<1>4. DOMAIN <<>> = {}
  OBVIOUS
<1> QED
  BY <1>1, <1>3, <1>4 DEF TokensInv, Active

LEMMA NextTokens ==
    ASSUME OrderInv, TokensInv, [Next]_vars
    PROVE  TokensInv'
<1>1. CASE UNCHANGED vars
  BY <1>1 DEF vars, memory, batches, TokensInv, Active
<1>2. CASE SchedulerStep
  BY <1>2, RequestTokens, MergeTokens, UpdateTokens, RetractTokens, LaunchTokens,
     PrepareTokens, RunTokens, ProcessTokens, EndTokens DEF SchedulerStep
<1>3. CASE \/ \E r \in Reqs : Arrive(r)
           \/ \E r \in MayAbort : Abort(r)
  <2>1. MayAbort \subseteq Reqs
    BY SchedulerAssumption
  <2> QED
    BY <1>3, <2>1, RequestTokens
<1>4. CASE FlushCache
  BY <1>4, EndTokens
<1> QED
  BY <1>1, <1>2, <1>3, <1>4 DEF Next

\* In event_loop_normal every decode computes its request's own next token,
\* with either cache, as long as flush_cache takes no request's memory.
THEOREM TokensResolve ==
    ASSUME \A m \in Modes : ~ m.overlap
    PROVE  Spec /\ FlushSparesRequests => []FuturesResolve
<1>1. Init => OrderInv /\ TokensInv
  <2>1. Init => TokensInv
    <3>1. DOMAIN <<>> = {} /\ NoBatch.items = <<>>
      BY DEF NoBatch
    <3> QED
      BY <3>1 DEF Init, TokensInv
  <2> QED
    BY <2>1, InitKeeps
<1>2. OrderInv /\ TokensInv /\ [Next]_vars => TokensInv'
  BY NextTokens
<1>3. OrderInv /\ TokensInv => FuturesResolve
  <2> SUFFICES ASSUME OrderInv, TokensInv, pc = "run" PROVE FuturesResolve
    BY DEF FuturesResolve
  <2>1. mode \in Modes
    BY AliveLoop
  <2> QED
    BY <2>1 DEF TokensInv, FuturesResolve
<1>4. Spec /\ FlushSparesRequests => []OrderInv
  BY OrderHolds
<1> QED
  BY <1>1, <1>2, <1>3, <1>4, PTL DEF Spec

\* So there, with ChunkCache, a batch always reads its requests' own KV.
THEOREM NormalReadsOwn ==
    ASSUME ChunkCacheOnly, \A m \in Modes : ~ m.overlap
    PROVE  Spec /\ FlushSparesRequests => []BatchReadsOwnKV
<1>1. Spec /\ FlushSparesRequests => []FuturesResolve
  BY TokensResolve
<1>2. Spec /\ FlushSparesRequests /\ []FuturesResolve => []BatchReadsOwnKV
  BY BatchesReadOwn
<1> QED
  BY <1>1, <1>2, PTL
=============================================================================
