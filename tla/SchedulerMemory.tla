---------------------------- MODULE SchedulerMemory ----------------------------
(***************************************************************************)
(* Why, with ChunkCache, every KV slot and every request row always has    *)
(* one owner, and the loop never runs out of either: the inductive         *)
(* invariant behind SlotsDisjoint, NeverDies and TypeOK.                   *)
(*                                                                         *)
(* An active request owns the slots of its row; between two rounds of its  *)
(* prefill, those the cache keeps for it.  Of a request that ended or was  *)
(* retracted while a batch computed one more token for it, the slot of     *)
(* that token stays owned until the result of the batch is due.            *)
(***************************************************************************)
EXTENDS SchedulerOrder

\* blend_common.py: disable_radix_cache=True
ChunkCacheOnly == \A m \in Modes : ~ m.radix

Active(r) == req[r].st = "active"
\* given back its row at the start of the iteration, for the next chunk
Stashed(r) == /\ Active(r)
              /\ \/ pc \in {"merge", "plan"} /\ r = chunked
                 \/ pc = "admit" /\ r \in ToSet(adder.can)
Seated(r) == Active(r) /\ ~ Stashed(r)
Row(r)  == rows[req[r].row]
Held(r) == IF Seated(r) THEN Row(r) ELSE req[r].pre

\* where a request is in the batch whose result is due, and in the next one
Places0(r) == {k \in todo + 1 .. Len(Pending.items) : Pending.items[k].r = r}
Places1(r) == {k \in DOMAIN After.items : After.items[k].r = r}
\* the slots in flight of a request that left its batch
Late(r) == (UNION {ToSet(LateSlot(k)) : k \in Places0(r)})
              \cup {After.loc[k] : k \in Places1(r)}
Owned(r) == IF Active(r) THEN ToSet(Held(r)) ELSE Late(r)
Seat(r) == IF Seated(r) THEN {req[r].row} ELSE {}

Injective(s) == \A j, k \in DOMAIN s : s[j] = s[k] => j = k

\* everything in D is once in the free list bag, or owned by one request
OneOwner(bag, D, own) ==
    /\ bag = [x \in D |-> bag[x]]
    /\ \A r \in Reqs : own[r] \subseteq D
    /\ \A q, r \in Reqs : \A x \in own[q] : x \in own[r] => q = r
    /\ \A x \in D : bag[x] = One(\A r \in Reqs : x \notin own[r])

-----------------------------------------------------------------------------
SlotsInv ==
    /\ OneOwner(free, Slots, [r \in Reqs |-> Owned(r)])
    /\ \A r \in Reqs : Active(r) => Injective(Held(r))

RowsInv ==
    /\ OneOwner(freeRows, Rows, [r \in Reqs |-> Seat(r)])
    /\ \A r \in Reqs : req[r].row \in {0} \cup Rows
    /\ DOMAIN rows = Rows
    /\ \A w \in Rows : IsSeq(rows[w]) /\ ToSet(rows[w]) \subseteq Slots

TextLen(r) == Len(Prompt[r]) + req[r].out
FillInv ==
    \A r \in Reqs :
        /\ ~ Active(r) => req[r].pre = <<>>
        /\ ToSet(req[r].pre) \subseteq Slots
        /\ Len(req[r].pre) <= req[r].fill /\ req[r].fill <= TextLen(r)
        /\ Seated(r) => req[r].fill <= Len(Row(r))
        /\ Stashed(r) /\ pc # "admit" => req[r].fill = Len(req[r].pre)
        /\ r = chunked /\ pc # "admit" =>
              req[r].fill < TextLen(r) /\ (Seated(r) => req[r].fill = Len(Row(r)))

\* the last batch of new requests, until it has joined the running batch
Joiners == IF Launched THEN (IF cur.kind = "extend" THEN cur.items ELSE <<>>)
           ELSE IF pc \in {"recv", "merge"} /\ last.kind = "extend" THEN last.items
           ELSE <<>>
Extra == IF pc = "plan" THEN One(chunked # None)
         ELSE IF pc = "admit" THEN Len(adder.can) ELSE Len(Joiners)
PlacesInv ==
    /\ Len(running) + Extra <= MaxRunning
    /\ \A r \in Reqs : Seated(r) => r \in ReqsOf(running) \cup ReqsOf(Joiners)
    /\ Len(Pending.items) <= MaxRunning /\ Len(cur.items) <= MaxRunning
    /\ \A i \in ToSet(running) \cup ToSet(Joiners) :
          /\ Seated(i.r) => i.row = req[i.r].row /\ i.len = Len(Row(i.r))
          /\ i.r # chunked => i.len >= Len(Prompt[i.r])

LateOldInv ==
    \A k \in todo + 1 .. Len(Pending.items) :
        LET i == Pending.items[k]
            r == i.r
        IN  /\ ~ Active(r) => mode.overlap /\ Delayed(i)
            /\ Pending.kind = "decode" =>
                  /\ k \in DOMAIN Pending.loc
                  /\ i.len > Len(Prompt[r])
                  /\ Seated(r) /\ ~ New(r) => Pending.loc[k] = Row(r)[Len(Row(r))]
            /\ Pending.kind = "extend" /\ ~ Partial(Pending, r) /\ Seated(r) =>
                  i.row = req[r].row
            /\ Pending.kind = "extend" /\ ~ Active(r) =>
                  /\ i.row \in Rows
                  /\ req[r].out > 0 => Len(rows[i.row]) = TextLen(r)
                  /\ \A q \in Reqs : Seated(q) => req[q].row # i.row
LateNewInv ==
    \A k \in DOMAIN After.items :
        LET r == After.items[k].r
        IN  /\ After.kind = "decode" =>
                  /\ k \in DOMAIN After.loc
                  /\ After.items[k].len > Len(Prompt[r])
                  /\ Seated(r) => After.loc[k] = Row(r)[Len(Row(r))]
            /\ After.kind # "decode" => Active(r)
            /\ Old(r) => Active(r)

\* where a late slot is, a request left and gave back more
SomeLate == IF Planning \/ pc = "retract"
            THEN \E k \in todo + 1 .. Len(Pending.items) : ~ Active(Pending.items[k].r)
            ELSE Launched /\ \E k \in DOMAIN After.items : ~ Active(After.items[k].r)
Answers(items) ==
    Total([k \in DOMAIN items |-> IF items[k].r = chunked THEN 0 ELSE MaxNew(items[k].r)])
AdderAnswers(n) ==
    Total([k \in 1 .. n |-> IF adder.can[k] = PartlyFilled THEN 0 ELSE MaxNew(adder.can[k])])
RoomInv ==
    /\ SomeLate => Count(free) > 0
    /\ pc = "step" => Count(free) >= Len(running)
    /\ chunked # None /\ pc # "admit" =>
          10 * Count(free) - Reserve - 10 * Answers(Joiners)
             >= 10 * (TextLen(chunked) - req[chunked].fill)
    /\ pc = "admit" =>
          LET n == Len(adder.can)
          IN  /\ NewTokens(n) <= Count(free)
              /\ adder.offset >= Reserve + 10 * NewTokens(n) + 10 * AdderAnswers(n)
              /\ PartlyFilled # None =>
                    Remaining(cache, adder.offset)
                       >= 10 * (TextLen(PartlyFilled) - req[PartlyFilled].fill)
              /\ \A k \in 1 .. n : adder.can[k] = PartlyFilled =>
                    req[adder.can[k]].fill < TextLen(adder.can[k])

\* n is the sum of lens, of which finitely many are not 0
Sums(n, lens) ==
    \E A \in SUBSET DOMAIN lens :
        /\ IsFiniteSet(A)
        /\ \A r \in DOMAIN lens \ A : lens[r] = 0
        /\ n = Total([r \in A |-> lens[r]])
CacheInv ==
    /\ ~ mode.radix
    /\ DOMAIN cache.tree = {} /\ cache.evictable = 0
    /\ Sums(cache.protected, [r \in Reqs |-> Len(req[r].pre)])

CountersInv ==
    /\ futureCt \in 0 .. FutureLimit - 1
    /\ ratio \in Ratios
    /\ pc = "process" /\ cur = NoBatch => running = <<>>

MemInv ==
    /\ pc # "dead"
    /\ SlotsInv /\ RowsInv /\ FillInv /\ PlacesInv /\ LateOldInv /\ LateNewInv
    /\ RoomInv /\ CacheInv /\ CountersInv
=============================================================================
