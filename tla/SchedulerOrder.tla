---------------------------- MODULE SchedulerOrder -----------------------------
(***************************************************************************)
(* Why every result is applied to the request as it was when its batch was *)
(* launched: the inductive invariant behind ResultsInOrder and             *)
(* OneResultDue.                                                           *)
(*                                                                         *)
(* A request's item carries the length of its text in the batch; the       *)
(* results in flight are those of at most two batches.  What relates the   *)
(* two is the number of tokens still due to a request: an item that is to  *)
(* be decoded next stands exactly that many tokens, less one, behind the   *)
(* request's output.                                                       *)
(***************************************************************************)
EXTENDS Scheduler, Counting

Planning == pc \in {"recv", "merge", "plan", "admit", "decode"}
Launched == pc \in {"run", "process"}

-----------------------------------------------------------------------------
(* Types, as far as the order of results rests on them.                     *)

\* the prefix tree of RadixCache: finitely many nodes, named by sequences of
\* tokens, with a sequence of slots each
IsNode(node) == /\ node = [slots |-> node.slots, lock |-> node.lock]
                /\ IsSeq(node.slots)
TreeType(tree) ==
    /\ IsFiniteSet(DOMAIN tree)
    /\ tree = [p \in DOMAIN tree |-> tree[p]]
    /\ \A p \in DOMAIN tree : IsSeq(p) /\ IsNode(tree[p])
CacheType(c) ==
    /\ c = [tree |-> c.tree, evictable |-> c.evictable, protected |-> c.protected]
    /\ TreeType(c.tree)
    /\ c.evictable \in Int

MemoryType ==
    /\ CacheType(cache)
    /\ free \in [Slots -> Int]
    /\ DOMAIN freeRows = Rows
    /\ ratio \in Int

ReqType(r, rec) ==
    /\ DOMAIN rec = DOMAIN NewReq
    /\ rec.st \in {"new", "waiting", "active", "done"}
    /\ rec.out \in 0 .. MaxNew(r)
    /\ rec.st # "done" => rec.out < MaxNew(r)
    /\ rec.fill \in Int /\ rec.chunks \in Nat
    /\ IsSeq(rec.pre) /\ IsSeq(rec.node)
    /\ rec.st # "active" => rec.chunks = 0
    /\ rec.retracted => rec.st = "waiting"
ReqsType ==
    /\ DOMAIN req = Reqs
    /\ \A r \in Reqs : ReqType(r, req[r])

\* a sequence of items, one for each of its requests
Item(i) ==
    /\ DOMAIN i = {"r", "row", "len", "future", "token"}
    /\ i.r \in Reqs /\ i.len \in Int
Items(items) ==
    /\ IsSeq(items)
    /\ \A k \in DOMAIN items : Item(items[k])
    /\ \A j, k \in DOMAIN items : items[j].r = items[k].r => j = k
BatchType(b) ==
    /\ DOMAIN b = DOMAIN NoBatch
    /\ Items(b.items)
    /\ b.kind \in {"none", "extend", "decode"}
    /\ b.kind # "extend" => b.chunked = None
    /\ b.chunked \in ReqsOf(b.items) \cup {None}

BatchesType ==
    /\ Items(running)
    /\ BatchType(cur) /\ BatchType(last) /\ BatchType(Pending)
    /\ cur.kind = "none" => cur = NoBatch
    /\ cur.kind # "none" => cur.items # <<>>
    /\ todo \in 0 .. Len(Pending.items)
    /\ pc # "process" => todo = 0

-----------------------------------------------------------------------------
(* The batches in flight.                                                   *)

\* what the queue holds: the last batch's result, then this batch's
Same(batch, result) ==
    /\ result.kind = batch.kind
    /\ batch.kind = "extend" => result = batch
JustLaunched == pc = "process" /\ cur.kind # "none"
QueueShape ==
    \/ last.kind = "none" /\ ~ JustLaunched /\ queue = <<>>
    \/ last.kind = "none" /\ JustLaunched /\ queue = <<cur>>
    \/ /\ last.kind # "none" /\ ~ JustLaunched
       /\ queue = <<Pending>> /\ Same(last, Pending)
    \/ /\ last.kind # "none" /\ JustLaunched
       /\ queue = <<Pending, cur>> /\ Same(last, Pending)

QueueInv ==
    /\ ~ mode.overlap => queue = <<>>
    /\ mode.overlap => QueueShape
    /\ ~ Launched => cur = NoBatch
    /\ pc = "run" => cur.kind # "none"

\* the batch whose result comes after the one that is due
After == IF mode.overlap THEN cur ELSE NoBatch
Old(r) == \E k \in todo + 1 .. Len(Pending.items) : Pending.items[k].r = r
New(r) == r \in ReqsOf(After.items)
\* the batch computes a chunk of the prompt that is not the last
Partial(b, r) == b.kind = "extend" /\ b.chunked = r

One(happens) == IF happens THEN 1 ELSE 0
\* tokens, and chunks without a token, that are still due to a request
Due(r) == One(Old(r) /\ ~ Partial(Pending, r)) + One(New(r) /\ ~ Partial(After, r))
Chunks(r) == One(Old(r) /\ Partial(Pending, r)) + One(New(r) /\ Partial(After, r))

-----------------------------------------------------------------------------
(* What an item's length says.                                              *)

\* the item's request, decoded next, comes right after what is due to it
Follows(i) ==
    req[i.r].st = "active" => i.len = Len(Prompt[i.r]) + req[i.r].out - 1 + Due(i.r)

\* a request in a batch is active, or has ended since
Alive(r) == req[r].st \in {"active", "done"}

OldInv ==
    \A k \in todo + 1 .. Len(Pending.items) :
        LET i == Pending.items[k]
            rec == req[i.r]
        IN  /\ Planning => Alive(i.r)
            /\ rec.st = "active" /\ ~ Partial(Pending, i.r) =>
                  /\ i.len = Len(Prompt[i.r]) + rec.out
                  /\ rec.chunks = 0

ActiveInv == \A r \in Reqs : req[r].st = "active" => req[r].chunks = Chunks(r)

RunningInv ==
    /\ pc \in {"retract", "step"} => running # <<>>
    /\ \A k \in DOMAIN running :
          LET i == running[k]
          IN  /\ Alive(i.r)
              /\ pc \in {"retract", "step"} => req[i.r].st = "active"
              /\ Follows(i)
              /\ req[i.r].st = "active" => req[i.r].chunks = 0

CurInv ==
    Launched =>
        /\ \A k \in DOMAIN cur.items :
              LET i == cur.items[k]
              IN  /\ Alive(i.r)
                  /\ cur.kind = "extend" => i.r \notin ReqsOf(running)
                  /\ cur.kind = "extend" /\ mode.overlap =>
                        req[i.r].st = "active" /\ (Old(i.r) => Partial(Pending, i.r))
                  /\ ~ Partial(cur, i.r) => Follows(i)
        /\ cur.kind = "decode" => running = cur.items
        /\ chunked = cur.chunked

LastInv ==
    pc \in {"recv", "merge"} =>
        /\ last.kind = "decode" => running # <<>>
        /\ last.kind = "extend" => last.items # <<>>
        /\ last.kind = "extend" =>
             \A k \in DOMAIN last.items :
                LET i == last.items[k]
                IN  /\ Alive(i.r)
                    /\ i.r \notin ReqsOf(running)
                    /\ mode.overlap => req[i.r].st = "active"
                    /\ ~ Partial(last, i.r) =>
                          Follows(i) /\ (req[i.r].st = "active" => req[i.r].chunks = 0)
        /\ chunked = last.chunked

ChunkedInv ==
    /\ chunked \in Reqs \cup {None}
    /\ chunked # None => /\ req[chunked].st = "active"
                         /\ chunked \notin ReqsOf(running)
                         /\ Due(chunked) = 0
    /\ pc \in {"decode", "retract", "step"} => chunked = None

\* nothing more is admitted
Exhausted == adder.stop \/ adder.chunk <= 0 \/ Remaining(cache, adder.offset) < 10
AdderInv ==
    pc = "admit" =>
        /\ DOMAIN adder = DOMAIN NoAdder
        /\ adder.offset \in Int /\ adder.curOffset \in Int /\ adder.chunk \in Int
        /\ IsSeq(adder.can)
        /\ \A j, k \in DOMAIN adder.can : adder.can[j] = adder.can[k] => j = k
        /\ \A k \in DOMAIN adder.can :
              LET r == adder.can[k]
              IN  /\ r \in Reqs
                  /\ req[r].st \in {"waiting", "active"}
                  /\ r \notin ReqsOf(running)
                  /\ Due(r) = 0
                  /\ req[r].chunks = Chunks(r)
                  /\ r = PartlyFilled \/ req[r].fill = Len(Prompt[r]) + req[r].out
        /\ {chunked, adder.newChunked} \subseteq ToSet(adder.can) \cup {None}
        /\ adder.newChunked # None => adder.stop /\ chunked = None
        /\ chunked # None => Exhausted

TypesInv == mode \in Modes /\ pc \in Places /\ MemoryType /\ ReqsType /\ BatchesType
LiveInv ==
    /\ TypesInv
    /\ OldInv /\ ActiveInv /\ RunningInv /\ CurInv /\ LastInv /\ ChunkedInv /\ AdderInv
\* a loop that died takes no further step
OrderInv == QueueInv /\ (pc # "dead" => LiveInv)
=============================================================================
