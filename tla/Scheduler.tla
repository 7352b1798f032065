------------------------------ MODULE Scheduler -------------------------------
(***************************************************************************)
(* The scheduler of one GPU: event_loop_normal and event_loop_overlap, the *)
(* admission of requests with chunked prefill, decoding, retraction when   *)
(* memory runs out, the two KV caches (RadixCache and ChunkCache), the     *)
(* pools of KV slots and of request rows, and the FutureMap through which  *)
(* overlapped batches hand tokens on.                                      *)
(*                                                                         *)
(* One thread runs the loop; pc is where it stands in an iteration:        *)
(*   recv     process_input_requests, then get_next_batch_to_run           *)
(*   merge, plan, admit   get_next_batch_to_run, get_new_batch_prefill     *)
(*   decode, retract, step      update_running_batch                       *)
(*   run      run_batch                                                    *)
(*   process  process_batch_result, or the self-check of an idle server    *)
(*   dead     an exception in the loop                                     *)
(* What arrives between two iterations is arbitrary.  The GPU executes the *)
(* batches in the order of their launch (one stream), so a batch's KV is   *)
(* written when it is launched; its results reach the loop when they are   *)
(* processed.  Not modelled: page_size > 1, mixed chunks, speculative      *)
(* decoding, priorities and preemption, max_prefill_tokens and             *)
(* CLIP_MAX_NEW_TOKENS (as if unlimited), requests with a blend style.     *)
(***************************************************************************)
EXTENDS RadixTree

CONSTANTS
    Reqs,
    Prompt,       \* [Reqs -> prompts], sequences of tokens
    Output,       \* [Reqs -> what the model would answer]; max_new_tokens is
                  \* the length
    MayStop,      \* requests whose output may end before
    MayAbort,     \* requests that may be aborted
    Size,         \* max_total_num_tokens
    MaxRunning,   \* max_running_requests
    ChunkSize,    \* chunked_prefill_size
    Ratios,       \* values of new_token_ratio, in tenths: a real number in the
                  \* code, rounded to one of these, up or down
    InitRatio,    \* init_new_token_ratio
    RetractSteps, \* SGLANG_RETRACT_DECODE_STEPS
    Modes,        \* configurations [overlap, radix]
    FlushAnytime, \* flush_cache is called at any time; if not, only when
                  \* every request that was sent has been answered
    None

MaxNew(r) == Len(Output[r])

\* init_req_max_new_tokens and validate_input_length
ASSUME SchedulerAssumption ==
    /\ Size \in Nat /\ RetractSteps \in Nat \ {0}
    /\ \A r \in Reqs : /\ Len(Prompt[r]) \in 1 .. Size - 7
                       /\ MaxNew(r) \in 1 .. Size - 2 - Len(Prompt[r])
    /\ MayStop \subseteq Reqs /\ MayAbort \subseteq Reqs
    /\ MaxRunning \in Nat \ {0} /\ ChunkSize \in Nat \ {0}
    /\ Ratios \subseteq 0 .. 10 /\ {10, InitRatio} \subseteq Ratios
    /\ Modes \subseteq [overlap : BOOLEAN, radix : BOOLEAN]
    /\ FlushAnytime \in BOOLEAN
    /\ None \notin Reqs
\* origin_input_ids and output_ids are lists
ASSUME TextAssumption ==
    \A r \in Reqs : /\ Prompt[r] \in Seq(ToSet(Prompt[r]))
                    /\ Output[r] \in Seq(ToSet(Output[r]))

VARIABLES
    mode,     \* server_args: overlap schedule, radix cache
    pc,
    req,      \* the fields of every Req
    cache,    \* tree_cache
    free,     \* free_pages: how often each slot is in it
    rows,     \* req_to_token
    freeRows, \* free_slots: how often each row is in it
    kv,       \* what a slot holds: the text it was computed from
    running,  \* reqs, seq_lens and output_ids of running_batch
    full,     \* its batch_is_full
    chunked,  \* chunked_req
    last,     \* last_batch
    cur,      \* cur_batch
    queue,    \* result_queue
    adder,    \* PrefillAdder
    futureCt, \* future_ct of FutureMap
    ratio,    \* new_token_ratio, in tenths
    todo      \* requests processed of the batch whose result is processed

memory == <<cache, free, rows, freeRows>>
batches == <<running, full, chunked, last, cur, queue>>
vars == <<mode, pc, req, memory, kv, batches, adder, futureCt, ratio, todo>>

Places == {"recv", "merge", "plan", "admit", "run", "decode", "retract", "step",
           "process", "dead"}
Slots == 1 .. Size
Rows == 1 .. MaxRunning

Text(r) == Prompt[r] \o Output[r]
\* the token after the first n; the model runs once more after the last one
TokenAt(r, n) == IF n < Len(Text(r)) THEN Text(r)[n + 1] ELSE None

NoBatch == [kind |-> "none", items |-> <<>>, loc |-> <<>>, chunked |-> None]
NoAdder == [can |-> <<>>, offset |-> 0, curOffset |-> 0, chunk |-> 0,
            newChunked |-> None, stop |-> FALSE]
NewReq == [st |-> "new", out |-> 0, fill |-> 0, pre |-> <<>>, node |-> <<>>,
           chunks |-> 0, retracted |-> FALSE, abort |-> FALSE, row |-> 0]

Init ==
    /\ mode \in Modes
    /\ pc = "recv"
    /\ req = [r \in Reqs |-> NewReq]
    /\ cache = EmptyCache
    /\ free = [s \in Slots |-> 1]
    /\ rows = [k \in Rows |-> <<>>]
    /\ freeRows = [k \in Rows |-> 1]
    /\ kv = [s \in Slots |-> <<>>]
    /\ running = <<>> /\ full = FALSE /\ chunked = None
    /\ last = NoBatch /\ cur = NoBatch /\ queue = <<>>
    /\ adder = NoAdder
    /\ futureCt = 0
    /\ ratio = InitRatio
    /\ todo = 0

-----------------------------------------------------------------------------
(* Memory.                                                                  *)

Count(bag) == Total(bag)
Times(x, seq) == Cardinality({k \in DOMAIN seq : seq[k] = x})
Freed(bag, seq) == [x \in DOMAIN bag |-> bag[x] + Times(x, seq)]
\* alloc: n entries of a free list.  Which ones is of no consequence; the
\* lowest make a slot that was just freed come back soonest.
Taken(bag, n) ==
    LET there == {x \in DOMAIN bag : bag[x] > 0}
    IN  [k \in 1 .. Min({n, Cardinality(there)}) |-> Nth(there, k)]
Rest(bag, taken) == [x \in DOMAIN bag |-> bag[x] - Times(x, taken)]
\* what was in a freed slot is no longer anybody's
Forget(bag) == [s \in Slots |-> IF bag[s] > 0 THEN <<>> ELSE kv[s]]

\* evict_from_tree_cache
Reclaim(c, f, n) == IF mode.radix /\ Count(f) < n THEN Evictions(c.tree, n) ELSE {{}}
ToEvict(n) == Reclaim(cache, free, n)
FreedByEviction(c, f, gone) ==
    [s \in Slots |-> f[s] + (IF s \in SlotsIn(c.tree, gone) THEN 1 ELSE 0)]

Fill(r, rec) == Upto(Text(r), rec.fill)
Locked(c, path) == IF mode.radix THEN IncLock(c, path) ELSE c
\* faulty variant: slots the request took from the tree are freed as well
Duplicates_Shared(slots, old, matched) == SubSeq(slots, 1, matched)
\* faulty variant: the first slot that went into the tree is freed as well
Duplicates_OneMore(slots, old, matched) ==
    SubSeq(slots, old + 1, Min({matched + 1, Len(slots)}))
\* what the request computed although the tree had it by now
Duplicates(slots, old, matched) == SubSeq(slots, old + 1, matched)

\* cache_unfinished_req of RadixCache and of ChunkCache
CacheUnfinished(r, rec) ==
    LET ids == Fill(r, rec)
        slots == Upto(rows[rec.row], rec.fill)
        old == Len(rec.pre)
        inserted == Inserted(cache, ids, slots)
    IN  IF mode.radix
        THEN [cache |-> IncLock(DecLock(inserted, rec.node), ids),
              free  |-> Freed(free, Duplicates(slots, old, MatchLen(cache.tree, ids))),
              slots |-> SlotsOf(inserted.tree, ids, rec.fill),
              node  |-> ids]
        ELSE [cache |-> [cache EXCEPT !.protected = @ + rec.fill - old],
              free  |-> free,
              slots |-> slots,
              node  |-> <<>>]

\* the last token's KV is never computed
Stored(r, rec) == Len(Prompt[r]) + Max({rec.out - 1, 0})

\* cache_finished_req; is_insert is FALSE when the request is retracted
CacheFinished(r, rec, insert) ==
    LET n == Stored(r, rec)
        ids == Upto(Text(r), n)
        slots == Upto(rows[rec.row], n)
        old == Len(rec.pre)
    IN  IF ~ mode.radix
        THEN [cache |-> [cache EXCEPT !.protected = @ - old], free |-> Freed(free, slots)]
        ELSE IF insert
        THEN [cache |-> DecLock(Inserted(cache, ids, slots), rec.node),
              free  |-> Freed(free, Duplicates(slots, old, MatchLen(cache.tree, ids)))]
        ELSE [cache |-> DecLock(cache, rec.node),
              free  |-> Freed(free, SubSeq(slots, old + 1, n))]

-----------------------------------------------------------------------------
(* Requests arrive and are aborted between two iterations.                  *)

Waiting == {r \in Reqs : req[r].st = "waiting"}
ReqsOf(items) == {items[k].r : k \in DOMAIN items}

Arrive(r) ==
    /\ pc = "recv"
    /\ req[r].st = "new"
    /\ req' = [req EXCEPT ![r].st = "waiting"]
    /\ UNCHANGED <<mode, pc, memory, kv, batches, adder, futureCt, ratio, todo>>

\* abort_request: a waiting request leaves at once, one in a batch when its
\* next token comes
Abort(r) ==
    /\ pc = "recv"
    /\ \/ /\ req[r].st = "waiting"
          /\ req' = [req EXCEPT ![r] = [NewReq EXCEPT !.st = "done", !.out = req[r].out]]
       \/ /\ req[r].st = "active"
          /\ ~ req[r].abort
          /\ r \in ReqsOf(running) \cup ReqsOf(last.items)
          /\ req' = [req EXCEPT ![r].abort = TRUE]
    /\ UNCHANGED <<mode, pc, memory, kv, batches, adder, futureCt, ratio, todo>>

\* flush_cache.  It looks at the waiting queue and at the running batch; a
\* last prefill batch and a chunked request are in neither.
FlushCache ==
    /\ pc = "recv"
    /\ FlushAnytime \/ \A r \in Reqs : req[r].st \in {"new", "done"}
    /\ Waiting = {} /\ running = <<>>
    /\ cache' = IF mode.radix THEN EmptyCache ELSE cache
    /\ free' = [s \in Slots |-> 1]
    /\ freeRows' = [k \in Rows |-> 1]
    /\ kv' = Forget(free')
    /\ last' = NoBatch
    /\ cur' = NoBatch
    /\ UNCHANGED <<mode, pc, req, rows, running, full, chunked, queue, adder, futureCt,
                   ratio, todo>>

-----------------------------------------------------------------------------
(* get_next_batch_to_run.                                                   *)

\* the chunks computed so far are kept for the next round
StashChunked ==
    /\ pc = "recv"
    /\ chunked # None
    /\ LET rec == req[chunked]
           after == CacheUnfinished(chunked, rec)
       IN  /\ cache' = after.cache
           /\ free' = after.free
           /\ rows' = [rows EXCEPT ![rec.row] = after.slots]
           /\ freeRows' = [freeRows EXCEPT ![rec.row] = @ + 1]
           /\ req' = [req EXCEPT ![chunked].pre = after.slots, ![chunked].node = after.node]
    /\ kv' = Forget(free')
    /\ pc' = "merge"
    /\ UNCHANGED <<mode, batches, adder, futureCt, ratio, todo>>

\* faulty variant: a request whose prefill goes on is merged too
Excluded_None(r) == FALSE
Excluded(r) == r \in {chunked, last.chunked}

\* filter_batch: what is left of a batch, of the last prefill batch and of
\* the running batch
Kept(items, indices) ==
    [n \in 1 .. Cardinality(indices) |-> items[Nth(indices, n)]]
Joining ==
    Kept(last.items, {k \in DOMAIN last.items : /\ req[last.items[k].r].st = "active"
                                                /\ ~ Excluded(last.items[k].r)})
Unfinished == Kept(running, {k \in DOMAIN running : req[running[k].r].st = "active"})

\* the last prefill batch joins the running batch
MergeLast ==
    /\ pc = (IF chunked = None THEN "recv" ELSE "merge")
    /\ IF last.kind = "extend"
       THEN /\ running' = running \o Joining
            /\ full' = (full /\ Len(Joining) = Len(last.items)
                             /\ ~ (running = <<>> /\ Joining # <<>>))
       ELSE UNCHANGED <<running, full>>
    /\ pc' = "plan"
    /\ UNCHANGED <<mode, req, memory, kv, chunked, last, cur, queue, adder, futureCt,
                   ratio, todo>>

\* no prefill: nothing to prefill, or no place in the running batch
SkipPrefill ==
    /\ pc = "plan"
    /\ chunked = None
    /\ \/ full \/ Waiting = {}
       \/ Len(running) >= MaxRunning
    /\ full' = (full \/ Waiting # {})
    /\ pc' = "decode"
    /\ UNCHANGED <<mode, req, memory, kv, running, chunked, last, cur, queue, adder,
                   futureCt, ratio, todo>>

\* tokens the running requests may still need
Reserve ==
    ratio * Total([k \in DOMAIN running |-> MaxNew(running[k].r) - req[running[k].r].out])
\* rem_total_tokens and cur_rem_tokens, in tenths
Remaining(c, offset) == 10 * (Count(free) + c.evictable) - offset
Truncate(tenths) == IF tenths >= 0 THEN tenths \div 10 ELSE - ((- tenths) \div 10)

\* PrefillAdder, add_chunked_req
StartAdder ==
    /\ pc = "plan"
    /\ chunked # None \/ (~ full /\ Waiting # {} /\ Len(running) < MaxRunning)
    /\ IF chunked = None
       THEN /\ adder' = [NoAdder EXCEPT !.offset = Reserve, !.chunk = ChunkSize]
            /\ UNCHANGED <<req, chunked>>
       ELSE LET rec == req[chunked]
                whole == Len(Prompt[chunked]) + rec.out - Len(rec.pre)
                rem == Min({ChunkSize, Truncate(Remaining(cache, Reserve))})
                n == Min({whole, rem})
            IN  /\ req' = [req EXCEPT ![chunked].fill = Len(rec.pre) + n]
                /\ adder' = [NoAdder EXCEPT
                               !.can = <<chunked>>,
                               !.offset = Reserve
                                    + 10 * (n + (IF whole > rem THEN 0 ELSE MaxNew(chunked))),
                               !.curOffset = 10 * n,
                               !.chunk = ChunkSize - n]
                /\ chunked' = IF whole > rem THEN chunked ELSE None
    /\ pc' = "admit"
    /\ UNCHANGED <<mode, memory, kv, running, full, last, cur, queue, futureCt, ratio, todo>>

NoPlace == Len(adder.can) >= MaxRunning - Len(running)
Untried == Waiting \ ToSet(adder.can)

\* total_tokens against rem_total_tokens, before and after the lock
Affordable(c, node, tokens) ==
    /\ 10 * tokens < Remaining(c, adder.offset)
    /\ 10 * tokens < Remaining(Locked(c, node), adder.offset)

\* init_next_round_input and add_one_req.  The waiting queue is tried in the
\* order the policy chooses.
Admit(r) ==
    /\ pc = "admit"
    /\ ~ adder.stop /\ ~ full /\ ~ NoPlace
    /\ r \in Untried
    /\ LET rec == req[r]
           len == Len(Prompt[r]) + rec.out
           key == Upto(Text(r), len - 1)
           n == IF mode.radix THEN MatchLen(cache.tree, key) ELSE 0
           found == IF mode.radix THEN Matched(cache, key) ELSE cache
           node == Upto(key, n)
           extend == Min({len - n, adder.chunk})
           whole == extend = len - n
           offset == adder.offset + 10 * (extend + (IF whole THEN MaxNew(r) ELSE 0))
           curOffset == adder.curOffset + 10 * extend
           locked == Locked(found, node)
           noToken == \/ Remaining(locked, offset) <= 0
                      \/ Remaining(locked, curOffset) <= 0
       IN  IF ~ Affordable(found, node, len - n + MaxNew(r) - rec.out)
           THEN /\ cache' = found
                /\ adder' = [adder EXCEPT !.stop = TRUE]
                /\ full' = TRUE
                /\ UNCHANGED req
           ELSE IF adder.chunk <= 0
           THEN /\ cache' = found
                /\ adder' = [adder EXCEPT !.stop = TRUE]
                /\ UNCHANGED <<full, req>>
           ELSE /\ cache' = locked
                /\ req' = [req EXCEPT ![r].fill = n + extend,
                                      ![r].pre = SlotsOf(found.tree, key, n),
                                      ![r].node = node]
                /\ adder' = [can |-> Append(adder.can, r), offset |-> offset,
                             curOffset |-> curOffset, chunk |-> adder.chunk - extend,
                             newChunked |-> IF whole THEN None ELSE r,
                             stop |-> noToken \/ adder.chunk - extend <= 0]
                /\ full' = noToken
    /\ UNCHANGED <<mode, pc, free, rows, freeRows, kv, running, chunked, last, cur, queue,
                   futureCt, ratio, todo>>

AdmitOver == adder.stop \/ full \/ NoPlace \/ Untried = {}

NoPrefill ==
    /\ pc = "admit"
    /\ AdmitOver
    /\ adder.can = <<>>
    /\ adder' = NoAdder
    /\ full' = (full \/ (~ adder.stop /\ NoPlace /\ Untried # {}))
    /\ pc' = "decode"
    /\ UNCHANGED <<mode, req, memory, kv, running, chunked, last, cur, queue, futureCt,
                   ratio, todo>>

ExtendLen(r) == req[r].fill - Len(req[r].pre)
PartlyFilled == IF adder.newChunked # None THEN adder.newChunked ELSE chunked

NewTokens(n) == Total([k \in 1 .. n |-> ExtendLen(adder.can[k])])

\* write_cache_indices: each row is the prefix and the new slots
RowsWritten(rowOf, slots) ==
    [w \in Rows |->
        IF w \in ToSet(rowOf)
        THEN LET k == CHOOSE k \in DOMAIN rowOf : rowOf[k] = w
             IN  req[adder.can[k]].pre
                   \o SubSeq(slots, NewTokens(k - 1) + 1, NewTokens(k))
        ELSE rows[w]]
Started(rowOf) ==
    [r \in Reqs |->
        IF r \in ToSet(adder.can)
        THEN [req[r] EXCEPT
                !.st = "active",
                !.row = rowOf[CHOOSE k \in DOMAIN rowOf : adder.can[k] = r],
                !.retracted = FALSE,
                !.chunks = @ + (IF r = PartlyFilled THEN 1 ELSE 0)]
        ELSE req[r]]
PrefillItems(rowOf) ==
    [k \in DOMAIN rowOf |->
        [r |-> adder.can[k], row |-> rowOf[k], len |-> req[adder.can[k]].fill,
         future |-> 0, token |-> None]]

\* prepare_for_extend, with alloc_for_extend
LaunchPrefill ==
    /\ pc = "admit"
    /\ AdmitOver
    /\ adder.can # <<>>
    /\ LET need == NewTokens(Len(adder.can))
           rowOf == Taken(freeRows, Len(adder.can))
       IN  \E gone \in ToEvict(need) :
              LET available == FreedByEviction(cache, free, gone)
                  slots == Taken(available, need)
              IN  IF Len(rowOf) = Len(adder.can) /\ Len(slots) = need
                  THEN /\ cache' = Evicted(cache, gone)
                       /\ free' = Rest(available, slots)
                       /\ freeRows' = Rest(freeRows, rowOf)
                       /\ rows' = RowsWritten(rowOf, slots)
                       /\ req' = Started(rowOf)
                       /\ cur' = [kind |-> "extend", items |-> PrefillItems(rowOf),
                                  loc |-> slots, chunked |-> PartlyFilled]
                       /\ kv' = Forget(free')
                       /\ pc' = "run"
                  ELSE /\ pc' = "dead"
                       /\ UNCHANGED <<memory, req, cur, kv>>
    /\ chunked' = PartlyFilled
    /\ full' = (full \/ (~ adder.stop /\ NoPlace /\ Untried # {}))
    /\ adder' = NoAdder
    /\ UNCHANGED <<mode, running, last, queue, futureCt, ratio, todo>>

-----------------------------------------------------------------------------
(* update_running_batch.                                                    *)

\* retract_decode pops from the end: fewest outputs, then longest prompt
Keeps(a, b) ==
    LET longer == req[a.r].out - req[b.r].out
        shorter == Len(Prompt[b.r]) - Len(Prompt[a.r])
    IN  longer > 0 \/ (longer = 0 /\ shorter > 0)
RetractOrder(items) ==
    LET before(k) == {j \in DOMAIN items : \/ Keeps(items[j], items[k])
                                           \/ j < k /\ ~ Keeps(items[k], items[j])}
    IN  [n \in DOMAIN items |->
            items[CHOOSE k \in DOMAIN items : Cardinality(before(k)) = n - 1]]

\* faulty variant: a batch that got smaller stays full
StaysFull_Always(kept) == full
StaysFull(kept) == full /\ Len(kept) = Len(running)

\* filter_batch, then check_decode_mem
UpdateRunning ==
    /\ pc = "decode"
    /\ full' = StaysFull(Unfinished)
    /\ IF Unfinished = <<>>
       THEN /\ running' = <<>>
            /\ pc' = "process"
            /\ UNCHANGED <<memory, kv, ratio>>
       ELSE /\ \E gone \in ToEvict(Len(Unfinished)) :
                  /\ cache' = Evicted(cache, gone)
                  /\ free' = FreedByEviction(cache, free, gone)
            /\ kv' = Forget(free')
            /\ IF Count(free') >= Len(Unfinished)
               THEN /\ pc' = "step"
                    /\ running' = Unfinished
                    /\ ratio' \in {q \in Ratios : q <= ratio}
               ELSE /\ pc' = "retract"
                    /\ running' = RetractOrder(Unfinished)
                    /\ UNCHANGED ratio
            /\ UNCHANGED <<rows, freeRows>>
    /\ UNCHANGED <<mode, req, chunked, last, cur, queue, adder, futureCt, todo>>

\* reset_for_retract
Retracted(rec) == [NewReq EXCEPT !.st = "waiting", !.out = rec.out, !.abort = rec.abort,
                                 !.row = rec.row, !.retracted = TRUE]

\* a real number x / d in tenths, rounded to a value of new_token_ratio; no
\* value is above 1
Rounded(x, d) ==
    LET below == {q \in Ratios : q * d <= x}
        above == {q \in Ratios : q * d >= x}
    IN  {q \in Ratios : \/ q \in below /\ \A p \in below : p <= q
                        \/ q \in above /\ \A p \in above : q <= p}
\* the share of max_new_tokens that the requests left are expected to use
RetractRatio(items) ==
    LET decoded == Total([k \in DOMAIN items |-> req[items[k].r].out])
        total == Total([k \in DOMAIN items |-> MaxNew(items[k].r)])
    IN  Rounded(10 * (decoded + RetractSteps * Len(items)), total + 1)

\* retract_decode: one request after the other, the last one by assertion has
\* space.  What a request gives back is RetractSteps tokens for each request
\* left, or all there is, so check_decode_mem has nothing left to evict.
Retract ==
    /\ pc = "retract"
    /\ IF Len(running) = 1
       THEN /\ pc' = IF Count(free) > 0 THEN "step" ELSE "dead"
            /\ UNCHANGED <<req, memory, kv, running, full>>
       ELSE LET r == Last(running).r
                rec == req[r]
                after == CacheFinished(r, rec, FALSE)
                left == Len(running) - 1
            IN  /\ \E gone \in Reclaim(after.cache, after.free, left * RetractSteps) :
                      /\ cache' = Evicted(after.cache, gone)
                      /\ free' = FreedByEviction(after.cache, after.free, gone)
                /\ freeRows' = [freeRows EXCEPT ![rec.row] = @ + 1]
                /\ req' = [req EXCEPT ![r] = Retracted(rec)]
                /\ running' = Front(running)
                /\ pc' = IF Count(free') >= left THEN "step" ELSE "retract"
                /\ kv' = Forget(free')
                /\ full' = FALSE
                /\ UNCHANGED rows
    /\ ratio' \in RetractRatio(running')
    /\ UNCHANGED <<mode, chunked, last, cur, queue, adder, futureCt, todo>>

\* prepare_for_decode, with alloc_for_decode: one slot for each request
PrepareDecode ==
    /\ pc = "step"
    /\ LET slots == Taken(free, Len(running))
           stepped == [k \in DOMAIN running |-> [running[k] EXCEPT !.len = @ + 1]]
       IN  /\ free' = Rest(free, slots)
           /\ rows' = [w \in Rows |->
                 IF \E k \in DOMAIN running : running[k].row = w
                 THEN LET k == CHOOSE k \in DOMAIN running : running[k].row = w
                      IN  Append(Upto(rows[w], running[k].len), slots[k])
                 ELSE rows[w]]
           /\ running' = stepped
           /\ cur' = [NoBatch EXCEPT !.kind = "decode", !.items = stepped, !.loc = slots]
    /\ pc' = "run"
    /\ UNCHANGED <<mode, req, cache, freeRows, kv, full, chunked, last, queue, adder,
                   futureCt, ratio, todo>>

-----------------------------------------------------------------------------
(* run_batch.                                                               *)

FutureLimit == 3 * MaxRunning

\* faulty variant: the ring does not close
NextFuture_NoWrap(n) == futureCt + n
\* alloc_future_indices
NextFuture(n) == (futureCt + n) % FutureLimit
FutureOf(k) == futureCt + k
\* store_to_map: whoever holds an index of the batch finds its token there
Overwritten(items, results) ==
    [k \in DOMAIN items |->
        IF items[k].future > futureCt /\ items[k].future <= futureCt + Len(results)
        THEN [items[k] EXCEPT !.token = results[items[k].future - futureCt]]
        ELSE items[k]]

\* the text an item's slots hold once the batch has run: a prefill computes
\* the tokens after the prefix, a decode one more token
Computed(i) ==
    LET row == rows[i.row]
        from == IF cur.kind = "extend" THEN Len(req[i.r].pre) ELSE i.len - 1
        base == IF from = 0 THEN <<>> ELSE kv[row[from]]
        new == IF cur.kind = "extend" THEN SubSeq(Text(i.r), from + 1, i.len) ELSE <<i.token>>
    IN  [n \in from + 1 .. i.len |-> base \o Upto(new, n - from)]

\* the KV the batch writes, slot by slot
KVWritten(items) ==
    [s \in Slots |->
        LET at == {p \in (DOMAIN items) \X Slots :
                     /\ p[2] \in DOMAIN Computed(items[p[1]])
                     /\ rows[items[p[1]].row][p[2]] = s}
        IN  IF s \in ToSet(cur.loc)
            THEN LET p == CHOOSE p \in at : TRUE IN Computed(items[p[1]])[p[2]]
            ELSE kv[s]]

RunBatch ==
    /\ pc = "run"
    /\ LET items == cur.items
           results == [k \in DOMAIN items |-> TokenAt(items[k].r, items[k].len)]
           done == [k \in DOMAIN items |->
                       [items[k] EXCEPT !.token = results[k],
                                        !.future = IF mode.overlap THEN FutureOf(k) ELSE 0]]
       IN  /\ cur' = [kind |-> cur.kind, items |-> done, loc |-> cur.loc,
                      chunked |-> cur.chunked]
           /\ running' = IF cur.kind = "decode" THEN done
                         ELSE IF mode.overlap THEN Overwritten(running, results)
                         ELSE running
           /\ futureCt' = IF mode.overlap THEN NextFuture(Len(results)) ELSE futureCt
    /\ queue' = IF mode.overlap THEN Append(queue, cur') ELSE queue
    /\ kv' = KVWritten(cur.items)
    /\ pc' = "process"
    /\ UNCHANGED <<mode, req, memory, full, chunked, last, adder, ratio, todo>>

-----------------------------------------------------------------------------
(* process_batch_result, and the end of the iteration.                      *)

\* faulty variant: the newest result is taken first
Pending_Newest == IF ~ mode.overlap THEN cur
                  ELSE IF last.kind = "none" THEN NoBatch ELSE Last(queue)
\* the batch whose result is due: this one, or in the overlap loop the last
Pending == IF ~ mode.overlap THEN cur
           ELSE IF last.kind = "none" THEN NoBatch ELSE Head(queue)

\* the request ended after the batch was launched: what the batch computed
\* for it is freed now
Delayed(i) == \/ req[i.r].retracted
              \/ Pending.kind = "decode" /\ req[i.r].st = "done"

\* faulty variant: it is not
LateSlot_None(k) == <<>>
LateSlot(k) ==
    LET i == Pending.items[k]
    IN  IF Pending.kind = "decode" THEN <<Pending.loc[k]>>
        ELSE IF req[i.r].out > 0 THEN <<rows[i.row][Len(Prompt[i.r]) + req[i.r].out]>>
        ELSE <<>>

ProcessLate(k) ==
    /\ mode.overlap /\ Delayed(Pending.items[k])
    /\ free' = Freed(free, LateSlot(k))
    /\ UNCHANGED <<req, cache, rows, freeRows>>

\* a chunk that is not the last gives no token
ProcessChunk(k) ==
    LET r == Pending.items[k].r
    IN  /\ Pending.kind = "extend"
        /\ ~ req[r].retracted /\ req[r].chunks > 0
        /\ req' = [req EXCEPT ![r].chunks = @ - 1]
        /\ UNCHANGED memory

\* append to output_ids, check_finished, and keep or release the KV
ProcessToken(k) ==
    LET i == Pending.items[k]
        rec == [req[i.r] EXCEPT !.out = @ + 1]
        ends == rec.abort \/ rec.out >= MaxNew(i.r)
    IN  /\ ~ rec.retracted /\ rec.st = "active" /\ rec.chunks = 0
        /\ \/ /\ ends \/ i.r \in MayStop
              /\ LET after == CacheFinished(i.r, rec, TRUE)
                 IN  /\ cache' = after.cache
                     /\ free' = after.free
              /\ freeRows' = [freeRows EXCEPT ![rec.row] = @ + 1]
              /\ req' = [req EXCEPT ![i.r] = [NewReq EXCEPT !.st = "done", !.out = rec.out]]
              /\ UNCHANGED rows
           \/ /\ ~ ends
              /\ Pending.kind = "extend"
              /\ LET after == CacheUnfinished(i.r, rec)
                 IN  /\ cache' = after.cache
                     /\ free' = after.free
                     /\ rows' = [rows EXCEPT ![rec.row] = after.slots
                                    \o SubSeq(@, rec.fill + 1, Len(@))]
                     /\ req' = [req EXCEPT ![i.r] = [rec EXCEPT !.pre = after.slots,
                                                                !.node = after.node]]
              /\ UNCHANGED freeRows
           \/ /\ ~ ends
              /\ Pending.kind = "decode"
              /\ req' = [req EXCEPT ![i.r] = rec]
              /\ UNCHANGED memory

ProcessItem ==
    /\ pc = "process"
    /\ todo < Len(Pending.items)
    /\ ProcessLate(todo + 1) \/ ProcessChunk(todo + 1) \/ ProcessToken(todo + 1)
    /\ kv' = Forget(free')
    /\ todo' = todo + 1
    /\ UNCHANGED <<mode, pc, batches, adder, futureCt, ratio>>

\* faulty variant: the result stays in the queue
Popped_Not == queue
Popped == Tail(queue)

EndIteration ==
    /\ pc = "process"
    /\ Pending # NoBatch \/ cur # NoBatch
    /\ todo = Len(Pending.items)
    /\ last' = IF cur.kind = "decode" THEN [NoBatch EXCEPT !.kind = "decode"] ELSE cur
    /\ cur' = NoBatch
    /\ queue' = IF Pending = NoBatch \/ ~ mode.overlap THEN queue ELSE Popped
    /\ todo' = 0
    /\ pc' = "recv"
    /\ UNCHANGED <<mode, req, memory, kv, running, full, chunked, adder, futureCt, ratio>>

\* self_check_during_idle: check_memory, and the ratio starts anew
Leaks == \/ Count(free) + cache.evictable # Size - cache.protected
         \/ Count(freeRows) # MaxRunning
Idle ==
    /\ pc = "process"
    /\ Pending = NoBatch /\ cur = NoBatch
    /\ IF Leaks THEN pc' = "dead" /\ UNCHANGED ratio
                ELSE pc' = "recv" /\ ratio' = InitRatio
    /\ last' = NoBatch
    /\ UNCHANGED <<mode, req, memory, kv, running, full, chunked, cur, queue, adder,
                   futureCt, todo>>

-----------------------------------------------------------------------------
SchedulerStep ==
    \/ StashChunked \/ MergeLast \/ SkipPrefill \/ StartAdder
    \/ \E r \in Reqs : Admit(r)
    \/ NoPrefill \/ LaunchPrefill
    \/ UpdateRunning \/ Retract \/ PrepareDecode
    \/ RunBatch \/ ProcessItem \/ EndIteration \/ Idle

Next ==
    \/ SchedulerStep
    \/ \E r \in Reqs : Arrive(r)
    \/ \E r \in MayAbort : Abort(r)
    \/ FlushCache

Spec == Init /\ [][Next]_vars
\* the loop is a thread that does not stop: it moves on from every place
LoopGoesOn == /\ pc # "dead"
              /\ \E p \in Places, t \in 0 .. MaxRunning : pc' = p /\ todo' = t
FairSpec == Spec /\ WF_<<pc, todo>>(LoopGoesOn)

-----------------------------------------------------------------------------
(* Properties.                                                              *)

\* Every variable keeps its type.
TypeOK ==
    /\ mode \in Modes
    /\ pc \in Places
    /\ \A r \in Reqs :
          /\ req[r].st \in {"new", "waiting", "active", "done"}
          /\ req[r].out \in 0 .. MaxNew(r)
          /\ req[r].fill \in 0 .. Len(Text(r))
          /\ ToSet(req[r].pre) \subseteq Slots
          /\ req[r].row \in {0} \cup Rows
    /\ \A p \in DOMAIN cache.tree : /\ ToSet(cache.tree[p].slots) \subseteq Slots
                                    /\ cache.tree[p].lock \in Nat
    /\ free \in [Slots -> Nat] /\ freeRows \in [Rows -> Nat]
    /\ \A w \in Rows : ToSet(rows[w]) \subseteq Slots
    /\ Len(running) <= MaxRunning /\ Len(queue) <= 2
    /\ futureCt \in 0 .. FutureLimit - 1
    /\ ratio \in Ratios
    /\ todo \in 0 .. MaxRunning

\* When a batch is launched, the row of each of its requests leads through
\* KV computed from exactly that request's own text: no slot was freed,
\* evicted or handed to another request too early, and no decode before took
\* another request's token from the FutureMap.
BatchReadsOwnKV ==
    pc = "run" =>
        \A k \in DOMAIN cur.items :
            LET i == cur.items[k]
                known == i.len - IF cur.kind = "decode" THEN 1 ELSE ExtendLen(i.r)
            IN  \A n \in 1 .. known : kv[rows[i.row][n]] = Upto(Text(i.r), n)

\* FutureMap: a factor of 3 is used to avoid collision in the circular
\* buffer, so the token a decode takes from it is its request's own.
FuturesResolve ==
    pc = "run" /\ cur.kind = "decode" =>
        \A k \in DOMAIN cur.items :
            cur.items[k].token = Text(cur.items[k].r)[cur.items[k].len]

\* What the tree offers under a key was computed from that key.
TreeHoldsItsKeys ==
    \A p \in DOMAIN cache.tree :
        \A n \in 1 .. KeyLen(cache.tree, p) :
            kv[cache.tree[p].slots[n]] = Upto(p, ParentLen(cache.tree, p) + n)

\* A slot has at most one owner: it is once in the free list, or in one
\* place of the tree.
SlotsDisjoint ==
    LET owned == SlotsIn(cache.tree, DOMAIN cache.tree)
    IN  /\ \A s \in Slots : free[s] <= 1 /\ (s \in owned => free[s] = 0)
        /\ \A w \in Rows : freeRows[w] <= 1
        /\ Cardinality(owned) = KeyLens(cache.tree, DOMAIN cache.tree)

Holders(path) ==
    {r \in Reqs : /\ req[r].st = "active" \/ r \in ToSet(adder.can)
                  /\ IsPrefix(path, req[r].node)}
\* A node is locked once for every request that reads through it, whatever
\* splits happened since, and the sizes kept by hand are those of the tree.
LocksAreHeld ==
    LET locked == {p \in DOMAIN cache.tree : cache.tree[p].lock > 0}
    IN  mode.radix =>
          /\ \A p \in DOMAIN cache.tree : cache.tree[p].lock = Cardinality(Holders(p))
          /\ cache.protected = KeyLens(cache.tree, locked)
          /\ cache.evictable = KeyLens(cache.tree, DOMAIN cache.tree \ locked)

\* The loop never dies: no allocation fails after the admission and the
\* retraction made room for it, and an idle server has leaked nothing.
NeverDies == pc # "dead"

\* result_queue.popleft never meets an empty deque, and no result waits for
\* more than one iteration.
OneResultDue ==
    Len(queue) = IF ~ mode.overlap THEN 0
                 ELSE (IF last.kind = "none" THEN 0 ELSE 1)
                      + (IF pc = "process" /\ cur.kind # "none" THEN 1 ELSE 0)

\* A result is applied to the request as it was when the batch was launched.
ResultsInOrder ==
    pc = "process" /\ todo < Len(Pending.items) =>
        LET i == Pending.items[todo + 1]
        IN  req[i.r].st = "active" /\ req[i.r].chunks = 0
              => i.len = Len(Prompt[i.r]) + req[i.r].out

\* http_server.py:615 "When there are running or waiting requests, the
\* operation will not be performed.": a flush takes no request's memory.
FlushSparesRequests == [][FlushCache => \A r \in Reqs : req[r].st # "active"]_vars

\* Every request that arrives is answered.
EveryRequestEnds == \A r \in Reqs : (req[r].st = "waiting") ~> (req[r].st = "done")
=============================================================================
