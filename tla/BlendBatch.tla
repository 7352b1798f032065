----------------------------- MODULE BlendBatch ------------------------------
(***************************************************************************)
(* From prompts to the rows a blend pass computes, for a batch of blend    *)
(* requests:                                                               *)
(*   _build_prompt                 the two prompts of a request            *)
(*   split_text_tokens, split_tokens   chunks, separators removed          *)
(*   prepare_for_extend            layout of the QCOMPUTE and of the       *)
(*                                 DO_BLEND batch, one request after the   *)
(*                                 other                                   *)
(*   IndiceSelector.select         the rows recomputed, request by request *)
(* Tokens have an identity: <<part, n>>, the n-th token of a part of the   *)
(* prompt.  The question is tokenized alike in both prompts.  A prompt     *)
(* that comes as text is cut before it is tokenized; one that comes as     *)
(* input_ids was tokenized whole by the client, whose tokenizer may have   *)
(* merged a separator with the text next to it.  Rows count from 0, the    *)
(* sequences that hold them from 1.  An index out of range is IndexError   *)
(* on the scheduler thread.                                                *)
(***************************************************************************)
EXTENDS Integers, SequencesExt, FiniteSetsExt

CONSTANTS
    Batches,   \* batches of requests, a request given by the lengths
               \* [sys, docs (a sequence), pre, quest, tail]
    Seps,      \* separators as sequences of tokens
    Quarters,  \* values of ratio, in quarters
    MaxMerged  \* bound on the separators merged in the prompts of a batch

ASSUME BatchAssumption ==
    /\ <<>> \notin Batches
    /\ Batches \subseteq
          Seq([sys : Nat, docs : Seq(Nat), pre : Nat, quest : Nat, tail : Nat])
    /\ Quarters \subseteq Int
    /\ MaxMerged \in Nat

VARIABLES
    pc,
    batch,   \* the requests
    sep,
    ratio,   \* of reqs[0], used for all of them
    ids,     \* input_ids of each request: QCOMPUTE and DO_BLEND prompt
    chunks,  \* blend_loc_list of each request, likewise
    merged,  \* the separators that a client's tokenizer merged
    qmeta,   \* q_lens, q_offsets, query_k_lens, quest_indices
    info,    \* BatchBlendInfo: chunk_loc_list and req_len_list
    picked   \* final_indices_list

vars == <<pc, batch, sep, ratio, ids, chunks, merged, qmeta, info, picked>>
inputs == <<batch, sep, ratio>>
prompts == <<ids, chunks, merged>>

Reqs == 1 .. Len(batch)
\* the parts of a prompt; document d is part d
Sys   == 0
Pre   == -1
Quest == -2
End   == -3
\* a token with an end of the separator in it
Fused == -4
Part(name, n) == [k \in 1 .. n |-> <<name, k>>]
Sum(lens) == FoldLeft(LAMBDA a, b : a + b, 0, lens)
CumSum(lens) == [k \in 1 .. Len(lens) |-> Sum(SubSeq(lens, 1, k))]
Pad(s) == <<0>> \o s
Diff(locs) == [k \in 1 .. Len(locs) - 1 |-> locs[k + 1] - locs[k]]
RangeSeq(a, b) == [k \in 1 .. b - a |-> a + k - 1]
\* tensor[row], tensor[from:to]
At(s, row) == s[row + 1]
Slice(s, from, to) == SubSeq(s, from + 1, to)

NoMeta == [qLens |-> <<>>, qOffsets |-> <<>>, kLens |-> <<>>, quest |-> <<>>]
NoInfo == [loc |-> <<>>, reqLen |-> <<>>]

-----------------------------------------------------------------------------
(* Prompts.                                                                 *)

\* what BLEND_SEP joins
QueryParts(p) == <<Part(Pre, p.pre), Part(Quest, p.quest)>>
BlendParts(p) ==
    <<Part(Sys, p.sys)>>
      \o [d \in 1 .. Len(p.docs) |-> Part(d, p.docs[d])]
      \o <<Part(Pre, p.pre) \o Part(Quest, p.quest) \o Part(End, p.tail)>>

Kinds == {"query", "blend"}
Parts(kind, r) == IF kind = "query" THEN QueryParts(batch[r]) ELSE BlendParts(batch[r])

\* separator k stands between parts k and k + 1; a tokenizer can merge it
\* when there is text next to it
Separators ==
    LET mergeable(parts) == {k \in 1 .. Len(parts) - 1 : parts[k] \o parts[k + 1] # <<>>}
    IN  UNION {{kind} \X {r} \X mergeable(Parts(kind, r)) : kind \in Kinds, r \in Reqs}

\* The tokenization of a joined prompt in which some separators were merged:
\* an end of such a separator goes into the token before it, or the token
\* after it when there is no text before, and the rest stays.
Joined(parts, gone) ==
    LET before(k) == k \in gone /\ parts[k] # <<>>
        after(k) == k \in gone /\ parts[k] = <<>>
        text(k) == [n \in DOMAIN parts[k] |->
                       IF (before(k) /\ n = Len(parts[k])) \/ (after(k - 1) /\ n = 1)
                       THEN <<Fused, n>> ELSE parts[k][n]]
        rest(k) == IF before(k) THEN Tail(sep) ELSE IF after(k) THEN Front(sep) ELSE sep
    IN  text(1) \o FlattenSeq([k \in 1 .. Len(parts) - 1 |-> rest(k) \o text(k + 1)])

\* every part tokenized by itself
SplitText(parts) ==
    [ids |-> FlattenSeq(parts),
     locs |-> Pad(CumSum([k \in 1 .. Len(parts) |-> Len(parts[k])]))]

\* the rows of a prompt at which the separator matches
Matches(list) ==
    SetToSortSeq({m \in 0 .. Len(list) - Len(sep) : Slice(list, m, m + Len(sep)) = sep}, <)

\* faulty variant: the length of a segment includes its separator
SegmentLen_WithSep(matches, k) ==
    matches[k] - (IF k = 1 THEN 0 ELSE matches[k - 1])
SegmentLen(matches, k) ==
    matches[k] - (IF k = 1 THEN 0 ELSE matches[k - 1] + Len(sep))

\* a prompt is never shorter than the separator
SplitTokens(list) ==
    LET matches == Matches(list)
        gone == UNION {m .. m + Len(sep) - 1 : m \in ToSet(matches)}
        rows == SelectSeq(RangeSeq(0, Len(list)), LAMBDA row : row \notin gone)
        lens == [k \in 1 .. Len(matches) |-> SegmentLen(matches, k)]
    IN  [ids |-> [n \in DOMAIN rows |-> At(list, rows[n])],
         locs |-> IF matches = <<>> THEN <<0, Len(list)>>
                  ELSE Pad(CumSum(lens)) \o <<Len(rows)>>]

Init ==
    /\ pc = "split"
    /\ batch \in Batches
    /\ sep \in Seps
    /\ ratio \in Quarters
    /\ ids = [kind \in Kinds |-> <<>>]
    /\ chunks = [kind \in Kinds |-> <<>>]
    /\ merged = {}
    /\ qmeta = NoMeta
    /\ info = NoInfo
    /\ picked = <<>>

\* _create_tokenized_object: a prompt is cut at the text when it comes as
\* text with the separator in it, else at the tokens
Split ==
    /\ pc = "split"
    /\ \E asIds \in SUBSET Reqs, n \in 0 .. MaxMerged :
          \E m \in kSubset(n, {x \in Separators : x[2] \in asIds}) :
             LET gone(kind, r) == {k \in DOMAIN Parts(kind, r) : <<kind, r, k>> \in m}
                 split(kind, r) == IF r \in asIds
                                   THEN SplitTokens(Joined(Parts(kind, r), gone(kind, r)))
                                   ELSE SplitText(Parts(kind, r))
             IN  /\ ids' = [kind \in Kinds |-> [r \in Reqs |-> split(kind, r).ids]]
                 /\ chunks' = [kind \in Kinds |-> [r \in Reqs |-> split(kind, r).locs]]
                 /\ merged' = m
    /\ pc' = "qcompute"
    /\ UNCHANGED <<inputs, qmeta, info, picked>>

-----------------------------------------------------------------------------
(* prepare_for_extend.                                                      *)

\* faulty variant: a request counts as many chunks as it has bounds
ChunksOf_Bounds(locs) == Len(locs)
ChunksOf(locs) == Len(locs) - 1

Layout(locs) ==
    [loc    |-> Pad(CumSum(FlattenSeq([r \in Reqs |-> Diff(locs[r])]))),
     reqLen |-> CumSum([r \in Reqs |-> ChunksOf(locs[r])])]

\* faulty variant: the question is the first chunk
QuestChunk_First(first) == first
\* the question is the second chunk of a QCOMPUTE prompt
QuestChunk(first) == first + 1

\* faulty variants: the difference the wrong way round, no difference at all
QOffset_Swapped(l, first) == At(l.loc, first) - At(l.loc, first + 1)
QOffset_None(l, first) == 0
\* the tokens of a QCOMPUTE prompt before the question
QOffset(l, first) == At(l.loc, first + 1) - At(l.loc, first)

PrepareQCompute ==
    /\ pc = "qcompute"
    /\ LET l == Layout(chunks.query)
           first(r)  == At(Pad(l.reqLen), r - 1)
           start(r)  == At(l.loc, QuestChunk(first(r)))
           end(r)    == At(l.loc, QuestChunk(first(r)) + 1)
       IN  /\ info' = l
           /\ IF \A r \in Reqs : first(r) + 2 < Len(l.loc)
              THEN /\ qmeta' = [qLens    |-> [r \in Reqs |-> end(r) - start(r)],
                                qOffsets |-> [r \in Reqs |-> QOffset(l, first(r))],
                                kLens    |-> [r \in Reqs |-> QOffset(l, first(r))
                                                               + end(r) - start(r)],
                                quest    |-> FlattenSeq([r \in Reqs |->
                                                RangeSeq(start(r), end(r))])]
                   /\ pc' = "blend"
              ELSE pc' = "error" /\ UNCHANGED qmeta
    /\ UNCHANGED <<inputs, prompts, picked>>

PrepareBlend ==
    /\ pc = "blend"
    /\ info' = Layout(chunks.blend)
    /\ pc' = "select"
    /\ UNCHANGED <<inputs, prompts, qmeta, picked>>

-----------------------------------------------------------------------------
(* IndiceSelector.                                                          *)

\* _compute_request_boundaries
Boundaries == Pad(CumSum(info.reqLen))

\* faulty variant: the retrieved chunks start with the first chunk
RagChunk_First(first) == first
RagChunk(first) == first + 1

\* _get_request_region, when its indices are in range
InRange(r) == At(Boundaries, r) < Len(info.loc)
Region(r) ==
    LET first == At(Boundaries, r - 1)
        quest == At(Boundaries, r) - 1
        questStart == At(info.loc, quest)
        ragStart == IF quest > first + 1 THEN At(info.loc, RagChunk(first)) ELSE questStart
    IN  [start |-> At(info.loc, first), questStart |-> questStart,
         questEnd |-> At(info.loc, quest + 1),
         ragStart |-> ragStart, ragLen |-> questStart - ragStart]

Budget(n) == IF ratio <= 0 THEN 0 ELSE Min({n, Max({1, (n * ratio) \div 4})})

\* the best rows of a request, whatever their importance, and its question
Select(r) ==
    /\ pc = "select"
    /\ r = Len(picked) + 1
    /\ r \in Reqs
    /\ InRange(r)
    /\ LET g == Region(r)
           rag == g.ragStart .. g.questStart - 1
       IN  \E top \in kSubset(Budget(g.ragLen), rag) :
              picked' = Append(picked, SetToSortSeq(top, <)
                                         \o RangeSeq(g.questStart, g.questEnd))
    /\ UNCHANGED <<pc, inputs, prompts, qmeta, info>>

SelectFails ==
    /\ pc = "select"
    /\ Len(picked) < Len(batch)
    /\ ~ InRange(Len(picked) + 1)
    /\ pc' = "error"
    /\ UNCHANGED <<inputs, prompts, qmeta, info, picked>>

Finish ==
    /\ pc = "select"
    /\ Len(picked) = Len(batch)
    /\ pc' = "done"
    /\ UNCHANGED <<inputs, prompts, qmeta, info, picked>>

Next == \/ Split \/ PrepareQCompute \/ PrepareBlend
        \/ \E r \in Reqs : Select(r)
        \/ SelectFails \/ Finish

Spec == Init /\ [][Next]_vars

-----------------------------------------------------------------------------
(* The tokens the rows stand for.                                           *)

Tokens(kind, r) == [n \in DOMAIN ids[kind][r] |-> <<r, ids[kind][r][n]>>]
QueryRows == FlattenSeq([r \in Reqs |-> Tokens("query", r)])
BlendRows == FlattenSeq([r \in Reqs |-> Tokens("blend", r)])
PartOf(r, name, n) == {<<r, <<name, k>>>> : k \in 1 .. n}

\* separator k of a prompt was not merged; none of them was
Apart(kind, r, k) == <<kind, r, k>> \notin merged
Whole(kind, r) == \A k \in DOMAIN Parts(kind, r) : Apart(kind, r, k)

TypeOK ==
    /\ pc \in {"split", "qcompute", "blend", "select", "done", "error"}
    /\ batch \in Batches /\ sep \in Seps /\ ratio \in Quarters
    /\ merged \subseteq Separators /\ Cardinality(merged) <= MaxMerged
    /\ \A k \in Kinds : chunks[k] = <<>> \/ \A r \in Reqs : chunks[k][r] \in Seq(Nat)
    /\ qmeta.qLens \in Seq(Nat) /\ qmeta.qOffsets \in Seq(Nat)
    /\ qmeta.kLens \in Seq(Nat) /\ qmeta.quest \in Seq(Nat)
    /\ info.loc \in Seq(Nat) /\ info.reqLen \in Seq(Nat)
    /\ \A r \in 1 .. Len(picked) : picked[r] \in Seq(Nat)

(***************************************************************************)
(* Both splitters cut a prompt at the separators the tokenizer left apart  *)
(* and nowhere else, empty documents and separators of several tokens      *)
(* included, and keep every token of the text.  A separator that was       *)
(* merged stays in, but for its end in the token next to it, and joins two *)
(* parts in one chunk.  (A separator that overlaps with a copy of itself,  *)
(* such as x x in x x x, is not among them: split_tokens counts negative   *)
(* segments.)                                                              *)
(***************************************************************************)
CutsAtSeparators ==
    pc # "split" => \A kind \in Kinds, r \in Reqs :
        LET parts == Parts(kind, r)
            stayed(k) == Cardinality({j \in 1 .. k : ~ Apart(kind, r, j)})
            row(k) == Sum([j \in 1 .. k |-> Len(parts[j])]) + stayed(k) * (Len(sep) - 1)
            cuts == SetToSortSeq({k \in 1 .. Len(parts) - 1 : Apart(kind, r, k)}, <)
        IN  /\ chunks[kind][r]
                  = Pad([n \in DOMAIN cuts |-> row(cuts[n])]) \o <<row(Len(parts))>>
            /\ Len(ids[kind][r]) = row(Len(parts))
            /\ Whole(kind, r) => ids[kind][r] = FlattenSeq(parts)

(***************************************************************************)
(* The query vectors collected in QCOMPUTE for a request are those of its  *)
(* question, nothing of the instructions, as long as its own separator was *)
(* not merged: whatever happened to the prompts of its neighbours in the   *)
(* batch, which have one chunk less then.                                  *)
(***************************************************************************)
CollectsQuestions ==
    pc \in {"blend", "select", "done"} => \A r \in Reqs : Whole("query", r) =>
        LET from == Sum(SubSeq(qmeta.qLens, 1, r - 1))
        IN  [k \in 1 .. qmeta.qLens[r] |-> At(QueryRows, At(qmeta.quest, from + k - 1))]
              = [k \in 1 .. batch[r].quest |-> <<r, <<Quest, k>>>>]

(***************************************************************************)
(* The selection scores like with like: the row range whose positions      *)
(* rotate the collected query vectors holds the very tokens of the         *)
(* question, and the one for the keys holds the tokens of the keys, the    *)
(* cached prefix followed by the QCOMPUTE prompt.  It takes the question's *)
(* separator and the last one of the DO_BLEND prompt; those between the    *)
(* documents may have been merged.                                         *)
(***************************************************************************)
ScoresAligned ==
    pc = "select" => \A r \in Reqs :
        r = Len(picked) + 1 /\ InRange(r) /\ Whole("query", r)
          /\ Apart("blend", r, Len(batch[r].docs) + 1) =>
        LET g == Region(r)
            from == g.questStart + qmeta.qOffsets[r]
            to == from + qmeta.qLens[r]
            keys == Tokens("query", r)
        IN  /\ Slice(BlendRows, from, to) = SubSeq(keys, batch[r].pre + 1, Len(keys))
            /\ Slice(BlendRows, g.start, g.questStart) \o keys
                  = Slice(BlendRows, g.start, to)

(***************************************************************************)
(* What a request recomputes is its own, in order, and ends with its last  *)
(* token.  When none of its separators was merged it is all of its last    *)
(* chunk, never the system prompt, and with a positive ratio at least one  *)
(* token of the documents when there is one, all of them from ratio 1 on.  *)
(***************************************************************************)
RecomputesOwn ==
    \A r \in 1 .. Len(picked) :
        LET p == batch[r]
            rows == picked[r]
            tokens == {At(BlendRows, row) : row \in ToSet(rows)}
            last == PartOf(r, Pre, p.pre) \cup PartOf(r, Quest, p.quest)
                      \cup PartOf(r, End, p.tail)
            docs == UNION {PartOf(r, d, p.docs[d]) : d \in 1 .. Len(p.docs)}
        IN  /\ \A t \in tokens : t[1] = r
            /\ \A j, k \in 1 .. Len(rows) : j < k => rows[j] < rows[k]
            /\ At(BlendRows, Last(rows)) = Last(Tokens("blend", r))
            /\ Whole("blend", r) =>
                  /\ last \subseteq tokens
                  /\ tokens \subseteq last \cup docs
                  /\ ratio > 0 /\ docs # {} => tokens \cap docs # {}
                  /\ ratio >= 4 => docs \subseteq tokens

(***************************************************************************)
(* A QCOMPUTE batch fails only when the question's separator was merged in *)
(* the prompt of its last request, and a DO_BLEND batch of one request is  *)
(* always served.                                                          *)
(***************************************************************************)
OneRequestServed ==
    pc = "error" => IF qmeta = NoMeta THEN ~ Whole("query", Len(batch)) ELSE Len(batch) > 1

-----------------------------------------------------------------------------
(***************************************************************************)
(* triton_backend.py:1224 "KV params: calculate from chunk bounds using    *)
(* request boundaries": the attention backend and the selection agree on   *)
(* where the requests of a batch begin and end.                            *)
(***************************************************************************)
RequestBoundariesAgree ==
    pc = "select" => \A r \in Reqs : Boundaries[r + 1] = info.reqLen[r]
=============================================================================
