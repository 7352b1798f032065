----------------------------- MODULE DigestIndex -----------------------------
(***************************************************************************)
(* How an offline KVCOMPUTE decides which tokens go into the digest of the *)
(* query cache, for one request and one layer:                             *)
(*   prepare_augmented_locs_for_request   the layouts of the prompt        *)
(*   build_all_indices                    the ranking of each document     *)
(*   build_context_positions              the positions that are kept      *)
(*   CacheBlender.blend                   their rows in the KV pool        *)
(*   _coalesce_sorted_positions           the spans, one loop step each    *)
(* The prompt is sys, doc, zip prompt, doc, zip prompt, .., query.  The    *)
(* forward pass runs it chunk by chunk with each zip prompt attached to    *)
(* its document; the caches describe it without the zip prompts.  Tokens   *)
(* and positions count from 0, sequences of them are indexed from 1.       *)
(***************************************************************************)
EXTENDS Integers, SequencesExt, FiniteSetsExt, Numbers

CONSTANTS
    Prompts,    \* the lengths of the chunks of each prompt
    MaxScore,   \* kvzip scores are 0 .. MaxScore here
    Sinks,      \* the values of context_n_sink
    Quarters    \* the values of digest_ratio, in quarters

ASSUME DigestAssumption ==
    /\ Prompts \subseteq Seq(Nat)
    /\ MaxScore \in Nat
    /\ Sinks \subseteq Int
    /\ Quarters \subseteq Int

VARIABLES
    pc,
    raw,        \* raw_locs, where split_tokens cut the prompt
    nSink, ratio,
    layout,     \* what prepare_augmented_locs_for_request returns
    score,      \* kvzip score of each document's tokens
    ranked,     \* ranked_indices of each document
    positions,  \* context_positions of the layer
    rows,       \* digest_token_indices of the layer
    spans,      \* the loop of _coalesce_sorted_positions
    i, run, prev, out

vars == <<pc, raw, nSink, ratio, layout, score, ranked, positions, rows,
          spans, i, run, prev, out>>
inputs == <<raw, nSink, ratio>>
loop   == <<spans, i, run, prev, out>>

\* _cumsum_lens
CumSum(lens) == [k \in 1 .. Len(lens) + 1 |-> Total([j \in 1 .. k - 1 |-> lens[j]])]

\* range(a, b)
RangeSeq(a, b) == [k \in 1 .. b - a |-> a + k - 1]

Chunks == Len(raw) - 1
Docs   == 1 .. (Chunks - 2) \div 2
DocStart(d) == raw[2 * d]
DocEnd(d)   == raw[2 * d + 1]
ZipEnd(d)   == raw[2 * d + 2]
QueryStart  == raw[Len(raw) - 1]
QueryEnd    == raw[Len(raw)]
DocLen(d)   == DocEnd(d) - DocStart(d)

NoLayout == [forward |-> <<>>, original |-> <<>>, keep |-> <<>>]

Init ==
    /\ pc = "prepare"
    /\ \E lens \in Prompts : raw = CumSum(lens)
    /\ nSink \in Sinks
    /\ ratio \in Quarters
    /\ layout = NoLayout
    /\ score = <<>> /\ ranked = <<>>
    /\ positions = <<>> /\ rows = <<>>
    /\ spans = <<>> /\ i = 1 /\ run = 0 /\ prev = 0 /\ out = 0

\* faulty variant: the zip prompts stay out of the forward chunks
ForwardLen_DocOnly(d) == DocEnd(d) - DocStart(d)
ForwardLen(d) == ZipEnd(d) - DocStart(d)

\* faulty variant: the zip prompts are kept with their documents
KeptEnd_WithZip(d) == ZipEnd(d)
KeptEnd(d) == DocEnd(d)

\* the system prompt, the documents and the query, each with a length
Around(docLens) == <<raw[2] - raw[1]>> \o docLens \o <<QueryEnd - QueryStart>>
Augmented ==
    [forward  |-> CumSum(Around([d \in Docs |-> ForwardLen(d)])),
     original |-> CumSum(Around([d \in Docs |-> DocLen(d)])),
     keep     |-> RangeSeq(raw[1], raw[2])
                  \o FlattenSeq([d \in Docs |-> RangeSeq(DocStart(d), KeptEnd(d))])
                  \o RangeSeq(QueryStart, QueryEnd)]

\* an augmented prompt has a zip prompt for each document
IsAugmented == Chunks >= 4 /\ Chunks % 2 = 0

Prepare ==
    /\ pc = "prepare"
    /\ IsAugmented
    /\ layout' = Augmented
    /\ pc' = "rank"
    /\ UNCHANGED <<inputs, score, ranked, positions, rows, loop>>

\* any other layout: ValueError out of prepare_for_extend
Refuse ==
    /\ pc = "prepare"
    /\ ~ IsAugmented
    /\ pc' = "refused"
    /\ UNCHANGED <<inputs, layout, score, ranked, positions, rows, loop>>

SinkCount(n) == IF nSink < 0 THEN 0 ELSE IF nSink < n THEN nSink ELSE n

\* _rank_from_scores: the sinks, then the other tokens by falling score; the
\* order of equal scores is not fixed by torch.argsort
Rankings(n, sc) ==
    {r \in [1 .. n -> 0 .. n - 1] :
        /\ \A a, b \in 1 .. n : r[a] = r[b] => a = b
        /\ \A a \in 1 .. SinkCount(n) : r[a] = a - 1
        /\ \A a, b \in SinkCount(n) + 1 .. n : a < b => sc[r[a]] >= sc[r[b]]}

Rank ==
    /\ pc = "rank"
    /\ score' \in [Docs -> UNION {[0 .. DocLen(d) - 1 -> 0 .. MaxScore] : d \in Docs}]
    /\ \A d \in Docs : DOMAIN score'[d] = 0 .. DocLen(d) - 1
    /\ ranked' \in [Docs -> UNION {Rankings(DocLen(d), score'[d]) : d \in Docs}]
    /\ \A d \in Docs : ranked'[d] \in Rankings(DocLen(d), score'[d])
    /\ pc' = "build"
    /\ UNCHANGED <<inputs, layout, positions, rows, loop>>

\* faulty variant: the ratio is rounded down
Budget_Floor(n) ==
    LET q == IF ratio < 0 THEN 0 ELSE IF ratio > 4 THEN 4 ELSE ratio
    IN  (n * q) \div 4

\* ceil(chunk_len * digest_ratio), the ratio clamped to 0 .. 1
Budget(n) ==
    LET q == IF ratio < 0 THEN 0 ELSE IF ratio > 4 THEN 4 ELSE ratio
    IN  (n * q + 3) \div 4

\* the positions of document d that are kept, in rising order
KeptOf(d) ==
    Sorted({layout.original[d + 1] + ranked[d][a] : a \in 1 .. Budget(DocLen(d))})

\* the system prompt and what is kept of the documents
ContextPositions ==
    RangeSeq(layout.original[1], layout.original[2]) \o FlattenSeq([d \in Docs |-> KeptOf(d)])

BuildPositions ==
    /\ pc = "build"
    /\ positions' = ContextPositions
    /\ rows' = [k \in DOMAIN positions' |-> layout.keep[positions'[k] + 1]]
    /\ IF positions' = <<>>
       THEN pc' = "done" /\ UNCHANGED loop
       ELSE /\ pc' = "coalesce"
            /\ i' = 2 /\ run' = positions'[1] /\ prev' = positions'[1] /\ out' = 0
            /\ UNCHANGED spans
    /\ UNCHANGED <<inputs, layout, score, ranked>>

\* faulty variant: out_start is not advanced by the last token of the run
RunLength_Short == prev - run
RunLength == prev - run + 1

CoalesceStep ==
    /\ pc = "coalesce"
    /\ i <= Len(positions)
    /\ IF positions[i] = prev + 1
       THEN UNCHANGED <<spans, out, run>>
       ELSE /\ spans' = Append(spans, <<run, prev + 1, out>>)
            /\ out' = out + RunLength
            /\ run' = positions[i]
    /\ prev' = positions[i]
    /\ i' = i + 1
    /\ UNCHANGED <<pc, inputs, layout, score, ranked, positions, rows>>

CoalesceEnd ==
    /\ pc = "coalesce"
    /\ i > Len(positions)
    /\ spans' = Append(spans, <<run, prev + 1, out>>)
    /\ pc' = "done"
    /\ UNCHANGED <<inputs, layout, score, ranked, positions, rows, i, run, prev, out>>

Next == Prepare \/ Refuse \/ Rank \/ BuildPositions \/ CoalesceStep \/ CoalesceEnd

Spec == Init /\ [][Next]_vars

-----------------------------------------------------------------------------

\* the chunk of the boundaries locs that holds token t, and where it begins
ChunkOf(locs, t) == CHOOSE c \in 1 .. Len(locs) - 1 : locs[c] <= t /\ t < locs[c + 1]
Offset(locs, t)  == t - locs[ChunkOf(locs, t)]

(***************************************************************************)
(* The rows that go into the digest are tokens of the system prompt and of *)
(* the documents, in the order of the prompt, and the position stored with *)
(* a row is that token's position in the prompt without zip prompts.       *)
(***************************************************************************)
DigestRowsAreContext ==
    \A k \in DOMAIN rows :
        LET c == ChunkOf(raw, rows[k])
            \* tokens of zip prompts before the row
            skipped == Cardinality({t \in 0 .. rows[k] - 1 :
                                       ChunkOf(raw, t) > 1 /\ ChunkOf(raw, t) % 2 = 1})
        IN  /\ c = 1 \/ (c % 2 = 0 /\ c < Chunks)
            /\ positions[k] = rows[k] - skipped
            /\ k > 1 => rows[k] > rows[k - 1]

(***************************************************************************)
(* A row has the RoPE-free KV of a forward pass that restarted positions   *)
(* at every forward chunk: its token has the same offset in its forward    *)
(* chunk as it has in its chunk of the prompt the cache describes.         *)
(***************************************************************************)
SameOffsetInChunk ==
    \A k \in DOMAIN rows :
        Offset(layout.forward, rows[k]) = Offset(layout.original, positions[k])

(***************************************************************************)
(* Of each document the digest keeps ceil(ratio * length) tokens: the      *)
(* sinks first, and then none that scores less than a token left out.      *)
(***************************************************************************)
BestTokensKept ==
    pc \in {"coalesce", "done"} => \A d \in Docs :
        LET all  == 0 .. DocLen(d) - 1
            kept == {t \in all : \E k \in DOMAIN rows : rows[k] = DocStart(d) + t}
            sink == {t \in all : t < nSink}
            want == CHOOSE n \in 0 .. DocLen(d) :
                        /\ 4 * n >= DocLen(d) * ratio \/ n = DocLen(d)
                        /\ n > 0 => 4 * (n - 1) < DocLen(d) * ratio
        IN  /\ Cardinality(kept) = want
            /\ kept \subseteq sink \/ sink \subseteq kept
            /\ \A t \in kept \ sink, u \in all \ kept : score[d][t] >= score[d][u]

(***************************************************************************)
(* The spans closed so far and the open run read exactly the positions     *)
(* seen so far, each into its place, and no two spans could be one.        *)
(***************************************************************************)
SpansCover ==
    LET open == IF pc = "coalesce" THEN Append(spans, <<run, prev + 1, out>>) ELSE spans
        seen == IF pc = "coalesce" THEN SubSeq(positions, 1, i - 1) ELSE positions
    IN  pc \in {"coalesce", "done"} =>
            /\ FlattenSeq([k \in DOMAIN open |-> RangeSeq(open[k][1], open[k][2])]) = seen
            /\ \A k \in DOMAIN open : open[k][1] = positions[open[k][3] + 1]
            /\ \A k \in 2 .. Len(open) : open[k][1] > open[k - 1][2]
=============================================================================
