----------------------------- MODULE DigestProofs -----------------------------
(***************************************************************************)
(* What the digest of one request and one layer holds, for every prompt.   *)
(* DigestInv says that each step has computed what it should: the layout   *)
(* is that of the prompt with the zip prompts around its documents, each   *)
(* ranking is one of the kvzip scores, the positions are those of the      *)
(* system prompt and of the tokens the rankings choose, and the spans of   *)
(* the loop, with the one still open, read the positions seen so far.      *)
(* The rest follows from it by counting: chunks have rising boundaries,    *)
(* so each position has one chunk and one row, and a row's position in the *)
(* prompt without zip prompts is its own less the zip tokens before it.    *)
(***************************************************************************)
EXTENDS DigestIndex, Counting

-----------------------------------------------------------------------------
(* Boundaries of chunks.                                                    *)

\* locs are the boundaries of chunks with the lengths lens
Bounds(locs, lens) ==
    /\ IsSeq(locs) /\ Len(locs) = Len(lens) + 1
    /\ locs[1] = 0
    /\ \A k \in 1 .. Len(lens) + 1 : locs[k] \in Nat
    /\ \A k \in 1 .. Len(lens) : locs[k + 1] = locs[k] + lens[k]

LEMMA CumSumBounds ==
    ASSUME NEW lens, IsSeq(lens), \A k \in 1 .. Len(lens) : lens[k] \in Nat
    PROVE  Bounds(CumSum(lens), lens)
<1> DEFINE n == Len(lens)
           c == CumSum(lens)
           g(k) == Total([j \in 1 .. k |-> lens[j]])
<1>1. n \in Nat
  BY SeqFacts
<1>2. \A k \in 1 .. n + 1 : c[k] = g(k - 1)
  BY DEF CumSum
<1>3. c = [k \in 1 .. n + 1 |-> c[k]]
  BY DEF CumSum
<1> HIDE DEF c
<1>4. IsSeq(c) /\ Len(c) = n + 1
  <2>1. n + 1 \in Nat
    BY <1>1
  <2> HIDE DEF n
  <2> QED
    BY <1>3, <2>1, FunctionIsSeq
<1>5. c[1] = 0
  <2>1. 1 \in 1 .. n + 1 /\ 1 - 1 = 0
    BY <1>1
  <2> QED
    BY <1>2, <2>1, TotalEmpty
<1>6. ASSUME NEW k \in 1 .. n PROVE c[k] \in Nat /\ c[k + 1] = c[k] + lens[k]
  <2>1. k - 1 \in Nat /\ (k - 1) + 1 = k /\ k \in 1 .. n + 1 /\ k + 1 \in 1 .. n + 1
        /\ (k + 1) - 1 = k
    BY <1>1
  <2>2. \A j \in 1 .. (k - 1) + 1 : lens[j] \in Nat
    BY <1>1, <2>1
  <2>3. g(k - 1) \in Nat /\ g((k - 1) + 1) = g(k - 1) + lens[(k - 1) + 1]
    <3> DEFINE m == k - 1
    <3>1. m \in Nat /\ \A j \in 1 .. m + 1 : lens[j] \in Nat
      BY <2>1, <2>2
    <3> HIDE DEF m
    <3>2. g(m) \in Nat /\ g(m + 1) = g(m) + lens[m + 1]
      BY <3>1, TotalStep
    <3> QED
      BY <3>2 DEF m
  <2> HIDE DEF g
  <2> QED
    BY <1>2, <2>1, <2>3
<1>7. c[n + 1] \in Nat
  <2>1. CASE n = 0
    BY <1>5, <2>1
  <2>2. CASE n # 0
    <3>1. n \in 1 .. n
      BY <1>1, <2>2
    <3>2. c[n] \in Nat /\ c[n + 1] = c[n] + lens[n] /\ lens[n] \in Nat
      BY <1>6, <3>1
    <3> QED
      BY <3>2
  <2> QED
    BY <2>1, <2>2
<1>8. \A k \in 1 .. n + 1 : c[k] \in Nat
  <2>1. \A k \in 1 .. n + 1 : k \in 1 .. n \/ k = n + 1
    BY <1>1
  <2> QED
    BY <1>6, <1>7, <2>1
<1> QED
  BY <1>4, <1>5, <1>6, <1>8 DEF Bounds, c

\* The boundaries never fall.
LEMMA BoundsRise ==
    ASSUME NEW lens, NEW locs, IsSeq(lens), \A k \in 1 .. Len(lens) : lens[k] \in Nat,
           Bounds(locs, lens)
    PROVE  \A a, b \in 1 .. Len(locs) : a <= b => locs[a] <= locs[b]
<1> DEFINE n == Len(lens)
           off == [d \in 0 .. n |-> locs[d + 1]]
<1>1. n \in Nat /\ Len(locs) = n + 1
  BY SeqFacts DEF Bounds
<1>2. ASSUME NEW d \in 0 .. n PROVE off[d] \in Int /\ off[d] = locs[d + 1]
  <2>1. d + 1 \in 1 .. n + 1
    BY <1>1
  <2> QED
    BY <2>1 DEF Bounds
<1>3. ASSUME NEW d \in 1 .. n PROVE off[d - 1] <= off[d]
  <2>1. d - 1 \in 0 .. n /\ d \in 0 .. n /\ (d - 1) + 1 = d /\ d \in 1 .. n + 1
    BY <1>1
  <2>2. locs[d + 1] = locs[d] + lens[d] /\ locs[d] \in Nat /\ lens[d] \in Nat
    BY <2>1 DEF Bounds
  <2>3. off[d - 1] = locs[d] /\ off[d] = locs[d + 1]
    BY <1>2, <2>1
  <2> QED
    BY <2>2, <2>3
<1> HIDE DEF off
<1>4. \A d, e \in 0 .. n : d <= e => off[d] <= off[e]
  <2> HIDE DEF n
  <2>1. \A d \in 0 .. n : off[d] \in Int
    BY <1>2
  <2> QED
    BY <1>1, <1>3, <2>1, NeverFalls
<1>5. ASSUME NEW a \in 1 .. Len(locs), NEW b \in 1 .. Len(locs), a <= b
      PROVE  locs[a] <= locs[b]
  <2>1. a - 1 \in 0 .. n /\ b - 1 \in 0 .. n /\ a - 1 <= b - 1 /\ (a - 1) + 1 = a /\ (b - 1) + 1 = b
    BY <1>1, <1>5
  <2>2. off[a - 1] = locs[a] /\ off[b - 1] = locs[b]
    BY <1>2, <2>1
  <2> QED
    BY <1>4, <2>1, <2>2
<1> QED
  BY <1>5

\* A token between two boundaries is in the chunk they bound, and in no other.
LEMMA ChunkFacts ==
    ASSUME NEW lens, NEW locs, IsSeq(lens), \A k \in 1 .. Len(lens) : lens[k] \in Nat,
           Bounds(locs, lens), NEW t \in Int
    PROVE  /\ \A c \in 1 .. Len(lens) : locs[c] <= t /\ t < locs[c + 1] => ChunkOf(locs, t) = c
           /\ 0 <= t /\ t < locs[Len(lens) + 1] =>
                 /\ ChunkOf(locs, t) \in 1 .. Len(lens)
                 /\ locs[ChunkOf(locs, t)] <= t /\ t < locs[ChunkOf(locs, t) + 1]
<1> DEFINE n == Len(lens)
           In(c) == locs[c] <= t /\ t < locs[c + 1]
<1>1. n \in Nat /\ Len(locs) = n + 1 /\ Len(locs) - 1 = n
  BY SeqFacts DEF Bounds
<1>2. ChunkOf(locs, t) = CHOOSE c \in 1 .. n : In(c)
  BY <1>1 DEF ChunkOf
<1>3. \A a, b \in 1 .. n + 1 : a <= b => locs[a] <= locs[b]
  BY <1>1, BoundsRise
<1>4. \A a \in 1 .. n + 1 : locs[a] \in Int
  BY DEF Bounds
<1>5. ASSUME NEW a \in 1 .. n, NEW b \in 1 .. n, In(a), In(b), a < b PROVE FALSE
  <2>1. a + 1 <= b /\ a + 1 \in 1 .. n + 1 /\ b \in 1 .. n + 1 /\ a \in 1 .. n + 1
    BY <1>1, <1>5
  <2>2. locs[a + 1] <= locs[b] /\ locs[a + 1] \in Int /\ locs[b] \in Int
    BY <1>3, <1>4, <2>1
  <2> QED
    BY <1>5, <2>2
<1>6. ASSUME NEW a \in 1 .. n, NEW b \in 1 .. n, In(a), In(b) PROVE a = b
  <2>1. ~ (a < b) /\ ~ (b < a)
    BY <1>5, <1>6
  <2> QED
    BY <2>1
<1>7. ASSUME NEW c \in 1 .. n, In(c) PROVE ChunkOf(locs, t) = c
  <2> HIDE DEF In, n
  <2> QED
    BY <1>2, <1>6, <1>7
<1>8. ASSUME 0 <= t, t < locs[n + 1] PROVE \E c \in 1 .. n : In(c)
  <2> DEFINE off == [d \in 0 .. n |-> locs[d + 1]]
  <2>1. ASSUME NEW d \in 0 .. n PROVE off[d] \in Int /\ off[d] = locs[d + 1]
    <3>1. d + 1 \in 1 .. n + 1
      BY <1>1
    <3> QED
      BY <1>4, <3>1
  <2> HIDE DEF off
  <2>2. off[0] = 0 /\ off[n] = locs[n + 1]
    BY <1>1, <2>1 DEF Bounds
  <2>3. off[0] < t + 1 /\ t + 1 <= off[n] /\ t + 1 \in Int
    <3>1. locs[n + 1] \in Int
      BY <1>1, <1>4
    <3> QED
      BY <1>8, <2>2, <3>1
  <2>4. PICK d \in 1 .. n : off[d - 1] < t + 1 /\ t + 1 <= off[d]
    <3> HIDE DEF n
    <3>1. \A d \in 0 .. n : off[d] \in Int
      BY <2>1
    <3> QED
      BY <1>1, <2>3, <3>1, StepOf
  <2>5. d - 1 \in 0 .. n /\ d \in 0 .. n /\ (d - 1) + 1 = d
    BY <1>1
  <2>6. off[d - 1] = locs[d] /\ off[d] = locs[d + 1] /\ off[d - 1] \in Int /\ off[d] \in Int
    BY <2>1, <2>5
  <2>7. In(d)
    BY <2>4, <2>6
  <2> QED
    BY <2>7
<1>9. ASSUME 0 <= t, t < locs[n + 1]
      PROVE  ChunkOf(locs, t) \in 1 .. n /\ In(ChunkOf(locs, t))
  <2>1. \E c \in 1 .. n : In(c)
    BY <1>8, <1>9
  <2> HIDE DEF In, n
  <2> QED
    BY <1>2, <2>1
<1> QED
  BY <1>7, <1>9

\* range(a, b) lists a .. b - 1.
LEMMA RangeSeqFacts ==
    ASSUME NEW a \in Int, NEW b \in Int, a <= b
    PROVE  /\ IsSeq(RangeSeq(a, b)) /\ Len(RangeSeq(a, b)) = b - a
           /\ \A k \in 1 .. b - a : RangeSeq(a, b)[k] = a + k - 1
<1> DEFINE s == RangeSeq(a, b)
           n == b - a
<1>1. n \in Nat /\ s = [k \in 1 .. n |-> s[k]] /\ \A k \in 1 .. n : s[k] = a + k - 1
  BY DEF RangeSeq
<1> HIDE DEF s, n
<1>2. IsSeq(s) /\ Len(s) = n
  BY <1>1, FunctionIsSeq
<1> QED
  BY <1>1, <1>2 DEF s, n

-----------------------------------------------------------------------------
(* The layout of an augmented prompt.                                       *)

ND == (Chunks - 2) \div 2

\* the boundaries of the prompt, an augmented one
Raw ==
    /\ \E lens \in Prompts : raw = CumSum(lens)
    /\ IsAugmented

LEMMA RawFacts ==
    ASSUME DigestAssumption, Raw
    PROVE  /\ ND \in Nat /\ ND >= 1 /\ Docs = 1 .. ND /\ Chunks = 2 * ND + 2
           /\ IsSeq(raw) /\ Len(raw) = 2 * ND + 3
           /\ raw[1] = 0
           /\ \A a \in 1 .. 2 * ND + 3 : raw[a] \in Nat
           /\ \A a, b \in 1 .. 2 * ND + 3 : a <= b => raw[a] <= raw[b]
           /\ \A t \in Int :
                 /\ \A c \in 1 .. 2 * ND + 2 :
                       raw[c] <= t /\ t < raw[c + 1] => ChunkOf(raw, t) = c
                 /\ 0 <= t /\ t < raw[2 * ND + 3] =>
                       /\ ChunkOf(raw, t) \in 1 .. 2 * ND + 2
                       /\ raw[ChunkOf(raw, t)] <= t /\ t < raw[ChunkOf(raw, t) + 1]
<1>1. PICK lens \in Prompts : raw = CumSum(lens)
  BY DEF Raw
<1>2. lens \in Seq(Nat)
  BY DEF DigestAssumption
<1>3. IsSeq(lens) /\ \A k \in 1 .. Len(lens) : lens[k] \in Nat
  BY <1>2, InSeqIsSeq
<1>4. Bounds(raw, lens)
  BY <1>1, <1>3, CumSumBounds
<1>5. Len(lens) \in Nat /\ Len(raw) = Len(lens) + 1 /\ Chunks = Len(lens) /\ IsSeq(raw)
  BY <1>2, <1>4 DEF Bounds, Chunks
<1>6. /\ ND \in Nat /\ ND >= 1 /\ Docs = 1 .. ND /\ Chunks = 2 * ND + 2
  <2>1. Chunks \in Nat /\ Chunks >= 4 /\ Chunks % 2 = 0
    BY <1>5 DEF Raw, IsAugmented
  <2> QED
    BY <2>1 DEF ND, Docs
<1>7. Len(lens) = 2 * ND + 2 /\ Len(lens) + 1 = 2 * ND + 3 /\ Len(raw) = 2 * ND + 3
  BY <1>5, <1>6
<1>8. raw[1] = 0 /\ \A a \in 1 .. 2 * ND + 3 : raw[a] \in Nat
  BY <1>4, <1>7 DEF Bounds
<1>9. \A a, b \in 1 .. 2 * ND + 3 : a <= b => raw[a] <= raw[b]
  BY <1>3, <1>4, <1>7, BoundsRise
<1>10. ASSUME NEW t \in Int
       PROVE  /\ \A c \in 1 .. 2 * ND + 2 :
                    raw[c] <= t /\ t < raw[c + 1] => ChunkOf(raw, t) = c
              /\ 0 <= t /\ t < raw[2 * ND + 3] =>
                    /\ ChunkOf(raw, t) \in 1 .. 2 * ND + 2
                    /\ raw[ChunkOf(raw, t)] <= t /\ t < raw[ChunkOf(raw, t) + 1]
  <2>1. /\ \A c \in 1 .. Len(lens) : raw[c] <= t /\ t < raw[c + 1] => ChunkOf(raw, t) = c
        /\ 0 <= t /\ t < raw[Len(lens) + 1] =>
              /\ ChunkOf(raw, t) \in 1 .. Len(lens)
              /\ raw[ChunkOf(raw, t)] <= t /\ t < raw[ChunkOf(raw, t) + 1]
    BY <1>3, <1>4, ChunkFacts
  <2> QED
    BY <1>7, <2>1
<1> QED
  BY <1>5, <1>6, <1>7, <1>8, <1>9, <1>10

LEMMA DocFacts ==
    ASSUME DigestAssumption, Raw, NEW d \in 1 .. ND
    PROVE  /\ DocStart(d) \in Nat /\ DocEnd(d) \in Nat /\ ZipEnd(d) \in Nat
           /\ DocStart(d) <= DocEnd(d) /\ DocEnd(d) <= ZipEnd(d)
           /\ DocLen(d) \in Nat /\ ForwardLen(d) \in Nat
           /\ raw[2] <= DocStart(d) /\ ZipEnd(d) <= QueryStart
           /\ QueryStart = raw[2 * ND + 2] /\ QueryEnd = raw[2 * ND + 3]
           /\ DocStart(d) = raw[2 * d] /\ ZipEnd(d) = raw[2 * (d + 1)]
<1>1. /\ ND \in Nat /\ Len(raw) = 2 * ND + 3
      /\ \A a \in 1 .. 2 * ND + 3 : raw[a] \in Nat
      /\ \A a, b \in 1 .. 2 * ND + 3 : a <= b => raw[a] <= raw[b]
  BY RawFacts
<1>2. /\ 2 * d \in 1 .. 2 * ND + 3 /\ 2 * d + 1 \in 1 .. 2 * ND + 3
      /\ 2 * d + 2 \in 1 .. 2 * ND + 3 /\ 2 \in 1 .. 2 * ND + 3 /\ 2 * ND + 2 \in 1 .. 2 * ND + 3
      /\ 2 <= 2 * d /\ 2 * d <= 2 * d + 1 /\ 2 * d + 1 <= 2 * d + 2 /\ 2 * d + 2 <= 2 * ND + 2
      /\ 2 * (d + 1) = 2 * d + 2 /\ (2 * ND + 3) - 1 = 2 * ND + 2
  BY <1>1
<1>3. /\ DocStart(d) = raw[2 * d] /\ DocEnd(d) = raw[2 * d + 1] /\ ZipEnd(d) = raw[2 * d + 2]
      /\ QueryStart = raw[2 * ND + 2] /\ QueryEnd = raw[2 * ND + 3]
  BY <1>1, <1>2 DEF DocStart, DocEnd, ZipEnd, QueryStart, QueryEnd
<1>4. /\ raw[2 * d] \in Nat /\ raw[2 * d + 1] \in Nat /\ raw[2 * d + 2] \in Nat
      /\ raw[2] <= raw[2 * d] /\ raw[2 * d] <= raw[2 * d + 1] /\ raw[2 * d + 1] <= raw[2 * d + 2]
      /\ raw[2 * d + 2] <= raw[2 * ND + 2]
  BY <1>1, <1>2
<1>5. DocLen(d) = raw[2 * d + 1] - raw[2 * d] /\ ForwardLen(d) = raw[2 * d + 2] - raw[2 * d]
  BY <1>3 DEF DocLen, ForwardLen
<1>6. DocLen(d) \in Nat /\ ForwardLen(d) \in Nat
  BY <1>4, <1>5
<1> QED
  BY <1>2, <1>3, <1>4, <1>6

\* Chunks of the lengths docLens between the system prompt and the query.
LEMMA AroundBounds ==
    ASSUME DigestAssumption, Raw, NEW w, w = [d \in Docs |-> w[d]],
           \A d \in Docs : w[d] \in Nat
    PROVE  /\ IsSeq(Around(w)) /\ Len(Around(w)) = ND + 2
           /\ \A k \in 1 .. ND + 2 : Around(w)[k] \in Nat
           /\ Bounds(CumSum(Around(w)), Around(w))
           /\ CumSum(Around(w))[2] = raw[2]
           /\ \A d \in 1 .. ND : CumSum(Around(w))[d + 2] = CumSum(Around(w))[d + 1] + w[d]
<1>1. ND \in Nat /\ Docs = 1 .. ND /\ raw[1] = 0 /\ raw[2] \in Nat /\ ND >= 1
  <2>1. /\ ND \in Nat /\ ND >= 1 /\ Docs = 1 .. ND /\ raw[1] = 0
        /\ \A k \in 1 .. 2 * ND + 3 : raw[k] \in Nat
    BY RawFacts
  <2>2. 2 \in 1 .. 2 * ND + 3
    BY <2>1
  <2> QED
    BY <2>1, <2>2
<1>2. QueryEnd - QueryStart \in Nat
  <2>1. 1 \in 1 .. ND /\ 2 * ND + 2 \in 1 .. 2 * ND + 3 /\ 2 * ND + 3 \in 1 .. 2 * ND + 3
        /\ 2 * ND + 2 <= 2 * ND + 3
    BY <1>1
  <2>2. QueryStart = raw[2 * ND + 2] /\ QueryEnd = raw[2 * ND + 3]
    BY <2>1, DocFacts
  <2>3. raw[2 * ND + 2] <= raw[2 * ND + 3] /\ raw[2 * ND + 2] \in Nat /\ raw[2 * ND + 3] \in Nat
    BY <2>1, RawFacts
  <2> QED
    BY <2>2, <2>3
<1> DEFINE s == raw[2] - raw[1]
           q == QueryEnd - QueryStart
           a == Around(w)
<1>3. s \in Nat /\ q \in Nat /\ s = raw[2]
  BY <1>1, <1>2
<1> HIDE DEF s, q
<1>4. IsSeq(w) /\ Len(w) = ND
  BY <1>1, FunctionIsSeq
<1>5. /\ IsSeq(<<s>>) /\ Len(<<s>>) = 1 /\ <<s>>[1] = s
      /\ IsSeq(<<q>>) /\ Len(<<q>>) = 1 /\ <<q>>[1] = q
  <2>1. <<s>> \in Seq(Nat) /\ <<q>> \in Seq(Nat)
    BY <1>3
  <2> QED
    BY <2>1, InSeqIsSeq
<1> DEFINE sw == <<s>> \o w
<1>6. /\ IsSeq(sw) /\ Len(sw) = 1 + ND
      /\ \A k \in 1 .. 1 + ND : sw[k] = IF k <= 1 THEN <<s>>[k] ELSE w[k - 1]
  <2> DEFINE p == <<s>>
  <2>1. IsSeq(p) /\ Len(p) = 1
    BY <1>5
  <2> HIDE DEF p
  <2>2. /\ IsSeq(p \o w) /\ Len(p \o w) = Len(p) + Len(w)
        /\ \A k \in 1 .. Len(p) + Len(w) : (p \o w)[k] = IF k <= Len(p) THEN p[k] ELSE w[k - Len(p)]
    BY <1>4, <2>1, ConcatIsSeq
  <2> QED
    BY <1>4, <2>1, <2>2 DEF p
<1> HIDE DEF sw
<1>7. /\ IsSeq(a) /\ Len(a) = ND + 2
      /\ \A k \in 1 .. ND + 2 : a[k] = IF k <= 1 + ND THEN sw[k] ELSE <<q>>[k - (1 + ND)]
  <2> DEFINE p == <<q>>
  <2>1. IsSeq(p) /\ Len(p) = 1
    BY <1>5
  <2> HIDE DEF p
  <2>2. /\ IsSeq(sw \o p) /\ Len(sw \o p) = Len(sw) + Len(p)
        /\ \A k \in 1 .. Len(sw) + Len(p) :
              (sw \o p)[k] = IF k <= Len(sw) THEN sw[k] ELSE p[k - Len(sw)]
    BY <1>6, <2>1, ConcatIsSeq
  <2>3. a = sw \o p
    BY DEF Around, sw, p, s, q
  <2>4. Len(sw) + Len(p) = ND + 2
    BY <1>1, <1>6, <2>1
  <2> HIDE DEF a
  <2> QED
    BY <1>6, <2>2, <2>3, <2>4 DEF p
<1> HIDE DEF a
<1>8. a[1] = s /\ a[ND + 2] = q /\ \A d \in 1 .. ND : a[d + 1] = w[d]
  <2>1. a[1] = s
    <3>1. 1 \in 1 .. ND + 2 /\ 1 \in 1 .. 1 + ND /\ 1 <= 1 + ND
      BY <1>1
    <3>2. a[1] = sw[1]
      BY <1>7, <3>1
    <3>3. sw[1] = <<s>>[1]
      <4>1. sw[1] = IF 1 <= 1 THEN <<s>>[1] ELSE w[1 - 1]
        BY <1>6, <3>1
      <4> QED
        BY <4>1
    <3> QED
      BY <1>5, <3>2, <3>3
  <2>2. a[ND + 2] = q
    <3>1. ND + 2 \in 1 .. ND + 2 /\ ~ (ND + 2 <= 1 + ND) /\ (ND + 2) - (1 + ND) = 1
      BY <1>1
    <3>2. a[ND + 2] = <<q>>[1]
      BY <1>7, <3>1
    <3> QED
      BY <1>5, <3>2
  <2>3. ASSUME NEW d \in 1 .. ND PROVE a[d + 1] = w[d]
    <3>1. d + 1 \in 1 .. ND + 2 /\ d + 1 \in 1 .. 1 + ND /\ d + 1 <= 1 + ND /\ ~ (d + 1 <= 1)
          /\ (d + 1) - 1 = d
      BY <1>1
    <3>2. a[d + 1] = sw[d + 1]
      BY <1>7, <3>1
    <3>3. sw[d + 1] = w[d]
      BY <1>6, <3>1
    <3> QED
      BY <3>2, <3>3
  <2> QED
    BY <2>1, <2>2, <2>3
<1>9. \A k \in 1 .. ND + 2 : a[k] \in Nat
  <2>1. ASSUME NEW k \in 1 .. ND + 2, k # 1, k # ND + 2 PROVE a[k] \in Nat
    <3>1. k - 1 \in 1 .. ND /\ (k - 1) + 1 = k
      BY <1>1, <2>1
    <3>2. a[k] = w[k - 1]
      BY <1>8, <3>1
    <3> QED
      BY <1>1, <3>1, <3>2
  <2> QED
    BY <1>3, <1>8, <2>1
<1>10. Bounds(CumSum(a), a)
  BY <1>7, <1>9, CumSumBounds
<1>11. CumSum(a)[2] = raw[2]
  <2>1. 1 \in 1 .. Len(a) /\ 1 + 1 = 2
    BY <1>1, <1>7
  <2>2. CumSum(a)[1 + 1] = CumSum(a)[1] + a[1] /\ CumSum(a)[1] = 0
    BY <1>10, <2>1 DEF Bounds
  <2> QED
    BY <1>3, <1>8, <2>2
<1>12. ASSUME NEW d \in 1 .. ND PROVE CumSum(a)[d + 2] = CumSum(a)[d + 1] + w[d]
  <2>1. d + 1 \in 1 .. Len(a) /\ (d + 1) + 1 = d + 2
    BY <1>1, <1>7
  <2>2. CumSum(a)[(d + 1) + 1] = CumSum(a)[d + 1] + a[d + 1]
    BY <1>10, <2>1 DEF Bounds
  <2> QED
    BY <1>8, <2>1, <2>2
<1> QED
  BY <1>7, <1>9, <1>10, <1>11, <1>12 DEF a

\* the layout is that of this prompt
Layout == Raw /\ layout = Augmented

LEMMA ForwardFacts ==
    ASSUME DigestAssumption, Layout
    PROVE  /\ layout.forward[1] = 0
           /\ \A d \in 1 .. ND + 1 : layout.forward[d + 1] = raw[2 * d]
           /\ \A t \in Int : \A c \in 1 .. ND + 2 :
                 layout.forward[c] <= t /\ t < layout.forward[c + 1]
                     => ChunkOf(layout.forward, t) = c
<1> DEFINE w == [d \in Docs |-> ForwardLen(d)]
           f == layout.forward
<1>1. ND \in Nat /\ Docs = 1 .. ND /\ Raw
  BY RawFacts DEF Layout
<1>2. w = [d \in Docs |-> w[d]] /\ \A d \in Docs : w[d] = ForwardLen(d) /\ w[d] \in Nat
  BY <1>1, DocFacts
<1>3. f = CumSum(Around(w))
  BY DEF Layout, Augmented
<1> HIDE DEF f, w
<1>4. /\ IsSeq(Around(w)) /\ Len(Around(w)) = ND + 2
      /\ \A k \in 1 .. ND + 2 : Around(w)[k] \in Nat
      /\ Bounds(f, Around(w)) /\ f[2] = raw[2]
      /\ \A d \in 1 .. ND : f[d + 2] = f[d + 1] + w[d]
  BY <1>1, <1>2, <1>3, AroundBounds
<1>5. f[1] = 0
  BY <1>4 DEF Bounds
<1> DEFINE T == {m \in Nat : m <= ND => f[m + 2] = raw[2 * (m + 1)]}
<1>6. 0 \in T
  BY <1>4
<1>7. ASSUME NEW m \in Nat, m \in T PROVE m + 1 \in T
  <2>1. SUFFICES ASSUME m + 1 <= ND PROVE f[m + 3] = raw[2 * (m + 2)]
    OBVIOUS
  <2>2. m + 1 \in 1 .. ND /\ (m + 1) + 2 = m + 3 /\ (m + 1) + 1 = m + 2
    BY <1>1, <2>1
  <2>3. f[m + 2] = raw[2 * (m + 1)]
    BY <1>1, <1>7, <2>1
  <2>4. f[m + 3] = f[m + 2] + ForwardLen(m + 1)
    BY <1>1, <1>2, <1>4, <2>2
  <2>5. ForwardLen(m + 1) = ZipEnd(m + 1) - DocStart(m + 1)
    BY DEF ForwardLen
  <2>6. /\ DocStart(m + 1) = raw[2 * (m + 1)] /\ ZipEnd(m + 1) = raw[2 * (m + 2)]
        /\ DocStart(m + 1) \in Nat /\ ZipEnd(m + 1) \in Nat
    BY <1>1, <2>2, DocFacts
  <2> QED
    BY <2>3, <2>4, <2>5, <2>6
<1>8. \A m \in Nat : m \in T
  <2> HIDE DEF T
  <2> QED
    BY <1>6, <1>7, EveryNumber
<1>9. ASSUME NEW d \in 1 .. ND + 1 PROVE f[d + 1] = raw[2 * d]
  <2>1. d - 1 \in Nat /\ d - 1 <= ND /\ (d - 1) + 2 = d + 1 /\ (d - 1) + 1 = d
    BY <1>1
  <2>2. d - 1 \in T
    BY <1>8, <2>1
  <2> QED
    BY <2>1, <2>2
<1>10. \A t \in Int : \A c \in 1 .. ND + 2 :
           f[c] <= t /\ t < f[c + 1] => ChunkOf(f, t) = c
  BY <1>4, ChunkFacts
<1> QED
  BY <1>5, <1>9, <1>10 DEF f

LEMMA OriginalFacts ==
    ASSUME DigestAssumption, Layout
    PROVE  /\ layout.original[1] = 0 /\ layout.original[2] = raw[2]
           /\ \A d \in 1 .. ND + 1 : layout.original[d + 1] \in Nat
           /\ \A d \in 1 .. ND :
                 layout.original[d + 2] = layout.original[d + 1] + DocLen(d)
           /\ \A a, b \in 1 .. ND + 1 : a <= b => layout.original[a + 1] <= layout.original[b + 1]
           /\ \A t \in Int : \A c \in 1 .. ND + 2 :
                 layout.original[c] <= t /\ t < layout.original[c + 1]
                     => ChunkOf(layout.original, t) = c
<1> DEFINE w == [d \in Docs |-> DocLen(d)]
           o == layout.original
<1>1. ND \in Nat /\ Docs = 1 .. ND /\ Raw
  BY RawFacts DEF Layout
<1>2. w = [d \in Docs |-> w[d]] /\ \A d \in Docs : w[d] = DocLen(d) /\ w[d] \in Nat
  BY <1>1, DocFacts
<1>3. o = CumSum(Around(w))
  BY DEF Layout, Augmented
<1> HIDE DEF o, w
<1>4. /\ IsSeq(Around(w)) /\ Len(Around(w)) = ND + 2
      /\ \A k \in 1 .. ND + 2 : Around(w)[k] \in Nat
      /\ Bounds(o, Around(w)) /\ o[2] = raw[2]
      /\ \A d \in 1 .. ND : o[d + 2] = o[d + 1] + w[d]
  BY <1>1, <1>2, <1>3, AroundBounds
<1>5. o[1] = 0 /\ Len(o) = ND + 3 /\ \A k \in 1 .. ND + 3 : o[k] \in Nat
  <2>1. Len(Around(w)) + 1 = ND + 3
    BY <1>1, <1>4
  <2> QED
    BY <1>4, <2>1 DEF Bounds
<1>6. \A d \in 1 .. ND + 1 : d + 1 \in 1 .. ND + 3
  BY <1>1
<1>7. ASSUME NEW a \in 1 .. ND + 1, NEW b \in 1 .. ND + 1, a <= b PROVE o[a + 1] <= o[b + 1]
  <2>1. a + 1 <= b + 1
    BY <1>7
  <2>2. \A c, e \in 1 .. Len(o) : c <= e => o[c] <= o[e]
    BY <1>4, BoundsRise
  <2> QED
    BY <1>5, <1>6, <2>1, <2>2
<1>8. \A t \in Int : \A c \in 1 .. ND + 2 :
           o[c] <= t /\ t < o[c + 1] => ChunkOf(o, t) = c
  BY <1>4, ChunkFacts
<1> QED
  BY <1>1, <1>2, <1>4, <1>5, <1>6, <1>7, <1>8 DEF o

LEMMA KeepFacts ==
    ASSUME DigestAssumption, Layout
    PROVE  /\ \A p \in 1 .. raw[2] : layout.keep[p] = p - 1
           /\ \A d \in 1 .. ND : \A u \in 0 .. DocLen(d) - 1 :
                 layout.keep[layout.original[d + 1] + u + 1] = DocStart(d) + u
<1> DEFINE A == RangeSeq(raw[1], raw[2])
           parts == [d \in Docs |-> RangeSeq(DocStart(d), KeptEnd(d))]
           F == FlattenSeq(parts)
           B == RangeSeq(QueryStart, QueryEnd)
           o == layout.original
<1>1. ND \in Nat /\ ND >= 1 /\ Docs = 1 .. ND /\ Raw /\ raw[1] = 0
  BY RawFacts DEF Layout
<1>2. layout.keep = (A \o F) \o B
  BY DEF Layout, Augmented
<1>3. raw[2] \in Nat /\ QueryStart \in Nat /\ QueryEnd \in Nat /\ QueryStart <= QueryEnd
  <2>1. /\ \A k \in 1 .. 2 * ND + 3 : raw[k] \in Nat
        /\ \A a, b \in 1 .. 2 * ND + 3 : a <= b => raw[a] <= raw[b]
    BY <1>1, RawFacts
  <2>2. /\ 2 \in 1 .. 2 * ND + 3 /\ 2 * ND + 2 \in 1 .. 2 * ND + 3 /\ 2 * ND + 3 \in 1 .. 2 * ND + 3
        /\ 2 * ND + 2 <= 2 * ND + 3 /\ 1 \in 1 .. ND
    BY <1>1
  <2>3. QueryStart = raw[2 * ND + 2] /\ QueryEnd = raw[2 * ND + 3]
    BY <1>1, <2>2, DocFacts
  <2> QED
    BY <2>1, <2>2, <2>3
<1>4. /\ IsSeq(A) /\ Len(A) = raw[2] /\ \A k \in 1 .. raw[2] : A[k] = k - 1
  <2>1. raw[1] \in Int /\ raw[2] \in Int /\ raw[1] <= raw[2]
    BY <1>1, <1>3
  <2> HIDE DEF A
  <2>2. /\ IsSeq(A) /\ Len(A) = raw[2] - raw[1]
        /\ \A k \in 1 .. raw[2] - raw[1] : A[k] = raw[1] + k - 1
    BY <2>1, RangeSeqFacts DEF A
  <2> QED
    BY <1>1, <1>3, <2>2
<1>5. IsSeq(B)
  BY <1>3, RangeSeqFacts
<1>6. parts = [d \in 1 .. ND |-> parts[d]]
  BY <1>1
<1>7. ASSUME NEW d \in 1 .. ND
      PROVE  /\ IsSeq(parts[d]) /\ Len(parts[d]) = DocLen(d) /\ DocLen(d) \in Nat
             /\ \A k \in 1 .. DocLen(d) : parts[d][k] = DocStart(d) + k - 1
  <2> DEFINE p == parts[d]
             a == DocStart(d)
             b == DocEnd(d)
  <2>1. p = RangeSeq(a, b)
    BY <1>1 DEF KeptEnd
  <2>2. DocLen(d) = b - a
    BY DEF DocLen
  <2>3. a \in Nat /\ b \in Nat /\ a <= b /\ DocLen(d) \in Nat
    BY <1>1, DocFacts
  <2> HIDE DEF a, b, p
  <2>5. a \in Int /\ b \in Int
    BY <2>3
  <2>6. /\ IsSeq(RangeSeq(a, b)) /\ Len(RangeSeq(a, b)) = b - a
        /\ \A k \in 1 .. b - a : RangeSeq(a, b)[k] = a + k - 1
    BY <2>3, <2>5, RangeSeqFacts
  <2>4. IsSeq(p) /\ Len(p) = b - a /\ \A k \in 1 .. b - a : p[k] = a + k - 1
    BY <2>1, <2>6
  <2> QED
    BY <2>2, <2>3, <2>4 DEF a, p
<1> HIDE DEF A, B, parts
<1>8. PICK off : Laid(F, parts, ND, off)
  BY <1>1, <1>6, <1>7, FlattenFacts
<1> HIDE DEF F
<1>9. IsSeq(F) /\ Len(F) \in Nat
  BY <1>8, SeqFacts DEF Laid
<1> DEFINE C == A \o F
<1>10. /\ IsSeq(C) /\ Len(C) = raw[2] + Len(F)
       /\ \A k \in 1 .. raw[2] + Len(F) : C[k] = IF k <= raw[2] THEN A[k] ELSE F[k - raw[2]]
  <2>1. /\ IsSeq(A \o F) /\ Len(A \o F) = Len(A) + Len(F)
        /\ \A k \in 1 .. Len(A) + Len(F) :
              (A \o F)[k] = IF k <= Len(A) THEN A[k] ELSE F[k - Len(A)]
    BY <1>4, <1>9, ConcatIsSeq
  <2> QED
    BY <1>4, <2>1
<1> HIDE DEF C
<1>11. \A k \in 1 .. Len(C) : layout.keep[k] = C[k]
  <2>1. Len(C) \in Nat /\ Len(B) \in Nat
    BY <1>5, <1>10, SeqFacts
  <2>2. \A k \in 1 .. Len(C) + Len(B) :
           (C \o B)[k] = IF k <= Len(C) THEN C[k] ELSE B[k - Len(C)]
    BY <1>5, <1>10, ConcatIsSeq
  <2>3. \A k \in 1 .. Len(C) : (C \o B)[k] = C[k]
    BY <2>1, <2>2
  <2>4. layout.keep = C \o B
    BY <1>2 DEF C
  <2> QED
    BY <2>3, <2>4
<1>12. ASSUME NEW p \in 1 .. raw[2] PROVE layout.keep[p] = p - 1
  <2>1. p \in 1 .. raw[2] + Len(F) /\ p <= raw[2]
    BY <1>3, <1>9
  <2>2. C[p] = A[p]
    BY <1>10, <2>1
  <2> QED
    BY <1>4, <1>10, <1>11, <2>1, <2>2
<1>13. o[2] = raw[2] /\ \A d \in 1 .. ND : o[d + 2] = o[d + 1] + DocLen(d)
  BY OriginalFacts
<1> HIDE DEF o
<1>14. \A m \in Nat : m <= ND => o[m + 2] = raw[2] + off[m]
  <2> DEFINE T == {m \in Nat : m <= ND => o[m + 2] = raw[2] + off[m]}
  <2>1. 0 \in T
    BY <1>3, <1>8, <1>13 DEF Laid
  <2>2. ASSUME NEW m \in Nat, m \in T PROVE m + 1 \in T
    <3>1. SUFFICES ASSUME m + 1 <= ND PROVE o[m + 3] = raw[2] + off[m + 1]
      OBVIOUS
    <3>2. m + 1 \in 1 .. ND /\ m + 1 \in 0 .. ND /\ m \in 0 .. ND /\ (m + 1) - 1 = m /\ (m + 1) + 2 = m + 3
          /\ (m + 1) + 1 = m + 2
      BY <1>1, <3>1
    <3>3. o[m + 2] = raw[2] + off[m]
      BY <1>1, <2>2, <3>1
    <3>4. off[m + 1] = off[m] + DocLen(m + 1) /\ off[m] \in Nat /\ DocLen(m + 1) \in Nat
      BY <1>7, <1>8, <3>2 DEF Laid
    <3>5. o[m + 3] = o[m + 2] + DocLen(m + 1)
      BY <1>13, <3>2
    <3> QED
      BY <1>3, <3>3, <3>4, <3>5
  <2> HIDE DEF T
  <2>3. \A m \in Nat : m \in T
    BY <2>1, <2>2, EveryNumber
  <2> QED
    BY <2>3 DEF T
<1>15. ASSUME NEW d \in 1 .. ND, NEW u \in 0 .. DocLen(d) - 1
       PROVE  layout.keep[o[d + 1] + u + 1] = DocStart(d) + u
  <2>1. d - 1 \in Nat /\ d - 1 <= ND /\ (d - 1) + 2 = d + 1 /\ d - 1 \in 0 .. ND /\ d \in 0 .. ND /\ ND \in 0 .. ND /\ d <= ND
    BY <1>1
  <2>2. o[d + 1] = raw[2] + off[d - 1]
    BY <1>14, <2>1
  <2>3. /\ off[d - 1] \in Nat /\ off[d] = off[d - 1] + DocLen(d) /\ DocLen(d) \in Nat
        /\ off[d] \in Nat /\ off[ND] \in Nat /\ Len(F) = off[ND]
    BY <1>7, <1>8, <2>1 DEF Laid
  <2>4. off[d] <= off[ND]
    <3>1. \A e \in 1 .. ND : Len(parts[e]) \in Nat
      BY <1>7
    <3> QED
      BY <1>1, <1>8, <2>1, <3>1, LaidFacts
  <2> DEFINE b == off[d - 1] + (u + 1)
  <2>5. u + 1 \in 1 .. DocLen(d) /\ (u + 1) - 1 = u /\ u \in Nat
    BY <2>3
  <2>6. F[b] = DocStart(d) + u
    <3>1. F[off[d - 1] + (u + 1)] = parts[d][u + 1]
      BY <1>7, <1>8, <2>5 DEF Laid
    <3>2. parts[d][u + 1] = DocStart(d) + (u + 1) - 1
      BY <1>7, <2>5
    <3>3. DocStart(d) \in Nat
      BY <1>1, DocFacts
    <3> QED
      BY <2>5, <3>1, <3>2, <3>3
  <2>7. b \in 1 .. Len(F) /\ o[d + 1] + u + 1 = raw[2] + b
    <3> DEFINE x == off[d - 1]
               l == DocLen(d)
               y == off[d]
               z == Len(F)
    <3>1. /\ x \in Nat /\ l \in Nat /\ y = x + l /\ y <= z /\ z \in Nat
          /\ u \in Nat /\ u + 1 \in 1 .. l /\ o[d + 1] = raw[2] + x /\ b = x + (u + 1)
      BY <1>9, <2>2, <2>3, <2>4, <2>5
    <3> HIDE DEF x, l, y, z, b
    <3> QED
      BY <1>3, <3>1 DEF z
  <2> HIDE DEF b
  <2>8. raw[2] + b \in 1 .. raw[2] + Len(F) /\ ~ (raw[2] + b <= raw[2]) /\ (raw[2] + b) - raw[2] = b
    BY <1>3, <1>9, <2>7
  <2>9. C[raw[2] + b] = F[b]
    BY <1>10, <2>8
  <2>10. layout.keep[raw[2] + b] = C[raw[2] + b]
    BY <1>10, <1>11, <2>8
  <2> QED
    BY <2>6, <2>7, <2>9, <2>10
<1> QED
  BY <1>12, <1>15 DEF o

-----------------------------------------------------------------------------
(* The tokens of a document that are kept.                                  *)

LEMMA TimesBounds ==
    ASSUME NEW n \in Nat, NEW r \in Int
    PROVE  (r <= 0 => n * r <= 0) /\ (r >= 4 => 4 * n <= n * r)
<1> DEFINE T == {m \in Nat : (r <= 0 => m * r <= 0) /\ (r >= 4 => 4 * m <= m * r)}
<1>1. 0 \in T
  OBVIOUS
<1>2. ASSUME NEW m \in Nat, m \in T PROVE m + 1 \in T
  <2>1. (m + 1) * r = m * r + r /\ m * r \in Int
    OBVIOUS
  <2> QED
    BY <1>2, <2>1
<1> HIDE DEF T
<1>3. n \in T
  BY <1>1, <1>2, EveryNumber
<1> QED
  BY <1>3 DEF T

\* The budget is the least number that is no less than ratio * n, up to n.
LEMMA BudgetFacts ==
    ASSUME NEW n \in Nat, ratio \in Int
    PROVE  /\ Budget(n) \in 0 .. n
           /\ 4 * Budget(n) >= n * ratio \/ Budget(n) = n
           /\ Budget(n) > 0 => 4 * (Budget(n) - 1) < n * ratio
<1>1. CASE ratio <= 0
  <2>1. Budget(n) = 0
    BY <1>1 DEF Budget
  <2>2. n * ratio <= 0
    BY <1>1, TimesBounds
  <2> QED
    BY <2>1, <2>2
<1>2. CASE ratio >= 4
  <2>1. Budget(n) = (n * 4 + 3) \div 4
    BY <1>2 DEF Budget
  <2>2. Budget(n) = n
    BY <2>1
  <2>3. 4 * n <= n * ratio /\ n * ratio \in Int
    BY <1>2, TimesBounds
  <2> QED
    BY <2>2, <2>3
<1>3. CASE ratio = 1
  BY <1>3 DEF Budget
<1>4. CASE ratio = 2
  BY <1>4 DEF Budget
<1>5. CASE ratio = 3
  BY <1>5 DEF Budget
<1> QED
  BY <1>1, <1>2, <1>3, <1>4, <1>5

\* the first b of a ranking
Best(r, b) == {r[a] : a \in 1 .. b}

\* A ranking lists every token of the document once.
LEMMA RankingFacts ==
    ASSUME NEW n \in Nat, NEW sc, NEW r \in Rankings(n, sc)
    PROVE  /\ \A a \in 1 .. n : r[a] \in 0 .. n - 1
           /\ \A a, b \in 1 .. n : r[a] = r[b] => a = b
           /\ \A t \in 0 .. n - 1 : \E a \in 1 .. n : r[a] = t
           /\ \A b \in 0 .. n : IsFiniteSet(Best(r, b)) /\ Cardinality(Best(r, b)) = b
<1>1. r \in [1 .. n -> 0 .. n - 1] /\ \A a, b \in 1 .. n : r[a] = r[b] => a = b
  BY DEF Rankings
<1>2. /\ IsFiniteSet(1 .. n) /\ Cardinality(1 .. n) = n
      /\ IsFiniteSet(0 .. n - 1) /\ Cardinality(0 .. n - 1) = n
  <2>1. n \in Int /\ n - 1 \in Int /\ 0 \in Int /\ 1 \in Int
    OBVIOUS
  <2>2. /\ IsFiniteSet(1 .. n) /\ Cardinality(1 .. n) = IF 1 > n THEN 0 ELSE n - 1 + 1
    BY <2>1, FS_Interval
  <2>3. /\ IsFiniteSet(0 .. n - 1)
        /\ Cardinality(0 .. n - 1) = IF 0 > n - 1 THEN 0 ELSE (n - 1) - 0 + 1
    BY <2>1, FS_Interval
  <2> QED
    BY <2>2, <2>3
<1>3. r \in Injection(1 .. n, 0 .. n - 1)
  BY <1>1 DEF Injection, IsInjective
<1>4. r \in Surjection(1 .. n, 0 .. n - 1)
  BY <1>2, <1>3, FS_Injection
<1>5. ASSUME NEW b \in 0 .. n
      PROVE  IsFiniteSet(Best(r, b)) /\ Cardinality(Best(r, b)) = b
  <2> DEFINE S == {r[a] : a \in 1 .. b}
             g == [a \in 1 .. b |-> r[a]]
  <2>1. g \in Surjection(1 .. b, S)
    BY DEF Surjection
  <2>2. g \in Injection(1 .. b, S)
    <3>1. \A a \in 1 .. b : a \in 1 .. n
      OBVIOUS
    <3> QED
      BY <1>1, <3>1 DEF Injection, IsInjective
  <2>3. IsFiniteSet(1 .. b) /\ Cardinality(1 .. b) = b
    BY FS_Interval
  <2> HIDE DEF S, g
  <2>4. IsFiniteSet(S) /\ Cardinality(S) = Cardinality(1 .. b)
    BY <2>1, <2>2, <2>3, FS_Surjection
  <2> QED
    BY <2>3, <2>4 DEF S, Best
<1>6. \A t \in 0 .. n - 1 : \E a \in 1 .. n : r[a] = t
  BY <1>4 DEF Surjection
<1> QED
  BY <1>1, <1>5, <1>6

\* each document has a ranking of its scores
Ranked ==
    /\ nSink \in Int /\ ratio \in Int
    /\ \A d \in Docs : ranked[d] \in Rankings(DocLen(d), score[d])

\* the tokens of document d in the digest
Chosen(d) == Best(ranked[d], Budget(DocLen(d)))

LEMMA ChosenFacts ==
    ASSUME DigestAssumption, Raw, Ranked, NEW d \in 1 .. ND
    PROVE  /\ Chosen(d) \subseteq 0 .. DocLen(d) - 1
           /\ IsFiniteSet(Chosen(d)) /\ Cardinality(Chosen(d)) = Budget(DocLen(d))
<1> DEFINE n == DocLen(d)
           r == ranked[d]
           b == Budget(n)
<1>1. n \in Nat /\ b \in 0 .. n
  <2>1. n \in Nat /\ ratio \in Int
    BY DocFacts DEF Ranked
  <2> HIDE DEF n
  <2> QED
    BY <2>1, BudgetFacts
<1>2. r \in Rankings(n, score[d])
  BY RawFacts DEF Ranked
<1>3. Chosen(d) = Best(r, b)
  BY DEF Chosen
<1> HIDE DEF n, r, b
<1>4. /\ \A a \in 1 .. n : r[a] \in 0 .. n - 1
      /\ IsFiniteSet(Best(r, b)) /\ Cardinality(Best(r, b)) = b
  BY <1>1, <1>2, RankingFacts
<1>5. \A a \in 1 .. b : a \in 1 .. n
  BY <1>1
<1>6. Best(r, b) \subseteq 0 .. n - 1
  BY <1>4, <1>5 DEF Best
<1> QED
  BY <1>3, <1>4, <1>6 DEF n, b

LEMMA KeptFacts ==
    ASSUME DigestAssumption, Layout, Ranked, NEW d \in 1 .. ND
    PROVE  /\ IsSeq(KeptOf(d)) /\ Len(KeptOf(d)) \in Nat
           /\ \A k \in 1 .. Len(KeptOf(d)) : \E u \in Chosen(d) :
                 KeptOf(d)[k] = layout.original[d + 1] + u
           /\ \A u \in Chosen(d) : \E k \in 1 .. Len(KeptOf(d)) :
                 KeptOf(d)[k] = layout.original[d + 1] + u
           /\ \A j, k \in 1 .. Len(KeptOf(d)) : j < k => KeptOf(d)[j] < KeptOf(d)[k]
<1> DEFINE o == layout.original[d + 1]
           S == {layout.original[d + 1] + ranked[d][a] : a \in 1 .. Budget(DocLen(d))}
<1>1. Raw /\ ND \in Nat
  BY RawFacts DEF Layout
<1>2. o \in Nat
  <2>1. d \in 1 .. ND + 1
    BY <1>1
  <2> QED
    BY <2>1, OriginalFacts
<1>3. Chosen(d) \subseteq 0 .. DocLen(d) - 1 /\ IsFiniteSet(Chosen(d)) /\ DocLen(d) \in Nat
  BY <1>1, ChosenFacts, DocFacts
<1>4. S = {o + u : u \in Chosen(d)}
  BY DEF Chosen, Best
<1>5. KeptOf(d) = Sorted(S)
  BY DEF KeptOf
<1> HIDE DEF o, S
<1>6. S \subseteq Int
  BY <1>2, <1>3, <1>4
<1>7. IsFiniteSet(S)
  <2> DEFINE C == Chosen(d)
             f == [u \in C |-> o + u]
  <2>1. f \in Surjection(C, S)
    BY <1>4 DEF Surjection
  <2>2. IsFiniteSet(C)
    BY <1>3
  <2> HIDE DEF C, f
  <2> QED
    BY <2>1, <2>2, FS_Surjection
<1> DEFINE s == Sorted(S)
<1>8. /\ IsSeq(s) /\ Len(s) = Cardinality(S) /\ Cardinality(S) \in Nat
      /\ \A k \in 1 .. Cardinality(S) : s[k] \in S
      /\ \A j, k \in 1 .. Cardinality(S) : j < k => s[j] < s[k]
      /\ \A x \in S : \E k \in 1 .. Cardinality(S) : s[k] = x
  BY <1>6, <1>7, SortedFacts
<1>9. KeptOf(d) = s
  BY <1>5
<1> HIDE DEF s
<1>10. \A k \in 1 .. Len(s) : \E u \in Chosen(d) : s[k] = o + u
  BY <1>4, <1>8
<1>11. \A u \in Chosen(d) : \E k \in 1 .. Len(s) : s[k] = o + u
  BY <1>4, <1>8
<1> QED
  BY <1>8, <1>9, <1>10, <1>11 DEF o

-----------------------------------------------------------------------------
(* The positions of the digest and their rows.                              *)

\* position p and row r are one token of the system prompt or of what is kept
Placed(p, r) ==
    \/ p \in 0 .. raw[2] - 1 /\ r = p
    \/ \E d \in 1 .. ND : \E u \in Chosen(d) :
          p = layout.original[d + 1] + u /\ r = DocStart(d) + u

LEMMA PositionFacts ==
    ASSUME DigestAssumption, Layout, Ranked
    PROVE  /\ IsSeq(ContextPositions) /\ Len(ContextPositions) \in Nat
           /\ \A k \in 1 .. Len(ContextPositions) :
                 /\ ContextPositions[k] \in Nat
                 /\ Placed(ContextPositions[k], layout.keep[ContextPositions[k] + 1])
           /\ \A j, k \in 1 .. Len(ContextPositions) :
                 j < k => ContextPositions[j] < ContextPositions[k]
           /\ \A d \in 1 .. ND : \A u \in Chosen(d) : \E k \in 1 .. Len(ContextPositions) :
                 ContextPositions[k] = layout.original[d + 1] + u
<1> DEFINE o == layout.original
           A == RangeSeq(o[1], o[2])
           parts == [d \in Docs |-> KeptOf(d)]
           F == FlattenSeq(parts)
           P == ContextPositions
<1>1. ND \in Nat /\ Docs = 1 .. ND /\ Raw
  BY RawFacts DEF Layout
<1>2. P = A \o F
  BY DEF ContextPositions
<1>3. /\ o[1] = 0 /\ o[2] = raw[2]
      /\ \A d \in 1 .. ND + 1 : o[d + 1] \in Nat
      /\ \A d \in 1 .. ND : o[d + 2] = o[d + 1] + DocLen(d)
      /\ \A a, b \in 1 .. ND + 1 : a <= b => o[a + 1] <= o[b + 1]
  BY OriginalFacts
<1>4. raw[2] \in Nat
  <2>1. 1 \in 1 .. ND + 1 /\ 1 + 1 = 2
    BY <1>1
  <2> QED
    BY <1>3, <2>1
<1>5. IsSeq(A) /\ Len(A) = raw[2] /\ \A k \in 1 .. raw[2] : A[k] = k - 1
  <2>1. o[1] \in Int /\ o[2] \in Int /\ o[1] <= o[2]
    BY <1>3, <1>4
  <2> HIDE DEF A, o
  <2>2. /\ IsSeq(A) /\ Len(A) = o[2] - o[1] /\ \A k \in 1 .. o[2] - o[1] : A[k] = o[1] + k - 1
    BY <2>1, RangeSeqFacts DEF A
  <2> QED
    BY <1>3, <1>4, <2>2
<1>6. parts = [d \in 1 .. ND |-> parts[d]] /\ \A d \in 1 .. ND : parts[d] = KeptOf(d)
  BY <1>1
<1> HIDE DEF parts
<1>7. ASSUME NEW d \in 1 .. ND
      PROVE  /\ IsSeq(parts[d]) /\ Len(parts[d]) \in Nat
             /\ \A k \in 1 .. Len(parts[d]) : \E u \in Chosen(d) : parts[d][k] = o[d + 1] + u
             /\ \A u \in Chosen(d) : \E k \in 1 .. Len(parts[d]) : parts[d][k] = o[d + 1] + u
             /\ \A j, k \in 1 .. Len(parts[d]) : j < k => parts[d][j] < parts[d][k]
  <2> DEFINE s == KeptOf(d)
  <2>1. parts[d] = s
    BY <1>6
  <2>2. /\ IsSeq(s) /\ Len(s) \in Nat
        /\ \A k \in 1 .. Len(s) : \E u \in Chosen(d) : s[k] = o[d + 1] + u
        /\ \A u \in Chosen(d) : \E k \in 1 .. Len(s) : s[k] = o[d + 1] + u
        /\ \A j, k \in 1 .. Len(s) : j < k => s[j] < s[k]
    BY KeptFacts
  <2> HIDE DEF s, o
  <2> QED
    BY <2>1, <2>2
<1>8. PICK off : Laid(F, parts, ND, off)
  BY <1>1, <1>6, <1>7, FlattenFacts
<1> HIDE DEF F, A
<1>9. /\ IsSeq(F) /\ Len(F) \in Nat
      /\ \A k \in 1 .. Len(F) : \E d \in 1 .. ND : \E t \in 1 .. Len(parts[d]) :
            k = off[d - 1] + t /\ F[k] = parts[d][t]
      /\ \A d, e \in 0 .. ND : d <= e => off[d] <= off[e]
  <2>1. \A d \in 1 .. ND : Len(parts[d]) \in Nat
    BY <1>7
  <2>2. IsSeq(F)
    BY <1>8 DEF Laid
  <2> DEFINE m == ND
  <2>5. m \in Nat /\ Laid(F, parts, m, off) /\ \A d \in 1 .. m : Len(parts[d]) \in Nat
    BY <1>1, <1>8, <2>1
  <2> HIDE DEF m
  <2>3. \A d, e \in 0 .. m : d <= e => off[d] <= off[e]
    BY <2>5, LaidFacts
  <2>6. \A k \in 1 .. Len(F) : \E d \in 1 .. m : \E t \in 1 .. Len(parts[d]) :
            k = off[d - 1] + t /\ F[k] = parts[d][t]
    BY <2>5, LaidFacts
  <2>4. Len(F) \in Nat
    BY <2>2, SeqFacts
  <2> QED
    BY <2>2, <2>3, <2>4, <2>6 DEF m
<1>10. /\ IsSeq(P) /\ Len(P) = raw[2] + Len(F)
       /\ \A k \in 1 .. raw[2] + Len(F) : P[k] = IF k <= raw[2] THEN A[k] ELSE F[k - raw[2]]
  <2>1. /\ IsSeq(A \o F) /\ Len(A \o F) = Len(A) + Len(F)
        /\ \A k \in 1 .. Len(A) + Len(F) :
              (A \o F)[k] = IF k <= Len(A) THEN A[k] ELSE F[k - Len(A)]
    BY <1>5, <1>9, ConcatIsSeq
  <2> QED
    BY <1>2, <1>5, <2>1
<1> HIDE DEF P
<1>11. \A k \in 1 .. raw[2] : k \in 1 .. Len(P) /\ P[k] = k - 1
  <2>1. ASSUME NEW k \in 1 .. raw[2] PROVE k \in 1 .. Len(P) /\ P[k] = k - 1
    <3>1. k \in 1 .. raw[2] + Len(F) /\ k <= raw[2]
      BY <1>4, <1>9
    <3>2. P[k] = A[k]
      BY <1>10, <3>1
    <3> QED
      BY <1>5, <1>10, <3>1, <3>2
  <2> QED
    BY <2>1
<1>12. \A m \in 1 .. Len(F) : raw[2] + m \in 1 .. Len(P) /\ P[raw[2] + m] = F[m]
  <2>1. ASSUME NEW m \in 1 .. Len(F) PROVE raw[2] + m \in 1 .. Len(P) /\ P[raw[2] + m] = F[m]
    <3>1. raw[2] + m \in 1 .. raw[2] + Len(F) /\ ~ (raw[2] + m <= raw[2])
          /\ (raw[2] + m) - raw[2] = m
      BY <1>4, <1>9
    <3>2. P[raw[2] + m] = F[(raw[2] + m) - raw[2]]
      BY <1>10, <3>1
    <3> QED
      BY <1>10, <3>1, <3>2
  <2> QED
    BY <2>1
<1>13. \A k \in 1 .. Len(P) : k \in 1 .. raw[2] \/ \E m \in 1 .. Len(F) : k = raw[2] + m
  <2>1. ASSUME NEW k \in 1 .. Len(P), k \notin 1 .. raw[2]
        PROVE  \E m \in 1 .. Len(F) : k = raw[2] + m
    <3>1. k - raw[2] \in 1 .. Len(F) /\ k = raw[2] + (k - raw[2])
      BY <1>4, <1>9, <1>10, <2>1
    <3> QED
      BY <3>1
  <2> QED
    BY <2>1
<1>14. ASSUME NEW d \in 1 .. ND, NEW u \in Chosen(d)
       PROVE  /\ u \in 0 .. DocLen(d) - 1 /\ DocLen(d) \in Nat /\ o[d + 1] \in Nat /\ o[d + 2] = o[d + 1] + DocLen(d)
              /\ o[d + 1] + u \in Nat /\ raw[2] <= o[d + 1] + u
              /\ layout.keep[o[d + 1] + u + 1] = DocStart(d) + u
  <2>1. Chosen(d) \subseteq 0 .. DocLen(d) - 1 /\ DocLen(d) \in Nat
    BY <1>1, ChosenFacts, DocFacts
  <2>2. u \in 0 .. DocLen(d) - 1 /\ u \in Nat
    BY <2>1
  <2>3. d \in 1 .. ND + 1 /\ 1 \in 1 .. ND + 1 /\ 1 <= d /\ 1 + 1 = 2
    BY <1>1
  <2>4. o[d + 1] \in Nat /\ o[1 + 1] <= o[d + 1]
    BY <1>3, <2>3
  <2>5. o[d + 1] + u \in Nat /\ raw[2] <= o[d + 1] + u
    BY <1>3, <1>4, <2>2, <2>3, <2>4
  <2> QED
    BY <1>3, <2>1, <2>2, <2>4, <2>5, KeepFacts
<1> HIDE DEF o
<1>15. ASSUME NEW m \in 1 .. Len(F)
       PROVE  \E d \in 1 .. ND : \E t \in 1 .. Len(parts[d]) : \E u \in Chosen(d) :
                 m = off[d - 1] + t /\ F[m] = parts[d][t] /\ F[m] = o[d + 1] + u
  <2>1. PICK d \in 1 .. ND : \E t \in 1 .. Len(parts[d]) :
            m = off[d - 1] + t /\ F[m] = parts[d][t]
    BY <1>9
  <2>2. PICK t \in 1 .. Len(parts[d]) : m = off[d - 1] + t /\ F[m] = parts[d][t]
    BY <2>1
  <2>3. PICK u \in Chosen(d) : parts[d][t] = o[d + 1] + u
    BY <1>7
  <2> QED
    BY <2>2, <2>3
<1>16. ASSUME NEW k \in 1 .. Len(P) PROVE P[k] \in Nat /\ Placed(P[k], layout.keep[P[k] + 1])
  <2>1. CASE k \in 1 .. raw[2]
    <3>1. P[k] = k - 1 /\ k - 1 \in 0 .. raw[2] - 1 /\ k - 1 \in Nat /\ (k - 1) + 1 = k
      BY <1>4, <1>11, <2>1
    <3>2. layout.keep[k] = k - 1
      BY <2>1, KeepFacts
    <3> QED
      BY <3>1, <3>2 DEF Placed
  <2>2. CASE k \notin 1 .. raw[2]
    <3>1. PICK m \in 1 .. Len(F) : k = raw[2] + m
      BY <1>13, <2>2
    <3>2. P[k] = F[m]
      BY <1>12, <3>1
    <3>6. PICK d \in 1 .. ND : \E u \in Chosen(d) : F[m] = o[d + 1] + u
      BY <1>15
    <3>3. PICK u \in Chosen(d) : F[m] = o[d + 1] + u
      BY <3>6
    <3>4. /\ P[k] = o[d + 1] + u /\ P[k] \in Nat
          /\ layout.keep[o[d + 1] + u + 1] = DocStart(d) + u
      BY <1>14, <3>2, <3>3
    <3>5. layout.keep[P[k] + 1] = DocStart(d) + u
      BY <3>4
    <3> QED
      BY <3>4, <3>5 DEF Placed, o
  <2> QED
    BY <2>1, <2>2
<1>17. ASSUME NEW m \in 1 .. Len(F), NEW l \in 1 .. Len(F), m < l PROVE F[m] < F[l]
  <2>8. PICK d \in 1 .. ND : \E t \in 1 .. Len(parts[d]) : \E u \in Chosen(d) :
            m = off[d - 1] + t /\ F[m] = parts[d][t] /\ F[m] = o[d + 1] + u
    BY <1>15
  <2>1. PICK t \in 1 .. Len(parts[d]) : \E u \in Chosen(d) :
            m = off[d - 1] + t /\ F[m] = parts[d][t] /\ F[m] = o[d + 1] + u
    BY <2>8
  <2>9. PICK u \in Chosen(d) : F[m] = o[d + 1] + u
    BY <2>1
  <2>10. PICK e \in 1 .. ND : \E x \in 1 .. Len(parts[e]) : \E v \in Chosen(e) :
            l = off[e - 1] + x /\ F[l] = parts[e][x] /\ F[l] = o[e + 1] + v
    BY <1>15
  <2>2. PICK x \in 1 .. Len(parts[e]) : \E v \in Chosen(e) :
            l = off[e - 1] + x /\ F[l] = parts[e][x] /\ F[l] = o[e + 1] + v
    BY <2>10
  <2>11. PICK v \in Chosen(e) : F[l] = o[e + 1] + v
    BY <2>2
  <2>3. /\ d - 1 \in 0 .. ND /\ e - 1 \in 0 .. ND /\ d \in 0 .. ND /\ e \in 0 .. ND
    BY <1>1
  <2>4. /\ off[d - 1] \in Nat /\ off[e - 1] \in Nat /\ Len(parts[d]) \in Nat
        /\ off[e] = off[e - 1] + Len(parts[e]) /\ Len(parts[e]) \in Nat /\ off[e] \in Nat
    BY <1>7, <1>8, <2>3 DEF Laid
  <2>5. CASE d = e
    <3>1. t < x
      BY <1>17, <2>1, <2>2, <2>4, <2>5
    <3> QED
      BY <1>7, <2>1, <2>2, <2>5, <3>1
  <2>6. CASE d < e
    <3>1. d + 1 \in 1 .. ND + 1 /\ e \in 1 .. ND + 1 /\ d + 1 <= e /\ (d + 1) + 1 = d + 2
      BY <1>1, <2>6
    <3>2. o[(d + 1) + 1] <= o[e + 1]
      BY <1>3, <3>1
    <3>3. o[d + 2] <= o[e + 1]
      BY <3>1, <3>2
    <3> DEFINE a == o[d + 1]
               b == o[e + 1]
               n == DocLen(d)
    <3>5. /\ u \in 0 .. n - 1 /\ n \in Nat /\ a \in Nat /\ o[d + 2] = a + n
      BY <1>14
    <3>6. /\ v \in 0 .. DocLen(e) - 1 /\ b \in Nat
      BY <1>14
    <3>4. /\ u \in 0 .. n - 1 /\ n \in Nat /\ a \in Nat /\ b \in Nat /\ a + n <= b
          /\ v \in Nat /\ F[m] = a + u /\ F[l] = b + v
      BY <2>9, <2>11, <3>3, <3>5, <3>6
    <3> HIDE DEF a, b, n
    <3> QED
      BY <3>4
  <2>7. CASE e < d
    <3>1. e <= d - 1
      BY <2>7
    <3>2. off[e] <= off[d - 1]
      BY <1>9, <2>3, <3>1
    <3> DEFINE a == off[d - 1]
               b == off[e - 1]
               n == Len(parts[e])
    <3>3. /\ x \in 1 .. n /\ n \in Nat /\ a \in Nat /\ b \in Nat /\ b + n <= a
          /\ m = a + t /\ l = b + x /\ t >= 1 /\ t \in Int
      BY <2>1, <2>2, <2>4, <3>2
    <3> HIDE DEF a, b, n
    <3> QED
      BY <1>17, <3>3
  <2> QED
    BY <2>5, <2>6, <2>7
<1>18. ASSUME NEW j \in 1 .. Len(P), NEW k \in 1 .. Len(P), j < k PROVE P[j] < P[k]
  <2>1. CASE k \in 1 .. raw[2]
    <3>1. j \in 1 .. raw[2]
      BY <1>4, <1>18, <2>1
    <3>2. P[j] = j - 1 /\ P[k] = k - 1
      BY <1>11, <2>1, <3>1
    <3> QED
      BY <1>18, <3>2
  <2>2. CASE k \notin 1 .. raw[2]
    <3>1. PICK l \in 1 .. Len(F) : k = raw[2] + l
      BY <1>13, <2>2
    <3>2. P[k] = F[l]
      BY <1>12, <3>1
    <3>3. CASE j \in 1 .. raw[2]
      <4>4. PICK d \in 1 .. ND : \E u \in Chosen(d) : F[l] = o[d + 1] + u
        BY <1>15
      <4>1. PICK u \in Chosen(d) : F[l] = o[d + 1] + u
        BY <4>4
      <4>2. raw[2] <= o[d + 1] + u /\ o[d + 1] + u \in Nat
        BY <1>14
      <4>3. P[j] = j - 1
        BY <1>11, <3>3
      <4> QED
        BY <1>4, <3>2, <3>3, <4>1, <4>2, <4>3
    <3>4. CASE j \notin 1 .. raw[2]
      <4>1. PICK m \in 1 .. Len(F) : j = raw[2] + m
        BY <1>13, <3>4
      <4>2. m < l
        BY <1>4, <1>18, <3>1, <4>1
      <4> QED
        BY <1>12, <1>17, <3>2, <4>1, <4>2
    <3> QED
      BY <3>3, <3>4
  <2> QED
    BY <2>1, <2>2
<1>19. ASSUME NEW d \in 1 .. ND, NEW u \in Chosen(d)
       PROVE  \E k \in 1 .. Len(P) : P[k] = o[d + 1] + u
  <2>1. PICK t \in 1 .. Len(parts[d]) : parts[d][t] = o[d + 1] + u
    BY <1>7
  <2>2. F[off[d - 1] + t] = parts[d][t]
    BY <1>8 DEF Laid
  <2>3. off[d - 1] + t \in 1 .. Len(F)
    <3>1. d - 1 \in 0 .. ND /\ d \in 0 .. ND /\ ND \in 0 .. ND /\ d <= ND
      BY <1>1
    <3>2. /\ off[d - 1] \in Nat /\ off[d] = off[d - 1] + Len(parts[d]) /\ Len(parts[d]) \in Nat
          /\ off[d] <= off[ND] /\ Len(F) = off[ND] /\ off[ND] \in Nat
      BY <1>7, <1>8, <1>9, <3>1 DEF Laid
    <3> DEFINE a == off[d - 1]
               n == Len(parts[d])
               z == Len(F)
    <3>3. a \in Nat /\ n \in Nat /\ t \in 1 .. n /\ a + n <= z /\ z \in Nat
      BY <3>2
    <3> HIDE DEF a, n, z
    <3>4. a + t \in 1 .. z
      BY <3>3
    <3> QED
      BY <3>4 DEF a, z
  <2> QED
    BY <1>12, <2>1, <2>2, <2>3
<1>20. Len(P) \in Nat
  BY <1>4, <1>9, <1>10
<1> QED
  BY <1>10, <1>16, <1>18, <1>19, <1>20 DEF P, o

\* the positions chosen and the rows they map to
Built ==
    /\ positions = ContextPositions
    /\ rows = [k \in DOMAIN positions |-> layout.keep[positions[k] + 1]]

LEMMA RowFacts ==
    ASSUME DigestAssumption, Layout, Ranked, Built
    PROVE  /\ IsSeq(positions) /\ Len(positions) \in Nat /\ DOMAIN positions = 1 .. Len(positions)
           /\ DOMAIN rows = 1 .. Len(positions)
           /\ \A k \in 1 .. Len(positions) : positions[k] \in Nat /\ Placed(positions[k], rows[k])
           /\ \A j, k \in 1 .. Len(positions) : j < k => positions[j] < positions[k]
           /\ \A d \in 1 .. ND : \A u \in Chosen(d) : \E k \in 1 .. Len(positions) :
                 positions[k] = layout.original[d + 1] + u
<1>1. positions = ContextPositions
  BY DEF Built
<1>2. IsSeq(positions) /\ DOMAIN positions = 1 .. Len(positions)
  BY <1>1, PositionFacts, SeqFacts
<1>3. /\ DOMAIN rows = 1 .. Len(positions)
      /\ \A k \in 1 .. Len(positions) : rows[k] = layout.keep[positions[k] + 1]
  BY <1>2 DEF Built
<1> QED
  BY <1>1, <1>2, <1>3, PositionFacts

\* The chunk of a token of the system prompt.
LEMMA SystemToken ==
    ASSUME DigestAssumption, Layout, NEW t \in 0 .. raw[2] - 1
    PROVE  /\ ChunkOf(raw, t) = 1 /\ raw[1] = 0
           /\ ChunkOf(layout.forward, t) = 1 /\ layout.forward[1] = 0
           /\ ChunkOf(layout.original, t) = 1 /\ layout.original[1] = 0
<1>1. ND \in Nat /\ Raw /\ raw[1] = 0
  BY RawFacts DEF Layout
<1>2. /\ 1 \in 1 .. 2 * ND + 2 /\ 1 \in 1 .. ND + 2 /\ 1 \in 1 .. ND + 1 /\ 1 + 1 = 2 /\ 2 * 1 = 2
      /\ t \in Int /\ 0 <= t
  BY <1>1
<1>3. layout.forward[2] = raw[2] /\ layout.forward[1] = 0
  BY <1>2, ForwardFacts
<1>4. layout.original[2] = raw[2] /\ layout.original[1] = 0 /\ raw[2] \in Nat
  BY <1>2, OriginalFacts
<1>5. t < raw[2]
  BY <1>4
<1>6. ChunkOf(raw, t) = 1
  BY <1>1, <1>2, <1>5, RawFacts
<1>7. ChunkOf(layout.forward, t) = 1
  BY <1>2, <1>3, <1>5, ForwardFacts
<1>8. ChunkOf(layout.original, t) = 1
  BY <1>2, <1>4, <1>5, OriginalFacts
<1> QED
  BY <1>1, <1>3, <1>4, <1>6, <1>7, <1>8

\* The chunks of token u of document d, and of its zip prompt's tokens.
LEMMA DocToken ==
    ASSUME DigestAssumption, Layout, NEW d \in 1 .. ND
    PROVE  /\ \A u \in 0 .. DocLen(d) - 1 :
                 /\ ChunkOf(raw, DocStart(d) + u) = 2 * d
                 /\ ChunkOf(layout.forward, DocStart(d) + u) = d + 1
                 /\ ChunkOf(layout.original, layout.original[d + 1] + u) = d + 1
           /\ layout.forward[d + 1] = DocStart(d)
           /\ \A t \in Int : DocEnd(d) <= t /\ t < ZipEnd(d) => ChunkOf(raw, t) = 2 * d + 1
<1>1. ND \in Nat /\ Raw
  BY RawFacts DEF Layout
<1>2. /\ DocStart(d) \in Nat /\ DocEnd(d) \in Nat /\ ZipEnd(d) \in Nat /\ DocLen(d) \in Nat
      /\ DocStart(d) <= DocEnd(d) /\ DocEnd(d) <= ZipEnd(d)
      /\ DocStart(d) = raw[2 * d] /\ ZipEnd(d) = raw[2 * (d + 1)]
  BY <1>1, DocFacts
<1>3. DocLen(d) = DocEnd(d) - DocStart(d) /\ DocEnd(d) = raw[2 * d + 1] /\ ZipEnd(d) = raw[2 * d + 2]
  BY DEF DocLen, DocEnd, ZipEnd
<1>4. /\ 2 * d \in 1 .. 2 * ND + 2 /\ 2 * d + 1 \in 1 .. 2 * ND + 2 /\ (2 * d + 1) + 1 = 2 * d + 2
      /\ d \in 1 .. ND + 1 /\ d + 1 \in 1 .. ND + 1 /\ d + 1 \in 1 .. ND + 2 /\ (d + 1) + 1 = d + 2
  BY <1>1
<1>5. layout.forward[d + 1] = DocStart(d) /\ layout.forward[d + 2] = ZipEnd(d)
  <2>1. layout.forward[d + 1] = raw[2 * d] /\ layout.forward[(d + 1) + 1] = raw[2 * (d + 1)]
    BY <1>4, ForwardFacts
  <2> QED
    BY <1>2, <1>4, <2>1
<1>6. layout.original[d + 1] \in Nat /\ layout.original[d + 2] = layout.original[d + 1] + DocLen(d)
  BY <1>4, OriginalFacts
<1>7. ASSUME NEW u \in 0 .. DocLen(d) - 1
      PROVE  /\ ChunkOf(raw, DocStart(d) + u) = 2 * d
             /\ ChunkOf(layout.forward, DocStart(d) + u) = d + 1
             /\ ChunkOf(layout.original, layout.original[d + 1] + u) = d + 1
  <2> DEFINE t == DocStart(d) + u
             p == layout.original[d + 1] + u
  <2>1. t \in Int /\ DocStart(d) <= t /\ t < DocEnd(d) /\ t < ZipEnd(d)
    BY <1>2, <1>3
  <2>2. p \in Int /\ layout.original[d + 1] <= p /\ p < layout.original[(d + 1) + 1]
    <3> DEFINE a == layout.original[d + 1]
               b == layout.original[d + 2]
               n == DocLen(d)
    <3>1. a \in Nat /\ n \in Nat /\ b = a + n /\ u \in 0 .. n - 1 /\ p = a + u
      BY <1>2, <1>6
    <3>2. layout.original[(d + 1) + 1] = b
      BY <1>4
    <3> HIDE DEF a, b, n, p
    <3>3. p \in Int /\ a <= p /\ p < b
      BY <3>1
    <3> QED
      BY <3>2, <3>3 DEF a
  <2> HIDE DEF t, p
  <2>3. ChunkOf(raw, t) = 2 * d
    BY <1>1, <1>2, <1>3, <1>4, <2>1, RawFacts
  <2>4. ChunkOf(layout.forward, t) = d + 1
    BY <1>4, <1>5, <2>1, ForwardFacts
  <2>5. ChunkOf(layout.original, p) = d + 1
    BY <1>4, <2>2, OriginalFacts
  <2> QED
    BY <2>3, <2>4, <2>5 DEF t, p
<1>8. ASSUME NEW t \in Int, DocEnd(d) <= t, t < ZipEnd(d) PROVE ChunkOf(raw, t) = 2 * d + 1
  BY <1>1, <1>3, <1>4, <1>8, RawFacts
<1> QED
  BY <1>5, <1>7, <1>8

-----------------------------------------------------------------------------
(* The offset of a row's token.                                             *)

LEMMA OffsetsAgree ==
    ASSUME DigestAssumption, Layout, Ranked, Built
    PROVE  SameOffsetInChunk
<1>1. ASSUME NEW k \in DOMAIN rows
      PROVE  Offset(layout.forward, rows[k]) = Offset(layout.original, positions[k])
  <2>1. Placed(positions[k], rows[k])
    BY <1>1, RowFacts
  <2>2. CASE positions[k] \in 0 .. raw[2] - 1 /\ rows[k] = positions[k]
    BY <2>2, SystemToken DEF Offset
  <2>3. CASE \E d \in 1 .. ND : \E u \in Chosen(d) :
                 positions[k] = layout.original[d + 1] + u /\ rows[k] = DocStart(d) + u
    <3>1. PICK d \in 1 .. ND : \E u \in Chosen(d) :
                 positions[k] = layout.original[d + 1] + u /\ rows[k] = DocStart(d) + u
      BY <2>3
    <3>2. PICK u \in Chosen(d) :
                 positions[k] = layout.original[d + 1] + u /\ rows[k] = DocStart(d) + u
      BY <3>1
    <3>3. Raw /\ ND \in Nat
      BY RawFacts DEF Layout
    <3>4. u \in 0 .. DocLen(d) - 1 /\ DocLen(d) \in Nat /\ DocStart(d) \in Nat
      BY <3>3, ChosenFacts, DocFacts
    <3>5. layout.original[d + 1] \in Nat
      <4>1. d \in 1 .. ND + 1
        BY <3>3
      <4> QED
        BY <4>1, OriginalFacts
    <3>6. /\ ChunkOf(layout.forward, rows[k]) = d + 1
          /\ ChunkOf(layout.original, positions[k]) = d + 1
          /\ layout.forward[d + 1] = DocStart(d)
      BY <3>2, <3>4, DocToken
    <3>7. Offset(layout.forward, rows[k]) = (DocStart(d) + u) - DocStart(d)
      BY <3>2, <3>6 DEF Offset
    <3>8. Offset(layout.original, positions[k])
              = (layout.original[d + 1] + u) - layout.original[d + 1]
      BY <3>2, <3>6 DEF Offset
    <3> QED
      BY <3>4, <3>5, <3>7, <3>8
  <2> QED
    BY <2>1, <2>2, <2>3 DEF Placed
<1> QED
  BY <1>1 DEF SameOffsetInChunk

-----------------------------------------------------------------------------
(* Rows are tokens of the context, in the order of the prompt.              *)

LEMMA RowsRise ==
    ASSUME DigestAssumption, Layout, Ranked, NEW p \in Nat, NEW r, NEW q \in Nat, NEW s,
           Placed(p, r), Placed(q, s), p < q
    PROVE  r < s
<1>1. Raw /\ ND \in Nat
  BY RawFacts DEF Layout
<1>2. \A d \in 1 .. ND :
          /\ Chosen(d) \subseteq 0 .. DocLen(d) - 1
          /\ DocLen(d) \in Nat /\ DocStart(d) \in Nat /\ ZipEnd(d) \in Nat
          /\ DocStart(d) + DocLen(d) <= ZipEnd(d) /\ raw[2] <= DocStart(d)
          /\ DocStart(d) = raw[2 * d] /\ ZipEnd(d) = raw[2 * (d + 1)]
  <2>1. ASSUME NEW d \in 1 .. ND PROVE DocStart(d) + DocLen(d) <= ZipEnd(d)
    <3>1. /\ DocStart(d) \in Nat /\ DocEnd(d) \in Nat /\ ZipEnd(d) \in Nat
          /\ DocEnd(d) <= ZipEnd(d)
      BY <1>1, DocFacts
    <3> QED
      BY <3>1 DEF DocLen
  <2> QED
    BY <1>1, <2>1, ChosenFacts, DocFacts
<1>3. \A a, b \in 1 .. ND + 1 : a <= b =>
          /\ layout.original[a + 1] <= layout.original[b + 1]
          /\ layout.original[a + 1] \in Nat /\ layout.original[b + 1] \in Nat
  BY OriginalFacts
<1>4. raw[2] \in Nat /\ \A d \in 1 .. ND : layout.original[d + 1] \in Nat /\ raw[2] <= layout.original[d + 1]
  <2>1. layout.original[2] = raw[2] /\ 1 \in 1 .. ND + 1 /\ 1 + 1 = 2
    BY <1>1, OriginalFacts
  <2>2. \A d \in 1 .. ND : d \in 1 .. ND + 1 /\ 1 <= d
    BY <1>1
  <2> QED
    BY <1>3, <2>1, <2>2
<1>5. CASE q \in 0 .. raw[2] - 1 /\ s = q
  <2>1. ~ (\E d \in 1 .. ND : \E u \in Chosen(d) : p = layout.original[d + 1] + u)
    <3>1. ASSUME NEW d \in 1 .. ND, NEW u \in Chosen(d), p = layout.original[d + 1] + u
          PROVE  FALSE
      <4>1. u \in Nat /\ layout.original[d + 1] \in Nat /\ raw[2] <= layout.original[d + 1]
        BY <1>2, <1>4
      <4> QED
        BY <1>4, <1>5, <3>1, <4>1
    <3> QED
      BY <3>1
  <2> QED
    BY <1>5, <2>1 DEF Placed
<1>6. CASE \E e \in 1 .. ND : \E v \in Chosen(e) :
               q = layout.original[e + 1] + v /\ s = DocStart(e) + v
  <2>1. PICK e \in 1 .. ND : \E v \in Chosen(e) :
               q = layout.original[e + 1] + v /\ s = DocStart(e) + v
    BY <1>6
  <2>2. PICK v \in Chosen(e) : q = layout.original[e + 1] + v /\ s = DocStart(e) + v
    BY <2>1
  <2>3. v \in 0 .. DocLen(e) - 1 /\ DocLen(e) \in Nat /\ DocStart(e) \in Nat /\ raw[2] <= DocStart(e)
    BY <1>2
  <2>4. CASE p \in 0 .. raw[2] - 1 /\ r = p
    BY <1>4, <2>2, <2>3, <2>4
  <2>5. CASE \E d \in 1 .. ND : \E u \in Chosen(d) :
                 p = layout.original[d + 1] + u /\ r = DocStart(d) + u
    <3>1. PICK d \in 1 .. ND : \E u \in Chosen(d) :
                 p = layout.original[d + 1] + u /\ r = DocStart(d) + u
      BY <2>5
    <3>2. PICK u \in Chosen(d) : p = layout.original[d + 1] + u /\ r = DocStart(d) + u
      BY <3>1
    <3>3. u \in 0 .. DocLen(d) - 1 /\ DocLen(d) \in Nat /\ DocStart(d) \in Nat
      BY <1>2
    <3> DEFINE a == layout.original[d + 1]
               b == layout.original[e + 1]
               A == DocStart(d)
               B == DocStart(e)
    <3>4. a \in Nat /\ b \in Nat
      BY <1>4
    <3>5. CASE d = e
      <4>1. u < v
        <5>1. p = a + u /\ q = a + v /\ u \in Nat /\ v \in Nat
          BY <2>2, <2>3, <3>2, <3>3, <3>5
        <5> HIDE DEF a
        <5> QED
          BY <3>4, <5>1
      <4> QED
        BY <2>2, <2>3, <3>2, <3>3, <3>5, <4>1
    <3>6. CASE d < e
      <4>1. /\ d + 1 \in 1 .. ND + 1 /\ d + 1 <= e
            /\ 2 * (d + 1) \in 1 .. 2 * ND + 3 /\ 2 * e \in 1 .. 2 * ND + 3
            /\ 2 * (d + 1) <= 2 * e
        BY <1>1, <3>6
      <4>2. raw[2 * (d + 1)] <= raw[2 * e]
        BY <1>1, <4>1, RawFacts
      <4>3. A + DocLen(d) <= ZipEnd(d) /\ ZipEnd(d) <= B /\ ZipEnd(d) \in Nat
        BY <1>2, <4>2
      <4>4. r = A + u /\ s = B + v
        BY <2>2, <3>2
      <4> HIDE DEF A, B
      <4>5. A \in Nat /\ B \in Nat
        BY <2>3, <3>3 DEF A, B
      <4> QED
        BY <2>3, <3>3, <4>3, <4>4, <4>5
    <3>7. CASE e < d
      <4>1. /\ e + 1 \in 1 .. ND + 1 /\ d \in 1 .. ND + 1 /\ e + 1 <= d /\ (e + 1) + 1 = e + 2
        BY <1>1, <3>7
      <4>2. layout.original[(e + 1) + 1] <= a
        BY <1>3, <4>1
      <4>3. layout.original[e + 2] = b + DocLen(e)
        BY OriginalFacts
      <4>4. b + DocLen(e) <= a
        BY <4>1, <4>2, <4>3
      <4>5. p = a + u /\ q = b + v
        BY <2>2, <3>2
      <4> HIDE DEF a, b
      <4> QED
        BY <2>3, <3>3, <3>4, <4>4, <4>5
    <3> QED
      BY <3>5, <3>6, <3>7
  <2> QED
    BY <2>4, <2>5 DEF Placed
<1> QED
  BY <1>5, <1>6 DEF Placed

\* the tokens of zip prompts before token n
Zips(n) == {t \in 0 .. n - 1 : ChunkOf(raw, t) > 1 /\ ChunkOf(raw, t) % 2 = 1}

LEMMA ZipsBefore ==
    ASSUME DigestAssumption, Layout
    PROVE  \A d \in 1 .. ND :
               /\ IsFiniteSet(Zips(DocStart(d)))
               /\ Cardinality(Zips(DocStart(d))) = DocStart(d) - layout.original[d + 1]
<1>1. Raw /\ ND \in Nat /\ ND >= 1
  BY RawFacts DEF Layout
<1> DEFINE Good(d) == /\ IsFiniteSet(Zips(DocStart(d)))
                      /\ Cardinality(Zips(DocStart(d))) = DocStart(d) - layout.original[d + 1]
           T == {m \in Nat : m + 1 <= ND => Good(m + 1)}
<1>2. 0 \in T
  <2>1. 1 \in 1 .. ND /\ 2 * 1 = 2 /\ 1 + 1 = 2
    BY <1>1
  <2>2. DocStart(1) = raw[2] /\ raw[2] \in Nat /\ layout.original[2] = raw[2]
    <3>1. DocStart(1) = raw[2 * 1] /\ DocStart(1) \in Nat
      BY <1>1, <2>1, DocFacts
    <3> QED
      BY <2>1, <3>1, OriginalFacts
  <2>3. Zips(DocStart(1)) = {}
    <3>1. \A t \in 0 .. raw[2] - 1 : ChunkOf(raw, t) = 1
      BY SystemToken
    <3> QED
      BY <2>2, <3>1 DEF Zips
  <2>4. IsFiniteSet({}) /\ Cardinality({}) = 0
    BY FS_EmptySet
  <2>6. DocStart(1) - layout.original[1 + 1] = 0
    <3>1. layout.original[1 + 1] = raw[2]
      BY <2>1, <2>2
    <3> QED
      BY <2>2, <3>1
  <2>5. Good(1)
    BY <2>3, <2>4, <2>6
  <2> HIDE DEF Good
  <2> QED
    BY <2>5
<1>3. ASSUME NEW m \in Nat, m \in T PROVE m + 1 \in T
  <2>1. SUFFICES ASSUME (m + 1) + 1 <= ND PROVE Good((m + 1) + 1)
    OBVIOUS
  <2> DEFINE d == m + 1
  <2>2. d \in 1 .. ND /\ d + 1 \in 1 .. ND /\ Good(d)
    BY <1>1, <1>3, <2>1
  <2> HIDE DEF d
  <2> DEFINE A == Zips(DocStart(d))
             B == DocEnd(d) .. ZipEnd(d) - 1
             a == DocStart(d)
             b == DocEnd(d)
             c == ZipEnd(d)
             o == layout.original[d + 1]
  <2>3. a \in Nat /\ b \in Nat /\ c \in Nat /\ a <= b /\ b <= c
    BY <1>1, <2>2, DocFacts
  <2>4. DocStart(d + 1) = c
    <3>1. DocStart(d + 1) = raw[2 * (d + 1)] /\ ZipEnd(d) = raw[2 * (d + 1)]
      BY <1>1, <2>2, DocFacts
    <3> QED
      BY <3>1
  <2>5. o \in Nat /\ layout.original[(d + 1) + 1] = o + (b - a)
    <3>1. d \in 1 .. ND + 1 /\ (d + 1) + 1 = d + 2
      BY <1>1, <2>2
    <3>2. o \in Nat /\ layout.original[d + 2] = o + DocLen(d)
      BY <2>2, <3>1, OriginalFacts
    <3> QED
      BY <3>1, <3>2 DEF DocLen
  <2>6. \A t \in Int : a <= t /\ t < b => ChunkOf(raw, t) = 2 * d
    <3>1. ASSUME NEW t \in Int, a <= t, t < b PROVE ChunkOf(raw, t) = 2 * d
      <4>1. DocLen(d) = b - a
        BY DEF DocLen
      <4>2. t - a \in 0 .. DocLen(d) - 1 /\ a + (t - a) = t
        BY <2>3, <3>1, <4>1
      <4>3. ChunkOf(raw, a + (t - a)) = 2 * d
        BY <2>2, <4>2, DocToken
      <4> QED
        BY <4>2, <4>3
    <3> QED
      BY <3>1
  <2>7. \A t \in Int : b <= t /\ t < c => ChunkOf(raw, t) = 2 * d + 1
    BY <2>2, DocToken
  <2>8. Zips(c) = A \cup B
    <3> HIDE DEF a, b, c
    <3>1. A = {t \in 0 .. a - 1 : ChunkOf(raw, t) > 1 /\ ChunkOf(raw, t) % 2 = 1}
      BY DEF Zips, a
    <3>2. B = b .. c - 1
      BY DEF b, c
    <3>3. Zips(c) = {t \in 0 .. c - 1 : ChunkOf(raw, t) > 1 /\ ChunkOf(raw, t) % 2 = 1}
      BY DEF Zips
    <3> HIDE DEF A, B
    <3>4. ASSUME NEW t \in 0 .. c - 1 PROVE t \in Zips(c) <=> t \in A \/ t \in B
      <4>1. CASE t < a
        <5>1. t \in 0 .. a - 1 /\ t \notin B
          BY <2>3, <3>2, <3>4, <4>1
        <5> QED
          BY <3>1, <3>3, <3>4, <5>1
      <4>2. CASE a <= t /\ t < b
        <5>1. t \notin 0 .. a - 1 /\ t \notin B
          BY <2>3, <3>2, <4>2
        <5>2. ChunkOf(raw, t) = 2 * d /\ (2 * d) % 2 # 1
          BY <2>2, <2>6, <4>2
        <5> QED
          BY <3>1, <3>3, <5>1, <5>2
      <4>3. CASE b <= t
        <5>1. t \in B
          BY <2>3, <3>2, <4>3
        <5>2. ChunkOf(raw, t) = 2 * d + 1
          BY <2>3, <2>7, <4>3
        <5>3. 2 * d + 1 > 1 /\ (2 * d + 1) % 2 = 1
          BY <2>2
        <5> QED
          BY <3>3, <5>1, <5>2, <5>3
      <4> QED
        BY <2>3, <4>1, <4>2, <4>3
    <3>5. A \subseteq 0 .. c - 1 /\ B \subseteq 0 .. c - 1 /\ Zips(c) \subseteq 0 .. c - 1
      BY <2>3, <3>1, <3>2, <3>3
    <3> QED
      BY <3>4, <3>5
  <2>9. A \cap B = {}
    BY <2>3 DEF Zips
  <2>10. IsFiniteSet(B) /\ Cardinality(B) = c - b
    <3> HIDE DEF b, c
    <3>1. B = b .. c - 1 /\ b \in Int /\ c - 1 \in Int
      BY <2>3 DEF b, c
    <3>2. IsFiniteSet(b .. c - 1)
          /\ Cardinality(b .. c - 1) = IF b > c - 1 THEN 0 ELSE (c - 1) - b + 1
      BY <3>1, FS_Interval
    <3> QED
      BY <2>3, <3>1, <3>2
  <2>11. IsFiniteSet(A) /\ Cardinality(A) = a - o
    BY <2>2
  <2>12. IsFiniteSet(A \cup B) /\ Cardinality(A \cup B) = (a - o) + (c - b)
    <3> HIDE DEF A, B, a, b, c, o
    <3>1. /\ IsFiniteSet(A \cup B)
          /\ Cardinality(A \cup B) = Cardinality(A) + Cardinality(B) - Cardinality(A \cap B)
      BY <2>10, <2>11, FS_Union
    <3>2. Cardinality(A \cap B) = 0
      BY <2>9, FS_EmptySet, Zenon
    <3> QED
      BY <2>3, <2>5, <2>10, <2>11, <3>1, <3>2
  <2>13. IsFiniteSet(Zips(c)) /\ Cardinality(Zips(c)) = c - layout.original[(d + 1) + 1]
    <3>1. (a - o) + (c - b) = c - (o + (b - a))
      <4> HIDE DEF a, b, c, o
      <4> QED
        BY <2>3, <2>5
    <3> HIDE DEF A, B, a, b, c, o
    <3> QED
      BY <2>5, <2>8, <2>12, <3>1
  <2>14. Good(d + 1)
    <3> HIDE DEF c
    <3> QED
      BY <2>4, <2>13
  <2> HIDE DEF Good
  <2> QED
    BY <2>14 DEF d
<1>4. \A m \in Nat : m \in T
  <2> HIDE DEF T
  <2> QED
    BY <1>2, <1>3, EveryNumber
<1>5. ASSUME NEW d \in 1 .. ND PROVE Good(d)
  <2>1. d - 1 \in Nat /\ (d - 1) + 1 = d /\ d <= ND
    BY <1>1
  <2> HIDE DEF Good
  <2> QED
    BY <1>4, <2>1
<1> QED
  BY <1>5

LEMMA RowsAreContext ==
    ASSUME DigestAssumption, Layout, Ranked, Built
    PROVE  DigestRowsAreContext
<1>1. Raw /\ ND \in Nat /\ Chunks = 2 * ND + 2
  BY RawFacts DEF Layout
<1>2. ASSUME NEW k \in DOMAIN rows
      PROVE  /\ \/ ChunkOf(raw, rows[k]) = 1
                \/ ChunkOf(raw, rows[k]) % 2 = 0 /\ ChunkOf(raw, rows[k]) < Chunks
             /\ positions[k] = rows[k] - Cardinality(Zips(rows[k]))
  <2>1. Placed(positions[k], rows[k]) /\ positions[k] \in Nat
    BY <1>2, RowFacts
  <2>2. CASE positions[k] \in 0 .. raw[2] - 1 /\ rows[k] = positions[k]
    <3>1. raw[2] \in Nat
      <4>1. 1 \in 1 .. ND + 1 /\ 1 + 1 = 2
        BY <1>1
      <4>2. layout.original[1 + 1] \in Nat /\ layout.original[2] = raw[2]
        BY <4>1, OriginalFacts
      <4> QED
        BY <4>1, <4>2
    <3>2. ChunkOf(raw, rows[k]) = 1
      BY <2>2, SystemToken
    <3>3. Zips(rows[k]) = {}
      <4>1. \A t \in 0 .. rows[k] - 1 : t \in 0 .. raw[2] - 1
        BY <2>1, <2>2, <3>1
      <4>2. \A t \in 0 .. rows[k] - 1 : ChunkOf(raw, t) = 1
        BY <4>1, SystemToken
      <4> QED
        BY <4>2 DEF Zips
    <3>4. Cardinality(Zips(rows[k])) = 0
      BY <3>3, FS_EmptySet
    <3> QED
      BY <2>1, <2>2, <3>2, <3>4
  <2>3. CASE \E d \in 1 .. ND : \E u \in Chosen(d) :
                 positions[k] = layout.original[d + 1] + u /\ rows[k] = DocStart(d) + u
    <3>1. PICK d \in 1 .. ND : \E u \in Chosen(d) :
                 positions[k] = layout.original[d + 1] + u /\ rows[k] = DocStart(d) + u
      BY <2>3
    <3>2. PICK u \in Chosen(d) :
                 positions[k] = layout.original[d + 1] + u /\ rows[k] = DocStart(d) + u
      BY <3>1
    <3>3. u \in 0 .. DocLen(d) - 1 /\ DocLen(d) \in Nat /\ DocStart(d) \in Nat
      BY <1>1, ChosenFacts, DocFacts
    <3>4. ChunkOf(raw, rows[k]) = 2 * d
      BY <3>2, <3>3, DocToken
    <3>5. (2 * d) % 2 = 0 /\ 2 * d < Chunks
      BY <1>1
    <3> DEFINE a == DocStart(d)
               o == layout.original[d + 1]
    <3>6. Zips(a + u) = Zips(a)
      <4>1. ASSUME NEW t \in 0 .. (a + u) - 1, t \notin 0 .. a - 1
            PROVE  ChunkOf(raw, t) = 2 * d
        <5>1. t - a \in 0 .. DocLen(d) - 1 /\ a + (t - a) = t
          <6> HIDE DEF a
          <6>1. a \in Nat
            BY <3>3 DEF a
          <6> QED
            BY <3>3, <4>1, <6>1
        <5>2. ChunkOf(raw, DocStart(d) + (t - a)) = 2 * d
          BY <5>1, DocToken
        <5> QED
          BY <5>1, <5>2
      <4>2. (2 * d) % 2 # 1
        BY <3>5
      <4>3. \A t \in 0 .. a - 1 : t \in 0 .. (a + u) - 1
        BY <3>3
      <4> HIDE DEF a
      <4> QED
        BY <4>1, <4>2, <4>3 DEF Zips
    <3>7. Cardinality(Zips(a)) = a - o
      BY ZipsBefore
    <3>8. o \in Nat
      <4>1. d \in 1 .. ND + 1
        BY <1>1
      <4> QED
        BY <4>1, OriginalFacts
    <3>9. positions[k] = rows[k] - Cardinality(Zips(rows[k]))
      <4>1. rows[k] = a + u /\ positions[k] = o + u /\ a \in Nat /\ u \in Nat
        BY <3>2, <3>3
      <4> HIDE DEF a, o
      <4>2. Cardinality(Zips(rows[k])) = a - o
        BY <3>6, <3>7, <4>1
      <4> QED
        BY <3>8, <4>1, <4>2
    <3> QED
      BY <3>4, <3>5, <3>9
  <2> QED
    BY <2>1, <2>2, <2>3 DEF Placed
<1>3. ASSUME NEW k \in DOMAIN rows, k > 1 PROVE rows[k] > rows[k - 1]
  <2>1. DOMAIN rows = 1 .. Len(positions) /\ Len(positions) \in Nat
    BY RowFacts
  <2>2. k \in 1 .. Len(positions) /\ k - 1 \in 1 .. Len(positions) /\ k - 1 < k
    BY <1>3, <2>1
  <2>3. /\ positions[k - 1] \in Nat /\ Placed(positions[k - 1], rows[k - 1])
        /\ positions[k] \in Nat /\ Placed(positions[k], rows[k])
        /\ positions[k - 1] < positions[k]
    BY <2>2, RowFacts
  <2>4. rows[k - 1] < rows[k]
    BY <2>3, RowsRise
  <2> QED
    BY <2>4
<1>4. \A k \in DOMAIN rows :
          Zips(rows[k]) = {t \in 0 .. rows[k] - 1 :
                               ChunkOf(raw, t) > 1 /\ ChunkOf(raw, t) % 2 = 1}
  BY DEF Zips
<1> QED
  BY <1>2, <1>3, <1>4 DEF DigestRowsAreContext

-----------------------------------------------------------------------------
(* The tokens of each document that are kept are its best.                  *)

LEMMA BestKept ==
    ASSUME DigestAssumption, Layout, Ranked, Built
    PROVE  BestTokensKept
<1>1. Raw /\ ND \in Nat /\ Docs = 1 .. ND
  BY RawFacts DEF Layout
<1> SUFFICES ASSUME NEW d \in 1 .. ND
             PROVE  LET all  == 0 .. DocLen(d) - 1
                        kept == {t \in all : \E k \in DOMAIN rows : rows[k] = DocStart(d) + t}
                        sink == {t \in all : t < nSink}
                        want == CHOOSE n \in 0 .. DocLen(d) :
                                    /\ 4 * n >= DocLen(d) * ratio \/ n = DocLen(d)
                                    /\ n > 0 => 4 * (n - 1) < DocLen(d) * ratio
                    IN  /\ Cardinality(kept) = want
                        /\ kept \subseteq sink \/ sink \subseteq kept
                        /\ \A t \in kept \ sink, u \in all \ kept : score[d][t] >= score[d][u]
  BY <1>1 DEF BestTokensKept
<1> DEFINE all  == 0 .. DocLen(d) - 1
           kept == {t \in all : \E k \in DOMAIN rows : rows[k] = DocStart(d) + t}
           sink == {t \in all : t < nSink}
           L == DocLen(d)
           B == Budget(L)
           r == ranked[d]
           sc == score[d]
           S == SinkCount(L)
           Enough(n) == /\ 4 * n >= L * ratio \/ n = L
                        /\ n > 0 => 4 * (n - 1) < L * ratio
<1>2. /\ L \in Nat /\ DocStart(d) \in Nat /\ DocStart(d) + L <= ZipEnd(d) /\ ZipEnd(d) \in Nat
  <2>1. /\ DocLen(d) \in Nat /\ DocStart(d) \in Nat /\ DocEnd(d) \in Nat /\ ZipEnd(d) \in Nat
        /\ DocEnd(d) <= ZipEnd(d)
    BY <1>1, DocFacts
  <2> QED
    BY <2>1 DEF DocLen
<1>3. ratio \in Int /\ nSink \in Int /\ r \in Rankings(L, sc)
  BY <1>1 DEF Ranked
<1>4. B \in 0 .. L /\ Enough(B)
  <2> HIDE DEF L
  <2> QED
    BY <1>2, <1>3, BudgetFacts
<1>5. Chosen(d) = Best(r, B) /\ Chosen(d) \subseteq all /\ Cardinality(Chosen(d)) = B
  BY <1>1, ChosenFacts DEF Chosen
\* the rows of document d are those of the tokens chosen
<1>6. kept = Chosen(d)
  <2> DEFINE o == layout.original
  <2>1. \A e \in 1 .. ND : \A v \in Chosen(e) :
            /\ v \in 0 .. DocLen(e) - 1 /\ v \in Nat /\ DocStart(e) \in Nat
            /\ raw[2] <= DocStart(e) /\ raw[2] <= o[e + 1] /\ o[e + 1] \in Nat
    <3>1. ASSUME NEW e \in 1 .. ND, NEW v \in Chosen(e)
          PROVE  /\ v \in 0 .. DocLen(e) - 1 /\ v \in Nat /\ DocStart(e) \in Nat
                 /\ raw[2] <= DocStart(e) /\ raw[2] <= o[e + 1] /\ o[e + 1] \in Nat
      <4>1. Chosen(e) \subseteq 0 .. DocLen(e) - 1 /\ DocLen(e) \in Nat
        BY <1>1, ChosenFacts, DocFacts
      <4>2. e \in 1 .. ND + 1 /\ 1 \in 1 .. ND + 1 /\ 1 <= e /\ 1 + 1 = 2
        BY <1>1
      <4>3. o[1 + 1] <= o[e + 1] /\ o[2] = raw[2] /\ o[e + 1] \in Nat
        BY <4>2, OriginalFacts
      <4>4. DocStart(e) \in Nat /\ raw[2] <= DocStart(e)
        BY <1>1, DocFacts
      <4> QED
        BY <4>1, <4>2, <4>3, <4>4
    <3> QED
      BY <3>1
  <2>2. raw[2] \in Nat /\ o[d + 1] \in Nat
    <3>1. 1 \in 1 .. ND + 1 /\ 1 + 1 = 2 /\ d \in 1 .. ND + 1
      BY <1>1
    <3>2. o[1 + 1] \in Nat /\ o[2] = raw[2] /\ o[d + 1] \in Nat
      BY <3>1, OriginalFacts
    <3> QED
      BY <3>1, <3>2
  <2>3. ASSUME NEW t \in Chosen(d) PROVE t \in kept
    <3>1. PICK k \in 1 .. Len(positions) : positions[k] = o[d + 1] + t
      BY RowFacts
    <3>2. Placed(positions[k], rows[k]) /\ k \in DOMAIN rows
      BY RowFacts
    <3>3. ~ (positions[k] \in 0 .. raw[2] - 1)
      BY <2>1, <2>2, <3>1
    <3>4. PICK e \in 1 .. ND : \E v \in Chosen(e) :
              positions[k] = o[e + 1] + v /\ rows[k] = DocStart(e) + v
      BY <3>2, <3>3 DEF Placed
    <3>5. PICK v \in Chosen(e) : positions[k] = o[e + 1] + v /\ rows[k] = DocStart(e) + v
      BY <3>4
    <3>6. ChunkOf(o, positions[k]) = e + 1 /\ ChunkOf(o, positions[k]) = d + 1
      <4>1. ChunkOf(o, o[e + 1] + v) = e + 1
        BY <2>1, DocToken
      <4>2. ChunkOf(o, o[d + 1] + t) = d + 1
        BY <2>1, DocToken
      <4> QED
        BY <3>1, <3>5, <4>1, <4>2
    <3>7. e = d
      BY <3>6
    <3>8. v = t
      <4>1. o[d + 1] + v = o[d + 1] + t /\ v \in Nat /\ t \in Nat
        BY <2>1, <3>1, <3>5, <3>7
      <4> HIDE DEF o
      <4> QED
        BY <2>2, <4>1
    <3> QED
      BY <1>5, <3>2, <3>5, <3>7, <3>8
  <2>4. ASSUME NEW t \in kept PROVE t \in Chosen(d)
    <3>1. PICK k \in DOMAIN rows : rows[k] = DocStart(d) + t
      OBVIOUS
    <3>2. Placed(positions[k], rows[k])
      BY RowFacts
    <3>3. t \in 0 .. DocLen(d) - 1 /\ t \in Nat /\ raw[2] <= DocStart(d)
      <4>1. t \in 0 .. DocLen(d) - 1
        OBVIOUS
      <4>2. raw[2] <= DocStart(d)
        BY <1>1, DocFacts
      <4> QED
        BY <1>2, <4>1, <4>2
    <3>4. ~ (positions[k] \in 0 .. raw[2] - 1 /\ rows[k] = positions[k])
      BY <1>2, <2>2, <3>1, <3>3
    <3>5. PICK e \in 1 .. ND : \E v \in Chosen(e) :
              positions[k] = o[e + 1] + v /\ rows[k] = DocStart(e) + v
      BY <3>2, <3>4 DEF Placed
    <3>6. PICK v \in Chosen(e) : positions[k] = o[e + 1] + v /\ rows[k] = DocStart(e) + v
      BY <3>5
    <3>7. ChunkOf(raw, rows[k]) = 2 * e /\ ChunkOf(raw, rows[k]) = 2 * d
      <4>1. ChunkOf(raw, DocStart(e) + v) = 2 * e
        BY <2>1, DocToken
      <4>2. ChunkOf(raw, DocStart(d) + t) = 2 * d
        BY <3>3, DocToken
      <4> QED
        BY <3>1, <3>6, <4>1, <4>2
    <3>8. e = d
      BY <3>7
    <3>9. v = t
      BY <1>2, <2>1, <3>1, <3>3, <3>6, <3>8
    <3> QED
      BY <3>6, <3>8, <3>9
  <2> QED
    BY <2>3, <2>4
<1> HIDE DEF all, kept
<1>7. (CHOOSE n \in 0 .. L : Enough(n)) = B
  <2>1. ASSUME NEW m \in 0 .. L, NEW n \in 0 .. L, Enough(m), Enough(n), m < n PROVE FALSE
    <3> DEFINE x == L * ratio
    <3>1. x \in Int
      BY <1>2, <1>3
    <3> HIDE DEF x
    <3>2. 4 * m >= x \/ m = L
      BY <2>1 DEF x
    <3>3. 4 * (n - 1) < x
      BY <2>1 DEF x
    <3> QED
      BY <1>2, <2>1, <3>1, <3>2, <3>3
  <2>2. ASSUME NEW n \in 0 .. L, Enough(n) PROVE n = B
    <3>1. ~ (n < B) /\ ~ (B < n)
      BY <1>4, <2>1, <2>2
    <3>2. n \in Int /\ B \in Int
      BY <1>4
    <3> QED
      BY <3>1, <3>2
  <2> HIDE DEF Enough, B, L
  <2> QED
    BY <1>4, <2>2
<1>8. /\ S \in 0 .. L /\ \A t \in 0 .. L - 1 : t < nSink <=> t < S
      /\ \A a \in 1 .. S : r[a] = a - 1
      /\ \A a, b \in S + 1 .. L : a < b => sc[r[a]] >= sc[r[b]]
  <2>1. /\ \A a \in 1 .. S : r[a] = a - 1
        /\ \A a, b \in S + 1 .. L : a < b => sc[r[a]] >= sc[r[b]]
    <3> HIDE DEF L, r, sc
    <3> QED
      BY <1>3 DEF Rankings
  <2>2. S \in 0 .. L /\ \A t \in 0 .. L - 1 : t < nSink <=> t < S
    <3> HIDE DEF L
    <3> QED
      BY <1>2, <1>3 DEF SinkCount
  <2> QED
    BY <2>1, <2>2
<1>9. kept = {r[a] : a \in 1 .. B}
  BY <1>5, <1>6 DEF Best
<1>10. \A t \in all : t \in sink <=> t < S
  BY <1>8 DEF all
<1>11. \A t \in all : \E a \in 1 .. L : r[a] = t
  <2> HIDE DEF L, r, sc
  <2> QED
    BY <1>2, <1>3, RankingFacts DEF all, L
<1>12. kept \subseteq all
  BY <1>5, <1>6
<1> HIDE DEF L, B, r, sc, S, sink, Enough
<1>13. kept \subseteq sink \/ sink \subseteq kept
  <2>1. CASE B <= S
    <3>1. ASSUME NEW t \in kept PROVE t \in sink
      <4>1. PICK a \in 1 .. B : t = r[a]
        BY <1>9
      <4>2. a \in 1 .. S
        BY <1>4, <1>8, <2>1
      <4>3. t = a - 1 /\ t < S
        BY <1>8, <4>1, <4>2
      <4> QED
        BY <1>10, <1>12, <4>3
    <3> QED
      BY <3>1
  <2>2. CASE S < B
    <3>1. ASSUME NEW t \in sink PROVE t \in kept
      <4>1. t \in all
        BY DEF sink
      <4>2. t < S /\ t \in 0 .. L - 1
        BY <1>10, <4>1 DEF all, L
      <4>3. t + 1 \in 1 .. S /\ t + 1 \in 1 .. B /\ (t + 1) - 1 = t
        BY <1>4, <1>8, <2>2, <4>2
      <4>4. r[t + 1] = t
        BY <1>8, <4>3
      <4> QED
        BY <1>9, <4>3, <4>4
    <3> QED
      BY <3>1
  <2> QED
    BY <1>4, <1>8, <2>1, <2>2
<1>14. ASSUME NEW t \in kept \ sink, NEW u \in all \ kept PROVE sc[t] >= sc[u]
  <2>1. PICK a \in 1 .. B : t = r[a]
    BY <1>9
  <2>2. a \notin 1 .. S
    <3>1. ASSUME a \in 1 .. S PROVE FALSE
      <4>1. t < S
        BY <1>8, <2>1, <3>1
      <4> QED
        BY <1>10, <1>12, <4>1
    <3> QED
      BY <3>1
  <2>3. PICK b \in 1 .. L : r[b] = u
    BY <1>11
  <2>4. b \notin 1 .. B
    BY <1>9, <2>3
  <2>5. a \in S + 1 .. L /\ b \in S + 1 .. L /\ a < b
    BY <1>2, <1>4, <1>8, <2>2, <2>4
  <2> QED
    BY <1>8, <2>1, <2>3, <2>5
<1>15. Cardinality(kept) = (CHOOSE n \in 0 .. L : Enough(n))
  BY <1>5, <1>6, <1>7
<1> QED
  BY <1>13, <1>14, <1>15 DEF all, kept, sink, L, sc, Enough

-----------------------------------------------------------------------------
(* The spans of _coalesce_sorted_positions.                                 *)

\* the spans s, one after the other, read the first n of pos
Chain(pos, s, n) ==
    /\ IsSeq(s) /\ n \in Nat
    /\ \A k \in 1 .. Len(s) : /\ s[k][1] \in Int /\ s[k][2] \in Int /\ s[k][3] \in Nat
                              /\ s[k][1] < s[k][2]
    /\ IF Len(s) = 0 THEN n = 0 ELSE s[1][3] = 0
    /\ \A k \in 1 .. Len(s) :
          s[k][3] + (s[k][2] - s[k][1]) = IF k = Len(s) THEN n ELSE s[k + 1][3]
    /\ \A k \in 1 .. Len(s) : \A t \in 1 .. s[k][2] - s[k][1] :
          pos[s[k][3] + t] = s[k][1] + t - 1
    /\ \A k \in 2 .. Len(s) : s[k][1] > s[k - 1][2]

LEMMA ChainStart ==
    ASSUME NEW pos, NEW p \in Int, p = pos[1]
    PROVE  Chain(pos, Append(<<>>, <<p, p + 1, 0>>), 1)
<1> DEFINE e == <<p, p + 1, 0>>
           s == Append(<<>>, e)
<1>1. e[1] = p /\ e[2] = p + 1 /\ e[3] = 0
  OBVIOUS
<1>2. IsSeq(<<>>) /\ Len(<<>>) = 0
  BY DEF IsSeq
<1> HIDE DEF e
<1>3. IsSeq(s) /\ Len(s) = 1 /\ s[1] = e
  <2> DEFINE z == <<>>
  <2>1. IsSeq(z) /\ Len(z) = 0 /\ s = Append(z, e)
    BY <1>2
  <2> HIDE DEF z, s
  <2>2. IsSeq(Append(z, e)) /\ Len(Append(z, e)) = Len(z) + 1 /\ Append(z, e)[Len(z) + 1] = e
    BY <2>1, AppendIsSeq
  <2> QED
    BY <2>1, <2>2
<1> HIDE DEF s
<1>4. \A k \in 1 .. Len(s) : k = 1 /\ s[k] = e
  BY <1>3
<1>5. \A t \in 1 .. e[2] - e[1] : t = 1 /\ pos[e[3] + t] = e[1] + t - 1
  BY <1>1
<1>6. e[3] + (e[2] - e[1]) = 1 /\ 2 .. Len(s) = {} /\ e[1] < e[2] /\ Len(s) # 0
  BY <1>1, <1>3
<1>7. Chain(pos, s, 1)
  BY <1>1, <1>3, <1>4, <1>5, <1>6 DEF Chain
<1> QED
  BY <1>7 DEF s, e

\* The last span grows by the next position.
LEMMA ChainGrows ==
    ASSUME NEW pos, NEW s, NEW a \in Int, NEW b \in Int, NEW o \in Nat, NEW n,
           IsSeq(s), Chain(pos, Append(s, <<a, b, o>>), n), pos[n + 1] = b
    PROVE  Chain(pos, Append(s, <<a, b + 1, o>>), n + 1)
<1> DEFINE e == <<a, b, o>>
           f == <<a, b + 1, o>>
           x == Append(s, e)
           y == Append(s, f)
           l == Len(s) + 1
<1>1. e[1] = a /\ e[2] = b /\ e[3] = o /\ f[1] = a /\ f[2] = b + 1 /\ f[3] = o
  OBVIOUS
<1>2. Len(s) \in Nat
  BY SeqFacts
<1> HIDE DEF e, f
<1>3. /\ IsSeq(x) /\ Len(x) = l /\ x[l] = e /\ \A k \in 1 .. Len(s) : x[k] = s[k]
      /\ IsSeq(y) /\ Len(y) = l /\ y[l] = f /\ \A k \in 1 .. Len(s) : y[k] = s[k]
  BY AppendIsSeq
<1>4. Chain(pos, x, n)
  BY DEF e
<1> HIDE DEF x, y
<1>5. l \in Nat /\ l >= 1 /\ l \in 1 .. l /\ \A k \in 1 .. l : k = l \/ (k \in 1 .. Len(s) /\ k # l /\ k + 1 \in 1 .. l)
  BY <1>2
<1> HIDE DEF l
<1>6. \A k \in 1 .. l : k # l => y[k] = x[k]
  BY <1>3, <1>5
<1>7. n \in Nat /\ a < b /\ o + (b - a) = n /\ \A t \in 1 .. b - a : pos[o + t] = a + t - 1
  <2>1. x[l][1] = a /\ x[l][2] = b /\ x[l][3] = o /\ l \in 1 .. Len(x) /\ l = Len(x)
    BY <1>1, <1>3, <1>5
  <2>2. n \in Nat /\ x[l][1] < x[l][2] /\ x[l][3] + (x[l][2] - x[l][1]) = n
    BY <1>4, <2>1 DEF Chain
  <2>3. \A t \in 1 .. x[l][2] - x[l][1] : pos[x[l][3] + t] = x[l][1] + t - 1
    BY <1>4, <2>1 DEF Chain
  <2> QED
    BY <2>1, <2>2, <2>3
<1>8. \A k \in 1 .. l : /\ y[k][1] = x[k][1] /\ y[k][3] = x[k][3]
  BY <1>1, <1>3, <1>5, <1>6
<1>9. \A k \in 1 .. l : /\ y[k][1] \in Int /\ y[k][2] \in Int /\ y[k][3] \in Nat
                        /\ y[k][1] < y[k][2]
  <2>1. y[l][1] \in Int /\ y[l][2] \in Int /\ y[l][3] \in Nat /\ y[l][1] < y[l][2]
    BY <1>1, <1>3, <1>7
  <2>2. \A k \in 1 .. l : /\ x[k][1] \in Int /\ x[k][2] \in Int /\ x[k][3] \in Nat
                          /\ x[k][1] < x[k][2]
    BY <1>3, <1>4 DEF Chain
  <2> QED
    BY <1>6, <2>1, <2>2
<1>10. IF Len(y) = 0 THEN n + 1 = 0 ELSE y[1][3] = 0
  <2>1. 1 \in 1 .. l /\ Len(x) # 0 /\ Len(y) # 0
    BY <1>3, <1>5
  <2>2. x[1][3] = 0
    BY <1>4, <2>1 DEF Chain
  <2> QED
    BY <1>8, <2>1, <2>2
<1>11. ASSUME NEW k \in 1 .. l
       PROVE  y[k][3] + (y[k][2] - y[k][1]) = IF k = l THEN n + 1 ELSE y[k + 1][3]
  <2>1. CASE k = l
    BY <1>1, <1>3, <1>7, <2>1
  <2>2. CASE k # l
    <3>1. y[k] = x[k] /\ k + 1 \in 1 .. l
      BY <1>5, <1>6, <2>2
    <3>2. x[k][3] + (x[k][2] - x[k][1]) = x[k + 1][3]
      BY <1>3, <1>4, <2>2 DEF Chain
    <3> QED
      BY <1>8, <2>2, <3>1, <3>2
  <2> QED
    BY <2>1, <2>2
<1>12. ASSUME NEW k \in 1 .. l, NEW t \in 1 .. y[k][2] - y[k][1]
       PROVE  pos[y[k][3] + t] = y[k][1] + t - 1
  <2>1. CASE k = l
    <3>1. y[k] = f
      BY <1>3, <2>1
    <3>2. t \in 1 .. (b + 1) - a
      BY <1>1, <3>1
    <3>3. CASE t \in 1 .. b - a
      BY <1>1, <1>7, <3>1, <3>3
    <3>4. CASE t \notin 1 .. b - a
      <4>1. t = b + 1 - a /\ o + t = n + 1 /\ b = a + t - 1
        BY <1>7, <3>2, <3>4
      <4> QED
        BY <1>1, <3>1, <4>1
    <3> QED
      BY <3>3, <3>4
  <2>2. CASE k # l
    <3>1. y[k] = x[k]
      BY <1>6, <2>2
    <3> QED
      BY <1>3, <1>4, <3>1 DEF Chain
  <2> QED
    BY <2>1, <2>2
<1>13. ASSUME NEW k \in 2 .. l PROVE y[k][1] > y[k - 1][2]
  <2>1. k \in 1 .. l /\ k - 1 \in 1 .. l /\ k - 1 # l
    BY <1>5
  <2>2. x[k][1] > x[k - 1][2]
    BY <1>3, <1>4 DEF Chain
  <2> QED
    BY <1>6, <1>8, <2>1, <2>2
<1>14. Chain(pos, y, n + 1)
  BY <1>3, <1>7, <1>9, <1>10, <1>11, <1>12, <1>13 DEF Chain
<1> QED
  BY <1>14 DEF y, f

\* A new span begins at the next position, past the last one's end.
LEMMA ChainAnew ==
    ASSUME NEW pos, NEW s, NEW n, NEW p \in Int, Chain(pos, s, n), Len(s) >= 1,
           p = pos[n + 1], p > s[Len(s)][2]
    PROVE  Chain(pos, Append(s, <<p, p + 1, n>>), n + 1)
<1> DEFINE e == <<p, p + 1, n>>
           y == Append(s, e)
           m == Len(s)
           l == Len(s) + 1
<1>1. n \in Nat /\ IsSeq(s) /\ m \in Nat /\ m >= 1
  BY SeqFacts DEF Chain
<1>2. e[1] = p /\ e[2] = p + 1 /\ e[3] = n
  OBVIOUS
<1> HIDE DEF e
<1>3. IsSeq(y) /\ Len(y) = l /\ y[l] = e /\ \A k \in 1 .. m : y[k] = s[k]
  BY <1>1, AppendIsSeq
<1>4. /\ l \in Nat /\ l = m + 1 /\ l \in 1 .. l /\ m \in 1 .. m /\ 1 \in 1 .. m
      /\ \A k \in 1 .. l : k = l \/ (k \in 1 .. m /\ k # l /\ k + 1 \in 1 .. l)
  BY <1>1
<1>5. s[m][2] < p
  OBVIOUS
<1> HIDE DEF y, l, m
<1>6. \A k \in 1 .. l : /\ y[k][1] \in Int /\ y[k][2] \in Int /\ y[k][3] \in Nat
                        /\ y[k][1] < y[k][2]
  <2>1. e[1] \in Int /\ e[2] \in Int /\ e[3] \in Nat /\ e[1] < e[2]
    BY <1>1, <1>2
  <2>2. \A k \in 1 .. m : /\ s[k][1] \in Int /\ s[k][2] \in Int /\ s[k][3] \in Nat
                          /\ s[k][1] < s[k][2]
    BY DEF Chain, m
  <2> QED
    BY <1>3, <1>4, <2>1, <2>2
<1>7. IF Len(y) = 0 THEN n + 1 = 0 ELSE y[1][3] = 0
  <2>1. s[1][3] = 0
    BY <1>1 DEF Chain, m
  <2> QED
    BY <1>1, <1>3, <1>4, <2>1
<1>8. ASSUME NEW k \in 1 .. l
      PROVE  y[k][3] + (y[k][2] - y[k][1]) = IF k = l THEN n + 1 ELSE y[k + 1][3]
  <2>1. CASE k = l
    BY <1>1, <1>2, <1>3, <2>1
  <2>2. CASE k = m
    <3>1. s[m][3] + (s[m][2] - s[m][1]) = n
      BY <1>4 DEF Chain, m
    <3>2. y[m] = s[m] /\ m # l /\ m + 1 = l
      BY <1>3, <1>4, <1>1
    <3> QED
      BY <1>2, <1>3, <2>2, <3>1, <3>2
  <2>3. CASE k # l /\ k # m
    <3>1. k \in 1 .. m /\ k + 1 \in 1 .. m
      BY <1>1, <1>4, <2>3
    <3>2. s[k][3] + (s[k][2] - s[k][1]) = s[k + 1][3]
      BY <2>3, <3>1 DEF Chain, m
    <3> QED
      BY <1>3, <2>3, <3>1, <3>2
  <2> QED
    BY <2>1, <2>2, <2>3
<1>9. ASSUME NEW k \in 1 .. l, NEW t \in 1 .. y[k][2] - y[k][1]
      PROVE  pos[y[k][3] + t] = y[k][1] + t - 1
  <2>1. CASE k = l
    <3>1. y[k] = e
      BY <1>3, <2>1
    <3>2. t = 1
      BY <1>2, <3>1
    <3> QED
      BY <1>2, <3>1, <3>2
  <2>2. CASE k # l
    <3>1. k \in 1 .. m /\ y[k] = s[k]
      BY <1>3, <1>4, <2>2
    <3> QED
      BY <3>1 DEF Chain, m
  <2> QED
    BY <2>1, <2>2
<1>10. ASSUME NEW k \in 2 .. l PROVE y[k][1] > y[k - 1][2]
  <2>1. CASE k = l
    <3>1. k - 1 = m
      BY <1>4, <1>1, <2>1
    <3> QED
      BY <1>2, <1>3, <1>4, <1>5, <2>1, <3>1
  <2>2. CASE k # l
    <3>1. k \in 2 .. m /\ k \in 1 .. m /\ k - 1 \in 1 .. m
      BY <1>1, <1>4, <2>2
    <3>2. s[k][1] > s[k - 1][2]
      BY <3>1 DEF Chain, m
    <3> QED
      BY <1>3, <3>1, <3>2
  <2> QED
    BY <2>1, <2>2
<1>11. Chain(pos, y, n + 1)
  BY <1>1, <1>3, <1>6, <1>7, <1>8, <1>9, <1>10 DEF Chain
<1> QED
  BY <1>11 DEF y, e

\* What a chain of spans reads is what it says it reads.
LEMMA ChainCovers ==
    ASSUME NEW pos, NEW s, NEW n, IsSeq(pos), Chain(pos, s, n), n <= Len(pos)
    PROVE  /\ FlattenSeq([k \in DOMAIN s |-> RangeSeq(s[k][1], s[k][2])]) = SubSeq(pos, 1, n)
           /\ \A k \in DOMAIN s : s[k][1] = pos[s[k][3] + 1]
           /\ \A k \in 2 .. Len(s) : s[k][1] > s[k - 1][2]
<1> DEFINE l == Len(s)
           parts == [k \in DOMAIN s |-> RangeSeq(s[k][1], s[k][2])]
           F == FlattenSeq(parts)
           G == SubSeq(pos, 1, n)
<1>1. IsSeq(s) /\ l \in Nat /\ DOMAIN s = 1 .. l /\ n \in Nat /\ Len(pos) \in Nat
  BY SeqFacts DEF Chain
<1>2. \A k \in 1 .. l : /\ s[k][1] \in Int /\ s[k][2] \in Int /\ s[k][3] \in Nat
                        /\ s[k][1] < s[k][2]
  BY DEF Chain
<1>3. \A k \in 1 .. l : /\ s[k][3] + (s[k][2] - s[k][1]) = IF k = l THEN n ELSE s[k + 1][3]
                        /\ \A t \in 1 .. s[k][2] - s[k][1] : pos[s[k][3] + t] = s[k][1] + t - 1
  BY DEF Chain
<1>4. IF l = 0 THEN n = 0 ELSE s[1][3] = 0
  BY DEF Chain
<1>14. \A k \in 2 .. l : s[k][1] > s[k - 1][2]
  BY DEF Chain
<1> HIDE DEF l
<1>5. parts = [k \in 1 .. l |-> parts[k]] /\ \A k \in 1 .. l : parts[k] = RangeSeq(s[k][1], s[k][2])
  BY <1>1
<1> HIDE DEF parts
<1>6. ASSUME NEW k \in 1 .. l
      PROVE  /\ IsSeq(parts[k]) /\ Len(parts[k]) = s[k][2] - s[k][1] /\ Len(parts[k]) \in Nat
             /\ \A t \in 1 .. s[k][2] - s[k][1] : parts[k][t] = s[k][1] + t - 1
  <2> DEFINE a == s[k][1]
             b == s[k][2]
  <2>1. a \in Int /\ b \in Int /\ a <= b /\ b - a \in Nat
    BY <1>2
  <2>2. parts[k] = RangeSeq(a, b)
    BY <1>5
  <2> HIDE DEF a, b
  <2>3. /\ IsSeq(RangeSeq(a, b)) /\ Len(RangeSeq(a, b)) = b - a
        /\ \A t \in 1 .. b - a : RangeSeq(a, b)[t] = a + t - 1
    BY <2>1, RangeSeqFacts
  <2> QED
    BY <2>1, <2>2, <2>3 DEF a, b
<1>7. PICK off : Laid(F, parts, l, off)
  BY <1>1, <1>5, <1>6, FlattenFacts
<1> HIDE DEF F
<1>8. \A m \in Nat : m < l => off[m] = s[m + 1][3]
  <2> DEFINE T == {m \in Nat : m < l => off[m] = s[m + 1][3]}
  <2>1. 0 \in T
    BY <1>1, <1>4, <1>7 DEF Laid
  <2>2. ASSUME NEW m \in Nat, m \in T PROVE m + 1 \in T
    <3>1. SUFFICES ASSUME m + 1 < l PROVE off[m + 1] = s[(m + 1) + 1][3]
      OBVIOUS
    <3>2. m + 1 \in 1 .. l /\ m + 1 # l /\ (m + 1) - 1 = m /\ m < l
      BY <1>1, <3>1
    <3>3. off[m] = s[m + 1][3]
      BY <2>2, <3>2
    <3>4. off[m + 1] = off[m] + Len(parts[m + 1])
      BY <1>7, <3>2 DEF Laid
    <3>5. Len(parts[m + 1]) = s[m + 1][2] - s[m + 1][1]
      BY <1>6, <3>2
    <3>6. s[m + 1][3] + (s[m + 1][2] - s[m + 1][1]) = s[(m + 1) + 1][3]
      BY <1>3, <3>2
    <3> QED
      BY <3>3, <3>4, <3>5, <3>6
  <2> HIDE DEF T
  <2>3. \A m \in Nat : m \in T
    BY <2>1, <2>2, EveryNumber
  <2> QED
    BY <2>3 DEF T
<1>9. Len(F) = n /\ IsSeq(F)
  <2>1. Len(F) = off[l] /\ off[0] = 0 /\ IsSeq(F)
    BY <1>7 DEF Laid
  <2>2. CASE l = 0
    BY <1>4, <2>1, <2>2
  <2>3. CASE l # 0
    <3>1. l - 1 \in Nat /\ l - 1 < l /\ (l - 1) + 1 = l /\ l \in 1 .. l
      BY <1>1, <2>3
    <3>2. off[l - 1] = s[l][3]
      BY <1>8, <3>1
    <3>3. off[l] = off[l - 1] + Len(parts[l])
      BY <1>7, <3>1 DEF Laid
    <3>4. Len(parts[l]) = s[l][2] - s[l][1]
      BY <1>6, <3>1
    <3>5. s[l][3] + (s[l][2] - s[l][1]) = n
      BY <1>3, <3>1
    <3> QED
      BY <2>1, <3>2, <3>3, <3>4, <3>5
  <2> QED
    BY <2>2, <2>3
<1>10. IsSeq(G) /\ Len(G) = n /\ \A j \in 1 .. n : G[j] = pos[j]
  <2>1. /\ IsSeq(G) /\ Len(G) = IF 1 <= n THEN n - 1 + 1 ELSE 0
        /\ \A j \in 1 .. n - 1 + 1 : G[j] = pos[1 + j - 1]
    BY <1>1, SubSeqIsSeq
  <2> HIDE DEF G
  <2>2. Len(G) = n
    BY <1>1, <2>1
  <2>3. ASSUME NEW j \in 1 .. n PROVE G[j] = pos[j]
    <3>1. j \in 1 .. n - 1 + 1 /\ 1 + j - 1 = j
      BY <1>1
    <3> QED
      BY <2>1, <3>1
  <2> QED
    BY <2>1, <2>2, <2>3
<1>11. ASSUME NEW j \in 1 .. Len(F) PROVE F[j] = G[j]
  <2>1. PICK d \in 1 .. l : \E t \in 1 .. Len(parts[d]) : j = off[d - 1] + t /\ F[j] = parts[d][t]
    <3> DEFINE m == l
    <3>1. m \in Nat /\ Laid(F, parts, m, off) /\ \A d \in 1 .. m : Len(parts[d]) \in Nat
      BY <1>1, <1>6, <1>7
    <3> HIDE DEF m
    <3>2. \E d \in 1 .. m : \E t \in 1 .. Len(parts[d]) : j = off[d - 1] + t /\ F[j] = parts[d][t]
      BY <3>1, LaidPlace
    <3> QED
      BY <3>2 DEF m
  <2>2. PICK t \in 1 .. Len(parts[d]) : j = off[d - 1] + t /\ F[j] = parts[d][t]
    BY <2>1
  <2>3. d - 1 \in Nat /\ d - 1 < l /\ (d - 1) + 1 = d
    BY <1>1
  <2>4. off[d - 1] = s[d][3]
    BY <1>8, <2>3
  <2>5. parts[d][t] = s[d][1] + t - 1 /\ pos[s[d][3] + t] = s[d][1] + t - 1
    BY <1>3, <1>6
  <2>6. G[j] = pos[j]
    BY <1>9, <1>10
  <2> QED
    BY <2>2, <2>4, <2>5, <2>6
<1>12. F = G
  <2> HIDE DEF G
  <2> QED
    BY <1>9, <1>10, <1>11, SameSeq
<1>13. ASSUME NEW k \in 1 .. l PROVE s[k][1] = pos[s[k][3] + 1]
  <2>1. 1 \in 1 .. s[k][2] - s[k][1]
    BY <1>2
  <2>2. pos[s[k][3] + 1] = s[k][1] + 1 - 1
    BY <1>3, <2>1
  <2> QED
    BY <1>2, <2>2
<1> QED
  BY <1>1, <1>12, <1>13, <1>14 DEF F, G, parts, l

-----------------------------------------------------------------------------
(* The inductive invariant.                                                 *)

DigestInv ==
    /\ pc \in {"prepare", "refused", "rank", "build", "coalesce", "done"}
    /\ \E lens \in Prompts : raw = CumSum(lens)
    /\ nSink \in Int /\ ratio \in Int
    /\ pc \in {"prepare", "refused", "rank", "build"} =>
          positions = <<>> /\ rows = <<>> /\ spans = <<>>
    /\ pc \in {"rank", "build", "coalesce", "done"} => Layout
    /\ pc \in {"build", "coalesce", "done"} => Ranked
    /\ pc \in {"coalesce", "done"} => Built
    /\ pc = "coalesce" =>
          /\ IsSeq(spans) /\ run \in Int /\ prev \in Int /\ out \in Nat
          /\ i \in 2 .. Len(positions) + 1
          /\ Chain(positions, Append(spans, <<run, prev + 1, out>>), i - 1)
    /\ pc = "done" => Chain(positions, spans, Len(positions))

LEMMA RawKept == ASSUME UNCHANGED raw PROVE (Raw' <=> Raw) /\ Augmented' = Augmented /\ Docs' = Docs
<1>1. Chunks' = Chunks /\ Docs' = Docs /\ QueryStart' = QueryStart /\ QueryEnd' = QueryEnd
  BY DEF Chunks, Docs, QueryStart, QueryEnd
<1>2. Raw' <=> Raw
  BY <1>1 DEF Raw, IsAugmented
<1>3. Augmented' = Augmented
  BY <1>1 DEF Augmented, Around, DocLen, ForwardLen, KeptEnd, DocStart, DocEnd, ZipEnd,
              Docs, Chunks, QueryStart, QueryEnd
<1> QED
  BY <1>1, <1>2, <1>3

LEMMA LayoutKept == ASSUME UNCHANGED <<raw, layout>> PROVE Layout' <=> Layout
BY RawKept DEF Layout

LEMMA RankedKept ==
    ASSUME UNCHANGED <<inputs, score, ranked>> PROVE Ranked' <=> Ranked
<1>1. Docs' = Docs /\ raw' = raw /\ nSink' = nSink /\ ratio' = ratio /\ score' = score /\ ranked' = ranked
  BY RawKept DEF inputs
<1>2. \A d : DocLen(d)' = DocLen(d)
  BY <1>1 DEF DocLen, DocStart, DocEnd
<1>3. \A n, sc : Rankings(n, sc)' = Rankings(n, sc)
  BY <1>1 DEF Rankings, SinkCount
<1> QED
  BY <1>1, <1>2, <1>3 DEF Ranked

LEMMA PositionsKept ==
    ASSUME UNCHANGED <<inputs, layout, ranked>> PROVE ContextPositions' = ContextPositions
BY DEF inputs, ContextPositions, KeptOf, Budget, DocLen, DocStart, DocEnd, Docs, Chunks

LEMMA BuiltKept ==
    ASSUME UNCHANGED <<inputs, layout, ranked, positions, rows>> PROVE Built' <=> Built
<1>1. ContextPositions' = ContextPositions
  BY PositionsKept
<1> QED
  BY <1>1 DEF Built

-----------------------------------------------------------------------------
(* Every step keeps it.                                                     *)

LEMMA DigestStarts == ASSUME DigestAssumption, Init PROVE DigestInv
<1>1. nSink \in Int /\ ratio \in Int
  BY DEF Init, DigestAssumption
<1> QED
  BY <1>1 DEF Init, DigestInv

LEMMA PrepareKeeps == ASSUME DigestInv, Prepare PROVE DigestInv'
<1>1. /\ pc = "prepare" /\ pc' = "rank" /\ layout' = Augmented /\ IsAugmented
      /\ raw' = raw /\ nSink' = nSink /\ ratio' = ratio
      /\ positions' = positions /\ rows' = rows /\ spans' = spans
  BY DEF Prepare, inputs, loop
<1>2. Raw
  BY <1>1 DEF DigestInv, Raw
<1>3. Layout'
  BY <1>1, <1>2, RawKept DEF Layout
<1> QED
  BY <1>1, <1>3 DEF DigestInv

LEMMA RefuseKeeps == ASSUME DigestInv, Refuse PROVE DigestInv'
BY DEF Refuse, inputs, loop, DigestInv

LEMMA RankKeeps == ASSUME DigestInv, Rank PROVE DigestInv'
<1>1. /\ pc = "rank" /\ pc' = "build" /\ layout' = layout
      /\ raw' = raw /\ nSink' = nSink /\ ratio' = ratio
      /\ positions' = positions /\ rows' = rows /\ spans' = spans
      /\ \A d \in Docs : ranked'[d] \in Rankings(DocLen(d), score'[d])
  BY DEF Rank, inputs, loop
<1>2. Layout'
  BY <1>1, LayoutKept DEF DigestInv
<1>3. Ranked'
  <2>1. Docs' = Docs
    BY <1>1, RawKept
  <2>2. \A d : DocLen(d)' = DocLen(d)
    BY <1>1 DEF DocLen, DocStart, DocEnd
  <2>3. \A n, sc : Rankings(n, sc)' = Rankings(n, sc)
    BY <1>1 DEF Rankings, SinkCount
  <2>4. \A d \in Docs' : ranked'[d] \in Rankings(DocLen(d), score[d])'
    <3>1. ASSUME NEW d \in Docs PROVE ranked'[d] \in Rankings(DocLen(d), score[d])'
      <4>1. ranked'[d] \in Rankings(DocLen(d), score'[d])
        BY <1>1
      <4>2. Rankings(DocLen(d), score[d])' = Rankings(DocLen(d), score'[d])
        BY <1>1 DEF Rankings, SinkCount, DocLen, DocStart, DocEnd
      <4> QED
        BY <4>1, <4>2
    <3> QED
      BY <2>1, <3>1
  <2> QED
    BY <1>1, <2>4 DEF Ranked, DigestInv
<1> QED
  BY <1>1, <1>2, <1>3 DEF DigestInv

LEMMA BuildKeeps ==
    ASSUME DigestAssumption, DigestInv, BuildPositions PROVE DigestInv'
<1>1. /\ pc = "build" /\ positions' = ContextPositions
      /\ rows' = [k \in DOMAIN positions' |-> layout.keep[positions'[k] + 1]]
      /\ raw' = raw /\ nSink' = nSink /\ ratio' = ratio
      /\ layout' = layout /\ ranked' = ranked /\ score' = score
      /\ spans' = spans
  BY DEF BuildPositions, inputs, loop
<1>2. Layout /\ Ranked /\ spans = <<>>
  BY <1>1 DEF DigestInv
<1>3. Layout' /\ Ranked'
  BY <1>1, <1>2, LayoutKept, RankedKept DEF inputs
<1>4. Built'
  <2>1. ContextPositions' = ContextPositions
    BY <1>1, PositionsKept DEF inputs
  <2> QED
    BY <1>1, <2>1 DEF Built
<1>5. CASE positions' = <<>>
  <2>1. pc' = "done"
    BY <1>5 DEF BuildPositions
  <2>2. Chain(<<>>, <<>>, 0)
    <3>1. IsSeq(<<>>) /\ Len(<<>>) = 0
      BY DEF IsSeq
    <3> QED
      BY <3>1 DEF Chain
  <2>3. Chain(positions', spans', Len(positions'))
    BY <1>1, <1>2, <1>5, <2>2
  <2> QED
    BY <1>1, <1>3, <1>4, <2>1, <2>3 DEF DigestInv
<1>6. CASE positions' # <<>>
  <2>1. /\ pc' = "coalesce" /\ i' = 2 /\ run' = positions'[1] /\ prev' = positions'[1] /\ out' = 0
    BY <1>6 DEF BuildPositions
  <2> DEFINE P == ContextPositions
  <2>2. /\ IsSeq(P) /\ Len(P) \in Nat /\ \A k \in 1 .. Len(P) : P[k] \in Nat
    BY <1>2, PositionFacts
  <2>3. P = positions' /\ P # <<>>
    BY <1>1, <1>6
  <2> HIDE DEF P
  <2>4. Len(P) >= 1
    <3>1. CASE Len(P) = 0
      <4>1. P \in Seq(ToSet(P))
        BY <2>2 DEF IsSeq
      <4> QED
        BY <2>3, <3>1, <4>1
    <3> QED
      BY <2>2, <3>1
  <2>5. P[1] \in Int
    BY <2>2, <2>4
  <2>6. Chain(P, Append(<<>>, <<P[1], P[1] + 1, 0>>), 1)
    BY <2>5, ChainStart
  <2>7. /\ IsSeq(spans') /\ run' \in Int /\ prev' \in Int /\ out' \in Nat
        /\ i' \in 2 .. Len(positions') + 1
        /\ Chain(positions', Append(spans', <<run', prev' + 1, out'>>), i' - 1)
    <3>1. IsSeq(spans')
      BY <1>1, <1>2 DEF IsSeq
    <3>2. i' - 1 = 1 /\ i' \in 2 .. Len(positions') + 1
      BY <2>1, <2>2, <2>3, <2>4
    <3>3. Append(spans', <<run', prev' + 1, out'>>) = Append(<<>>, <<P[1], P[1] + 1, 0>>)
      BY <1>1, <1>2, <2>1, <2>3
    <3> QED
      BY <2>1, <2>3, <2>5, <2>6, <3>1, <3>2, <3>3
  <2> QED
    BY <1>1, <1>3, <1>4, <2>1, <2>7 DEF DigestInv
<1> QED
  BY <1>5, <1>6

LEMMA CoalesceStepKeeps ==
    ASSUME DigestAssumption, DigestInv, CoalesceStep PROVE DigestInv'
<1>1. /\ pc = "coalesce" /\ pc' = "coalesce" /\ i <= Len(positions)
      /\ raw' = raw /\ nSink' = nSink /\ ratio' = ratio /\ score' = score
      /\ layout' = layout /\ ranked' = ranked /\ positions' = positions /\ rows' = rows
      /\ prev' = positions[i] /\ i' = i + 1
  BY DEF CoalesceStep, inputs
<1>2. /\ Layout /\ Ranked /\ Built
      /\ IsSeq(spans) /\ run \in Int /\ prev \in Int /\ out \in Nat
      /\ i \in 2 .. Len(positions) + 1
      /\ Chain(positions, Append(spans, <<run, prev + 1, out>>), i - 1)
  BY <1>1 DEF DigestInv
<1>3. Layout' /\ Ranked' /\ Built'
  BY <1>1, <1>2, LayoutKept, RankedKept, BuiltKept DEF inputs
<1>4. /\ Len(positions) \in Nat /\ i \in 1 .. Len(positions) /\ positions[i] \in Int
      /\ i - 1 \in 1 .. Len(positions) /\ positions[i - 1] < positions[i]
      /\ i \in Int /\ (i - 1) + 1 = i /\ (i + 1) - 1 = i
  <2>1. /\ Len(positions) \in Nat
        /\ \A k \in 1 .. Len(positions) : positions[k] \in Nat
        /\ \A j, k \in 1 .. Len(positions) : j < k => positions[j] < positions[k]
    BY <1>2, RowFacts
  <2>2. i \in 1 .. Len(positions) /\ i - 1 \in 1 .. Len(positions) /\ i - 1 < i
    BY <1>1, <1>2, <2>1
  <2> QED
    BY <2>1, <2>2
<1> DEFINE e == <<run, prev + 1, out>>
           s == Append(spans, e)
<1>5. /\ IsSeq(s) /\ Len(s) = Len(spans) + 1 /\ Len(s) >= 1 /\ s[Len(s)] = e
  <2>1. Len(spans) \in Nat
    BY <1>2, SeqFacts
  <2> HIDE DEF e
  <2>2. IsSeq(s) /\ Len(s) = Len(spans) + 1 /\ s[Len(spans) + 1] = e
    BY <1>2, AppendIsSeq
  <2> HIDE DEF s
  <2> QED
    BY <2>1, <2>2
<1>6. e[1] = run /\ e[2] = prev + 1 /\ e[3] = out
  OBVIOUS
<1> HIDE DEF e, s
<1>7. /\ Chain(positions, s, i - 1)
  BY <1>2 DEF s, e
\* the open run ends at the position seen last
<1>8. out + (prev + 1 - run) = i - 1 /\ prev = positions[i - 1] /\ run < prev + 1
  <2> DEFINE l == Len(s)
             d == prev + 1 - run
  <2>1. l \in 1 .. Len(s) /\ s[l] = e
    <3>1. Len(s) \in Nat
      BY <1>5, SeqFacts
    <3> QED
      BY <1>5, <3>1
  <2> HIDE DEF l
  <2>2. /\ s[l][1] < s[l][2]
        /\ \A t \in 1 .. s[l][2] - s[l][1] : positions[s[l][3] + t] = s[l][1] + t - 1
    BY <1>7, <2>1 DEF Chain
  <2>3. s[Len(s)][3] + (s[Len(s)][2] - s[Len(s)][1]) = i - 1
    BY <1>5, <1>7, <2>1 DEF Chain, l
  <2>4. d \in 1 .. s[l][2] - s[l][1] /\ d = prev + 1 - run
    BY <1>2, <1>6, <2>1, <2>2
  <2>5. positions[s[l][3] + d] = s[l][1] + d - 1
    BY <2>2, <2>4
  <2>6. positions[out + d] = run + d - 1
    BY <1>6, <2>1, <2>5
  <2>7. out + d = i - 1
    <3>1. s[l][3] + (s[l][2] - s[l][1]) = i - 1
      BY <2>3 DEF l
    <3>2. s[l][1] = run /\ s[l][2] = prev + 1 /\ s[l][3] = out
      BY <1>6, <2>1
    <3>3. s[l][2] - s[l][1] = d
      <4> DEFINE a == s[l][1]
                 b == s[l][2]
      <4>1. a \in Int /\ b \in Int /\ run \in Int /\ prev \in Int /\ a = run /\ b = prev + 1
        BY <1>2, <3>2
      <4> HIDE DEF a, b
      <4>2. b - a = prev + 1 - run
        BY <4>1
      <4> QED
        BY <4>2 DEF a, b
    <3>4. s[l][3] + d = i - 1
      BY <3>1, <3>3
    <3> QED
      BY <3>2, <3>4
  <2>8. run + d - 1 = prev
    BY <1>2
  <2>9. run < prev + 1
    BY <1>6, <2>1, <2>2
  <2> QED
    BY <2>6, <2>7, <2>8, <2>9
<1>9. CASE positions[i] = prev + 1
  <2>1. spans' = spans /\ out' = out /\ run' = run
    BY <1>9 DEF CoalesceStep
  <2>2. Chain(positions, Append(spans, <<run, (prev + 1) + 1, out>>), (i - 1) + 1)
    <3> DEFINE b == prev + 1
               n == i - 1
    <3>1. b \in Int /\ Chain(positions, Append(spans, <<run, b, out>>), n) /\ positions[n + 1] = b
      BY <1>2, <1>4, <1>9
    <3> HIDE DEF b, n
    <3>2. Chain(positions, Append(spans, <<run, b + 1, out>>), n + 1)
      BY <1>2, <3>1, ChainGrows
    <3> QED
      BY <3>2 DEF b, n
  <2>3. /\ IsSeq(spans') /\ run' \in Int /\ prev' \in Int /\ out' \in Nat
        /\ i' \in 2 .. Len(positions') + 1
        /\ Chain(positions', Append(spans', <<run', prev' + 1, out'>>), i' - 1)
    <3>1. i' - 1 = (i - 1) + 1 /\ prev' = prev + 1
      BY <1>1, <1>4, <1>9
    <3>2. i' \in 2 .. Len(positions') + 1
      BY <1>1, <1>4
    <3> QED
      BY <1>1, <1>2, <1>4, <2>1, <2>2, <3>1, <3>2
  <2> QED
    BY <1>1, <1>3, <2>3 DEF DigestInv
<1>10. CASE positions[i] # prev + 1
  <2>1. spans' = s /\ out' = out + RunLength /\ run' = positions[i]
    BY <1>10 DEF CoalesceStep, s, e
  <2>2. out' = i - 1
    <3>1. RunLength = prev - run + 1
      BY DEF RunLength
    <3>2. prev - run + 1 = prev + 1 - run
      BY <1>2
    <3> QED
      BY <1>8, <2>1, <3>1, <3>2
  <2>3. positions[i] > prev + 1
    <3> DEFINE p == positions[i]
    <3>1. prev < p /\ p \in Int /\ p # prev + 1
      BY <1>4, <1>8, <1>10
    <3> HIDE DEF p
    <3>2. p > prev + 1
      BY <1>2, <3>1
    <3> QED
      BY <3>2 DEF p
  <2>4. Chain(positions, Append(s, <<positions[i], positions[i] + 1, i - 1>>), (i - 1) + 1)
    <3> DEFINE p == positions[i]
               n == i - 1
    <3>1. p \in Int /\ Chain(positions, s, n) /\ p = positions[n + 1] /\ p > s[Len(s)][2]
      BY <1>4, <1>5, <1>6, <1>7, <2>3
    <3> HIDE DEF p, n
    <3>2. Chain(positions, Append(s, <<p, p + 1, n>>), n + 1)
      BY <1>5, <3>1, ChainAnew
    <3> QED
      BY <3>2 DEF p, n
  <2>5. /\ IsSeq(spans') /\ run' \in Int /\ prev' \in Int /\ out' \in Nat
        /\ i' \in 2 .. Len(positions') + 1
        /\ Chain(positions', Append(spans', <<run', prev' + 1, out'>>), i' - 1)
    <3>1. i' - 1 = (i - 1) + 1
      BY <1>1, <1>4
    <3>2. i' \in 2 .. Len(positions') + 1 /\ i - 1 \in Nat
      BY <1>1, <1>4
    <3> QED
      BY <1>1, <1>4, <1>5, <2>1, <2>2, <2>4, <3>1, <3>2
  <2> QED
    BY <1>1, <1>3, <2>5 DEF DigestInv
<1> QED
  BY <1>9, <1>10

LEMMA CoalesceEndKeeps ==
    ASSUME DigestAssumption, DigestInv, CoalesceEnd PROVE DigestInv'
<1>1. /\ pc = "coalesce" /\ pc' = "done" /\ i > Len(positions)
      /\ raw' = raw /\ nSink' = nSink /\ ratio' = ratio /\ score' = score
      /\ layout' = layout /\ ranked' = ranked /\ positions' = positions /\ rows' = rows
      /\ spans' = Append(spans, <<run, prev + 1, out>>)
  BY DEF CoalesceEnd, inputs
<1>2. /\ Layout /\ Ranked /\ Built /\ i \in 2 .. Len(positions) + 1
      /\ Chain(positions, Append(spans, <<run, prev + 1, out>>), i - 1)
  BY <1>1 DEF DigestInv
<1>3. Layout' /\ Ranked' /\ Built'
  BY <1>1, <1>2, LayoutKept, RankedKept, BuiltKept DEF inputs
<1>4. i - 1 = Len(positions)
  <2>1. Len(positions) \in Nat
    BY <1>2, RowFacts
  <2> QED
    BY <1>1, <1>2, <2>1
<1>5. Chain(positions', spans', Len(positions'))
  BY <1>1, <1>2, <1>4
<1> QED
  BY <1>1, <1>3, <1>5 DEF DigestInv

LEMMA DigestStutters == ASSUME DigestInv, UNCHANGED vars PROVE DigestInv'
<1>1. /\ pc' = pc /\ raw' = raw /\ nSink' = nSink /\ ratio' = ratio /\ score' = score
      /\ layout' = layout /\ ranked' = ranked /\ positions' = positions /\ rows' = rows
      /\ spans' = spans /\ i' = i /\ run' = run /\ prev' = prev /\ out' = out
  BY DEF vars
<1>2. (Layout' <=> Layout) /\ (Ranked' <=> Ranked) /\ (Built' <=> Built)
  BY <1>1, LayoutKept, RankedKept, BuiltKept DEF inputs
<1> QED
  BY <1>1, <1>2 DEF DigestInv

LEMMA DigestHolds == ASSUME DigestAssumption PROVE Spec => []DigestInv
<1>1. Init => DigestInv
  BY DigestStarts
<1>2. DigestInv /\ [Next]_vars => DigestInv'
  BY PrepareKeeps, RefuseKeeps, RankKeeps, BuildKeeps, CoalesceStepKeeps, CoalesceEndKeeps,
     DigestStutters DEF Next
<1> QED
  BY <1>1, <1>2, PTL DEF Spec

-----------------------------------------------------------------------------
(* The theorems.                                                            *)

LEMMA BeforeRows ==
    ASSUME DigestInv, pc \notin {"coalesce", "done"}
    PROVE  rows = <<>> /\ DOMAIN rows = {}
<1>1. rows = <<>>
  BY DEF DigestInv
<1> QED
  BY <1>1

LEMMA InvRows ==
    ASSUME DigestAssumption, DigestInv
    PROVE  DigestRowsAreContext /\ SameOffsetInChunk /\ BestTokensKept
<1>1. CASE pc \in {"coalesce", "done"}
  <2>1. Layout /\ Ranked /\ Built
    BY <1>1 DEF DigestInv
  <2> QED
    BY <2>1, RowsAreContext, OffsetsAgree, BestKept
<1>2. CASE pc \notin {"coalesce", "done"}
  <2>1. DOMAIN rows = {}
    BY <1>2, BeforeRows
  <2>2. DigestRowsAreContext
    BY <2>1 DEF DigestRowsAreContext
  <2>3. SameOffsetInChunk
    BY <2>1 DEF SameOffsetInChunk
  <2>4. BestTokensKept
    BY <1>2 DEF BestTokensKept
  <2> QED
    BY <2>2, <2>3, <2>4
<1> QED
  BY <1>1, <1>2

LEMMA InvSpans == ASSUME DigestAssumption, DigestInv PROVE SpansCover
<1> DEFINE open == IF pc = "coalesce" THEN Append(spans, <<run, prev + 1, out>>) ELSE spans
           seen == IF pc = "coalesce" THEN SubSeq(positions, 1, i - 1) ELSE positions
<1> SUFFICES ASSUME pc \in {"coalesce", "done"}
             PROVE  /\ FlattenSeq([k \in DOMAIN open |-> RangeSeq(open[k][1], open[k][2])]) = seen
                    /\ \A k \in DOMAIN open : open[k][1] = positions[open[k][3] + 1]
                    /\ \A k \in 2 .. Len(open) : open[k][1] > open[k - 1][2]
  BY DEF SpansCover
<1>1. IsSeq(positions) /\ Len(positions) \in Nat
  BY RowFacts DEF DigestInv
<1> DEFINE n == IF pc = "coalesce" THEN i - 1 ELSE Len(positions)
<1>2. Chain(positions, open, n) /\ n <= Len(positions) /\ n \in Nat
  <2>1. CASE pc = "coalesce"
    <3>1. /\ i \in 2 .. Len(positions) + 1
          /\ Chain(positions, Append(spans, <<run, prev + 1, out>>), i - 1)
      BY <2>1 DEF DigestInv
    <3> QED
      BY <1>1, <2>1, <3>1
  <2>2. CASE pc = "done"
    BY <1>1, <2>2 DEF DigestInv
  <2> QED
    BY <2>1, <2>2
<1>3. seen = SubSeq(positions, 1, n)
  <2>1. CASE pc = "coalesce"
    BY <2>1
  <2>2. CASE pc = "done"
    <3> DEFINE m == Len(positions)
               t == SubSeq(positions, 1, m)
    <3>1. m \in Nat /\ 1 \in Int /\ m \in Int
      BY <1>1
    <3>2. IsSeq(t) /\ Len(t) = IF 1 <= m THEN m - 1 + 1 ELSE 0
      BY <3>1, SubSeqIsSeq
    <3>3. \A k \in 1 .. m - 1 + 1 : t[k] = positions[1 + k - 1]
      BY <3>1, SubSeqIsSeq
    <3> HIDE DEF t
    <3>4. Len(t) = m /\ \A k \in 1 .. m : t[k] = positions[k]
      <4>1. \A k \in 1 .. m : k \in 1 .. m - 1 + 1 /\ 1 + k - 1 = k
        BY <3>1
      <4> QED
        BY <3>1, <3>2, <3>3, <4>1
    <3>5. t = positions
      BY <1>1, <3>2, <3>4, SameSeq
    <3> QED
      BY <2>2, <3>5 DEF t
  <2> QED
    BY <2>1, <2>2
<1> HIDE DEF open, seen, n
<1>4. FlattenSeq([k \in DOMAIN open |-> RangeSeq(open[k][1], open[k][2])]) = SubSeq(positions, 1, n)
  BY <1>1, <1>2, ChainCovers
<1>5. ASSUME NEW k \in DOMAIN open PROVE open[k][1] = positions[open[k][3] + 1]
  <2>1. k \in 1 .. Len(open) /\ Len(open) \in Nat
    BY <1>2, SeqFacts DEF Chain
  <2>2. /\ open[k][1] \in Int /\ open[k][2] \in Int /\ open[k][3] \in Nat
        /\ open[k][1] < open[k][2]
    BY <1>2, <2>1 DEF Chain
  <2>3. \A t \in 1 .. open[k][2] - open[k][1] : positions[open[k][3] + t] = open[k][1] + t - 1
    BY <1>2, <2>1 DEF Chain
  <2>4. 1 \in 1 .. open[k][2] - open[k][1] /\ open[k][1] + 1 - 1 = open[k][1]
    BY <2>2
  <2> QED
    BY <2>3, <2>4
<1>6. \A k \in 2 .. Len(open) : open[k][1] > open[k - 1][2]
  BY <1>2 DEF Chain
<1> QED
  BY <1>3, <1>4, <1>5, <1>6

\* build_all_indices and build_context_positions: the rows stored in the
\* digest are tokens of the system prompt and the documents, in prompt order,
\* stored with their positions in the prompt without zip prompts.
THEOREM RowsAreTheContext == Spec => []DigestRowsAreContext
<1>1. DigestInv => DigestRowsAreContext
  BY DigestAssumption, InvRows
<1> QED
  BY <1>1, DigestAssumption, DigestHolds, PTL

\* prepare_augmented_locs_for_request: a row's token has the same offset in
\* the chunk the forward pass ran as in the chunk the cache describes.
THEOREM OffsetsAreKept == Spec => []SameOffsetInChunk
<1>1. DigestInv => SameOffsetInChunk
  BY DigestAssumption, InvRows
<1> QED
  BY <1>1, DigestAssumption, DigestHolds, PTL

\* _rank_from_scores and build_context_positions: each document keeps
\* ceil(ratio * length) tokens, its sinks first and then its best scored.
THEOREM BestAreKept == Spec => []BestTokensKept
<1>1. DigestInv => BestTokensKept
  BY DigestAssumption, InvRows
<1> QED
  BY <1>1, DigestAssumption, DigestHolds, PTL

\* _coalesce_sorted_positions: at every step of its loop the spans read the
\* positions seen so far, each into its place, and none could join the last.
THEOREM SpansReadAll == Spec => []SpansCover
<1>1. DigestInv => SpansCover
  BY DigestAssumption, InvSpans
<1> QED
  BY <1>1, DigestAssumption, DigestHolds, PTL
===============================================================================
