--------------------------- MODULE SsdCacheProofs ---------------------------
(***************************************************************************)
(* SsdCache for every number of samples, baselines, runs and writes: what  *)
(* the server accepts is a whole query cache of the running baseline; what *)
(* phase1_offline skips can be loaded, unless baselines alternate and runs *)
(* are killed; and the files implement the store of module CacheStore.     *)
(***************************************************************************)
EXTENDS SsdCache, TLAPS

-----------------------------------------------------------------------------
(* The sizes tell the query caches of two baselines apart.                  *)

LEMMA SizesDiffer ==
    ASSUME NEW b \in Baselines, NEW c \in Baselines,
           NEW n \in 0 .. Blocks[c],
           n * BlockBytes[c] = Blocks[b] * BlockBytes[b]
    PROVE  c = b /\ n = Blocks[b]
<1>1. c = b
  BY CacheAssumption
<1>2. /\ Blocks[b] \in Nat \ {0}
      /\ BlockBytes[b] \in Nat \ {0}
  BY CacheAssumption
<1>3. ASSUME NEW x \in Nat, NEW y \in Nat, NEW w \in Nat \ {0}, x * w = y * w
      PROVE  x = y
  BY <1>3, SMT
<1>4. n \in Nat /\ n * BlockBytes[b] = Blocks[b] * BlockBytes[b]
  BY <1>1, <1>2
<1>5. n = Blocks[b]
  <2> DEFINE x == Blocks[b]
             w == BlockBytes[b]
  <2>1. x \in Nat /\ w \in Nat \ {0} /\ n \in Nat /\ n * w = x * w
    BY <1>2, <1>4
  <2> HIDE DEF x, w
  <2>2. n = x
    BY <2>1, <1>3
  <2> QED
    BY <2>2 DEF x
<1> QED
  BY <1>1, <1>5

LEMMA SampleTypes ==
    /\ Samples \subseteq Nat
    /\ 0 \in Samples
    /\ \A s \in Samples : s + 1 < NumSamples => s + 1 \in Samples
    /\ \A s \in Samples, t \in Samples : t < s + 1 => t < s \/ t = s
    /\ \A s \in Samples, t \in Samples : s + 1 < NumSamples \/ t < s \/ t = s
BY CacheAssumption DEF Samples

-----------------------------------------------------------------------------

LEMMA InitGood == Init => IInv
<1> SUFFICES ASSUME Init PROVE IInv
  OBVIOUS
<1> USE CacheAssumption, SampleTypes DEF Init
<1>1. TypeOK
  <2>1. /\ chunkBin \in [Samples -> 0 .. ChunkBlocks \cup {None}]
        /\ queryBin \in [Samples -> [by : Baselines, len : Nat] \cup {None}]
        /\ \A s \in Samples : queryBin[s] = None
    OBVIOUS
  <2>2. /\ chunkMeta \in [Samples -> {"absent", "partial", "whole"}]
        /\ queryMeta \in [Samples -> Baselines \cup {"absent", "partial"}]
    OBVIOUS
  <2>3. phase \in Phases /\ runs \in 0 .. MaxRuns
    BY DEF Phases
  <2> QED
    BY <2>1, <2>2, <2>3 DEF TypeOK
<1>2. SaveInv
  BY DEF SaveInv, Saving
<1>3. FilesInv
  BY DEF FilesInv
<1>4. PassedInv /\ ServedInv
  BY DEF PassedInv, ServedInv, Offline, Online
<1> QED
  BY <1>1, <1>2, <1>3, <1>4 DEF IInv

\* the types of the variables
LEMMA NextTypes == IInv /\ [Next]_vars => TypeOK'
<1> SUFFICES ASSUME IInv, [Next]_vars PROVE TypeOK'
  OBVIOUS
<1> USE CacheAssumption, SampleTypes DEF IInv, TypeOK, SaveInv, Phases, Saving, past, files
<1>1. ASSUME NEW b \in Baselines, StartRun(b) PROVE TypeOK'
  BY <1>1 DEF StartRun, past
<1>2. CASE Kill
  BY <1>2 DEF Kill
<1>3. CASE SkipCached
  BY <1>3 DEF SkipCached, NextSample
<1>4. CASE GiveUp
  BY <1>4 DEF GiveUp
<1>5. CASE BeginSave
  BY <1>5 DEF BeginSave
<1>6. CASE WriteChunkBin
  BY <1>6 DEF WriteChunkBin
<1>7. CASE WriteChunkMeta
  BY <1>7 DEF WriteChunkMeta
<1>8. CASE WriteQueryBin
  BY <1>8 DEF WriteQueryBin
<1>9. CASE WriteQueryMeta
  BY <1>9 DEF WriteQueryMeta
<1>10. CASE ServeQCompute
  BY <1>10 DEF ServeQCompute
<1>11. CASE ServeBlend
  BY <1>11 DEF ServeBlend
<1>12. CASE ServerDies
  BY <1>12 DEF ServerDies
<1>13. CASE UNCHANGED vars
  BY <1>13 DEF vars
<1>14. CASE OpenQueryBin
  BY <1>14 DEF OpenQueryBin
<1> QED
  BY <1>1, <1>2, <1>3, <1>4, <1>5, <1>6, <1>7, <1>8, <1>9, <1>10, <1>11,
     <1>12, <1>13, <1>14 DEF Next, RunStep

\* the sample being saved; _has_cache has seen that it lacks what is needed
LEMMA NextSaves == IInv /\ [Next]_vars => SaveInv'
<1> SUFFICES ASSUME IInv, [Next]_vars PROVE SaveInv'
  OBVIOUS
<1> USE CacheAssumption DEF IInv, TypeOK, SaveInv, Phases, Saving, past, files
<1>1. ASSUME NEW b \in Baselines, StartRun(b) PROVE SaveInv'
  BY <1>1 DEF StartRun, past
<1>2. CASE Kill
  BY <1>2 DEF Kill
<1>3. CASE SkipCached
  BY <1>3 DEF SkipCached, NextSample
<1>4. CASE GiveUp
  BY <1>4 DEF GiveUp
<1>5. CASE BeginSave
  <2>1. queryMeta[sample] # baseline
    BY <1>5 DEF BeginSave, FilesInv, HasCache, Unreadable, ChunkFiles, QueryFiles
  <2> QED
    BY <1>5, <2>1 DEF BeginSave
<1>6. CASE WriteChunkBin
  <2>1. chunkBin[sample] # None /\ queryMeta[sample] # baseline /\ sample \in Samples
    BY <1>6 DEF WriteChunkBin
  <2>2. CASE chunkBin[sample] < ChunkBlocks
    BY <1>6, <2>1, <2>2 DEF WriteChunkBin
  <2>3. CASE ~ (chunkBin[sample] < ChunkBlocks)
    <3>1. ASSUME NEW n \in 0 .. ChunkBlocks, ~ (n < ChunkBlocks) PROVE n = ChunkBlocks
      <4> HIDE DEF IInv, TypeOK, SaveInv
      <4> QED
        BY <3>1, CacheAssumption
    <3>2. chunkBin[sample] \in 0 .. ChunkBlocks
      BY <2>1
    <3>3. chunkBin[sample] = ChunkBlocks
      BY <2>3, <3>1, <3>2
    <3> QED
      BY <1>6, <2>1, <2>3, <3>3 DEF WriteChunkBin
  <2> QED
    BY <2>2, <2>3
<1>7. CASE WriteChunkMeta
  BY <1>7 DEF WriteChunkMeta
<1>8. CASE WriteQueryBin
  <2>1. queryBin[sample] \in [by : Baselines, len : Nat]
    BY <1>8 DEF WriteQueryBin
  <2>2. CASE queryBin[sample].len < Blocks[baseline]
    <3>1. phase' = "query_bin" /\ UNCHANGED <<chunkBin, chunkMeta, queryMeta, baseline, sample>>
      BY <1>8, <2>2 DEF WriteQueryBin
    <3>2. queryBin'[sample] # None /\ queryBin'[sample].by = baseline
      BY <1>8, <2>1, <2>2 DEF WriteQueryBin
    <3> QED
      BY <1>8, <3>1, <3>2 DEF WriteQueryBin
  <2>3. CASE ~ (queryBin[sample].len < Blocks[baseline])
    <3>0. /\ queryBin[sample].by = baseline
          /\ queryBin[sample].len <= Blocks[queryBin[sample].by]
      BY <1>8 DEF WriteQueryBin
    <3>1. Blocks[baseline] \in Nat /\ queryBin[sample].len \in Nat
      BY <2>1
    <3>2. queryBin[sample].len = Blocks[baseline]
      <4> DEFINE n == queryBin[sample].len
                 m == Blocks[baseline]
      <4>1. n \in Nat /\ m \in Nat /\ n <= m /\ ~ (n < m)
        BY <2>3, <3>0, <3>1, Zenon
      <4> HIDE DEF n, m
      <4>2. n = m
        BY <4>1
      <4> QED
        BY <4>2 DEF n, m
    <3>3. queryBin[sample] = [by |-> baseline, len |-> Blocks[baseline]]
      BY <2>1, <3>0, <3>2
    <3>4. /\ phase = "query_bin" /\ phase' = "query_meta"
          /\ queryMeta'[sample] = "partial"
          /\ UNCHANGED <<chunkBin, chunkMeta, queryBin, baseline, sample>>
      BY <1>8, <2>3 DEF WriteQueryBin
    <3>5. "partial" # baseline
      OBVIOUS
    <3>6. chunkBin[sample] = ChunkBlocks /\ chunkMeta[sample] = "whole"
      BY <3>4
    <3>7. /\ queryBin'[sample'] = [by |-> baseline', len |-> Blocks[baseline']]
          /\ chunkBin'[sample'] = ChunkBlocks /\ chunkMeta'[sample'] = "whole"
          /\ queryMeta'[sample'] # baseline'
      BY <3>3, <3>4, <3>5, <3>6
    <3> HIDE DEF TypeOK, IInv
    <3> QED
      BY <3>4, <3>7 DEF SaveInv, Saving
  <2> QED
    BY <2>2, <2>3
<1>9. CASE WriteQueryMeta
  BY <1>9 DEF WriteQueryMeta
<1>10. CASE ServeQCompute
  BY <1>10 DEF ServeQCompute
<1>11. CASE ServeBlend
  BY <1>11 DEF ServeBlend
<1>12. CASE ServerDies
  BY <1>12 DEF ServerDies
<1>13. CASE UNCHANGED vars
  BY <1>13 DEF vars
<1>14. CASE OpenQueryBin
  BY <1>14 DEF OpenQueryBin
<1> QED
  BY <1>1, <1>2, <1>3, <1>4, <1>5, <1>6, <1>7, <1>8, <1>9, <1>10, <1>11,
     <1>12, <1>13, <1>14 DEF Next, RunStep

\* files come into being in the order they are written and stay
LEMMA NextFiles == IInv /\ [Next]_vars => FilesInv'
<1> SUFFICES ASSUME IInv, [Next]_vars PROVE FilesInv'
  OBVIOUS
<1> USE CacheAssumption DEF IInv, TypeOK, SaveInv, FilesInv, Phases, Saving, past, files
<1>1. ASSUME NEW b \in Baselines, StartRun(b) PROVE FilesInv'
  BY <1>1 DEF StartRun, past
<1>2. CASE Kill
  BY <1>2 DEF Kill
<1>3. CASE SkipCached
  BY <1>3 DEF SkipCached, NextSample
<1>4. CASE GiveUp
  BY <1>4 DEF GiveUp
<1>5. CASE BeginSave
  BY <1>5 DEF BeginSave
<1>6. CASE WriteChunkBin
  BY <1>6 DEF WriteChunkBin
<1>7. CASE WriteChunkMeta
  BY <1>7 DEF WriteChunkMeta
<1>8. CASE WriteQueryBin
  BY <1>8 DEF WriteQueryBin
<1>9. CASE WriteQueryMeta
  BY <1>9 DEF WriteQueryMeta
<1>10. CASE ServeQCompute
  BY <1>10 DEF ServeQCompute
<1>11. CASE ServeBlend
  BY <1>11 DEF ServeBlend
<1>12. CASE ServerDies
  BY <1>12 DEF ServerDies
<1>13. CASE UNCHANGED vars
  BY <1>13 DEF vars
<1>14. CASE OpenQueryBin
  BY <1>14 DEF OpenQueryBin
<1> QED
  BY <1>1, <1>2, <1>3, <1>4, <1>5, <1>6, <1>7, <1>8, <1>9, <1>10, <1>11,
     <1>12, <1>13, <1>14 DEF Next, RunStep

\* serving changes no file
LEMMA NextServed == IInv /\ [Next]_vars => ServedInv'
<1> SUFFICES ASSUME IInv, [Next]_vars PROVE ServedInv'
  OBVIOUS
<1> USE DEF IInv, ServedInv, QueryLoads, QueryFiles, past, files
<1>1. ASSUME NEW b \in Baselines, StartRun(b) PROVE ServedInv'
  BY <1>1 DEF StartRun, past
<1>2. CASE Kill
  BY <1>2 DEF Kill
<1>3. CASE SkipCached
  BY <1>3 DEF SkipCached, NextSample
<1>4. CASE GiveUp
  BY <1>4 DEF GiveUp
<1>5. CASE BeginSave
  BY <1>5 DEF BeginSave
<1>6. CASE WriteChunkBin
  BY <1>6 DEF WriteChunkBin
<1>7. CASE WriteChunkMeta
  BY <1>7 DEF WriteChunkMeta
<1>8. CASE WriteQueryBin
  BY <1>8 DEF WriteQueryBin
<1>9. CASE WriteQueryMeta
  BY <1>9 DEF WriteQueryMeta
<1>10. CASE ServeQCompute
  BY <1>10 DEF ServeQCompute
<1>11. CASE ServeBlend
  BY <1>11 DEF ServeBlend
<1>12. CASE ServerDies
  BY <1>12 DEF ServerDies
<1>13. CASE UNCHANGED vars
  BY <1>13 DEF vars
<1>14. CASE OpenQueryBin
  BY <1>14 DEF OpenQueryBin
<1> QED
  BY <1>1, <1>2, <1>3, <1>4, <1>5, <1>6, <1>7, <1>8, <1>9, <1>10, <1>11,
     <1>12, <1>13, <1>14 DEF Next, RunStep

\* only the sample at hand is written
LEMMA NextPassed == IInv /\ [Next]_vars => PassedInv'
<1> SUFFICES ASSUME IInv, [Next]_vars PROVE PassedInv'
  OBVIOUS
<1> USE CacheAssumption, SampleTypes
    DEF IInv, TypeOK, PassedInv, Phases, past, files, Offline, Online, HasCache,
        ChunkFiles, QueryFiles
<1>1. ASSUME NEW b \in Baselines, StartRun(b) PROVE PassedInv'
  BY <1>1 DEF StartRun, Samples
<1>2. CASE Kill
  BY <1>2 DEF Kill
<1>3. CASE SkipCached
  <2>1. \A s \in Samples : HasCache(s)' <=> HasCache(s)
    BY <1>3 DEF SkipCached
  <2>2. CASE sample + 1 < NumSamples
    BY <1>3, <2>1, <2>2 DEF SkipCached, NextSample
  <2>3. CASE ~ (sample + 1 < NumSamples)
    <3>1. \A s \in Samples : HasCache(s)
      BY <1>3, <2>3 DEF SkipCached
    <3> QED
      BY <1>3, <2>1, <2>3, <3>1 DEF SkipCached, NextSample
  <2> QED
    BY <2>2, <2>3
<1>4. CASE GiveUp
  BY <1>4 DEF GiveUp
<1>5. CASE BeginSave
  BY <1>5 DEF BeginSave
<1>6. CASE WriteChunkBin
  BY <1>6 DEF WriteChunkBin
<1>7. CASE WriteChunkMeta
  BY <1>7 DEF WriteChunkMeta
<1>8. CASE WriteQueryBin
  BY <1>8 DEF WriteQueryBin
<1>9. CASE WriteQueryMeta
  BY <1>9 DEF WriteQueryMeta
<1>10. CASE ServeQCompute
  BY <1>10 DEF ServeQCompute
<1>11. CASE ServeBlend
  BY <1>11 DEF ServeBlend
<1>12. CASE ServerDies
  BY <1>12 DEF ServerDies
<1>13. CASE UNCHANGED vars
  BY <1>13 DEF vars
<1>14. CASE OpenQueryBin
  BY <1>14 DEF OpenQueryBin
<1> QED
  BY <1>1, <1>2, <1>3, <1>4, <1>5, <1>6, <1>7, <1>8, <1>9, <1>10, <1>11,
     <1>12, <1>13, <1>14 DEF Next, RunStep

LEMMA InvariantHolds == Spec => []IInv
<1>1. IInv /\ [Next]_vars => IInv'
  BY NextTypes, NextSaves, NextFiles, NextPassed, NextServed DEF IInv
<1> QED
  BY InitGood, <1>1, PTL DEF Spec

(***************************************************************************)
(* No run, killed or not, writes more blocks than a cache has, and every   *)
(* variable of the runner keeps its type.                                  *)
(***************************************************************************)
THEOREM CacheTypes == Spec => []TypeOK
<1>1. IInv => TypeOK
  BY DEF IInv
<1> QED
  BY <1>1, InvariantHolds, PTL

\* _load_query_meta tells a whole query cache by its size
LEMMA OwnQuery ==
    ASSUME IInv, NEW s \in Samples, queryMeta[s] = baseline, QueryLoads(s)
    PROVE  queryBin[s] = [by |-> baseline, len |-> Blocks[baseline]]
<1>1. /\ baseline \in Baselines
      /\ queryBin[s] \in [by : Baselines, len : Nat]
      /\ queryBin[s].len \in 0 .. Blocks[queryBin[s].by]
  BY CacheAssumption DEF IInv, TypeOK, QueryLoads, QueryFiles
<1>2. queryBin[s].len * BlockBytes[queryBin[s].by] = Blocks[baseline] * BlockBytes[baseline]
  BY DEF QueryLoads
<1>3. queryBin[s].by = baseline /\ queryBin[s].len = Blocks[baseline]
  BY <1>1, <1>2, SizesDiffer
<1> QED
  BY <1>1, <1>3

(***************************************************************************)
(* What _load_query_meta accepts in phase2_online is the whole query cache *)
(* of the baseline that runs, wherever runs of any baseline were killed:   *)
(* phase1_offline has seen that baseline's metadata, and the size it gives *)
(* is the size of no other file a run can leave.                           *)
(***************************************************************************)
THEOREM OwnBaselineServed == Spec => []ServesOwnBaseline
<1>1. IInv /\ phase = "online" => sample \in Samples /\ queryMeta[sample] = baseline
  BY DEF IInv, TypeOK, PassedInv, Online, HasCache
<1>2. IInv => ServesOwnBaseline
  BY <1>1, OwnQuery DEF ServesOwnBaseline
<1> QED
  BY <1>2, InvariantHolds, PTL

-----------------------------------------------------------------------------
(* Clean runs, or one baseline.                                             *)

LEMMA NextUsed == IInv /\ UsedInv /\ [Next]_vars => UsedInv'
<1> SUFFICES ASSUME IInv, UsedInv, [Next]_vars PROVE UsedInv'
  OBVIOUS
<1> USE CacheAssumption DEF IInv, TypeOK, UsedInv, Phases, past, files
<1>1. ASSUME NEW b \in Baselines, StartRun(b) PROVE UsedInv'
  BY <1>1 DEF StartRun, past
<1>2. CASE Kill
  BY <1>2 DEF Kill
<1>3. CASE SkipCached
  BY <1>3 DEF SkipCached, NextSample
<1>4. CASE GiveUp
  BY <1>4 DEF GiveUp
<1>5. CASE BeginSave
  BY <1>5 DEF BeginSave
<1>6. CASE WriteChunkBin
  BY <1>6 DEF WriteChunkBin
<1>7. CASE WriteChunkMeta
  BY <1>7 DEF WriteChunkMeta
<1>8. CASE WriteQueryBin
  BY <1>8 DEF WriteQueryBin
<1>9. CASE WriteQueryMeta
  BY <1>9 DEF WriteQueryMeta
<1>10. CASE ServeQCompute
  BY <1>10 DEF ServeQCompute
<1>11. CASE ServeBlend
  BY <1>11 DEF ServeBlend
<1>12. CASE ServerDies
  BY <1>12 DEF ServerDies
<1>13. CASE UNCHANGED vars
  BY <1>13 DEF vars
<1>14. CASE OpenQueryBin
  BY <1>14 DEF OpenQueryBin
<1> QED
  BY <1>1, <1>2, <1>3, <1>4, <1>5, <1>6, <1>7, <1>8, <1>9, <1>10, <1>11,
     <1>12, <1>13, <1>14 DEF Next, RunStep

\* the history only grows: what is clean or alone now has always been
LEMMA CleanBefore == [Next]_vars /\ CleanOrAlone' => CleanOrAlone
BY DEF Next, RunStep, StartRun, Kill, SkipCached, GiveUp, BeginSave, WriteChunkBin,
       WriteChunkMeta, OpenQueryBin, WriteQueryBin, WriteQueryMeta, ServeQCompute, ServeBlend,
       ServerDies, past, vars, CleanOrAlone

\* a sample is being saved over the cache of another baseline only in a
\* history without kills, and then it is saved to the end
LEMMA NextCommits ==
    IInv /\ UsedInv /\ CommitInv /\ CleanOrAlone' /\ [Next]_vars => CommitInv'
<1> SUFFICES ASSUME IInv, UsedInv, CommitInv, CleanOrAlone', [Next]_vars
             PROVE  CommitInv'
  OBVIOUS
<1> USE CacheAssumption
    DEF IInv, TypeOK, SaveInv, CommitInv, Committed, Saving, Phases, past, files
<1>1. ASSUME NEW b \in Baselines, StartRun(b) PROVE CommitInv'
  BY <1>1 DEF StartRun, past
<1>2. CASE Kill
  <2>1. ASSUME phase \in Saving, queryMeta[sample] \in Baselines PROVE FALSE
    <3>1. \A b, c \in used : b = c
      BY <1>2 DEF Kill, CleanOrAlone
    <3>2. queryMeta[sample] \in used /\ baseline \in used
      BY <2>1 DEF UsedInv
    <3> QED
      BY <2>1, <3>1, <3>2
  <2> QED
    BY <1>2, <2>1 DEF Kill
<1>3. CASE SkipCached
  BY <1>3 DEF SkipCached, NextSample
<1>4. CASE GiveUp
  BY <1>4 DEF GiveUp
<1>5. CASE BeginSave
  BY <1>5 DEF BeginSave
<1>6. CASE WriteChunkBin
  BY <1>6 DEF WriteChunkBin
<1>7. CASE WriteChunkMeta
  BY <1>7 DEF WriteChunkMeta
<1>8. CASE WriteQueryBin
  <2>1. queryBin[sample] \in [by : Baselines, len : Nat]
    BY <1>8 DEF WriteQueryBin
  <2>2. /\ phase' \in Saving /\ sample' = sample
        /\ \A s \in Samples : s # sample =>
              queryBin'[s] = queryBin[s] /\ queryMeta'[s] = queryMeta[s]
        /\ UNCHANGED <<chunkBin, chunkMeta>>
    BY <1>8, <2>1 DEF WriteQueryBin
  <2> QED
    BY <2>2
<1>9. CASE WriteQueryMeta
  BY <1>9 DEF WriteQueryMeta
<1>10. CASE ServeQCompute
  BY <1>10 DEF ServeQCompute
<1>11. CASE ServeBlend
  BY <1>11 DEF ServeBlend
<1>12. CASE ServerDies
  BY <1>12 DEF ServerDies
<1>13. CASE UNCHANGED vars
  BY <1>13 DEF vars
<1>14. CASE OpenQueryBin
  BY <1>14 DEF OpenQueryBin
<1> QED
  BY <1>1, <1>2, <1>3, <1>4, <1>5, <1>6, <1>7, <1>8, <1>9, <1>10, <1>11,
     <1>12, <1>13, <1>14 DEF Next, RunStep

(***************************************************************************)
(* Whatever _has_cache accepts has been saved to the end, as long as no    *)
(* run was killed or all runs were of one baseline.                        *)
(***************************************************************************)
THEOREM SkippedLoads == Spec => []SkippedIsLoadable
<1>1. Init => CleanInv
  BY CacheAssumption DEF Init, CleanInv, UsedInv, CommitInv, Committed, Saving
<1>2. IInv /\ CleanInv => SkippedIsLoadable
  <2> SUFFICES ASSUME IInv, CommitInv, NEW s \in Samples, HasCache(s)
               PROVE  Loadable(s)
    BY DEF SkippedIsLoadable, CleanInv
  <2>1. ChunkFiles(s) /\ QueryFiles(s) /\ queryMeta[s] = baseline /\ baseline \in Baselines
    BY DEF HasCache, IInv, TypeOK
  <2>2. Committed(s)
    BY <2>1 DEF CommitInv, IInv, SaveInv
  <2>3. /\ queryBin[s].by = queryMeta[s]
        /\ queryBin[s].len = Blocks[queryMeta[s]]
    <3>1. queryBin[s] = [by |-> queryMeta[s], len |-> Blocks[queryMeta[s]]]
      BY <2>1, <2>2 DEF Committed
    <3> QED
      BY <3>1
  <2>4. ChunkLoads(s)
    BY <2>1, <2>2 DEF Committed, ChunkLoads
  <2>5. queryMeta[s] # "partial"
    BY <2>1, CacheAssumption
  <2>6. QueryLoads(s)
    BY <2>1, <2>3, <2>5, Zenon DEF QueryLoads
  <2> QED
    BY <2>4, <2>6 DEF Loadable
<1>3. IInv /\ CleanInv /\ [Next]_vars => CleanInv'
  BY NextUsed, NextCommits, CleanBefore DEF CleanInv
<1> QED
  BY <1>1, <1>2, <1>3, InvariantHolds, PTL DEF Spec

-----------------------------------------------------------------------------
(* The refinement.                                                          *)

\* the files of the other samples do not matter to what one sample stores
LEMMA StoredLocally ==
    ASSUME IInv, NEW s \in Samples
    PROVE  /\ chunkBin'[s] = chunkBin[s] /\ chunkMeta'[s] = chunkMeta[s] =>
                 (s \in ChunksStored' <=> s \in ChunksStored)
           /\ queryBin'[s] = queryBin[s] /\ queryMeta'[s] = queryMeta[s] =>
                 QueryStored'[s] = QueryStored[s]
BY DEF ChunksStored, QueryStored, ChunkLoads, ChunkFiles

LEMMA SameFiles == UNCHANGED files => UNCHANGED <<ChunksStored, QueryStored>>
BY DEF files, ChunksStored, QueryStored, ChunkLoads, ChunkFiles

\* while a sample is being saved it has no query cache of the run's baseline
LEMMA SavingLacks ==
    ASSUME IInv, phase \in Saving
    PROVE  sample \in Samples /\ QueryStored[sample] # baseline
BY CacheAssumption DEF IInv, TypeOK, SaveInv, QueryStored

LEMMA SavingServesNone ==
    ASSUME phase \in Saving \cup {"offline", "recheck"} PROVE Served = 0
BY DEF Saving, Served

LEMMA InitStores == Init => Store!Init
<1> SUFFICES ASSUME Init PROVE Store!Init
  OBVIOUS
<1> USE CacheAssumption DEF Init
<1>1. ChunksStored = {}
  BY DEF ChunksStored, ChunkLoads, ChunkFiles
<1>2. QueryStored = [s \in Samples |-> None]
  BY DEF QueryStored
<1>3. Served = 0
  BY DEF Served
<1> QED
  BY <1>1, <1>2, <1>3 DEF Store!Init

\* a write to the chunk files of the sample being saved
LEMMA ChunkStep ==
    ASSUME IInv, phase \in Saving \cup {"offline"}, phase' \in Saving,
           QueryStored[sample] # baseline, sample \in Samples,
           \A s \in Samples \ {sample} :
              chunkBin'[s] = chunkBin[s] /\ chunkMeta'[s] = chunkMeta[s],
           UNCHANGED <<queryBin, queryMeta, baseline>>
    PROVE  [Store!Next]_(Store!vars)
<1>1. QueryStored' = QueryStored
  BY DEF QueryStored
<1>2. \A s \in Samples \ {sample} : s \in ChunksStored' <=> s \in ChunksStored
  BY StoredLocally
<1>3. ChunksStored \subseteq Samples /\ ChunksStored' \subseteq Samples
  BY DEF ChunksStored
<1>4. ChunksStored' = ChunksStored \cup {sample} \/ ChunksStored' = ChunksStored \ {sample}
  BY <1>2, <1>3
<1>5. Served = 0 /\ Served' = 0
  BY DEF Served, Saving
<1> QED
  BY <1>1, <1>4, <1>5
     DEF Store!Next, Store!Invalidate, Store!SaveChunks

LEMMA NextStores == IInv /\ [Next]_vars => [Store!Next]_(Store!vars)
<1> SUFFICES ASSUME IInv, [Next]_vars PROVE [Store!Next]_(Store!vars)
  OBVIOUS
<1>1. ASSUME NEW b \in Baselines, StartRun(b) PROVE Store!StartRun
  <2>1. Served' = 0 /\ baseline' \in Baselines
    BY <1>1 DEF StartRun, Served
  <2>2. UNCHANGED <<ChunksStored, QueryStored>>
    BY <1>1, SameFiles DEF StartRun, files
  <2> QED
    BY <2>1, <2>2 DEF Store!StartRun
<1>2. CASE Kill \/ GiveUp \/ ServerDies
  <2>1. Served' = 0 /\ UNCHANGED baseline /\ UNCHANGED files
    BY <1>2 DEF Kill, GiveUp, ServerDies, Served, files
  <2> QED
    BY <2>1, SameFiles DEF Store!Next, Store!Stop
<1>3. CASE SkipCached \/ ServeQCompute
  <2>1. UNCHANGED <<baseline, Served>> /\ UNCHANGED files
    BY <1>3 DEF SkipCached, NextSample, ServeQCompute, Served, files
  <2> QED
    BY <2>1, SameFiles DEF Store!vars
<1>4. CASE BeginSave
  <2>1. QueryStored[sample] # baseline /\ sample \in Samples
    BY <1>4, CacheAssumption DEF BeginSave, IInv, TypeOK, FilesInv, HasCache,
       Unreadable, ChunkFiles, QueryFiles, QueryStored
  <2> QED
    BY <1>4, <2>1, ChunkStep DEF BeginSave, Saving, IInv, TypeOK
<1>5. CASE WriteChunkBin
  BY <1>5, SavingLacks, ChunkStep DEF WriteChunkBin, Saving, IInv, TypeOK
<1>6. CASE WriteChunkMeta
  BY <1>6, SavingLacks, ChunkStep DEF WriteChunkMeta, Saving, IInv, TypeOK
<1>11. CASE OpenQueryBin
  <2>1. sample \in Samples /\ QueryStored[sample] # baseline /\ Served = 0 /\ Served' = 0
    BY <1>11, SavingLacks DEF OpenQueryBin, Saving, Served
  <2>2. ChunksStored' = ChunksStored \cup {sample}
    <3>1. sample \in ChunksStored
      BY <1>11, CacheAssumption DEF OpenQueryBin, IInv, TypeOK, SaveInv, Saving,
         ChunksStored, ChunkLoads, ChunkFiles
    <3>2. ChunksStored' = ChunksStored
      BY <1>11 DEF OpenQueryBin, ChunksStored, ChunkLoads, ChunkFiles
    <3> QED
      BY <3>1, <3>2
  <2>3. QueryStored' \in {QueryStored, [QueryStored EXCEPT ![sample] = None]}
    <3>1. \A s \in Samples \ {sample} : QueryStored'[s] = QueryStored[s]
      BY <1>11, StoredLocally DEF OpenQueryBin, IInv, TypeOK
    <3>2. QueryStored'[sample] = None
      <4>1. /\ queryBin'[sample] = [by |-> baseline, len |-> 0]
            /\ queryMeta'[sample] # baseline
        BY <1>11, <2>1 DEF OpenQueryBin, IInv, TypeOK, SaveInv, Saving
      <4>2. queryBin'[sample].by = baseline
        BY <4>1
      <4> QED
        BY <2>1, <4>1, <4>2 DEF QueryStored
    <3>3. QueryStored' = [s \in Samples |-> QueryStored'[s]]
      BY DEF QueryStored
    <3>4. QueryStored = [s \in Samples |-> QueryStored[s]]
      BY DEF QueryStored
    <3> QED
      BY <3>1, <3>2, <3>3, <3>4
  <2> QED
    BY <1>11, <2>1, <2>2, <2>3 DEF OpenQueryBin, Store!Next, Store!SaveChunks
<1>7. CASE WriteQueryBin
  <2>1. \A s \in Samples \ {sample} : QueryStored'[s] = QueryStored[s]
    BY <1>7, StoredLocally DEF WriteQueryBin, IInv, TypeOK
  <2>2. QueryStored[sample] = None /\ QueryStored'[sample] = None
    <3>1. /\ sample \in Samples
          /\ queryBin[sample] \in [by : Baselines, len : Nat]
          /\ queryBin[sample].by = baseline
          /\ queryMeta[sample] # baseline
      BY <1>7 DEF WriteQueryBin, IInv, TypeOK, SaveInv, Saving
    <3>2. /\ queryBin'[sample].by = baseline
          /\ queryMeta'[sample] = queryMeta[sample] \/ queryMeta'[sample] = "partial"
      BY <1>7, <3>1 DEF WriteQueryBin, IInv, TypeOK
    <3> QED
      BY <3>1, <3>2, CacheAssumption DEF QueryStored
  <2>3. QueryStored' = QueryStored
    BY <2>1, <2>2 DEF QueryStored
  <2>4. ChunksStored' = ChunksStored
    BY <1>7 DEF WriteQueryBin, ChunksStored, ChunkLoads, ChunkFiles
  <2>5. UNCHANGED <<baseline, Served>>
    BY <1>7 DEF WriteQueryBin, Served
  <2> QED
    BY <2>3, <2>4, <2>5 DEF Store!vars
<1>8. CASE WriteQueryMeta
  <2>1. sample \in Samples /\ baseline \in Baselines /\ baseline' = baseline
        /\ Served = 0 /\ Served' = 0
    BY <1>8 DEF WriteQueryMeta, IInv, TypeOK, Served
  <2>2. ChunksStored' = ChunksStored /\ sample \in ChunksStored
    BY <1>8, CacheAssumption DEF WriteQueryMeta, IInv, TypeOK, SaveInv, Saving,
       ChunksStored, ChunkLoads, ChunkFiles
  <2>3. QueryStored' = [QueryStored EXCEPT ![sample] = baseline]
    <3>1. \A s \in Samples \ {sample} : QueryStored'[s] = QueryStored[s]
      BY <1>8, StoredLocally DEF WriteQueryMeta, IInv, TypeOK
    <3>2. QueryStored'[sample] = baseline
      BY <1>8, <2>1 DEF WriteQueryMeta, IInv, TypeOK, SaveInv, QueryStored
    <3>3. QueryStored' = [s \in Samples |-> QueryStored'[s]]
      BY DEF QueryStored
    <3>4. QueryStored = [s \in Samples |-> QueryStored[s]]
      BY DEF QueryStored
    <3> QED
      BY <3>1, <3>2, <3>3, <3>4
  <2> QED
    BY <2>1, <2>2, <2>3 DEF Store!Next, Store!SaveQuery
<1>9. CASE ServeBlend
  <2>1. sample \in Samples /\ Served = sample /\ baseline' = baseline
    BY <1>9 DEF ServeBlend, IInv, TypeOK, Served
  <2>2. Served' = sample + 1
    <3>1. sample \in Nat /\ sample < NumSamples /\ NumSamples \in Nat
      BY <2>1, CacheAssumption DEF Samples
    <3>2. CASE sample + 1 < NumSamples
      BY <1>9, <3>2 DEF ServeBlend, Served
    <3>3. CASE ~ (sample + 1 < NumSamples)
      <4>1. NumSamples = sample + 1
        BY <3>1, <3>3
      <4> QED
        BY <1>9, <3>3, <4>1 DEF ServeBlend, Served
    <3> QED
      BY <3>2, <3>3
  <2>3. sample \in ChunksStored
    BY <1>9, <2>1 DEF ServeBlend, ChunksStored
  <2>4. QueryStored[sample] = baseline
    <3>1. queryMeta[sample] = baseline /\ QueryLoads(sample) /\ baseline \in Baselines
      BY <1>9, <2>1 DEF ServeBlend, IInv, TypeOK, PassedInv, ServedInv, Online, HasCache
    <3>2. queryBin[sample] = [by |-> baseline, len |-> Blocks[baseline]]
      BY <2>1, <3>1, OwnQuery
    <3> QED
      BY <2>1, <3>1, <3>2 DEF QueryStored
  <2>5. UNCHANGED <<ChunksStored, QueryStored>>
    BY <1>9, SameFiles DEF ServeBlend, files
  <2> QED
    BY <2>1, <2>2, <2>3, <2>4, <2>5 DEF Store!Next, Store!Serve
<1>10. CASE UNCHANGED vars
  BY <1>10, SameFiles DEF vars, files, Served, Store!vars
<1> QED
  BY <1>1, <1>2, <1>3, <1>4, <1>5, <1>6, <1>7, <1>8, <1>9, <1>10,
     <1>11 DEF Next, RunStep, Store!Next

(***************************************************************************)
(* For every number of samples and of writes, with baselines alternating   *)
(* and runs killed anywhere, the four files of a sample behave like an     *)
(* entry of CacheStore.                                                    *)
(***************************************************************************)
THEOREM FilesImplementStore == Spec => ImplementsStore
<1>1. IInv /\ [Next]_vars => [Store!Next]_(Store!vars)
  BY NextStores
<1> QED
  BY <1>1, InitStores, InvariantHolds, PTL DEF Spec, ImplementsStore, Store!Spec
=============================================================================
