------------------------------ MODULE SsdCache ------------------------------
(***************************************************************************)
(* The chunk and query caches on SSD across runs of the runner             *)
(* (blend/sglang_blend_ssd.py) that may be killed at any moment.  A run    *)
(* executes one baseline over the samples: phase1_offline saves what       *)
(* _has_cache misses, phase2_online serves every sample from its caches.   *)
(* A sample has four files, written in this order by save_all_chunk_cache  *)
(* and save_all_query_cache, each truncated by open(.., "wb"/"w") first:   *)
(*    kv_packed.bin, kv_packed_meta.json,                                  *)
(*    query_packed.bin, query_packed_meta.json                             *)
(* A killed process loses what it had not written; what it had written     *)
(* stays.  Serving changes no file, so the warm-up, which serves the last  *)
(* samples once more, is not repeated here.                                *)
(***************************************************************************)
EXTENDS Integers

CONSTANTS
    NumSamples,
    Baselines,    \* they share the chunk caches and differ in the query caches
    ChunkBlocks,  \* writes that make up a chunk cache
    Blocks,       \* writes that make up the query cache of a baseline
    BlockBytes,   \* the bytes of one of them
    Crashes,      \* TRUE: a run may be killed
    MaxRuns,      \* bound on the runs
    None          \* a file that does not exist

Samples == 0 .. NumSamples - 1

\* The validators compare sizes only.  They suffice when no unfinished or
\* finished query cache of one baseline is as long as another's.
ASSUME CacheAssumption ==
    /\ NumSamples \in Nat \ {0}
    /\ ChunkBlocks \in Nat \ {0}
    /\ Blocks \in [Baselines -> Nat \ {0}]
    /\ BlockBytes \in [Baselines -> Nat \ {0}]
    /\ Crashes \in BOOLEAN
    /\ MaxRuns \in Nat
    /\ None \notin Nat /\ None \notin [by : Baselines, len : Nat]
    /\ None \notin Baselines /\ "absent" \notin Baselines /\ "partial" \notin Baselines
    /\ \A b, c \in Baselines : b # c =>
          \A n \in 0 .. Blocks[c] : n * BlockBytes[c] # Blocks[b] * BlockBytes[b]

VARIABLES
    chunkBin,   \* blocks written to kv_packed.bin
    chunkMeta,  \* kv_packed_meta.json
    queryBin,   \* query_packed.bin: by which baseline, and how far
    queryMeta,  \* query_packed_meta.json: the baseline it describes
    phase,      \* where the run is
    baseline,   \* what it runs
    sample,     \* the sample it is at
    runs,       \* runs started
    used,       \* the baselines they ran (history)
    killed      \* one of them was killed (history)

files == <<chunkBin, chunkMeta, queryBin, queryMeta>>
past == <<runs, used, killed>>
vars == <<chunkBin, chunkMeta, queryBin, queryMeta, phase, baseline, sample,
          runs, used, killed>>

Phases == {"stopped", "offline", "chunk_bin", "chunk_meta", "chunk_saved",
           "query_bin", "query_meta", "recheck", "online", "qcomputed", "done", "failed"}

TypeOK ==
    /\ chunkBin \in [Samples -> 0 .. ChunkBlocks \cup {None}]
    /\ chunkMeta \in [Samples -> {"absent", "partial", "whole"}]
    /\ queryBin \in [Samples -> [by : Baselines, len : Nat] \cup {None}]
    /\ \A s \in Samples : queryBin[s] # None => queryBin[s].len <= Blocks[queryBin[s].by]
    /\ queryMeta \in [Samples -> Baselines \cup {"absent", "partial"}]
    /\ phase \in Phases
    /\ baseline \in Baselines
    /\ sample \in Samples
    /\ runs \in 0 .. MaxRuns
    /\ used \subseteq Baselines
    /\ killed \in BOOLEAN

Init ==
    /\ chunkBin = [s \in Samples |-> None]
    /\ chunkMeta = [s \in Samples |-> "absent"]
    /\ queryBin = [s \in Samples |-> None]
    /\ queryMeta = [s \in Samples |-> "absent"]
    /\ phase = "stopped"
    /\ baseline \in Baselines
    /\ sample = 0
    /\ runs = 0
    /\ used = {}
    /\ killed = FALSE

-----------------------------------------------------------------------------
(* What the runner and the server make of the files.                        *)

ChunkFiles(s) == chunkBin[s] # None /\ chunkMeta[s] # "absent"
QueryFiles(s) == queryBin[s] # None /\ queryMeta[s] # "absent"

\* faulty variant: the query cache of whatever baseline is accepted
HasCache_AnyBaseline(s) == /\ ChunkFiles(s) /\ chunkMeta[s] = "whole"
                           /\ QueryFiles(s) /\ queryMeta[s] # "partial"

\* _has_cache, when json.loads can read the metadata it looks at
HasCache(s) == /\ ChunkFiles(s) /\ chunkMeta[s] = "whole"
               /\ QueryFiles(s) /\ queryMeta[s] = baseline

\* ... and when it cannot: JSONDecodeError out of the runner
Unreadable(s) == /\ ChunkFiles(s)
                 /\ \/ chunkMeta[s] = "partial"
                    \/ QueryFiles(s) /\ queryMeta[s] = "partial"

\* _load_packed_meta: the layers described add up to the size of the file
ChunkLoads(s) == /\ ChunkFiles(s) /\ chunkMeta[s] = "whole"
                 /\ chunkBin[s] = ChunkBlocks

\* faulty variant: the file may be longer than its metadata says
QueryLoads_Longer(s) ==
    /\ QueryFiles(s) /\ queryMeta[s] # "partial"
    /\ queryBin[s].len * BlockBytes[queryBin[s].by]
         >= Blocks[queryMeta[s]] * BlockBytes[queryMeta[s]]

\* _load_query_meta
QueryLoads(s) ==
    /\ QueryFiles(s) /\ queryMeta[s] # "partial"
    /\ queryBin[s].len * BlockBytes[queryBin[s].by]
         = Blocks[queryMeta[s]] * BlockBytes[queryMeta[s]]

-----------------------------------------------------------------------------
(* A run.                                                                   *)

StartRun(b) ==
    /\ phase \in {"stopped", "done", "failed"}
    /\ runs < MaxRuns
    /\ runs' = runs + 1
    /\ used' = used \cup {b}
    /\ baseline' = b
    /\ sample' = 0
    /\ phase' = "offline"
    /\ UNCHANGED <<files, killed>>

Kill ==
    /\ Crashes
    /\ phase \notin {"stopped", "done", "failed"}
    /\ phase' = "stopped"
    /\ killed' = TRUE
    /\ UNCHANGED <<files, baseline, sample, runs, used>>

\* on to the next sample, or to the next phase
NextSample ==
    IF sample + 1 < NumSamples
    THEN sample' = sample + 1 /\ phase' = "offline"
    ELSE sample' = 0 /\ phase' = "online"

SkipCached ==
    /\ phase \in {"offline", "recheck"}
    /\ HasCache(sample)
    /\ NextSample
    /\ UNCHANGED <<files, baseline, past>>

\* JSONDecodeError, or the RuntimeError of a cache still missing
GiveUp ==
    /\ \/ phase \in {"offline", "recheck"} /\ Unreadable(sample)
       \/ phase = "recheck" /\ ~ HasCache(sample)
    /\ phase' = "failed"
    /\ UNCHANGED <<files, baseline, sample, past>>

\* the KVCOMPUTE is sent; its last layer opens kv_packed.bin
BeginSave ==
    /\ phase = "offline"
    /\ ~ HasCache(sample) /\ ~ Unreadable(sample)
    /\ phase' = "chunk_bin"
    /\ chunkBin' = [chunkBin EXCEPT ![sample] = 0]
    /\ UNCHANGED <<chunkMeta, queryBin, queryMeta, baseline, sample, past>>

\* faulty variant: one block too many
WriteChunkBin_OneMore ==
    /\ phase = "chunk_bin"
    /\ IF chunkBin[sample] <= ChunkBlocks
       THEN /\ chunkBin' = [chunkBin EXCEPT ![sample] = @ + 1]
            /\ UNCHANGED <<chunkMeta, phase>>
       ELSE /\ chunkMeta' = [chunkMeta EXCEPT ![sample] = "partial"]
            /\ phase' = "chunk_meta"
            /\ UNCHANGED chunkBin
    /\ UNCHANGED <<queryBin, queryMeta, baseline, sample, past>>

WriteChunkBin ==
    /\ phase = "chunk_bin"
    /\ IF chunkBin[sample] < ChunkBlocks
       THEN /\ chunkBin' = [chunkBin EXCEPT ![sample] = @ + 1]
            /\ UNCHANGED <<chunkMeta, phase>>
       ELSE /\ chunkMeta' = [chunkMeta EXCEPT ![sample] = "partial"]
            /\ phase' = "chunk_meta"
            /\ UNCHANGED chunkBin
    /\ UNCHANGED <<queryBin, queryMeta, baseline, sample, past>>

\* kv_packed_meta.json is written and closed
WriteChunkMeta ==
    /\ phase = "chunk_meta"
    /\ chunkMeta' = [chunkMeta EXCEPT ![sample] = "whole"]
    /\ phase' = "chunk_saved"
    /\ UNCHANGED <<chunkBin, queryBin, queryMeta, baseline, sample, past>>

\* faulty variant: query_packed_meta.json is written before query_packed.bin
OpenQueryBin_MetaFirst ==
    /\ phase = "chunk_saved"
    /\ queryMeta' = [queryMeta EXCEPT ![sample] = baseline]
    /\ queryBin' = [queryBin EXCEPT ![sample] = [by |-> baseline, len |-> 0]]
    /\ phase' = "query_bin"
    /\ UNCHANGED <<chunkBin, chunkMeta, baseline, sample, past>>

\* save_all_query_cache truncates query_packed.bin
OpenQueryBin ==
    /\ phase = "chunk_saved"
    /\ queryBin' = [queryBin EXCEPT ![sample] = [by |-> baseline, len |-> 0]]
    /\ phase' = "query_bin"
    /\ UNCHANGED <<chunkBin, chunkMeta, queryMeta, baseline, sample, past>>

WriteQueryBin ==
    /\ phase = "query_bin"
    /\ IF queryBin[sample].len < Blocks[baseline]
       THEN /\ queryBin' = [queryBin EXCEPT ![sample].len = @ + 1]
            /\ UNCHANGED <<queryMeta, phase>>
       ELSE /\ queryMeta' = [queryMeta EXCEPT ![sample] = "partial"]
            /\ phase' = "query_meta"
            /\ UNCHANGED queryBin
    /\ UNCHANGED <<chunkBin, chunkMeta, baseline, sample, past>>

\* faulty variant: query_packed_meta.json is left open, its tail unwritten
WriteQueryMeta_Unflushed ==
    /\ phase = "query_meta"
    /\ phase' = "recheck"
    /\ UNCHANGED <<files, baseline, sample, past>>

WriteQueryMeta ==
    /\ phase = "query_meta"
    /\ queryMeta' = [queryMeta EXCEPT ![sample] = baseline]
    /\ phase' = "recheck"
    /\ UNCHANGED <<chunkBin, chunkMeta, queryBin, baseline, sample, past>>

\* phase2_online of a sample: the QCOMPUTE, then the DO_BLEND_FINISH
ServeQCompute ==
    /\ phase = "online"
    /\ QueryLoads(sample)
    /\ phase' = "qcomputed"
    /\ UNCHANGED <<files, baseline, sample, past>>

ServeBlend ==
    /\ phase = "qcomputed"
    /\ ChunkLoads(sample)
    /\ IF sample + 1 < NumSamples
       THEN sample' = sample + 1 /\ phase' = "online"
       ELSE sample' = sample /\ phase' = "done"
    /\ UNCHANGED <<files, baseline, past>>

\* the loader's error ends the server, and the run with it
ServerDies ==
    /\ \/ phase = "online" /\ ~ QueryLoads(sample)
       \/ phase = "qcomputed" /\ ~ ChunkLoads(sample)
    /\ phase' = "failed"
    /\ UNCHANGED <<files, baseline, sample, past>>

RunStep == \/ SkipCached \/ GiveUp \/ BeginSave
           \/ WriteChunkBin \/ WriteChunkMeta
           \/ OpenQueryBin \/ WriteQueryBin \/ WriteQueryMeta
           \/ ServeQCompute \/ ServeBlend \/ ServerDies

Next == (\E b \in Baselines : StartRun(b)) \/ Kill \/ RunStep

Spec == Init /\ [][Next]_vars

\* a run that has been started and is not killed goes on
FairSpec == Spec /\ WF_vars(RunStep)

-----------------------------------------------------------------------------

\* no run was killed, or all of them ran the same baseline
CleanOrAlone == killed => \A b, c \in used : b = c

(***************************************************************************)
(* What _has_cache accepts, the server can load: query_packed_meta.json is *)
(* written last and commits what was written before it.  Runs of several   *)
(* baselines may share the caches, and runs may be killed anywhere, but    *)
(* not both.  phase1_offline relies on it ("Skip if cache exists.").       *)
(***************************************************************************)
Loadable(s) == ChunkLoads(s) /\ QueryLoads(s)
SkippedIsLoadable == CleanOrAlone => \A s \in Samples : HasCache(s) => Loadable(s)

(***************************************************************************)
(* A QCOMPUTE that the server accepts reads the whole query cache of the   *)
(* baseline it runs: neither a part of one, nor the bytes that a killed    *)
(* run of another baseline wrote under the old metadata.                   *)
(***************************************************************************)
ServesOwnBaseline ==
    phase = "online" /\ QueryLoads(sample) =>
        queryBin[sample] = [by |-> baseline, len |-> Blocks[baseline]]

(***************************************************************************)
(* As long as no run is killed, a run ends with every sample served,       *)
(* whatever baselines ran on the same caches before.                       *)
(***************************************************************************)
RunSucceeds == phase = "offline" ~> phase = "done" \/ killed

-----------------------------------------------------------------------------
(* What the files amount to, seen as a store of caches.                     *)

ChunksStored == {s \in Samples : ChunkLoads(s)}
QueryStored ==
    [s \in Samples |->
        IF /\ queryMeta[s] \in Baselines
           /\ queryBin[s] = [by |-> queryMeta[s], len |-> Blocks[queryMeta[s]]]
        THEN queryMeta[s] ELSE None]
Served == CASE phase \in {"online", "qcomputed"} -> sample
            [] phase = "done" -> NumSamples
            [] OTHER -> 0

Store == INSTANCE CacheStore WITH
            chunks <- ChunksStored, query <- QueryStored,
            user <- baseline, served <- Served

(***************************************************************************)
(* The file protocol of phase1_offline and of the server's validators      *)
(* keeps the promises of CacheStore, with baselines alternating and runs   *)
(* killed anywhere: every sample served comes from whole caches of the     *)
(* run's baseline, in order, and no kill makes a cache appear or vanish.   *)
(***************************************************************************)
ImplementsStore == Store!Spec

-----------------------------------------------------------------------------
(* The inductive invariants behind ServesOwnBaseline and SkippedIsLoadable. *)

Offline == {"offline", "chunk_bin", "chunk_meta", "chunk_saved", "query_bin",
            "query_meta", "recheck"}
Online  == {"online", "qcomputed"}
Saving  == {"chunk_bin", "chunk_meta", "chunk_saved", "query_bin", "query_meta"}

\* the sample being saved: what is written of it so far, over what was there
SaveInv ==
    /\ phase = "chunk_bin" => chunkBin[sample] # None
    /\ phase \in Saving => queryMeta[sample] # baseline
    /\ phase \in Saving \ {"chunk_bin"} => chunkBin[sample] = ChunkBlocks
    /\ phase \in {"chunk_saved", "query_bin", "query_meta"} => chunkMeta[sample] = "whole"
    /\ phase = "query_bin" => queryBin[sample] # None /\ queryBin[sample].by = baseline
    /\ phase = "query_meta" =>
          queryBin[sample] = [by |-> baseline, len |-> Blocks[baseline]]

\* no file is ever removed, and the query metadata comes last
FilesInv == \A s \in Samples : queryMeta[s] \in Baselines =>
                chunkBin[s] # None /\ chunkMeta[s] # "absent" /\ queryBin[s] # None

\* the samples that phase1_offline has left behind have a cache
PassedInv ==
    /\ phase \in Offline => \A s \in Samples : s < sample => HasCache(s)
    /\ phase \in Online  => \A s \in Samples : HasCache(s)

\* the sample that is being served has a query cache the server accepted
ServedInv == phase = "qcomputed" => QueryLoads(sample)

IInv == TypeOK /\ SaveInv /\ FilesInv /\ PassedInv /\ ServedInv

\* who wrote the metadata, and who is writing
UsedInv ==
    /\ phase # "stopped" => baseline \in used
    /\ \A s \in Samples : queryMeta[s] \in used \cup {"absent", "partial"}

\* query_packed_meta.json commits all four files, but for the sample that is
\* being saved over the cache of another baseline
Committed(s) ==
    queryMeta[s] \in Baselines =>
        /\ chunkBin[s] = ChunkBlocks /\ chunkMeta[s] = "whole"
        /\ queryBin[s] = [by |-> queryMeta[s], len |-> Blocks[queryMeta[s]]]
CommitInv ==
    \A s \in Samples : Committed(s) \/ (phase \in Saving /\ s = sample)
CleanInv == UsedInv /\ (CleanOrAlone => CommitInv)
=============================================================================
