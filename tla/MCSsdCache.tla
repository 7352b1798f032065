---------------------------- MODULE MCSsdCache ----------------------------
\* Model checking of SsdCache: two baselines whose query caches differ in the
\* number of writes and in their size (4 and 9 bytes).
EXTENDS SsdCache, TLC

CONSTANTS ours, prophetkv

MCBlocks     == [b \in Baselines |-> IF b = ours THEN 2 ELSE 3]
MCBlockBytes == [b \in Baselines |-> IF b = ours THEN 2 ELSE 3]
=============================================================================
