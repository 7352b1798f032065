------------------------------ MODULE MCBatch -------------------------------
\* Model checking of BlendBatch: prompts with no document, empty ones and
\* several, questions with and without instructions before and after them.
EXTENDS BlendBatch

MCPrompts == [sys : {1, 2}, docs : {<<>>, <<0>>, <<2>>, <<3, 1>>},
              pre : {0, 2}, quest : {1, 2}, tail : {0, 1}]
MCSepTokens == [k \in 1 .. 2 |-> <<-9, k>>]
MCSeps == {<<MCSepTokens[1]>>, MCSepTokens, <<MCSepTokens[1], MCSepTokens[2], MCSepTokens[2]>>}
MCFew == {p \in MCPrompts : p.sys = 1 /\ p.tail = 1 /\ p.docs # <<0>> /\ p.pre + p.quest # 1}
MCOne == [1 .. 1 -> MCPrompts]
MCTwo == [1 .. 2 -> MCFew]
MCOneOrTwo == MCOne \cup MCTwo
MCQuarters == {-1, 0, 1, 3, 4}
=============================================================================
