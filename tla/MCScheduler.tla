---------------------------- MODULE MCScheduler ----------------------------
(* Requests whose prompts and outputs share prefixes, in a cache that holds  *)
(* about half of what they need together.                                    *)
EXTENDS Scheduler

CONSTANTS a, b, c, x, y, z

MCReqs == {a, b, c}
MCPrompt == (a :> <<x, y>>) @@ (b :> <<x>>) @@ (c :> <<x>>)
MCOutput == (a :> <<x, z, x, y>>) @@ (b :> <<y, y, x, x, z>>) @@ (c :> <<y>>)
MCModes == [overlap : BOOLEAN, radix : BOOLEAN]
MCMayStop == {a}
MCMayAbort == {a, b}
MCRatios == {1, 7, 10}

\* one short request that waits for its first decode, and a long prompt
RingReqs == {a, b}
RingPrompt == (a :> <<x>>) @@ (b :> <<y, y, y, y, y, y, y>>)
RingOutput == (a :> <<x, z, x>>) @@ (b :> <<y>>)
RingModes == {[overlap |-> TRUE, radix |-> TRUE]}
=============================================================================
