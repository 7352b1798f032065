------------------------------ MODULE MCBlend -------------------------------
\* Model checking of BlendServer: every run of it uses this module.
EXTENDS BlendProperties, TLC

\* clients are interchangeable; used in runs of safety properties only
ClientSymmetry == Permutations(Clients)
=============================================================================
