------------------------------ MODULE MCDigest ------------------------------
\* Model checking of DigestIndex: one or two documents of up to three tokens,
\* empty chunks included, and prompts whose layout is refused.
EXTENDS DigestIndex

MCPrompts ==
    {<<s, d, z, q>> : s \in {0, 2}, d \in 0 .. 3, z \in 0 .. 1, q \in 0 .. 1}
    \cup {<<s, d, z, e, y, 1>> : s \in {0, 1}, d \in 0 .. 3, z \in 0 .. 1,
                                 e \in 0 .. 2, y \in {0, 1}}
    \cup {<<1, 1>>, <<1, 1, 1, 1, 1>>}
=============================================================================
