------------------------------ MODULE MCTokenizer ------------------------------
(***************************************************************************)
(* Two calls, one streamed, whose client may leave, and one not, beside a  *)
(* pause and two weight updates, one of which aborts every request first.  *)
(***************************************************************************)
EXTENDS TokenizerManager

CONSTANTS r1, r2, u1, u2
MCReqs == {r1, r2}
MCStreams == {r1}
MCUpdates == {u1, u2}
MCAborting == {u1}
===============================================================================
