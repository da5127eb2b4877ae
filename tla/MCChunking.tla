----------------------------- MODULE MCChunking -----------------------------
(* Values of the constants of Chunking for the runs of TLC.                  *)
EXTENDS Chunking

NoClient   == {}
AllKnown   == Known
Misspelled == {"LINEAR", "linear"}
ManySizes  == {1, 3, 8}
ManyLimits == {1, 2, 4}
ZeroLimit  == {0}
=============================================================================
