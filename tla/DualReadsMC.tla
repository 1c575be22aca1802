---------------------------- MODULE DualReadsMC ----------------------------
\* Instances of DualReads for TLC.
EXTENDS DualReads

CONSTANTS w1, w2, r1

TwoWrites == {w1, w2}
OneInfer == {w1}
OneReader == {r1}
ShadowOnly == {"shadow"}
=============================================================================
