-------------------------- MODULE MCFanSupervision --------------------------
EXTENDS FanSupervision, TLC

Interchangeable == Permutations(Workers)
=============================================================================
