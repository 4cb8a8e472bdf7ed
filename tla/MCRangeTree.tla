---------------------------- MODULE MCRangeTree -----------------------------
(* Instances of RangeTree for TLC.                                          *)
EXTENDS RangeTreeInv

Zeroed == {<<0, 0>>}
AnyGarbage == {<<0, 0>>, <<1, 3>>}
=============================================================================
