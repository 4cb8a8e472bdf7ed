----------------------------- MODULE MCLrcuTso ------------------------------
(* An instance of LrcuTso for TLC.                                          *)
EXTENDS LrcuTso

NoGarbage == {<<0, 0>>}
=============================================================================
