----------------------------- MODULE MCControl -----------------------------
(* Instances of Control for TLC: one pad, one board, a virtual child. *)
EXTENDS Control, TLC

CONSTANTS p1, p2, b1, v1

OnePad == {p1}
OneBoard == {b1}
OneVirtual == {v1}
Nobody == {}
=============================================================================
