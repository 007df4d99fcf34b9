------------------------------ MODULE MCSound -------------------------------
(* Instances of Sound for TLC. *)
EXTENDS Sound, TLC

CONSTANTS p1, p2, p3, b1, v1

Pads == {p1, p2, p3}
OneBoard == {b1}
OneVirtual == {v1}
SelfAlivePads == {p3}
=============================================================================
