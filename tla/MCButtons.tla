----------------------------- MODULE MCButtons -----------------------------
(* Instances of Buttons for TLC: who uses which buttons. *)
EXTENDS Buttons, TLC

ThreePlayers == {{"A", "X"}, {"SELECT", "START"}, {"L1", "R1"}}
=============================================================================
