------------------------------ MODULE MCRadar -------------------------------
(* The radar with short times: a sweep of two updates, one update late. *)
EXTENDS Radar

OneOrTwo == {1, 2}
One == {1}
=============================================================================
