----------------------------- MODULE MCSteering -----------------------------
(* The car's own numbers, with sticks and weights near every threshold. *)
EXTENDS Steering

\* Both ends, both sides of the dead zone and of the axis gate, and values
\* whose scaled speeds do not divide evenly.
Sticks == {-512, -203, 0, 52, 61, 511}

\* Nobody, a load below the idle threshold, a rider whose lean is slight, under
\* whom the filter never comes to rest (8427 % 28 = 27), and a load that drives
\* an axis to its end.
Weights == {0, 1500, 8427, 60000}

\* While somebody rides the pad is held forward, so that the wheels tell who
\* drives.
Forward == {[[s \in Stick |-> 0] EXCEPT !.y = -203]}
=============================================================================
