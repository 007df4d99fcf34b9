-------------------------------- MODULE Show --------------------------------
(***************************************************************************)
(* What a display without a controller promises: nine acts in a fixed order *)
(* and round again, and a turret that turns the other way at each of its    *)
(* acts.  A connection may end the display at any moment; the next one      *)
(* begins with the first act, turning right.                                *)
(***************************************************************************)
EXTENDS Integers

VARIABLES act,      \* 0 while nothing is shown, else the number of the act
          turn      \* direction of the last turret act: 1 right, -1 left

Programme == <<"turret", "laser", "light", "turret", "light", "turret",
               "gatling", "mist", "sound">>

Init == act = 0 /\ turn = -1

\* The next act begins.
Play ==
  /\ act' = (act % 9) + 1
  /\ turn' = IF Programme[act'] = "turret" THEN -turn ELSE turn

\* The display is abandoned, or set up again from the first act.
Drop == act' = 0 /\ turn' \in {turn, -1}

Next == Play \/ Drop

Spec == Init /\ [][Next]_<<act, turn>>
=============================================================================
