------------------------------ MODULE Threads -------------------------------
(***************************************************************************)
(* Who runs the functions that switch the gun LEDs (module Laser) and the    *)
(* humidifier (module Mist): input_process_task on core 1, the btstack       *)
(* thread and the esp_timer task on core 0.  The two cores run in parallel;  *)
(* on core 0 a timer callback runs before the btstack thread continues, to    *)
(* its end unless it waits for a lock.                                      *)
(*                                                                          *)
(* A function is the sequence of its accesses to shared state; every access  *)
(* is a step.                                                               *)
(***************************************************************************)
EXTENDS Sequences, SequencesExt

Actor == {"core1", "btstack", "timer"}

VARIABLE todo       \* what is left of the function each actor is in

Quiet == [a \in Actor |-> <<>>]

\* Mutant: callbacks dispatched from the interrupt, one inside another.
CallsNested(a, f) == todo' = [todo EXCEPT ![a] = f \o @]

Calls(a, f) == todo[a] = <<>> /\ todo' = [todo EXCEPT ![a] = f]

\* Actor a has a statement to run; the esp_timer task preempts the btstack thread.
\* This is for callbacks that take no lock, as those of the guns.
Runs(a) ==
  /\ todo[a] # <<>>
  /\ a = "btstack" => todo["timer"] = <<>>

\* Actor a still has statement s to run.
Owes(a, s) == s \in ToSet(todo[a])
=============================================================================
