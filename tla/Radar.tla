------------------------------- MODULE Radar --------------------------------
(***************************************************************************)
(* The radar servo (components/rccar/rccar_radar.c).  radar_sweep_task on   *)
(* core 0 sweeps between two ends; core 1 (Y button, driving, exhibit) and   *)
(* the btstack thread (failsafe) tell it through volatile variables what     *)
(* the car does.  The task preempts the btstack thread, and runs in          *)
(* parallel with core 1.                                                    *)
(*                                                                          *)
(* Time and angle are counted in sweep updates (RADAR_UPDATE_MS): a sweep   *)
(* from end to end takes OneWay of them and turns the servo by one unit in  *)
(* each.  A write that is followed by others is a step of its own.          *)
(***************************************************************************)
EXTENDS Integers

CONSTANTS OneWay,       \* RADAR_ONE_WAY_MS
          EndRest,      \* RADAR_END_REST_MS
          StartDelay,   \* RADAR_START_DELAY_MS
          Updates,      \* updates that may pass while the task sleeps
          Faults        \* bound: calls to the LEDC driver that fail

ASSUME RadarAssumption ==
  /\ OneWay \in Nat \ {0} /\ EndRest \in Nat \ {0} /\ StartDelay \in Nat \ {0}
  /\ Updates \subseteq Nat \ {0} /\ Faults \in Nat

VARIABLES
  s_enabled, s_vehicle_moving, s_need_start_delay, s_attached,
  since,            \* updates since s_stopped_at_ms, up to StartDelay
  call,             \* where core 1 and the btstack thread are in a call
  task,             \* where radar_sweep_task is in its loop
  phase, deg, start_deg, target_deg,
  run,              \* updates since sweep_t0_ms
  rest,             \* updates since dwell_t0_ms, up to EndRest
  faults,           \* failures that may still happen
  stood,            \* history: updates the car has really stood, up to StartDelay
  drove,            \* history: the car drives and did so when the task woke up
  display           \* the exhibit has the radar

shared == <<s_enabled, s_vehicle_moving, s_need_start_delay, since>>
servo == <<s_attached, phase, deg, start_deg, target_deg, run, rest, faults>>
history == <<stood, drove, display>>
vars == <<shared, servo, call, task, history>>

Caller == {"core1", "btstack"}
Angle == 0..OneWay

\* What the task sleeps in, and so lets the btstack thread run.
Sleep == {"delay", "hold"}

TypeOK ==
  /\ s_enabled \in BOOLEAN /\ s_vehicle_moving \in BOOLEAN
  /\ s_need_start_delay \in BOOLEAN /\ s_attached \in BOOLEAN
  /\ since \in 0..StartDelay
  /\ call \in [Caller -> {"none", "ask", "stopped", "need", "show"}]
  /\ task \in Sleep \cup {"top", "attach", "act", "need", "moving", "time", "clear", "begin"}
  /\ phase \in {"IDLE", "SWEEP", "DWELL"}
  /\ deg \in Angle /\ start_deg \in Angle /\ target_deg \in {0, OneWay}
  /\ run \in 0..OneWay /\ rest \in 0..EndRest /\ faults \in 0..Faults
  /\ stood \in 0..StartDelay /\ drove \in BOOLEAN /\ display \in BOOLEAN

Init ==
  /\ s_enabled = FALSE /\ s_vehicle_moving = FALSE /\ s_need_start_delay = TRUE
  /\ s_attached = FALSE /\ since = 0
  /\ call = [c \in Caller |-> "none"] /\ task = "top"
  /\ phase = "IDLE" /\ deg = 0 /\ start_deg = 0 /\ target_deg = OneWay
  /\ run = 0 /\ rest = 0 /\ faults = Faults
  /\ stood = 0 /\ drove = FALSE /\ display = FALSE

-----------------------------------------------------------------------------
(* The calls. *)

\* Caller c runs: the btstack thread only while the task sleeps.
Moves(c, from, to) ==
  /\ call[c] = from /\ call' = [call EXCEPT ![c] = to]
  /\ c = "btstack" => task \in Sleep
  /\ UNCHANGED <<task, servo>>

\* rccar_radar_set_moving, when it changes something.
SetMoving(c, moving) ==
  /\ s_vehicle_moving # moving
  /\ Moves(c, "none", IF moving THEN "none" ELSE "stopped")
  /\ s_vehicle_moving' = moving
  /\ stood' = 0
  /\ drove' = (drove /\ moving)
  /\ UNCHANGED <<s_enabled, s_need_start_delay, since, display>>

\* rccar_radar_set_enabled, when it changes something.
SetEnabled(c, enabled) ==
  /\ s_enabled # enabled
  /\ Moves(c, "none", IF enabled THEN "ask" ELSE "none")
  /\ s_enabled' = enabled
  /\ display' = FALSE
  /\ UNCHANGED <<s_vehicle_moving, s_need_start_delay, since, stood, drove>>

\* The rest of both: the car stands from now on, wait before the next sweep.
Continue(c) ==
  /\ \/ /\ Moves(c, "ask", IF s_vehicle_moving THEN "none" ELSE "stopped")
        /\ UNCHANGED <<since, s_need_start_delay>>
     \/ Moves(c, "stopped", "need") /\ since' = 0 /\ UNCHANGED s_need_start_delay
     \/ Moves(c, "need", "none") /\ s_need_start_delay' = TRUE /\ UNCHANGED since
  /\ UNCHANGED <<s_enabled, s_vehicle_moving, history>>

\* rccar_radar_exhibit_begin.  The display has held the wheels for longer than
\* StartDelay by then (module Exhibit).
ExhibitBegin ==
  /\ s_vehicle_moving \/ stood = StartDelay
  /\ Moves("core1", "none", "show")
  /\ s_need_start_delay' = FALSE
  /\ display' = TRUE
  /\ UNCHANGED <<s_enabled, s_vehicle_moving, since, stood, drove>>

ExhibitShow ==
  /\ Moves("core1", "show", "none")
  /\ s_enabled' = TRUE
  /\ UNCHANGED <<s_vehicle_moving, s_need_start_delay, since, history>>

\* core 1 drives and toggles, or displays until it switches the radar off; the
\* btstack thread only stops.
Call ==
  \/ \E on \in BOOLEAN : (on => ~display) /\ (SetMoving("core1", on) \/ SetEnabled("core1", on))
  \/ SetMoving("btstack", FALSE) \/ SetEnabled("btstack", FALSE)
  \/ ExhibitBegin

CallContinues == ExhibitShow \/ \E c \in Caller : Continue(c)

-----------------------------------------------------------------------------
(* radar_sweep_task. *)

opposite_end(d) == IF 2 * d >= OneWay THEN 0 ELSE OneWay

AtMost(t, limit) == IF t < limit THEN t ELSE limit

\* Mutant: a late update carries the servo past the end.
SweepPast(t) == IF target_deg >= start_deg THEN start_deg + t ELSE start_deg - t

\* sweep_now_deg: where a sweep is after t updates.
sweep_now_deg(t) ==
  IF target_deg >= start_deg THEN start_deg + AtMost(t, target_deg - start_deg)
                             ELSE start_deg - AtMost(t, start_deg - target_deg)

TaskGoes(from, to) == task = from /\ task' = to

\* Whether a call to the driver succeeds.
Driver(ok) == faults' = IF ok THEN faults ELSE faults - 1

MayFail(ok) == ok \/ faults > 0

\* dt updates pass in vTaskDelay; after the hold of a new sweep its clock starts.
Pass(dt) ==
  /\ \/ TaskGoes("delay", "top") /\ run' = AtMost(run + dt, OneWay) /\ UNCHANGED phase
     \/ TaskGoes("hold", "delay") /\ run' = 0 /\ phase' = "SWEEP"
  /\ rest' = AtMost(rest + dt, EndRest)
  /\ since' = AtMost(since + dt, StartDelay)
  /\ stood' = IF s_vehicle_moving THEN 0 ELSE AtMost(stood + dt, StartDelay)
  /\ drove' = s_vehicle_moving
  /\ UNCHANGED <<s_enabled, s_vehicle_moving, s_need_start_delay, s_attached, deg,
                 start_deg, target_deg, faults, call, display>>

\* The top of the loop: off detaches the servo and forgets the sweep.
Top ==
  /\ task = "top"
  /\ IF s_enabled
       THEN task' = "attach" /\ UNCHANGED <<s_attached, phase>>
       ELSE task' = "delay" /\ s_attached' = FALSE /\ phase' = "IDLE"
  /\ UNCHANGED <<shared, deg, start_deg, target_deg, run, rest, faults, call, history>>

Attach(ok) ==
  /\ task = "attach"
  /\ IF s_attached THEN ok /\ UNCHANGED faults ELSE MayFail(ok) /\ Driver(ok)
  /\ task' = IF ok THEN "act" ELSE "delay"
  /\ s_attached' = ok
  /\ UNCHANGED <<shared, phase, deg, start_deg, target_deg, run, rest, call, history>>

\* Mutant: driving stops a sweep where it is.
SweepUnlessDriving(ok) ==
  /\ phase = "SWEEP" /\ TaskGoes("act", "delay") /\ ok
  /\ deg' = IF s_vehicle_moving THEN deg ELSE sweep_now_deg(run)
  /\ IF deg' = target_deg THEN phase' = "DWELL" /\ rest' = 0
                          ELSE UNCHANGED <<phase, rest>>
  /\ UNCHANGED <<shared, s_attached, start_deg, target_deg, run, faults, call, history>>

\* A step of the sweep; when the driver refuses it the clock is put back.
Sweep(ok) ==
  /\ phase = "SWEEP" /\ TaskGoes("act", "delay")
  /\ deg' = sweep_now_deg(run)
  /\ IF deg' = deg THEN ok /\ UNCHANGED faults ELSE MayFail(ok) /\ Driver(ok)
  /\ run' = IF ok THEN run ELSE run - 1
  /\ IF deg' = target_deg THEN phase' = "DWELL" /\ rest' = 0
                          ELSE UNCHANGED <<phase, rest>>
  /\ UNCHANGED <<shared, s_attached, start_deg, target_deg, call, history>>

\* Mutant: after a rest the flag is looked at, and start_delay_done not asked.
ConsiderFlag ==
  /\ task = "act" /\ phase # "SWEEP"
  /\ task' = IF phase = "DWELL" /\ (s_vehicle_moving \/ rest < EndRest \/ s_need_start_delay)
               THEN "delay" ELSE "need"
  /\ UNCHANGED <<shared, servo, call, history>>

\* May a sweep begin?  Between two sweeps the car must stand and the servo have
\* rested, and start_delay_done must agree.
Consider ==
  /\ task = "act" /\ phase # "SWEEP"
  /\ task' = IF phase = "DWELL" /\ (s_vehicle_moving \/ rest < EndRest)
               THEN "delay" ELSE "need"
  /\ UNCHANGED <<shared, servo, call, history>>

\* start_delay_done.
StartDelayDone ==
  /\ \/ TaskGoes("need", IF s_need_start_delay THEN "moving" ELSE "begin")
     \/ TaskGoes("moving", IF s_vehicle_moving THEN "delay" ELSE "time")
     \/ TaskGoes("time", IF since >= StartDelay THEN "clear" ELSE "delay")
  /\ UNCHANGED <<shared, servo, call, history>>

ClearDelay ==
  /\ TaskGoes("clear", "begin")
  /\ s_need_start_delay' = FALSE
  /\ UNCHANGED <<s_enabled, s_vehicle_moving, since, servo, call, history>>

\* Mutant: every sweep goes to the other end.
TargetOpposite == opposite_end(deg)

\* After a rest the other end; after a pause the end the servo was going to.
Target == IF phase = "DWELL" \/ deg = target_deg THEN opposite_end(deg) ELSE target_deg

BeginSweep(ok) ==
  /\ task = "begin" /\ MayFail(ok) /\ Driver(ok)
  /\ start_deg' = deg /\ target_deg' = Target
  /\ IF ok THEN task' = "hold" /\ UNCHANGED phase
           ELSE task' = "delay" /\ phase' = "IDLE"
  /\ UNCHANGED <<shared, s_attached, deg, run, rest, call, history>>

Task ==
  \/ \E dt \in Updates : Pass(dt)
  \/ Top \/ Consider \/ StartDelayDone \/ ClearDelay
  \/ \E ok \in BOOLEAN : Attach(ok) \/ Sweep(ok) \/ BeginSweep(ok)

Next == Call \/ CallContinues \/ Task

Spec == Init /\ [][Next]_vars

\* The task runs, and calls that have begun end.
FairSpec == Spec /\ WF_vars(Task) /\ \A c \in Caller : WF_vars(Continue(c)) /\ WF_vars(ExhibitShow)

-----------------------------------------------------------------------------
\* "0 to 180 and back": however often the radar is switched and the car starts
\* and stops, and whatever the driver refuses, the servo turns round only at an
\* end (rccar_radar.c:4).
TurnsOnlyAtEnds == [][target_deg' # target_deg => deg \in {0, OneWay}]_vars

\* A sweep that is under way is completed although the car starts to drive; only
\* switching the radar off ends it (rccar_radar.c:5).
SweepFinishes == phase = "SWEEP" ~> (deg = target_deg \/ ~s_enabled)

\* A standing car whose radar stays on sweeps again and again: no order of
\* calls loses the end of the start delay.
SweepsGoOn ==
  <>[](s_enabled /\ ~s_vehicle_moving) => []<>(phase = "SWEEP")

-----------------------------------------------------------------------------
(* What documents say and the code does not keep. *)

\* "When the wheels move it stops after the sweep, and resumes 5 s after they
\* stand" (rccar_radar.h:18): outside the display no sweep begins while the car
\* drives.
NeverStartsDriving ==
  [][task = "begin" /\ task' = "hold" /\ s_enabled /\ ~display => ~drove]_vars
=============================================================================
