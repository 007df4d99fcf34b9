------------------------------- MODULE Drive -------------------------------
(***************************************************************************)
(* The arithmetic between a stick and a motor: components/rccar/            *)
(* rccar_drive.c and the duty computation of rccar_motor.c.  Integers are    *)
(* int32_t in the code; the largest product is below 2 * AxisMax * TanHi,    *)
(* far from the width.  C's division truncates towards zero, TLA+'s \div     *)
(* rounds down, so the code's divisions are CDiv.                           *)
(***************************************************************************)
EXTENDS Integers, FiniteSetsExt

CONSTANTS
  AxisMax,       \* 512, the end of every axis and the full speed of a wheel
  Deadzone,      \* AXIS_DEADZONE
  AxisGate,      \* DIAG_AXIS_GATE
  MinSpeed,      \* WHEEL_MIN_SPEED
  PeriodTicks    \* MCPWM_PERIOD_TICKS

ASSUME DriveAssumption ==
  /\ AxisMax \in Nat \ {0} /\ Deadzone \in Nat /\ AxisGate \in Nat
  /\ MinSpeed \in 1..AxisMax /\ PeriodTicks \in Nat
  /\ MinSpeed * PeriodTicks >= AxisMax

Wheel == {"fl", "fr", "rl", "rr"}

Abs(v) == IF v < 0 THEN -v ELSE v

Sign(v) == IF v < 0 THEN -1 ELSE IF v > 0 THEN 1 ELSE 0

\* A division that rounds down, as a shift would.
FloorDiv(a, b) == a \div b

CDiv(a, b) == IF a < 0 THEN -((-a) \div b) ELSE a \div b

Raw(vx, vy, w) == [fl |-> vx + vy + w, fr |-> vx - vy - w,
                   rl |-> vx - vy + w, rr |-> vx + vy - w]

\* The peak of the front wheels only.
PeakFront(raw) == Max({Abs(raw.fl), Abs(raw.fr)})

Peak(raw) == Max({Abs(raw[k]) : k \in Wheel})

\* Every wheel cut at full speed.
Clipped(raw, m) == [k \in Wheel |-> Sign(raw[k]) * Min({Abs(raw[k]), AxisMax})]

Scaled(raw, m) == [k \in Wheel |-> CDiv(raw[k] * AxisMax, m)]

rccar_drive_mix(vx, vy, w) ==
  LET raw == Raw(vx, vy, w)
  IN IF Peak(raw) > AxisMax THEN Scaled(raw, Peak(raw)) ELSE raw

rccar_drive_apply_deadzone(v) == IF Abs(v) <= Deadzone THEN 0 ELSE v

\* The tangents of the two cones in thousandths.
Narrow == [lo |-> 364, hi |-> 2747]
Wide == [lo |-> 268, hi |-> 3732]

in_diagonal_cone(ax, ay, cone) ==
  /\ ay * 1000 >= ax * cone.lo
  /\ ay * 1000 <= ax * cone.hi

\* A snap that pulls any diagonal onto 45 degrees, gate or no gate.
SnapUngated(vx, vy, cone) ==
  LET mag == Max({Abs(vx), Abs(vy)})
  IN IF in_diagonal_cone(Abs(vx), Abs(vy), cone)
     THEN [vx |-> IF vx < 0 THEN -mag ELSE mag,
           vy |-> IF vy < 0 THEN -mag ELSE mag]
     ELSE [vx |-> rccar_drive_apply_deadzone(vx),
           vy |-> rccar_drive_apply_deadzone(vy)]

snap_diagonal_cone(vx, vy, cone) ==
  LET mag == Max({Abs(vx), Abs(vy)})
      gate == IF Deadzone > 0 THEN Min({AxisGate, Deadzone}) ELSE AxisGate
      diagonal == /\ Abs(vx) >= gate /\ Abs(vy) >= gate /\ mag > Deadzone
                  /\ in_diagonal_cone(Abs(vx), Abs(vy), cone)
  IN IF diagonal
     THEN [vx |-> IF vx < 0 THEN -mag ELSE mag,
           vy |-> IF vy < 0 THEN -mag ELSE mag]
     ELSE [vx |-> rccar_drive_apply_deadzone(vx),
           vy |-> rccar_drive_apply_deadzone(vy)]

-----------------------------------------------------------------------------
(* rccar_motor.c *)

NoMinSpeed(v) == v

apply_min_speed(v) ==
  IF v = 0 THEN 0 ELSE Sign(v) * Max({Abs(v), MinSpeed})

\* The two compare values of a motor's bridge, at most one of them not zero.
set_motor_duty(speed) ==
  LET ticks == Min({(Abs(speed) * PeriodTicks) \div AxisMax, PeriodTicks})
  IN [a |-> IF speed > 0 THEN ticks ELSE 0,
      b |-> IF speed < 0 THEN ticks ELSE 0]

=============================================================================
