------------------------------ MODULE Steering ------------------------------
(***************************************************************************)
(* From a report to the wheels: the steering part of main/my_platform.c      *)
(* (426-539, 706-721, 1151-1198) for a gamepad and a Wii Balance Board that  *)
(* are both connected.  One step is a report and the drive command that      *)
(* input_process_task makes of it.  Who may drive at all, and samples lost   *)
(* on the way, are in module Control.                                       *)
(*                                                                          *)
(* Bounds: a report of the pad differs from the one before in one axis, a    *)
(* report of the board in one corner unless the rider steps off; Shifts     *)
(* caps the rider's changes, and once somebody rides the sticks stay among  *)
(* the positions of Riding.                                                 *)
(***************************************************************************)
EXTENDS Drive

CONSTANTS
  PadAxis,       \* values of a stick axis, raw
  Corner,        \* grams under a corner of the board
  Shifts,        \* bound: how often the rider shifts
  Riding         \* bound: the sticks while there is a rider

Stick == {"x", "y", "rx", "ry"}
Foot == {"tl", "tr", "bl", "br"}
Side == {"down", "top", "left", "right"}

ASSUME SteeringAssumption ==
  /\ PadAxis \subseteq Int /\ 0 \in PadAxis
  /\ Corner \subseteq Nat /\ 0 \in Corner
  /\ Shifts \in Nat /\ Riding \subseteq [Stick -> PadAxis]

VARIABLES
  pad,           \* the sticks of the last pad report
  pad_live,      \* the pad has reported within FAILSAFE_MS
  load,          \* the board's last report
  bb_state,      \* the board's filter
  board,         \* s_bb_axis_y and s_bb_axis_rx
  wheels,        \* the command given to rccar_motor_wheel_set
  duty,          \* the compare values it sets
  shifts

vars == <<pad, pad_live, load, bb_state, board, wheels, duty, shifts>>

Standing == [k \in Wheel |-> 0]

TypeOK ==
  /\ pad \in [Stick -> PadAxis] /\ pad_live \in BOOLEAN
  /\ load \in [Foot -> Corner] /\ bb_state \in [Side -> Int]
  /\ board \in [{"y", "rx"} -> -AxisMax..AxisMax]
  /\ wheels \in [Wheel -> -AxisMax..AxisMax]
  /\ duty \in [Wheel -> [{"a", "b"} -> 0..PeriodTicks]]
  /\ shifts \in 0..Shifts

Init ==
  /\ pad = [s \in Stick |-> 0] /\ pad_live = TRUE
  /\ load = [f \in Foot |-> 0] /\ bb_state = [s \in Side |-> 0]
  /\ board = [a \in {"y", "rx"} |-> 0]
  /\ wheels = Standing
  /\ duty = [k \in Wheel |-> [s \in {"a", "b"} |-> 0]]
  /\ shifts = 0

-----------------------------------------------------------------------------
(* The board's weights become two axes. *)

clamp_axis(v) == Max({-AxisMax, Min({AxisMax - 1, v})})

\* Bluepad32's macro: x * n / d, with the remainder kept.
mult_frac(x, n, d) ==
  CDiv(x, d) * n + CDiv((x - CDiv(x, d) * d) * n, d)

IdleGrams == 1600          \* UNI_BALANCE_BOARD_IDLE_THRESHOLD of Bluepad32

Across(w) == [down |-> w.bl + w.br, top |-> w.tl + w.tr,
              left |-> w.tl + w.bl, right |-> w.tr + w.br]

\* Tenths taken for hundredths.
SmoothTenths(w, state) ==
  [s \in Side |-> mult_frac(Across(w)[s] - state[s], 12, 10)]

bb_smooth_cog(w, state) ==
  [s \in Side |-> mult_frac(Across(w)[s] - state[s], 12, 100)]

bb_apply_move_threshold(cog, t) ==
  IF Abs(cog) > t THEN cog - Sign(cog) * t ELSE 0

Filter(w, state) ==
  IF \A f \in Foot : w[f] < IdleGrams THEN [s \in Side |-> 0]
                                      ELSE bb_smooth_cog(w, state)

\* The smoothed state is zero under an empty board, and so are the axes.
balance_board_to_stick_axes(state) ==
  LET x == state.right - state.left
      y == state.down - state.top
      thr == IF Abs(x) >= 900 /\ Abs(y) >= 900 THEN 900 ELSE 1400
      axis(cog) == clamp_axis(CDiv(bb_apply_move_threshold(cog, thr) * AxisMax,
                                   3400))
  IN [y |-> axis(y), rx |-> axis(x)]

-----------------------------------------------------------------------------
(* Who drives, and how. *)

\* Up on a stick is forward and is negative in the report.
BoardWay(b) == snap_diagonal_cone(-clamp_axis(b.y), clamp_axis(b.rx), Wide)

\* The raw axes asked instead of the snapped ones.
StoppedUnsnapped(b) == b.y = 0 /\ b.rx = 0

bb_axes_are_stopped(b) == BoardWay(b).vx = 0 /\ BoardWay(b).vy = 0

apply_balance_board_drive(b) ==
  rccar_drive_mix(BoardWay(b).vx, BoardWay(b).vy, 0)

PadWay(p) == snap_diagonal_cone(-clamp_axis(p.ry), clamp_axis(p.rx), Narrow)

\* The three arguments of the mix: both sticks may drive forward.
PadMix(p) ==
  [vx |-> -rccar_drive_apply_deadzone(clamp_axis(p.y)) + PadWay(p).vx,
   vy |-> PadWay(p).vy,
   w |-> rccar_drive_apply_deadzone(clamp_axis(p.x))]

apply_gamepad_drive(p) ==
  rccar_drive_mix(PadMix(p).vx, PadMix(p).vy, PadMix(p).w)

\* The board drives unless it stands still and the pad is live.
Drives(p, live, b) ==
  IF bb_axes_are_stopped(b) /\ live THEN apply_gamepad_drive(p)
                                    ELSE apply_balance_board_drive(b)

rccar_motor_wheel_set(w) ==
  /\ wheels' = w
  /\ duty' = [k \in Wheel |-> set_motor_duty(apply_min_speed(w[k]))]

PadReport(s, v) ==
  /\ pad' = [pad EXCEPT ![s] = v] /\ pad_live' = TRUE
  /\ shifts = 0 \/ pad' \in Riding
  /\ rccar_motor_wheel_set(Drives(pad', TRUE, board))
  /\ UNCHANGED <<load, bb_state, board, shifts>>

BoardReport(w) ==
  /\ load' = w
  /\ bb_state' = Filter(w, bb_state)
  /\ board' = balance_board_to_stick_axes(bb_state')
  /\ rccar_motor_wheel_set(Drives(pad, pad_live, board'))
  /\ UNCHANGED <<pad, pad_live>>

RiderStands == BoardReport(load) /\ UNCHANGED shifts

RiderShifts(f, g) ==
  /\ shifts < Shifts /\ g # load[f] /\ pad \in Riding
  /\ BoardReport([load EXCEPT ![f] = g])
  /\ shifts' = shifts + 1

RiderStepsOff ==
  /\ shifts < Shifts /\ \E f \in Foot : load[f] # 0
  /\ BoardReport([f \in Foot |-> 0])
  /\ shifts' = shifts + 1

\* The pad's last report grows older than FAILSAFE_MS; a board report finds
\* it so.
PadFallsSilent ==
  /\ pad_live /\ pad_live' = FALSE
  /\ UNCHANGED <<pad, load, bb_state, board, wheels, duty, shifts>>

Next ==
  \/ \E s \in Stick, v \in PadAxis : PadReport(s, v)
  \/ RiderStands
  \/ \E f \in Foot, g \in Corner : RiderShifts(f, g)
  \/ RiderStepsOff
  \/ PadFallsSilent

Spec == Init /\ [][Next]_vars

-----------------------------------------------------------------------------
(* Properties *)

\* No wheel is cut on its own: when the mix asks for more than full speed,
\* some wheel runs at full speed and every wheel keeps its way and its share,
\* to less than one unit (rccar_drive.c:37-42).
ScaledNotClipped ==
  LET mix == PadMix(pad)
      raw == Raw(mix.vx, mix.vy, mix.w)
      out == apply_gamepad_drive(pad)
  IN Peak(raw) > AxisMax =>
       /\ \E k \in Wheel : Abs(out[k]) = AxisMax
       /\ \A k \in Wheel :
            /\ out[k] = 0 \/ Sign(out[k]) = Sign(raw[k])
            /\ Abs(out[k] * Peak(raw) - raw[k] * AxisMax) < Peak(raw)

Opposite(p) == [s \in Stick |-> -p[s]]
Mirrored(p) == [p EXCEPT !.x = -@, !.rx = -@]
OtherSide(k) == CASE k = "fl" -> "fr" [] k = "fr" -> "fl"
                  [] k = "rl" -> "rr" [] k = "rr" -> "rl"

\* The car has no preferred way: opposite sticks give opposite wheels, and
\* sticks mirrored left to right give the wheels of the other side
\* (rccar_drive.c:14-47, 75-110).  The end -512 has no opposite in a report.
MirrorImage ==
  (\A s \in Stick : Abs(pad[s]) < AxisMax) =>
    LET out == apply_gamepad_drive(pad)
    IN \A k \in Wheel :
         /\ apply_gamepad_drive(Opposite(pad))[k] = -out[k]
         /\ apply_gamepad_drive(Mirrored(pad))[OtherSide(k)] = out[k]

\* Sticks at rest leave the car at rest: no axis within the dead zone turns a
\* wheel, alone or by being snapped to another one (rccar_drive.c:49-102).
NoCreep ==
  (\A s \in Stick : Abs(pad[s]) <= Deadzone) =>
    apply_gamepad_drive(pad) = Standing

\* A wheel that is told to turn gets at least the duty that overcomes its
\* friction, on the side of its way only; a wheel that is told to stand gets
\* none (rccar_motor.c:83-132).
TurnsWhenTold ==
  \A k \in Wheel :
    LET least == (MinSpeed * PeriodTicks) \div AxisMax
    IN /\ duty[k].a > 0 <=> wheels[k] > 0
       /\ duty[k].b > 0 <=> wheels[k] < 0
       /\ wheels[k] # 0 => Max({duty[k].a, duty[k].b}) >= least

\* The question "does the board stand?" that hands the wheels to the pad has
\* the answer the board's own drive would give (my_platform.c:495-507,
\* 533-539): never a board that is ignored while it would move the car, never
\* one that holds the car still against the pad.
BoardStopsAgree ==
  bb_axes_are_stopped(board) <=> apply_balance_board_drive(board) = Standing

\* Nobody on the board, nothing from the board: the filter, which swings
\* back when the load falls, leaves no axis behind (my_platform.c:457-461).
EmptyBoardRests ==
  (\A f \in Foot : load[f] < IdleGrams) => board = [y |-> 0, rx |-> 0]

\* How far the next report moves each side of the filter.
Swing(w, state) == [s \in Side |-> Abs(Filter(w, state)[s] - state[s])]

\* Under a rider who stands still the filter calms down: a report moves a side by
\* less than 12 % of what the one before did, and one gram (my_platform.c:442-447).
\* So in the end no side moves by more than a gram a report.  It may move by one
\* for ever: what the filter keeps is cut off to whole grams, and for some weights
\* no value is the next one of itself.
BoardCalmsDown ==
  [][RiderStands =>
       \A s \in Side :
         100 * Swing(load', bb_state')[s] < 12 * Swing(load, bb_state)[s] + 100]_vars
=============================================================================
