--------------------------- MODULE SteeringProofs ---------------------------
(***************************************************************************)
(* For every axis range, dead zone, duty resolution and weight: the wheels   *)
(* stay within the range and turn when told.  The lemmas are about the       *)
(* integer arithmetic of module Drive.                                      *)
(***************************************************************************)
EXTENDS Steering, TLAPS

LEMMA MaxOfTwo ==
  ASSUME NEW a \in Int, NEW b \in Int
  PROVE  Max({a, b}) = IF a >= b THEN a ELSE b
<1>1. CASE a >= b
  <2>1. \E x \in {a, b} : \A y \in {a, b} : x >= y
    BY <1>1
  <2>2. Max({a, b}) \in {a, b} /\ \A y \in {a, b} : Max({a, b}) >= y
    BY <2>1 DEF Max
  <2> QED BY <1>1, <2>2
<1>2. CASE ~ (a >= b)
  <2>1. \E x \in {a, b} : \A y \in {a, b} : x >= y
    BY <1>2
  <2>2. Max({a, b}) \in {a, b} /\ \A y \in {a, b} : Max({a, b}) >= y
    BY <2>1 DEF Max
  <2> QED BY <1>2, <2>2
<1> QED BY <1>1, <1>2

LEMMA MinOfTwo ==
  ASSUME NEW a \in Int, NEW b \in Int
  PROVE  Min({a, b}) = IF a <= b THEN a ELSE b
<1>1. \E x \in {a, b} : \A y \in {a, b} : x <= y
  OBVIOUS
<1>2. Min({a, b}) \in {a, b} /\ \A y \in {a, b} : Min({a, b}) <= y
  BY <1>1 DEF Min
<1> QED BY <1>2

LEMMA DivMonotone ==
  ASSUME NEW a \in Nat, NEW b \in Nat, NEW m \in Nat \ {0}, a <= b
  PROVE  a \div m \in Nat /\ a \div m <= b \div m
  OBVIOUS

\* A share of m, taken of A, is at most A.
LEMMA ShareBound ==
  ASSUME NEW a \in Nat, NEW m \in Nat \ {0}, NEW A \in Nat, a <= m
  PROVE  (a * A) \div m \in 0..A
<1>1. a * A \in Nat /\ m * A \in Nat /\ a * A <= m * A
  OBVIOUS
<1>2. (m * A) \div m = A
  OBVIOUS
<1> QED BY <1>1, <1>2, DivMonotone

LEMMA CDivType ==
  ASSUME NEW a \in Int, NEW m \in Nat \ {0}
  PROVE  CDiv(a, m) \in Int
  BY DEF CDiv

LEMMA CDivBound ==
  ASSUME NEW a \in Int, NEW m \in Nat \ {0}, NEW A \in Nat, Abs(a) <= m
  PROVE  CDiv(a * A, m) \in -A..A
<1>1. CASE a * A < 0
  <2>1. a < 0 /\ -(a * A) = (-a) * A
    BY <1>1
  <2>2. -a \in Nat /\ -a <= m
    BY <2>1 DEF Abs
  <2>3. ((-a) * A) \div m \in 0..A
    BY <2>2, ShareBound
  <2> QED BY <1>1, <2>1, <2>3 DEF CDiv
<1>2. CASE ~ (a * A < 0)
  <2>1. CASE a \in Nat
    <3>1. (a * A) \div m \in 0..A
      BY <2>1, ShareBound DEF Abs
    <3> QED BY <1>2, <3>1 DEF CDiv
  <2>2. CASE a \notin Nat
    <3>1. A = 0
      BY <1>2, <2>2
    <3>2. a * A = 0 /\ 0 \div m = 0
      BY <3>1
    <3> QED BY <3>1, <3>2 DEF CDiv
  <2> QED BY <2>1, <2>2
<1> QED BY <1>1, <1>2

-----------------------------------------------------------------------------
(* The mix. *)

LEMMA PeakOfFour ==
  ASSUME NEW raw \in [Wheel -> Int]
  PROVE  /\ Peak(raw) \in Nat /\ \A k \in Wheel : Abs(raw[k]) <= Peak(raw)
         /\ \E k \in Wheel : Abs(raw[k]) = Peak(raw)
<1> DEFINE S == {Abs(raw[k]) : k \in Wheel}
<1>1. \A k \in Wheel : Abs(raw[k]) \in Nat
  BY DEF Abs
<1>2. S = {Abs(raw["fl"]), Abs(raw["fr"]), Abs(raw["rl"]), Abs(raw["rr"])}
  BY DEF Wheel
<1>3. \E x \in S : \A y \in S : x >= y
  <2> HIDE DEF S
  <2>1. \A a, b, c, d \in Nat : \E x \in {a, b, c, d} :
          \A y \in {a, b, c, d} : x >= y
    OBVIOUS
  <2> QED BY <1>1, <1>2, <2>1 DEF Wheel
<1>4. Max(S) \in S /\ \A y \in S : Max(S) >= y
  BY <1>3 DEF Max
<1> QED BY <1>1, <1>4 DEF Peak

LEMMA SpeedsInRange ==
  ASSUME NEW vx \in Int, NEW vy \in Int, NEW w \in Int
  PROVE  rccar_drive_mix(vx, vy, w) \in [Wheel -> -AxisMax..AxisMax]
<1> DEFINE raw == Raw(vx, vy, w)
<1>1. raw \in [Wheel -> Int]
  BY DEF Raw, Wheel
<1>2. Peak(raw) \in Nat /\ \A k \in Wheel : Abs(raw[k]) <= Peak(raw)
  BY <1>1, PeakOfFour
<1>3. AxisMax \in Nat \ {0}
  BY DriveAssumption
<1>4. CASE Peak(raw) > AxisMax
  <2>1. \A k \in Wheel : CDiv(raw[k] * AxisMax, Peak(raw)) \in -AxisMax..AxisMax
    <3> TAKE k \in Wheel
    <3>1. raw[k] \in Int /\ Peak(raw) \in Nat \ {0} /\ Abs(raw[k]) <= Peak(raw)
      BY <1>1, <1>2, <1>3, <1>4
    <3> QED BY <1>3, <3>1, CDivBound
  <2>2. Scaled(raw, Peak(raw)) \in [Wheel -> -AxisMax..AxisMax]
    BY <2>1 DEF Scaled
  <2> QED BY <1>4, <2>2 DEF rccar_drive_mix
<1>5. CASE ~ (Peak(raw) > AxisMax)
  <2>1. \A k \in Wheel : raw[k] \in -AxisMax..AxisMax
    BY <1>1, <1>2, <1>3, <1>5 DEF Abs
  <2>2. raw \in [Wheel -> -AxisMax..AxisMax]
    BY <1>1, <2>1
  <2> QED BY <1>5, <2>2 DEF rccar_drive_mix
<1> QED BY <1>4, <1>5

LEMMA SnapType ==
  ASSUME NEW vx \in Int, NEW vy \in Int, NEW cone
  PROVE  /\ snap_diagonal_cone(vx, vy, cone).vx \in Int
         /\ snap_diagonal_cone(vx, vy, cone).vy \in Int
<1>1. Abs(vx) \in Int /\ Abs(vy) \in Int
  BY DEF Abs
<1> DEFINE mag == Max({Abs(vx), Abs(vy)})
<1>2. mag \in Int
  BY <1>1, MaxOfTwo
<1>3. /\ rccar_drive_apply_deadzone(vx) \in Int
      /\ rccar_drive_apply_deadzone(vy) \in Int
  BY DEF rccar_drive_apply_deadzone
<1> HIDE DEF mag
<1>4. \/ snap_diagonal_cone(vx, vy, cone) =
           [vx |-> IF vx < 0 THEN -mag ELSE mag,
            vy |-> IF vy < 0 THEN -mag ELSE mag]
      \/ snap_diagonal_cone(vx, vy, cone) =
           [vx |-> rccar_drive_apply_deadzone(vx),
            vy |-> rccar_drive_apply_deadzone(vy)]
  BY Zenon DEF snap_diagonal_cone, mag
<1> QED BY <1>2, <1>3, <1>4

LEMMA ClampType ==
  ASSUME NEW v \in Int
  PROVE  clamp_axis(v) \in -AxisMax..AxisMax
<1>1. AxisMax \in Nat \ {0}
  BY DriveAssumption
<1>2. Min({AxisMax - 1, v}) = IF AxisMax - 1 <= v THEN AxisMax - 1 ELSE v
  BY <1>1, MinOfTwo
<1>3. Min({AxisMax - 1, v}) \in Int /\ Min({AxisMax - 1, v}) <= AxisMax
  BY <1>1, <1>2
<1>4. -AxisMax \in Int
  BY <1>1
<1>5. clamp_axis(v) = IF -AxisMax >= Min({AxisMax - 1, v})
                      THEN -AxisMax ELSE Min({AxisMax - 1, v})
  BY <1>3, <1>4, MaxOfTwo DEF clamp_axis
<1> QED BY <1>1, <1>3, <1>5

LEMMA BoardWaysType ==
  ASSUME NEW b \in [{"y", "rx"} -> -AxisMax..AxisMax]
  PROVE  apply_balance_board_drive(b) \in [Wheel -> -AxisMax..AxisMax]
<1>1. b.y \in Int /\ b.rx \in Int
  BY DriveAssumption
<1>2. -clamp_axis(b.y) \in Int /\ clamp_axis(b.rx) \in Int
  BY <1>1, ClampType, DriveAssumption
<1>3. BoardWay(b).vx \in Int /\ BoardWay(b).vy \in Int
  BY <1>2, SnapType DEF BoardWay
<1>4. rccar_drive_mix(BoardWay(b).vx, BoardWay(b).vy, 0)
        \in [Wheel -> -AxisMax..AxisMax]
  <2>1. 0 \in Int
    OBVIOUS
  <2> QED BY <1>3, <2>1, SpeedsInRange, Zenon
<1> QED BY <1>4, Zenon DEF apply_balance_board_drive

LEMMA PadMixType ==
  ASSUME NEW p \in [Stick -> PadAxis]
  PROVE  PadMix(p).vx \in Int /\ PadMix(p).vy \in Int /\ PadMix(p).w \in Int
<1>1. p.x \in Int /\ p.y \in Int /\ p.rx \in Int /\ p.ry \in Int
  BY SteeringAssumption DEF Stick
<1>2. /\ clamp_axis(p.x) \in Int /\ clamp_axis(p.y) \in Int
      /\ clamp_axis(p.rx) \in Int /\ clamp_axis(p.ry) \in Int
  BY <1>1, ClampType, DriveAssumption
<1>3. PadWay(p).vx \in Int /\ PadWay(p).vy \in Int
  BY <1>2, SnapType DEF PadWay
<1> QED BY <1>2, <1>3 DEF PadMix, rccar_drive_apply_deadzone

LEMMA PadWaysType ==
  ASSUME NEW p \in [Stick -> PadAxis]
  PROVE  apply_gamepad_drive(p) \in [Wheel -> -AxisMax..AxisMax]
BY PadMixType, SpeedsInRange DEF apply_gamepad_drive

LEMMA DrivesType ==
  ASSUME NEW p \in [Stick -> PadAxis], NEW l \in BOOLEAN,
         NEW b \in [{"y", "rx"} -> -AxisMax..AxisMax]
  PROVE  Drives(p, l, b) \in [Wheel -> -AxisMax..AxisMax]
  BY BoardWaysType, PadWaysType DEF Drives

-----------------------------------------------------------------------------
(* The duty of a motor. *)

LEMMA MinSpeedKept ==
  ASSUME NEW v \in -AxisMax..AxisMax
  PROVE  /\ apply_min_speed(v) \in -AxisMax..AxisMax
         /\ apply_min_speed(v) > 0 <=> v > 0
         /\ apply_min_speed(v) < 0 <=> v < 0
         /\ v # 0 => Abs(apply_min_speed(v)) >= MinSpeed
<1>1. AxisMax \in Nat \ {0} /\ MinSpeed \in 1..AxisMax /\ v \in Int
  BY DriveAssumption
<1>2. Max({Abs(v), MinSpeed}) = IF Abs(v) >= MinSpeed THEN Abs(v) ELSE MinSpeed
  BY <1>1, MaxOfTwo DEF Abs
<1>3. /\ Max({Abs(v), MinSpeed}) \in MinSpeed..AxisMax
  BY <1>1, <1>2 DEF Abs
<1>4. CASE v = 0
  BY <1>1, <1>4 DEF apply_min_speed
<1>5. CASE v > 0
  <2>1. apply_min_speed(v) = Max({Abs(v), MinSpeed})
    BY <1>1, <1>3, <1>5 DEF apply_min_speed, Sign
  <2> QED BY <1>1, <1>3, <1>5, <2>1 DEF Abs
<1>6. CASE v < 0
  <2>1. apply_min_speed(v) = -Max({Abs(v), MinSpeed})
    BY <1>1, <1>3, <1>6 DEF apply_min_speed, Sign
  <2> QED BY <1>1, <1>3, <1>6, <2>1 DEF Abs
<1> QED BY <1>1, <1>4, <1>5, <1>6

LEMMA DutyFits ==
  ASSUME NEW v \in -AxisMax..AxisMax
  PROVE  /\ set_motor_duty(v) \in [{"a", "b"} -> 0..PeriodTicks]
         /\ v <= 0 => set_motor_duty(v).a = 0
         /\ v >= 0 => set_motor_duty(v).b = 0
         /\ v > 0 => set_motor_duty(v).a = (Abs(v) * PeriodTicks) \div AxisMax
         /\ v < 0 => set_motor_duty(v).b = (Abs(v) * PeriodTicks) \div AxisMax
<1> DEFINE q == (Abs(v) * PeriodTicks) \div AxisMax
<1>1. /\ AxisMax \in Nat \ {0} /\ PeriodTicks \in Nat
      /\ Abs(v) \in Nat /\ Abs(v) <= AxisMax
  BY DriveAssumption DEF Abs
<1>2. q \in 0..PeriodTicks
  BY <1>1, ShareBound
<1>3. Min({q, PeriodTicks}) = q
  <2> HIDE DEF q
  <2> QED BY <1>1, <1>2, MinOfTwo
<1>4. set_motor_duty(v) = [a |-> IF v > 0 THEN q ELSE 0,
                           b |-> IF v < 0 THEN q ELSE 0]
  BY <1>3 DEF set_motor_duty
<1> HIDE DEF q
<1>5. set_motor_duty(v) \in [{"a", "b"} -> 0..PeriodTicks]
  BY <1>1, <1>2, <1>4
<1>6. /\ v <= 0 => set_motor_duty(v).a = 0
      /\ v >= 0 => set_motor_duty(v).b = 0
      /\ v > 0 => set_motor_duty(v).a = q
      /\ v < 0 => set_motor_duty(v).b = q
  BY <1>1, <1>4
<1> QED BY <1>5, <1>6 DEF q

LEMMA TickMonotone ==
  ASSUME NEW u \in Nat, NEW v \in Nat, u <= v
  PROVE  (u * PeriodTicks) \div AxisMax <= (v * PeriodTicks) \div AxisMax
<1>1. /\ PeriodTicks \in Nat /\ AxisMax \in Nat \ {0}
  BY DriveAssumption
<1>2. /\ u * PeriodTicks \in Nat /\ v * PeriodTicks \in Nat
      /\ u * PeriodTicks <= v * PeriodTicks
  BY <1>1
<1> QED BY <1>1, <1>2, DivMonotone

\* What a command does to one motor.
LEMMA MotorTurns ==
  ASSUME NEW v \in -AxisMax..AxisMax,
         NEW d, d = set_motor_duty(apply_min_speed(v))
  PROVE  LET least == (MinSpeed * PeriodTicks) \div AxisMax
         IN /\ d \in [{"a", "b"} -> 0..PeriodTicks]
            /\ d.a > 0 <=> v > 0
            /\ d.b > 0 <=> v < 0
            /\ v # 0 => Max({d.a, d.b}) >= least
<1> DEFINE least == (MinSpeed * PeriodTicks) \div AxisMax
           s == apply_min_speed(v)
           q == (Abs(s) * PeriodTicks) \div AxisMax
<1>1. /\ AxisMax \in Nat \ {0} /\ PeriodTicks \in Nat /\ v \in Int
      /\ MinSpeed \in Nat /\ MinSpeed * PeriodTicks >= AxisMax
  BY DriveAssumption
<1>2. /\ s \in -AxisMax..AxisMax
      /\ s > 0 <=> v > 0
      /\ s < 0 <=> v < 0
      /\ v # 0 => Abs(s) >= MinSpeed
  BY MinSpeedKept
<1> HIDE DEF s
<1>3. /\ d \in [{"a", "b"} -> 0..PeriodTicks]
      /\ s <= 0 => d.a = 0
      /\ s >= 0 => d.b = 0
      /\ s > 0 => d.a = q
      /\ s < 0 => d.b = q
  BY <1>2, DutyFits DEF s
<1>4. least \in Nat /\ least >= 1
  <2>1. AxisMax \div AxisMax = 1
    BY <1>1
  <2> DEFINE p == MinSpeed * PeriodTicks
  <2>2. p \in Nat /\ AxisMax <= p
    BY <1>1
  <2> HIDE DEF p
  <2>3. p \div AxisMax \in Nat /\ AxisMax \div AxisMax <= p \div AxisMax
    BY <1>1, <2>2, DivMonotone
  <2> QED BY <1>1, <2>1, <2>3 DEF p
<1>5. v # 0 => q >= least
  <2>1. Abs(s) \in Nat
    BY <1>1, <1>2 DEF Abs
  <2> QED BY <1>1, <1>2, <2>1, TickMonotone
<1> HIDE DEF q, least
<1>6. d.a \in 0..PeriodTicks /\ d.b \in 0..PeriodTicks
  BY <1>3
<1>7. Max({d.a, d.b}) = IF d.a >= d.b THEN d.a ELSE d.b
  BY <1>1, <1>6, MaxOfTwo
<1>8. s \in Int
  BY <1>1, <1>2
<1>9. CASE v = 0
  BY <1>1, <1>2, <1>3, <1>8, <1>9
<1>10. CASE v > 0
  <2>1. s > 0 /\ d.b = 0 /\ d.a = q /\ q >= least
    BY <1>1, <1>2, <1>3, <1>5, <1>8, <1>10
  <2>2. Max({d.a, d.b}) >= least
    BY <1>4, <1>6, <1>7, <2>1
  <2> QED BY <1>1, <1>3, <1>4, <1>6, <1>10, <2>1, <2>2 DEF least
<1>11. CASE v < 0
  <2>1. s < 0 /\ d.a = 0 /\ d.b = q /\ q >= least
    BY <1>1, <1>2, <1>3, <1>5, <1>8, <1>11
  <2>2. Max({d.a, d.b}) >= least
    BY <1>4, <1>6, <1>7, <2>1
  <2> QED BY <1>1, <1>3, <1>4, <1>6, <1>11, <2>1, <2>2 DEF least
<1> QED BY <1>1, <1>9, <1>10, <1>11

-----------------------------------------------------------------------------
(* The filter of the board. *)

LEMMA FilterType ==
  ASSUME NEW w \in [Foot -> Corner], NEW state \in [Side -> Int]
  PROVE  Filter(w, state) \in [Side -> Int]
<1>1. \A f \in Foot : w[f] \in Int
  <2>1. \A f \in Foot : w[f] \in Corner
    OBVIOUS
  <2>2. \A g \in Corner : g \in Int
    BY SteeringAssumption
  <2> QED BY <2>1, <2>2, Zenon
<1>2. \A s \in Side : Across(w)[s] - state[s] \in Int
  <2>1. w.bl \in Int /\ w.br \in Int /\ w.tl \in Int /\ w.tr \in Int
    BY <1>1 DEF Foot
  <2>2. Across(w) \in [Side -> Int]
    BY <2>1 DEF Across, Side
  <2> QED BY <2>2
<1>3. \A x \in Int : mult_frac(x, 12, 100) \in Int
  <2> TAKE x \in Int
  <2>1. 100 \in Nat \ {0} /\ 12 \in Int
    OBVIOUS
  <2>2. CDiv(x, 100) \in Int
    BY <2>1, CDivType
  <2>3. (x - CDiv(x, 100) * 100) * 12 \in Int
    BY <2>2
  <2>4. CDiv((x - CDiv(x, 100) * 100) * 12, 100) \in Int
    BY <2>1, <2>3, CDivType
  <2> QED BY <2>2, <2>4 DEF mult_frac
<1>4. bb_smooth_cog(w, state) \in [Side -> Int]
  BY <1>2, <1>3 DEF bb_smooth_cog
<1> QED BY <1>4 DEF Filter

LEMMA AxesType ==
  ASSUME NEW state \in [Side -> Int]
  PROVE  balance_board_to_stick_axes(state)
           \in [{"y", "rx"} -> -AxisMax..AxisMax]
<1> DEFINE x == state.right - state.left
           y == state.down - state.top
           thr == IF Abs(x) >= 900 /\ Abs(y) >= 900 THEN 900 ELSE 1400
           axis(cog) == clamp_axis(CDiv(bb_apply_move_threshold(cog, thr)
                                          * AxisMax, 3400))
<1>1. x \in Int /\ y \in Int /\ thr \in Int
  BY DEF Side
<1>2. \A cog \in Int : axis(cog) \in -AxisMax..AxisMax
  <2> TAKE cog \in Int
  <2> HIDE DEF thr
  <2>1. bb_apply_move_threshold(cog, thr) \in Int
    BY <1>1 DEF bb_apply_move_threshold, Sign
  <2>2. bb_apply_move_threshold(cog, thr) * AxisMax \in Int
    BY <2>1, DriveAssumption
  <2>3. 3400 \in Nat \ {0}
    OBVIOUS
  <2>4. CDiv(bb_apply_move_threshold(cog, thr) * AxisMax, 3400) \in Int
    BY <2>2, <2>3, CDivType
  <2> QED BY <2>4, ClampType
<1>3. balance_board_to_stick_axes(state) = [y |-> axis(y), rx |-> axis(x)]
  BY Zenon DEF balance_board_to_stick_axes
<1>4. axis(y) \in -AxisMax..AxisMax /\ axis(x) \in -AxisMax..AxisMax
  BY <1>1, <1>2
<1> HIDE DEF axis
<1> QED BY <1>3, <1>4

-----------------------------------------------------------------------------
(* Every step sets the duty by the command. *)

Inv ==
  /\ TypeOK
  /\ \A k \in Wheel : duty[k] = set_motor_duty(apply_min_speed(wheels[k]))

LEMMA WheelSet ==
  ASSUME NEW w \in [Wheel -> -AxisMax..AxisMax], rccar_motor_wheel_set(w)
  PROVE  /\ wheels' \in [Wheel -> -AxisMax..AxisMax]
         /\ duty' \in [Wheel -> [{"a", "b"} -> 0..PeriodTicks]]
         /\ \A k \in Wheel : duty'[k] = set_motor_duty(apply_min_speed(wheels'[k]))
<1>1. wheels' = w
  BY DEF rccar_motor_wheel_set
<1>2. duty' = [k \in Wheel |-> set_motor_duty(apply_min_speed(w[k]))]
  BY DEF rccar_motor_wheel_set
<1>3. \A k \in Wheel : set_motor_duty(apply_min_speed(w[k]))
                         \in [{"a", "b"} -> 0..PeriodTicks]
  BY MotorTurns
<1> QED BY <1>1, <1>2, <1>3

LEMMA BoardReportType ==
  ASSUME TypeOK, NEW w \in [Foot -> Corner], BoardReport(w)
  PROVE  /\ load' \in [Foot -> Corner]
         /\ bb_state' \in [Side -> Int]
         /\ board' \in [{"y", "rx"} -> -AxisMax..AxisMax]
         /\ pad' \in [Stick -> PadAxis]
         /\ pad_live' \in BOOLEAN
         /\ wheels' \in [Wheel -> -AxisMax..AxisMax]
         /\ duty' \in [Wheel -> [{"a", "b"} -> 0..PeriodTicks]]
         /\ \A k \in Wheel : duty'[k] = set_motor_duty(apply_min_speed(wheels'[k]))
<1>1. /\ load' = w
      /\ bb_state' = Filter(w, bb_state)
      /\ board' = balance_board_to_stick_axes(bb_state')
      /\ rccar_motor_wheel_set(Drives(pad, pad_live, board'))
      /\ pad' = pad
      /\ pad_live' = pad_live
  BY DEF BoardReport
<1>2. /\ bb_state \in [Side -> Int]
      /\ pad \in [Stick -> PadAxis]
      /\ pad_live \in BOOLEAN
  BY DEF TypeOK
<1>3. bb_state' \in [Side -> Int]
  BY <1>1, <1>2, FilterType
<1>4. board' \in [{"y", "rx"} -> -AxisMax..AxisMax]
  BY <1>1, <1>3, AxesType
<1>5. Drives(pad, pad_live, board') \in [Wheel -> -AxisMax..AxisMax]
  BY <1>2, <1>4, DrivesType
<1>6. /\ wheels' \in [Wheel -> -AxisMax..AxisMax]
      /\ duty' \in [Wheel -> [{"a", "b"} -> 0..PeriodTicks]]
      /\ \A k \in Wheel : duty'[k] = set_motor_duty(apply_min_speed(wheels'[k]))
  BY <1>1, <1>5, WheelSet
<1>7. load' \in [Foot -> Corner]
  BY <1>1
<1>8. pad' \in [Stick -> PadAxis] /\ pad_live' \in BOOLEAN
  BY <1>1, <1>2
<1> QED BY <1>3, <1>4, <1>6, <1>7, <1>8, Zenon

LEMMA InvInit == Init => Inv
<1> SUFFICES ASSUME Init PROVE Inv
  OBVIOUS
<1>1. /\ AxisMax \in Nat \ {0} /\ PeriodTicks \in Nat /\ 0 \in -AxisMax..AxisMax
  BY DriveAssumption
<1>2. set_motor_duty(apply_min_speed(0)) = [s \in {"a", "b"} |-> 0]
  <2>1. apply_min_speed(0) = 0
    BY DEF apply_min_speed
  <2>2. set_motor_duty(0) \in [{"a", "b"} -> 0..PeriodTicks]
    BY <1>1, DutyFits
  <2>3. set_motor_duty(0).a = 0 /\ set_motor_duty(0).b = 0
    BY <1>1, DutyFits
  <2> QED BY <2>1, <2>2, <2>3
<1>3. \A k \in Wheel : duty[k] = set_motor_duty(apply_min_speed(wheels[k]))
  BY <1>2 DEF Init, Standing
<1>4. TypeOK
  BY <1>1, SteeringAssumption DEF Init, TypeOK, Standing
<1> QED BY <1>3, <1>4 DEF Inv

LEMMA InvStep == Inv /\ [Next]_vars => Inv'
<1> SUFFICES ASSUME Inv, [Next]_vars PROVE Inv'
  OBVIOUS
<1>1. TypeOK
  BY DEF Inv
<1>2. Shifts \in Nat
  BY SteeringAssumption
<1>3. ASSUME NEW s \in Stick, NEW v \in PadAxis, PadReport(s, v)
      PROVE  Inv'
  <2>1. pad' \in [Stick -> PadAxis]
    BY <1>1, <1>3 DEF TypeOK, PadReport
  <2>2. Drives(pad', TRUE, board) \in [Wheel -> -AxisMax..AxisMax]
    BY <1>1, <2>1, DrivesType DEF TypeOK
  <2>3. rccar_motor_wheel_set(Drives(pad', TRUE, board))
    BY <1>3 DEF PadReport
  <2>4. /\ wheels' \in [Wheel -> -AxisMax..AxisMax]
        /\ duty' \in [Wheel -> [{"a", "b"} -> 0..PeriodTicks]]
        /\ \A k \in Wheel : duty'[k] = set_motor_duty(apply_min_speed(wheels'[k]))
    BY <2>2, <2>3, WheelSet
  <2> QED BY <1>1, <1>3, <2>1, <2>4 DEF Inv, TypeOK, PadReport
<1>4. CASE RiderStands
  <2>1. load \in [Foot -> Corner] /\ BoardReport(load)
    BY <1>1, <1>4 DEF RiderStands, TypeOK
  <2> QED BY <1>1, <1>4, <2>1, BoardReportType DEF Inv, TypeOK, RiderStands
<1>5. ASSUME NEW f \in Foot, NEW g \in Corner, RiderShifts(f, g)
      PROVE  Inv'
  <2> DEFINE w == [load EXCEPT ![f] = g]
  <2>1. w \in [Foot -> Corner] /\ BoardReport(w)
    BY <1>1, <1>5 DEF RiderShifts, TypeOK
  <2>2. shifts' \in 0..Shifts
    BY <1>1, <1>2, <1>5 DEF RiderShifts, TypeOK
  <2> HIDE DEF w
  <2> QED BY <1>1, <2>1, <2>2, BoardReportType DEF Inv, TypeOK
<1>6. CASE RiderStepsOff
  <2> DEFINE w == [f \in Foot |-> 0]
  <2>1. w \in [Foot -> Corner] /\ BoardReport(w)
    BY <1>6, SteeringAssumption DEF RiderStepsOff
  <2>2. shifts' \in 0..Shifts
    BY <1>1, <1>2, <1>6 DEF RiderStepsOff, TypeOK
  <2> HIDE DEF w
  <2> QED BY <1>1, <2>1, <2>2, BoardReportType DEF Inv, TypeOK
<1>7. CASE PadFallsSilent
  BY <1>7 DEF Inv, TypeOK, PadFallsSilent
<1>8. CASE UNCHANGED vars
  BY <1>8 DEF Inv, TypeOK, vars
<1> QED BY <1>3, <1>4, <1>5, <1>6, <1>7, <1>8 DEF Next

-----------------------------------------------------------------------------
(* Standing still. *)

\* A wheel of the peak speed is scaled to full speed, never to nothing.
LEMMA PeakStaysFull ==
  ASSUME NEW a \in Int, NEW m \in Nat \ {0}, NEW A \in Nat \ {0}, Abs(a) = m
  PROVE  CDiv(a * A, m) # 0
<1>1. (m * A) \div m = A /\ m * A \in Nat \ {0}
  OBVIOUS
<1>2. CASE a = m
  BY <1>1, <1>2 DEF CDiv
<1>3. CASE a = -m
  <2>1. a * A = -(m * A)
    BY <1>3
  <2> QED BY <1>1, <2>1 DEF CDiv
<1> QED BY <1>2, <1>3 DEF Abs

\* Without a turn the wheels stand exactly when nothing is asked of them.
LEMMA MixStands ==
  ASSUME NEW vx \in Int, NEW vy \in Int
  PROVE  rccar_drive_mix(vx, vy, 0) = Standing <=> vx = 0 /\ vy = 0
<1> DEFINE raw == Raw(vx, vy, 0)
<1>1. raw \in [Wheel -> Int]
  BY DEF Raw, Wheel
<1>2. Peak(raw) \in Nat /\ \E k \in Wheel : Abs(raw[k]) = Peak(raw)
  BY <1>1, PeakOfFour
<1>3. raw = Standing <=> vx = 0 /\ vy = 0
  BY DEF Raw, Standing, Wheel
<1>4. AxisMax \in Nat \ {0}
  BY DriveAssumption
<1>5. CASE Peak(raw) > AxisMax
  <2>1. Peak(raw) \in Nat \ {0}
    BY <1>2, <1>4, <1>5
  <2>2. PICK k \in Wheel : Abs(raw[k]) = Peak(raw)
    BY <1>2
  <2>3. CDiv(raw[k] * AxisMax, Peak(raw)) # 0
    BY <1>1, <1>4, <2>1, <2>2, PeakStaysFull
  <2>4. Scaled(raw, Peak(raw)) # Standing
    BY <2>3 DEF Scaled, Standing
  <2>5. raw # Standing
    BY <2>1, <2>2 DEF Standing, Abs
  <2> QED BY <1>3, <1>5, <2>4, <2>5 DEF rccar_drive_mix
<1>6. CASE ~ (Peak(raw) > AxisMax)
  BY <1>3, <1>6 DEF rccar_drive_mix
<1> QED BY <1>5, <1>6

LEMMA ClampShrinks ==
  ASSUME NEW v \in Int
  PROVE  clamp_axis(v) \in Int /\ Abs(clamp_axis(v)) <= Abs(v)
<1>1. AxisMax \in Nat \ {0}
  BY DriveAssumption
<1>2. Min({AxisMax - 1, v}) = IF AxisMax - 1 <= v THEN AxisMax - 1 ELSE v
  BY <1>1, MinOfTwo
<1>3. Min({AxisMax - 1, v}) \in Int /\ -AxisMax \in Int
  BY <1>1, <1>2
<1>4. clamp_axis(v) = IF -AxisMax >= Min({AxisMax - 1, v})
                      THEN -AxisMax ELSE Min({AxisMax - 1, v})
  BY <1>3, MaxOfTwo DEF clamp_axis
<1> QED BY <1>1, <1>2, <1>4 DEF Abs

\* The gate of the diagonal never opens inside the dead zone.
LEMMA SnapRests ==
  ASSUME NEW vx \in Int, NEW vy \in Int, NEW cone,
         Abs(vx) <= Deadzone, Abs(vy) <= Deadzone
  PROVE  snap_diagonal_cone(vx, vy, cone) = [vx |-> 0, vy |-> 0]
<1> DEFINE mag == Max({Abs(vx), Abs(vy)})
<1>1. Deadzone \in Nat /\ Abs(vx) \in Int /\ Abs(vy) \in Int
  BY DriveAssumption DEF Abs
<1>2. mag \in Int /\ mag <= Deadzone
  BY <1>1, MaxOfTwo
<1>3. ~ (mag > Deadzone)
  <2> HIDE DEF mag
  <2> QED BY <1>1, <1>2
<1>4. /\ rccar_drive_apply_deadzone(vx) = 0
      /\ rccar_drive_apply_deadzone(vy) = 0
  BY DEF rccar_drive_apply_deadzone
<1> QED BY <1>3, <1>4, Zenon DEF snap_diagonal_cone, mag

LEMMA PadRests ==
  ASSUME NEW p \in [Stick -> PadAxis], \A s \in Stick : Abs(p[s]) <= Deadzone
  PROVE  apply_gamepad_drive(p) = Standing
<1>1. /\ p.x \in Int /\ p.y \in Int /\ p.rx \in Int /\ p.ry \in Int
      /\ Abs(p.x) <= Deadzone /\ Abs(p.y) <= Deadzone
      /\ Abs(p.rx) <= Deadzone /\ Abs(p.ry) <= Deadzone
      /\ Deadzone \in Nat
  BY SteeringAssumption, DriveAssumption DEF Stick
<1>2. \A v \in Int : Abs(v) <= Deadzone =>
        /\ clamp_axis(v) \in Int /\ Abs(clamp_axis(v)) <= Deadzone
        /\ rccar_drive_apply_deadzone(clamp_axis(v)) = 0
  BY <1>1, ClampShrinks DEF Abs, rccar_drive_apply_deadzone
<1>3. /\ -clamp_axis(p.ry) \in Int /\ clamp_axis(p.rx) \in Int
      /\ Abs(-clamp_axis(p.ry)) <= Deadzone /\ Abs(clamp_axis(p.rx)) <= Deadzone
  BY <1>1, <1>2 DEF Abs
<1>4. PadWay(p) = [vx |-> 0, vy |-> 0]
  BY <1>3, SnapRests DEF PadWay
<1>5. PadMix(p) = [vx |-> 0, vy |-> 0, w |-> 0]
  BY <1>1, <1>2, <1>4 DEF PadMix
<1> QED BY <1>5, MixStands DEF apply_gamepad_drive

\* An empty board gives no axis, whatever the filter held before.
LEMMA EmptyBoard ==
  ASSUME NEW w, NEW state, \A f \in Foot : w[f] < IdleGrams
  PROVE  balance_board_to_stick_axes(Filter(w, state)) = [y |-> 0, rx |-> 0]
<1>1. Filter(w, state) = [s \in Side |-> 0]
  BY DEF Filter
<1>2. \A t \in {900, 1400} : bb_apply_move_threshold(0, t) = 0
  BY DEF bb_apply_move_threshold, Abs
<1>3. CDiv(0 * AxisMax, 3400) = 0
  BY DriveAssumption DEF CDiv
<1>4. clamp_axis(0) = 0
  BY ClampShrinks DEF Abs
<1> QED BY <1>1, <1>2, <1>3, <1>4 DEF balance_board_to_stick_axes, Side

LEMMA EmptyStep == EmptyBoardRests /\ [Next]_vars => EmptyBoardRests'
<1> SUFFICES ASSUME EmptyBoardRests, [Next]_vars PROVE EmptyBoardRests'
  OBVIOUS
<1>1. ASSUME NEW w, BoardReport(w) PROVE EmptyBoardRests'
  BY <1>1, EmptyBoard DEF BoardReport, EmptyBoardRests
<1>2. CASE UNCHANGED <<load, board>>
  BY <1>2 DEF EmptyBoardRests
<1> QED BY <1>1, <1>2
    DEF Next, PadReport, RiderStands, RiderShifts, RiderStepsOff, PadFallsSilent, vars

-----------------------------------------------------------------------------
(* The board's filter. *)

\* Twelve hundredths, cut off towards zero.
LEMMA SmoothIs ==
  ASSUME NEW x \in Int
  PROVE  /\ mult_frac(x, 12, 100) \in Int
         /\ x >= 0 => 100 * mult_frac(x, 12, 100) \in (12 * x - 99)..(12 * x)
         /\ x < 0 => 100 * mult_frac(x, 12, 100) \in (12 * x)..(12 * x + 99)
BY DEF mult_frac, CDiv

\* Of two values no more is kept apart than their share and one.
LEMMA SmoothDraws ==
  ASSUME NEW x \in Int, NEW y \in Int
  PROVE  100 * Abs(mult_frac(y, 12, 100) - mult_frac(x, 12, 100)) < 12 * Abs(y - x) + 100
<1>1. PICK p \in Int, q \in Int : p = mult_frac(x, 12, 100) /\ q = mult_frac(y, 12, 100)
  BY SmoothIs
<1>2. /\ x >= 0 => 100 * p \in (12 * x - 99)..(12 * x)
      /\ x < 0 => 100 * p \in (12 * x)..(12 * x + 99)
      /\ y >= 0 => 100 * q \in (12 * y - 99)..(12 * y)
      /\ y < 0 => 100 * q \in (12 * y)..(12 * y + 99)
  BY <1>1, SmoothIs
<1>3. 100 * Abs(q - p) < 12 * Abs(y - x) + 100
  BY <1>2 DEF Abs
<1> QED BY <1>1, <1>3

\* The filter moves by what it is away from the load.
LEMMA FilterDraws ==
  ASSUME NEW w \in [Foot -> Int], NEW a \in [Side -> Int], NEW b \in [Side -> Int],
         NEW s \in Side
  PROVE  100 * Abs(Filter(w, b)[s] - Filter(w, a)[s]) < 12 * Abs(b[s] - a[s]) + 100
<1>1. a[s] \in Int /\ b[s] \in Int /\ Across(w)[s] \in Int
  BY DEF Across, Foot, Side
<1>2. CASE \A f \in Foot : w[f] < IdleGrams
  <2>1. Filter(w, b)[s] = 0 /\ Filter(w, a)[s] = 0
    BY <1>2 DEF Filter
  <2>2. Abs(b[s] - a[s]) \in Nat
    BY <1>1 DEF Abs
  <2> QED BY <2>1, <2>2 DEF Abs
<1>3. CASE ~(\A f \in Foot : w[f] < IdleGrams)
  <2>1. PICK t \in Int, x \in Int, y \in Int :
          t = Across(w)[s] /\ x = t - a[s] /\ y = t - b[s]
    BY <1>1
  <2>2. /\ Filter(w, a)[s] = mult_frac(x, 12, 100)
        /\ Filter(w, b)[s] = mult_frac(y, 12, 100)
    BY <1>3, <2>1 DEF Filter, bb_smooth_cog
  <2>3. Abs(y - x) = Abs(b[s] - a[s])
    BY <1>1, <2>1 DEF Abs
  <2> QED BY <2>2, <2>3, SmoothDraws
<1> QED BY <1>2, <1>3

-----------------------------------------------------------------------------
(* What scaling keeps. *)

\* What a division leaves.
LEMMA Remainder ==
  ASSUME NEW x \in Nat, NEW m \in Nat \ {0}
  PROVE  x \div m \in Nat /\ x - (x \div m) * m \in 0..(m - 1)
<1>1. x = m * (x \div m) + (x % m) /\ x % m \in 0..(m - 1) /\ x \div m \in Nat
  OBVIOUS
<1>2. m * (x \div m) = (x \div m) * m
  BY <1>1
<1> QED BY <1>1, <1>2

\* A division that truncates keeps the sign and loses less than one.
LEMMA CDivKeeps ==
  ASSUME NEW x \in Int, NEW m \in Nat \ {0}
  PROVE  /\ CDiv(x, m) \in Int
         /\ x >= 0 => CDiv(x, m) >= 0
         /\ x <= 0 => CDiv(x, m) <= 0
         /\ Abs(CDiv(x, m) * m - x) < m
<1>1. CASE x >= 0
  <2>1. CDiv(x, m) = x \div m
    BY <1>1 DEF CDiv
  <2>2. x \div m \in Nat /\ x - (x \div m) * m \in 0..(m - 1)
    <3>1. x \in Nat
      BY <1>1
    <3> QED BY <3>1, Remainder
  <2>3. x <= 0 => x \div m = 0
    <3>1. 0 \div m = 0
      OBVIOUS
    <3>2. x <= 0 => x = 0
      BY <1>1
    <3> QED BY <3>1, <3>2
  <2>4. (x \div m) * m \in Int
    BY <2>2
  <2>5. Abs((x \div m) * m - x) < m
    <3> DEFINE y == (x \div m) * m
    <3>1. y \in Int /\ x - y \in 0..(m - 1)
      BY <2>2, <2>4
    <3> HIDE DEF y
    <3>2. Abs(y - x) < m
      BY <3>1 DEF Abs
    <3> QED BY <3>2 DEF y
  <2> QED BY <2>1, <2>2, <2>3, <2>5
<1>2. CASE x < 0
  <2> DEFINE q == (-x) \div m
             y == q * m
  <2>1. CDiv(x, m) = -q
    BY <1>2 DEF CDiv
  <2>2. -x \in Nat
    BY <1>2
  <2>3. q \in Nat /\ (-x) - y \in 0..(m - 1)
    BY <2>2, Remainder
  <2> HIDE DEF q
  <2>4. (-q) * m = -y /\ y \in Int
    BY <2>3
  <2> HIDE DEF y
  <2>5. Abs((-y) - x) < m
    BY <2>3, <2>4 DEF Abs
  <2> QED BY <1>2, <2>1, <2>3, <2>4, <2>5
<1> QED BY <1>1, <1>2

LEMMA CDivOdd ==
  ASSUME NEW x \in Int, NEW m \in Nat \ {0}
  PROVE  CDiv(-x, m) = -CDiv(x, m)
<1>1. CASE x = 0
  BY <1>1 DEF CDiv
<1>2. CASE x > 0
  <2>1. -(-x) = x
    OBVIOUS
  <2> QED BY <1>2, <2>1 DEF CDiv
<1>3. CASE x < 0
  <2>1. (-x) \div m \in Int
    BY <1>3
  <2> QED BY <1>3, <2>1 DEF CDiv
<1> QED BY <1>1, <1>2, <1>3

\* The wheel of the peak runs at full speed.
LEMMA PeakIsFull ==
  ASSUME NEW a \in Int, NEW m \in Nat \ {0}, NEW A \in Nat \ {0}, Abs(a) = m
  PROVE  Abs(CDiv(a * A, m)) = A
<1>1. (m * A) \div m = A /\ m * A \in Nat \ {0}
  OBVIOUS
<1>2. CASE a = m
  BY <1>1, <1>2 DEF CDiv, Abs
<1>3. CASE a = -m
  <2>1. a * A = -(m * A)
    BY <1>3
  <2> QED BY <1>1, <2>1 DEF CDiv, Abs
<1> QED BY <1>2, <1>3 DEF Abs

LEMMA ScalingKeeps ==
  ASSUME NEW vx \in Int, NEW vy \in Int, NEW w \in Int,
         Peak(Raw(vx, vy, w)) > AxisMax
  PROVE  LET raw == Raw(vx, vy, w)
             out == rccar_drive_mix(vx, vy, w)
         IN /\ \E k \in Wheel : Abs(out[k]) = AxisMax
            /\ \A k \in Wheel :
                 /\ out[k] = 0 \/ Sign(out[k]) = Sign(raw[k])
                 /\ Abs(out[k] * Peak(raw) - raw[k] * AxisMax) < Peak(raw)
<1> DEFINE raw == Raw(vx, vy, w)
           m == Peak(raw)
           out == rccar_drive_mix(vx, vy, w)
<1>1. raw \in [Wheel -> Int]
  BY DEF Raw, Wheel
<1>2. m \in Nat /\ \E k \in Wheel : Abs(raw[k]) = m
  BY <1>1, PeakOfFour
<1>3. AxisMax \in Nat \ {0}
  BY DriveAssumption
<1>4. m \in Nat \ {0}
  BY <1>2, <1>3
<1>5. \A k \in Wheel : out[k] = CDiv(raw[k] * AxisMax, m)
  BY DEF rccar_drive_mix, Scaled
<1> HIDE DEF raw, m, out
<1>6. \E k \in Wheel : Abs(out[k]) = AxisMax
  BY <1>1, <1>2, <1>3, <1>4, <1>5, PeakIsFull
<1>7. ASSUME NEW k \in Wheel
      PROVE  /\ out[k] = 0 \/ Sign(out[k]) = Sign(raw[k])
             /\ Abs(out[k] * m - raw[k] * AxisMax) < m
  <2>1. PICK a \in Int : a = raw[k]
    BY <1>1
  <2>2. PICK x \in Int : x = a * AxisMax
    BY <1>3
  <2>3. (x >= 0 <=> a >= 0) /\ (x <= 0 <=> a <= 0)
    BY <1>3, <2>2
  <2>4. out[k] = CDiv(x, m)
    BY <1>5, <2>1, <2>2
  <2>5. /\ out[k] \in Int /\ (x >= 0 => out[k] >= 0) /\ (x <= 0 => out[k] <= 0)
        /\ Abs(out[k] * m - x) < m
    BY <1>4, <2>4, CDivKeeps
  <2>6. out[k] = 0 \/ Sign(out[k]) = Sign(a)
    BY <2>3, <2>5 DEF Sign
  <2> QED BY <2>1, <2>2, <2>5, <2>6
<1> QED BY <1>6, <1>7 DEF raw, m, out

-----------------------------------------------------------------------------
(* Mirror images. *)

LEMMA ClampKeeps ==
  ASSUME NEW v \in Int, Abs(v) < AxisMax
  PROVE  clamp_axis(v) = v
<1>1. AxisMax \in Nat \ {0}
  BY DriveAssumption
<1>2. Min({AxisMax - 1, v}) = v
  BY <1>1, MinOfTwo DEF Abs
<1>3. clamp_axis(v) = IF -AxisMax >= v THEN -AxisMax ELSE v
  BY <1>1, <1>2, MaxOfTwo DEF clamp_axis
<1> QED BY <1>1, <1>3 DEF Abs

\* The ways of a stick and of its mirror image: a = -1 turns the first axis over,
\* b = -1 the second.
LEMMA SnapMirrors ==
  ASSUME NEW vx \in Int, NEW vy \in Int, NEW a \in {-1, 1}, NEW b \in {-1, 1},
         NEW cone \in {Narrow, Wide}
  PROVE  LET s == snap_diagonal_cone(vx, vy, cone)
             t == snap_diagonal_cone(a * vx, b * vy, cone)
         IN t.vx = a * s.vx /\ t.vy = b * s.vy
<1> DEFINE mag == Max({Abs(vx), Abs(vy)})
           gate == IF Deadzone > 0 THEN Min({AxisGate, Deadzone}) ELSE AxisGate
           diagonal == /\ Abs(vx) >= gate /\ Abs(vy) >= gate /\ mag > Deadzone
                       /\ in_diagonal_cone(Abs(vx), Abs(vy), cone)
           dz(v) == rccar_drive_apply_deadzone(v)
           way(x, y) == IF diagonal
                        THEN [vx |-> IF x < 0 THEN -mag ELSE mag,
                              vy |-> IF y < 0 THEN -mag ELSE mag]
                        ELSE [vx |-> dz(x), vy |-> dz(y)]
<1>1. Abs(a * vx) = Abs(vx) /\ Abs(b * vy) = Abs(vy)
  BY DEF Abs
<1>2. snap_diagonal_cone(vx, vy, cone) = way(vx, vy)
  BY DEF snap_diagonal_cone
<1>3. snap_diagonal_cone(a * vx, b * vy, cone) = way(a * vx, b * vy)
  BY <1>1, Zenon DEF snap_diagonal_cone
<1>4. mag \in Int /\ mag >= Abs(vx) /\ mag >= Abs(vy) /\ mag \in {Abs(vx), Abs(vy)}
      /\ Abs(vx) \in Nat /\ Abs(vy) \in Nat
  BY MaxOfTwo DEF Abs
<1>5. diagonal => vx # 0 /\ vy # 0
  <2>1. cone.lo \in Nat \ {0} /\ cone.hi \in Nat \ {0}
    BY DEF Narrow, Wide
  <2>2. SUFFICES ASSUME mag > Deadzone, in_diagonal_cone(Abs(vx), Abs(vy), cone)
                 PROVE  vx # 0 /\ vy # 0
    OBVIOUS
  <2>3. /\ Abs(vy) * 1000 >= Abs(vx) * cone.lo
        /\ Abs(vy) * 1000 <= Abs(vx) * cone.hi
    BY <2>2 DEF in_diagonal_cone
  <2>4. Abs(vx) = 0 <=> Abs(vy) = 0
    <3>1. PICK i \in Nat, j \in Nat, l \in Nat \ {0}, h \in Nat \ {0} :
            i = Abs(vx) /\ j = Abs(vy) /\ l = cone.lo /\ h = cone.hi
      BY <1>4, <2>1
    <3>2. j * 1000 >= i * l /\ j * 1000 <= i * h
      BY <2>3, <3>1
    <3>3. i = 0 => j = 0
      BY <3>2
    <3>4. j = 0 => i * l <= 0
      BY <3>2
    <3>5. j = 0 => i = 0
      BY <3>4
    <3> QED BY <3>1, <3>3, <3>5
  <2>5. mag > 0
    BY <1>4, <2>2, DriveAssumption
  <2> QED BY <1>4, <2>4, <2>5 DEF Abs
<1>6. dz(a * vx) = a * dz(vx) /\ dz(b * vy) = b * dz(vy)
  BY <1>1 DEF rccar_drive_apply_deadzone
<1> HIDE DEF mag, diagonal, dz
<1>7. way(a * vx, b * vy).vx = a * way(vx, vy).vx
  BY <1>4, <1>5, <1>6
<1>8. way(a * vx, b * vy).vy = b * way(vx, vy).vy
  BY <1>4, <1>5, <1>6
<1> HIDE DEF way
<1> QED BY <1>2, <1>3, <1>7, <1>8

LEMMA PeakSame ==
  ASSUME NEW r \in [Wheel -> Int], NEW s \in [Wheel -> Int],
         {Abs(s[k]) : k \in Wheel} = {Abs(r[k]) : k \in Wheel}
  PROVE  Peak(s) = Peak(r)
BY Zenon DEF Peak

\* The mix of everything turned over, and of the image from left to right.
LEMMA MixOpposite ==
  ASSUME NEW vx \in Int, NEW vy \in Int, NEW w \in Int, NEW k \in Wheel
  PROVE  rccar_drive_mix(-vx, -vy, -w)[k] = -(rccar_drive_mix(vx, vy, w)[k])
<1> DEFINE r == Raw(vx, vy, w)
           s == Raw(-vx, -vy, -w)
<1>1. r \in [Wheel -> Int] /\ s \in [Wheel -> Int]
  BY DEF Raw, Wheel
<1>2. \A i \in Wheel : s[i] = -(r[i])
  BY DEF Raw, Wheel
<1>3. \A i \in Wheel : Abs(s[i]) = Abs(r[i])
  BY <1>1, <1>2 DEF Abs
<1>4. Peak(s) = Peak(r) /\ Peak(r) \in Nat
  BY <1>1, <1>3, PeakSame, PeakOfFour
<1>5. AxisMax \in Nat \ {0}
  BY DriveAssumption
<1>6. CASE Peak(r) > AxisMax
  <2>1. r[k] \in Int /\ Peak(r) \in Nat \ {0}
    BY <1>1, <1>4, <1>5, <1>6
  <2>2. s[k] * AxisMax = -(r[k] * AxisMax) /\ r[k] * AxisMax \in Int
    BY <1>2, <1>5, <2>1
  <2>3. CDiv(s[k] * AxisMax, Peak(r)) = -CDiv(r[k] * AxisMax, Peak(r))
    BY <2>1, <2>2, CDivOdd
  <2> QED BY <1>4, <1>6, <2>3 DEF rccar_drive_mix, Scaled
<1>7. CASE ~ (Peak(r) > AxisMax)
  BY <1>2, <1>4, <1>7 DEF rccar_drive_mix
<1> QED BY <1>6, <1>7

LEMMA MixMirrored ==
  ASSUME NEW vx \in Int, NEW vy \in Int, NEW w \in Int, NEW k \in Wheel
  PROVE  rccar_drive_mix(vx, -vy, -w)[OtherSide(k)] = rccar_drive_mix(vx, vy, w)[k]
<1> DEFINE r == Raw(vx, vy, w)
           s == Raw(vx, -vy, -w)
<1>1. r \in [Wheel -> Int] /\ s \in [Wheel -> Int]
  BY DEF Raw, Wheel
<1>2. s.fr = r.fl /\ s.fl = r.fr /\ s.rr = r.rl /\ s.rl = r.rr
  BY DEF Raw
<1>3. \A i \in Wheel : OtherSide(i) \in Wheel /\ s[OtherSide(i)] = r[i]
  BY <1>2 DEF Wheel, OtherSide
<1>4. {Abs(s[i]) : i \in Wheel} = {Abs(r[i]) : i \in Wheel}
  <2>1. {Abs(s[i]) : i \in Wheel} = {Abs(s.fl), Abs(s.fr), Abs(s.rl), Abs(s.rr)}
    BY DEF Wheel
  <2>2. {Abs(r[i]) : i \in Wheel} = {Abs(r.fl), Abs(r.fr), Abs(r.rl), Abs(r.rr)}
    BY DEF Wheel
  <2> HIDE DEF r, s
  <2> QED BY <1>2, <2>1, <2>2
<1>5. Peak(s) = Peak(r)
  BY <1>1, <1>4, PeakSame
<1>6. CASE Peak(r) > AxisMax
  BY <1>3, <1>5, <1>6 DEF rccar_drive_mix, Scaled
<1>7. CASE ~ (Peak(r) > AxisMax)
  BY <1>3, <1>5, <1>7 DEF rccar_drive_mix
<1> QED BY <1>6, <1>7

LEMMA SticksInside ==
  ASSUME NEW p \in [Stick -> PadAxis], \A s \in Stick : Abs(p[s]) < AxisMax
  PROVE  \A s \in Stick : p[s] \in Int /\ clamp_axis(p[s]) = p[s]
                          /\ clamp_axis(-p[s]) = -p[s]
<1> TAKE s \in Stick
<1>1. p[s] \in Int
  BY SteeringAssumption
<1>2. -p[s] \in Int /\ Abs(p[s]) < AxisMax /\ Abs(-p[s]) < AxisMax
  BY <1>1 DEF Abs
<1> QED BY <1>1, <1>2, ClampKeeps

LEMMA DeadzoneOdd ==
  ASSUME NEW v \in Int
  PROVE  /\ rccar_drive_apply_deadzone(-v) = -rccar_drive_apply_deadzone(v)
         /\ rccar_drive_apply_deadzone(v) \in Int
BY DEF rccar_drive_apply_deadzone, Abs

\* What the mix is asked for the sticks turned over, and for those mirrored left to
\* right.
LEMMA PadMixMirrors ==
  ASSUME NEW p \in [Stick -> PadAxis], \A s \in Stick : Abs(p[s]) < AxisMax
  PROVE  /\ PadMix(p).vx \in Int /\ PadMix(p).vy \in Int /\ PadMix(p).w \in Int
         /\ PadMix(Opposite(p)).vx = -(PadMix(p).vx)
         /\ PadMix(Opposite(p)).vy = -(PadMix(p).vy)
         /\ PadMix(Opposite(p)).w = -(PadMix(p).w)
         /\ PadMix(Mirrored(p)).vx = PadMix(p).vx
         /\ PadMix(Mirrored(p)).vy = -(PadMix(p).vy)
         /\ PadMix(Mirrored(p)).w = -(PadMix(p).w)
<1>1. /\ p.x \in Int /\ p.y \in Int /\ p.rx \in Int /\ p.ry \in Int
      /\ clamp_axis(p.x) = p.x /\ clamp_axis(-p.x) = -p.x
      /\ clamp_axis(p.y) = p.y /\ clamp_axis(-p.y) = -p.y
      /\ clamp_axis(p.rx) = p.rx /\ clamp_axis(-p.rx) = -p.rx
      /\ clamp_axis(p.ry) = p.ry /\ clamp_axis(-p.ry) = -p.ry
  BY SticksInside DEF Stick
<1> DEFINE q == Opposite(p)
           l == Mirrored(p)
<1>2. q.x = -p.x /\ q.y = -p.y /\ q.rx = -p.rx /\ q.ry = -p.ry
  BY DEF Opposite, Stick
<1>3. l.x = -p.x /\ l.y = p.y /\ l.rx = -p.rx /\ l.ry = p.ry
  BY DEF Mirrored, Stick
<1>4. PadWay(p) = snap_diagonal_cone(-p.ry, p.rx, Narrow)
  BY <1>1 DEF PadWay
<1>5. -p.ry \in Int /\ Narrow \in {Narrow, Wide}
  BY <1>1
<1>6. PadWay(p).vx \in Int /\ PadWay(p).vy \in Int
  BY <1>1, <1>4, <1>5, SnapType
<1>7. PadWay(q).vx = -(PadWay(p).vx) /\ PadWay(q).vy = -(PadWay(p).vy)
  <2>1. PadWay(q) = snap_diagonal_cone(-(-p.ry), -p.rx, Narrow)
    BY <1>1, <1>2 DEF PadWay
  <2>2. (-1) * (-p.ry) = -(-p.ry) /\ (-1) * p.rx = -p.rx
    BY <1>1
  <2>3. PadWay(q) = snap_diagonal_cone((-1) * (-p.ry), (-1) * p.rx, Narrow)
    BY <2>1, <2>2
  <2>4. PadWay(q).vx = (-1) * PadWay(p).vx /\ PadWay(q).vy = (-1) * PadWay(p).vy
    <3>1. -1 \in {-1, 1}
      OBVIOUS
    <3> QED BY <1>1, <1>4, <1>5, <2>3, <3>1, SnapMirrors
  <2> QED BY <1>6, <2>4
<1>8. PadWay(l).vx = PadWay(p).vx /\ PadWay(l).vy = -(PadWay(p).vy)
  <2>1. PadWay(l) = snap_diagonal_cone(-p.ry, -p.rx, Narrow)
    BY <1>1, <1>3 DEF PadWay
  <2>2. 1 * (-p.ry) = -p.ry /\ (-1) * p.rx = -p.rx
    BY <1>1
  <2>3. PadWay(l) = snap_diagonal_cone(1 * (-p.ry), (-1) * p.rx, Narrow)
    BY <2>1, <2>2
  <2>4. PadWay(l).vx = 1 * PadWay(p).vx /\ PadWay(l).vy = (-1) * PadWay(p).vy
    <3>1. -1 \in {-1, 1} /\ 1 \in {-1, 1}
      OBVIOUS
    <3> QED BY <1>1, <1>4, <1>5, <2>3, <3>1, SnapMirrors
  <2> QED BY <1>6, <2>4
<1> HIDE DEF q, l
<1> DEFINE dz(v) == rccar_drive_apply_deadzone(v)
<1>9. /\ dz(p.x) \in Int /\ dz(p.y) \in Int
      /\ dz(-p.x) = -dz(p.x) /\ dz(-p.y) = -dz(p.y)
  BY <1>1, DeadzoneOdd
<1>10. PadMix(p).vx = -dz(p.y) + PadWay(p).vx /\ PadMix(p).vy = PadWay(p).vy
       /\ PadMix(p).w = dz(p.x)
  BY <1>1 DEF PadMix
<1>11. PadMix(q).vx = -dz(-p.y) + PadWay(q).vx /\ PadMix(q).vy = PadWay(q).vy
       /\ PadMix(q).w = dz(-p.x)
  BY <1>1, <1>2 DEF PadMix
<1>12. PadMix(l).vx = -dz(p.y) + PadWay(l).vx /\ PadMix(l).vy = PadWay(l).vy
       /\ PadMix(l).w = dz(-p.x)
  BY <1>1, <1>3 DEF PadMix
<1> HIDE DEF dz
<1>13. /\ PadMix(p).vx \in Int /\ PadMix(p).vy \in Int /\ PadMix(p).w \in Int
  BY <1>6, <1>9, <1>10
<1>14. /\ PadMix(q).vx = -(PadMix(p).vx) /\ PadMix(q).vy = -(PadMix(p).vy)
       /\ PadMix(q).w = -(PadMix(p).w)
  BY <1>6, <1>7, <1>9, <1>10, <1>11
<1>15. /\ PadMix(l).vx = PadMix(p).vx /\ PadMix(l).vy = -(PadMix(p).vy)
       /\ PadMix(l).w = -(PadMix(p).w)
  BY <1>6, <1>8, <1>9, <1>10, <1>12
<1> QED BY <1>13, <1>14, <1>15 DEF q, l

-----------------------------------------------------------------------------
(* The theorems. *)

\* Whatever the sticks and the rider do, a wheel is never commanded beyond
\* full speed and a compare value never exceeds the PWM period, the only
\* value the driver would refuse (rccar_drive.c:37-42, rccar_motor.c:83-97).
THEOREM SteeringFits == Spec => []TypeOK
<1>1. Inv => TypeOK
  BY DEF Inv
<1> QED BY InvInit, InvStep, <1>1, PTL DEF Spec

\* A wheel turns exactly when told, its own way, with at least the least duty
\* (rccar_motor.c:123-132), for every command the sticks can give.
THEOREM WheelsTurnWhenTold == Spec => []TurnsWhenTold
<1>1. Inv => TurnsWhenTold
  <2> SUFFICES ASSUME Inv, NEW k \in Wheel
               PROVE  LET least == (MinSpeed * PeriodTicks) \div AxisMax
                      IN /\ duty[k].a > 0 <=> wheels[k] > 0
                         /\ duty[k].b > 0 <=> wheels[k] < 0
                         /\ wheels[k] # 0 => Max({duty[k].a, duty[k].b}) >= least
    BY Zenon DEF TurnsWhenTold
  <2>1. wheels[k] \in -AxisMax..AxisMax
    BY DEF Inv, TypeOK
  <2>2. duty[k] = set_motor_duty(apply_min_speed(wheels[k]))
    BY DEF Inv
  <2>3. LET least == (MinSpeed * PeriodTicks) \div AxisMax
        IN /\ duty[k] \in [{"a", "b"} -> 0..PeriodTicks]
           /\ duty[k].a > 0 <=> wheels[k] > 0
           /\ duty[k].b > 0 <=> wheels[k] < 0
           /\ wheels[k] # 0 => Max({duty[k].a, duty[k].b}) >= least
    BY <2>1, <2>2, MotorTurns
  <2> QED BY <2>3, Zenon
<1> QED BY InvInit, InvStep, <1>1, PTL DEF Spec

\* Sticks within the dead zone leave the car standing, for every dead zone and
\* every gate of the diagonal (rccar_drive.c:49-102).
THEOREM SticksAtRest == Spec => []NoCreep
<1>1. Inv => NoCreep
  BY PadRests DEF Inv, TypeOK, NoCreep
<1> QED BY InvInit, InvStep, <1>1, PTL DEF Spec

\* "Does the board stand?" has the answer of the board's own drive
\* (my_platform.c:495-507, 533-539).
THEOREM OneAnswer == Spec => []BoardStopsAgree
<1>1. Inv => BoardStopsAgree
  <2> SUFFICES ASSUME board \in [{"y", "rx"} -> -AxisMax..AxisMax]
               PROVE  BoardStopsAgree
    BY DEF Inv, TypeOK
  <2>1. board.y \in Int /\ board.rx \in Int
    BY DriveAssumption
  <2>2. -clamp_axis(board.y) \in Int /\ clamp_axis(board.rx) \in Int
    BY <2>1, ClampType, DriveAssumption
  <2>3. BoardWay(board).vx \in Int /\ BoardWay(board).vy \in Int
    BY <2>2, SnapType DEF BoardWay
  <2> QED BY <2>3, MixStands
      DEF BoardStopsAgree, bb_axes_are_stopped, apply_balance_board_drive
<1> QED BY InvInit, InvStep, <1>1, PTL DEF Spec

\* Nobody on the board, nothing from the board, whatever the filter held
\* (my_platform.c:457-461).
THEOREM EmptyBoardIsStill == Spec => []EmptyBoardRests
<1>1. Init => EmptyBoardRests
  BY DEF Init, EmptyBoardRests
<1> QED BY <1>1, EmptyStep, PTL DEF Spec

\* Under a rider who stands still a report moves a side of the filter by less than
\* 12 % of what the one before did, and one gram, whatever the weights are
\* (my_platform.c:442-447).
THEOREM StandingRiderIsCalm == Spec => BoardCalmsDown
<1> DEFINE Calm == \A s \in Side :
             100 * Swing(load', bb_state')[s] < 12 * Swing(load, bb_state)[s] + 100
<1>1. Inv /\ [Next]_vars => [RiderStands => Calm]_vars
  <2> SUFFICES ASSUME Inv, RiderStands, NEW s \in Side
               PROVE  100 * Swing(load', bb_state')[s] < 12 * Swing(load, bb_state)[s] + 100
    OBVIOUS
  <2>1. load' = load /\ bb_state' = Filter(load, bb_state)
    BY DEF RiderStands, BoardReport
  <2>2. load \in [Foot -> Corner] /\ bb_state \in [Side -> Int]
    BY DEF Inv, TypeOK
  <2>3. bb_state' \in [Side -> Int]
    BY <2>1, <2>2, FilterType
  <2>4. /\ Swing(load', bb_state')[s] = Abs(Filter(load, bb_state')[s] - Filter(load, bb_state)[s])
        /\ Swing(load, bb_state)[s] = Abs(bb_state'[s] - bb_state[s])
    BY <2>1 DEF Swing
  <2>5. load \in [Foot -> Int]
    <3>1. Corner \subseteq Int
      BY SteeringAssumption
    <3> QED BY <2>2, <3>1
  <2> QED BY <2>2, <2>3, <2>4, <2>5, FilterDraws
<1> QED BY <1>1, InvInit, InvStep, PTL DEF Spec, BoardCalmsDown

\* When the mix asks for more than full speed no wheel is cut on its own: one runs
\* at full speed and every wheel keeps its way and its share to less than a unit,
\* for every axis range and dead zone (rccar_drive.c:37-42).
THEOREM ScalingKeepsTheWay == Spec => []ScaledNotClipped
<1>1. Inv => ScaledNotClipped
  <2> SUFFICES ASSUME pad \in [Stick -> PadAxis] PROVE ScaledNotClipped
    BY DEF Inv, TypeOK
  <2>1. PadMix(pad).vx \in Int /\ PadMix(pad).vy \in Int /\ PadMix(pad).w \in Int
    BY PadMixType
  <2> QED BY <2>1, ScalingKeeps DEF ScaledNotClipped, apply_gamepad_drive
<1> QED BY InvInit, InvStep, <1>1, PTL DEF Spec

\* Opposite sticks give opposite wheels and mirrored sticks the wheels of the other
\* side, through the dead zone, the snap to a diagonal, the mix and its scaling, for
\* every axis range, dead zone and gate (rccar_drive.c:14-47, 75-110).
THEOREM NoPreferredWay == Spec => []MirrorImage
<1>1. Inv => MirrorImage
  <2> SUFFICES ASSUME pad \in [Stick -> PadAxis], \A s \in Stick : Abs(pad[s]) < AxisMax,
                      NEW k \in Wheel
               PROVE  /\ apply_gamepad_drive(Opposite(pad))[k]
                            = -(apply_gamepad_drive(pad)[k])
                      /\ apply_gamepad_drive(Mirrored(pad))[OtherSide(k)]
                            = apply_gamepad_drive(pad)[k]
    BY DEF Inv, TypeOK, MirrorImage
  <2> QED BY PadMixMirrors, MixOpposite, MixMirrored DEF apply_gamepad_drive
<1> QED BY InvInit, InvStep, <1>1, PTL DEF Spec
=============================================================================
