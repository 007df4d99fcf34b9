---------------------------- MODULE RadarProofs ----------------------------
(* Proofs about Radar, for every length of sweep, rest and start delay, and *)
(* any number of refusals of the driver.                                    *)
EXTENDS Radar, TLAPS

USE RadarAssumption

Flags ==
  /\ s_enabled \in BOOLEAN /\ s_vehicle_moving \in BOOLEAN
  /\ s_need_start_delay \in BOOLEAN /\ s_attached \in BOOLEAN
  /\ drove \in BOOLEAN /\ display \in BOOLEAN

Clocks ==
  /\ since \in 0..StartDelay /\ stood \in 0..StartDelay
  /\ call \in [Caller -> {"none", "ask", "stopped", "need", "show"}]

\* The servo itself.  When the task comes back from a pause of a sweep at least
\* one update has passed, and between two sweeps the servo is where it was sent.
Servo ==
  /\ task \in Sleep \cup {"top", "attach", "act", "need", "moving", "time", "clear", "begin"}
  /\ phase \in {"IDLE", "SWEEP", "DWELL"}
  /\ deg \in Angle /\ start_deg \in Angle /\ target_deg \in {0, OneWay}
  /\ run \in 0..OneWay /\ rest \in 0..EndRest /\ faults \in 0..Faults
  /\ phase = "SWEEP" /\ task \notin Sleep => run >= 1
  /\ phase = "DWELL" /\ task # "hold" => deg = target_deg

IInv == Flags /\ Clocks /\ Servo

LEMMA InitIInv == Init => IInv
<1> SUFFICES ASSUME Init PROVE IInv
  OBVIOUS
<1>1. Flags
  BY Zenon DEF Init, Flags
<1>2. Clocks
  BY DEF Init, Clocks
<1>3. Servo
  BY DEF Init, Servo, Angle, Sleep
<1> QED BY <1>1, <1>2, <1>3 DEF IInv

\* A clock that stops at its limit stays within it.
LEMMA AtMostType ==
  ASSUME NEW limit \in Nat, NEW t \in 0..limit, NEW dt \in Nat
  PROVE  AtMost(t + dt, limit) \in 0..limit
  BY DEF AtMost

\* A sweep never leaves the range between the ends, however late an update is.
LEMMA SweepInRange ==
  ASSUME NEW t \in 0..OneWay, start_deg \in Angle, target_deg \in {0, OneWay}
  PROVE  sweep_now_deg(t) \in Angle
  BY DEF sweep_now_deg, AtMost, Angle

\* The opposite end is an end.
LEMMA OppositeType == \A d \in Angle : opposite_end(d) \in {0, OneWay}
  BY DEF opposite_end, Angle

-----------------------------------------------------------------------------
(* Each part is preserved.  The callers touch the flags and clocks only, the  *)
(* task everything.                                                          *)

LEMMA FlagsStep == Flags /\ [Next]_vars => Flags'
<1> SUFFICES ASSUME Flags, [Next]_vars PROVE Flags'
  OBVIOUS
<1> USE DEF Flags, shared, servo, history, Moves, TaskGoes
<1>1. ASSUME NEW c \in Caller, NEW on \in BOOLEAN, SetMoving(c, on) PROVE Flags'
  BY <1>1, Zenon DEF SetMoving
<1>2. ASSUME NEW c \in Caller, NEW on \in BOOLEAN, SetEnabled(c, on) PROVE Flags'
  BY <1>2, Zenon DEF SetEnabled
<1>3. CASE ExhibitBegin
  BY <1>3, Zenon DEF ExhibitBegin
<1>4. CASE ExhibitShow
  BY <1>4, Zenon DEF ExhibitShow
<1>5. ASSUME NEW c \in Caller, Continue(c) PROVE Flags'
  BY <1>5, Zenon DEF Continue
<1>6. ASSUME NEW dt \in Updates, Pass(dt) PROVE Flags'
  BY <1>6, Zenon DEF Pass
<1>7. CASE Top
  BY <1>7, Zenon DEF Top
<1>8. CASE Consider \/ StartDelayDone \/ ClearDelay
  BY <1>8, Zenon DEF Consider, StartDelayDone, ClearDelay
<1>9. ASSUME NEW ok \in BOOLEAN, Attach(ok) \/ Sweep(ok) \/ BeginSweep(ok) PROVE Flags'
  BY <1>9, Zenon DEF Attach, Sweep, BeginSweep
<1>10. CASE UNCHANGED vars
  BY <1>10, Zenon DEF vars
<1>11. "core1" \in Caller /\ "btstack" \in Caller
  BY DEF Caller
<1>12. CASE Call
  BY <1>12, <1>1, <1>2, <1>3, <1>11, Zenon DEF Call
<1>13. CASE CallContinues
  BY <1>13, <1>4, <1>5, Zenon DEF CallContinues
<1>14. CASE Task
  BY <1>14, <1>6, <1>7, <1>8, <1>9, Zenon DEF Task
<1> QED BY <1>10, <1>12, <1>13, <1>14, Zenon DEF Next

LEMMA ClocksStep == Clocks /\ [Next]_vars => Clocks'
<1> SUFFICES ASSUME Clocks, [Next]_vars PROVE Clocks'
  OBVIOUS
<1> USE DEF Clocks, shared, servo, history, TaskGoes
<1>1. ASSUME NEW c \in Caller, NEW from, NEW to \in {"none", "ask", "stopped", "need", "show"},
             Moves(c, from, to)
      PROVE  call' \in [Caller -> {"none", "ask", "stopped", "need", "show"}]
  BY <1>1 DEF Moves
<1>2. "core1" \in Caller /\ "btstack" \in Caller
  BY DEF Caller
<1>3. ASSUME NEW c \in Caller, NEW on \in BOOLEAN, SetMoving(c, on) PROVE Clocks'
  <2>1. call' \in [Caller -> {"none", "ask", "stopped", "need", "show"}]
    BY <1>3, <1>1 DEF SetMoving
  <2>2. since' = since /\ stood' = 0
    BY <1>3 DEF SetMoving
  <2> QED BY <2>1, <2>2
<1>4. ASSUME NEW c \in Caller, NEW on \in BOOLEAN, SetEnabled(c, on) PROVE Clocks'
  <2>1. call' \in [Caller -> {"none", "ask", "stopped", "need", "show"}]
    BY <1>4, <1>1 DEF SetEnabled
  <2>2. since' = since /\ stood' = stood
    BY <1>4 DEF SetEnabled
  <2> QED BY <2>1, <2>2
<1>5. CASE ExhibitBegin \/ ExhibitShow
  <2>1. call' \in [Caller -> {"none", "ask", "stopped", "need", "show"}]
    BY <1>5, <1>1, <1>2 DEF ExhibitBegin, ExhibitShow
  <2>2. since' = since /\ stood' = stood
    BY <1>5 DEF ExhibitBegin, ExhibitShow
  <2> QED BY <2>1, <2>2
<1>6. ASSUME NEW c \in Caller, Continue(c) PROVE Clocks'
  <2>1. call' \in [Caller -> {"none", "ask", "stopped", "need", "show"}]
    BY <1>6, <1>1 DEF Continue
  <2>2. since' \in {since, 0} /\ stood' = stood
    BY <1>6 DEF Continue
  <2> QED BY <2>1, <2>2
<1>7. ASSUME NEW dt \in Updates, Pass(dt) PROVE Clocks'
  <2>1. dt \in Nat
    OBVIOUS
  <2>2. AtMost(since + dt, StartDelay) \in 0..StartDelay
    BY <2>1, AtMostType
  <2>3. AtMost(stood + dt, StartDelay) \in 0..StartDelay
    BY <2>1, AtMostType
  <2> QED BY <1>7, <2>2, <2>3 DEF Pass
<1>8. CASE Top \/ Consider \/ StartDelayDone \/ ClearDelay
  BY <1>8 DEF Top, Consider, StartDelayDone, ClearDelay
<1>9. ASSUME NEW ok \in BOOLEAN, Attach(ok) \/ Sweep(ok) \/ BeginSweep(ok) PROVE Clocks'
  BY <1>9 DEF Attach, Sweep, BeginSweep
<1>10. CASE UNCHANGED vars
  BY <1>10 DEF vars
<1>12. CASE Call
  BY <1>12, <1>2, <1>3, <1>4, <1>5, Zenon DEF Call
<1>13. CASE CallContinues
  BY <1>13, <1>5, <1>6, Zenon DEF CallContinues
<1>14. CASE Task
  BY <1>14, <1>7, <1>8, <1>9, Zenon DEF Task
<1> QED BY <1>10, <1>12, <1>13, <1>14, Zenon DEF Next

LEMMA ServoStep == Servo /\ [Next]_vars => Servo'
<1> SUFFICES ASSUME Servo, [Next]_vars PROVE Servo'
  OBVIOUS
<1> USE DEF Servo, TaskGoes, Sleep
<1>1. CASE Call \/ CallContinues
  <2>1. UNCHANGED <<task, servo>>
    BY <1>1, Zenon DEF Call, CallContinues, SetMoving, SetEnabled, ExhibitBegin, ExhibitShow,
       Continue, Moves
  <2> QED BY <2>1 DEF servo
<1>2. ASSUME NEW dt \in Updates, Pass(dt) PROVE Servo'
  <2>1. dt \in Nat /\ dt >= 1
    OBVIOUS
  <2>2. AtMost(rest + dt, EndRest) \in 0..EndRest
    BY <2>1, AtMostType
  <2>3. AtMost(run + dt, OneWay) \in 1..OneWay
    BY <2>1 DEF AtMost
  <2>4. CASE task = "delay"
    BY <1>2, <2>2, <2>3, <2>4 DEF Pass
  <2>5. CASE task = "hold"
    BY <1>2, <2>2, <2>5 DEF Pass
  <2> QED BY <1>2, <2>4, <2>5 DEF Pass
<1>3. CASE Top
  BY <1>3 DEF Top, shared, history
<1>4. CASE Consider \/ StartDelayDone \/ ClearDelay
  BY <1>4 DEF Consider, StartDelayDone, ClearDelay, servo
<1>5. ASSUME NEW ok \in BOOLEAN, Attach(ok) PROVE Servo'
  BY <1>5 DEF Attach, MayFail, Driver
<1>6. ASSUME NEW ok \in BOOLEAN, Sweep(ok) PROVE Servo'
  <2>1. sweep_now_deg(run) \in Angle
    BY SweepInRange
  <2>2. phase = "SWEEP" /\ run >= 1
    BY <1>6 DEF Sweep
  <2>3. run' \in 0..OneWay /\ faults' \in 0..Faults
    BY <1>6, <2>2 DEF Sweep, MayFail, Driver
  <2>4. /\ deg' = sweep_now_deg(run)
        /\ task' = "delay"
        /\ UNCHANGED <<start_deg, target_deg>>
        /\ phase' = IF deg' = target_deg THEN "DWELL" ELSE phase
        /\ rest' = IF deg' = target_deg THEN 0 ELSE rest
    BY <1>6, Zenon DEF Sweep
  <2> QED BY <2>1, <2>2, <2>3, <2>4
<1>7. ASSUME NEW ok \in BOOLEAN, BeginSweep(ok) PROVE Servo'
  <2>1. Target \in {0, OneWay}
    BY OppositeType DEF Target
  <2> QED BY <1>7, <2>1 DEF BeginSweep, MayFail, Driver
<1>8. CASE UNCHANGED vars
  BY <1>8 DEF vars, servo
<1>9. CASE Task
  BY <1>9, <1>2, <1>3, <1>4, <1>5, <1>6, <1>7, Zenon DEF Task
<1> QED BY <1>1, <1>8, <1>9, Zenon DEF Next

LEMMA IInvAlways == Spec => []IInv
<1>1. IInv /\ [Next]_vars => IInv'
  BY FlagsStep, ClocksStep, ServoStep, Zenon DEF IInv
<1> QED BY InitIInv, <1>1, PTL DEF Spec

-----------------------------------------------------------------------------
(* Theorems. *)

\* The servo never leaves the range between its ends, however late the task is
\* and whatever the driver refuses (rccar_radar.c:147-161).
THEOREM ServoInRange == Spec => []TypeOK
<1>1. IInv => TypeOK
  <2> SUFFICES ASSUME IInv PROVE TypeOK
    OBVIOUS
  <2>1. Flags /\ Clocks /\ Servo
    BY Zenon DEF IInv
  <2> QED BY <2>1, Zenon DEF Flags, Clocks, Servo, TypeOK
<1> QED BY <1>1, IInvAlways, PTL

\* The target changes at the beginning of a sweep only, and there the servo
\* stands at an end or keeps its target.
LEMMA TurnStep == Servo /\ [Next]_vars => (target_deg' # target_deg => deg \in {0, OneWay})
<1> SUFFICES ASSUME Servo, [Next]_vars, target_deg' # target_deg PROVE deg \in {0, OneWay}
  OBVIOUS
<1> USE DEF servo, TaskGoes
<1>1. PICK ok \in BOOLEAN : BeginSweep(ok)
  <2>1. CASE Call \/ CallContinues
    BY <2>1, Zenon DEF Call, CallContinues, SetMoving, SetEnabled, ExhibitBegin, ExhibitShow,
       Continue, Moves
  <2>2. ASSUME NEW dt \in Updates, Pass(dt) PROVE FALSE
    BY <2>2, Zenon DEF Pass
  <2>3. CASE Top \/ Consider \/ StartDelayDone \/ ClearDelay
    BY <2>3, Zenon DEF Top, Consider, StartDelayDone, ClearDelay
  <2>4. ASSUME NEW ok \in BOOLEAN, Attach(ok) \/ Sweep(ok) PROVE FALSE
    BY <2>4, Zenon DEF Attach, Sweep
  <2>5. CASE UNCHANGED vars
    BY <2>5, Zenon DEF vars
  <2> QED BY <2>1, <2>2, <2>3, <2>4, <2>5, Zenon DEF Next, Task
<1>2. task = "begin" /\ target_deg' = Target
  BY <1>1, Zenon DEF BeginSweep
<1>3. phase = "DWELL" \/ deg = target_deg
  BY <1>2, Zenon DEF Target
<1> QED BY <1>2, <1>3 DEF Servo

\* "0 to 180 and back" for every length of sweep (rccar_radar.c:4).
THEOREM FullSweeps == Spec => TurnsOnlyAtEnds
<1>1. IInv /\ [Next]_vars => [target_deg' # target_deg => deg \in {0, OneWay}]_vars
  BY TurnStep, Zenon DEF IInv
<1> QED BY <1>1, IInvAlways, PTL DEF Spec, TurnsOnlyAtEnds
=============================================================================
