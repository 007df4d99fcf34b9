------------------------------ MODULE Exhibit -------------------------------
(***************************************************************************)
(* The display without a controller (components/rccar/rccar_exhibit.c), run *)
(* by input_process_task on core 1 (main/my_platform.c:612-641) while the   *)
(* btstack thread on core 0 connects and disconnects controllers and writes  *)
(* the same outputs.  Times are the milliseconds of the source.             *)
(*                                                                          *)
(* rccar_exhibit_tick asks is_connected before each output; the question    *)
(* and the output are separate steps here, as they are in the code.         *)
(***************************************************************************)
EXTENDS Integers

CONSTANT Polls      \* milliseconds core1 may spend from one tick to the next

ASSUME PollsAssumption == Polls \subseteq Nat \ {0}

VARIABLES
  s_connected,
  bt,               \* what the btstack thread does next
  core1,            \* what input_process_task does next
  running,          \* exhibit_running = s_active: they are set together
  s_phase,
  left,             \* s_phase_until_ms - now_ms, 0 once it has passed
  s_turret_cmd, s_turret_sign,
  gun,              \* ms to s_gun_due_ms, -1 unless s_gun_pending
  turret, light, radar, mist,     \* what the exhibit has switched on
  interrupted       \* history: connected since the last rccar_exhibit_begin

control == <<core1, s_connected, bt, interrupted>>
outputs == <<turret, light, radar, mist>>
show == <<running, s_phase, left, s_turret_cmd, s_turret_sign, gun>>
vars == <<control, show, outputs>>

Turrets == {"TURRET_A", "TURRET_REV", "TURRET_B"}
Lights == {"HEADLIGHT", "HEADLIGHT_2"}

\* The switch of rccar_exhibit_tick: which phase follows which.
NextPhase ==
  [START |-> "TURRET_A",
   TURRET_A |-> "LASER_ARM", LASER_ARM |-> "LASER_GAP", LASER_GAP |-> "LASER_HOLD",
   LASER_HOLD |-> "HEADLIGHT_DELAY", HEADLIGHT_DELAY |-> "HEADLIGHT",
   HEADLIGHT |-> "AFTER_HEADLIGHT", AFTER_HEADLIGHT |-> "TURRET_REV",
   TURRET_REV |-> "HEADLIGHT_DELAY_2", HEADLIGHT_DELAY_2 |-> "HEADLIGHT_2",
   HEADLIGHT_2 |-> "AFTER_HEADLIGHT_2", AFTER_HEADLIGHT_2 |-> "TURRET_B",
   TURRET_B |-> "GATLING_ARM", GATLING_ARM |-> "GATLING_GAP",
   GATLING_GAP |-> "AFTER_GATLING", AFTER_GATLING |-> "MIST", MIST |-> "AFTER_MIST",
   AFTER_MIST |-> "SFX", SFX |-> "AFTER_SFX", AFTER_SFX |-> "TURRET_A"]

Phase == DOMAIN NextPhase

SoundMs == 200
GunMs == 1907                           \* rccar_dfplayer_resume_idle_ms
LongestMs == 37512
SfxMs == {18155, 7080, LongestMs, 33960}    \* tracks 0006 to 0009

\* The durations enter_phase may be given.
Duration(p) ==
  CASE p \in Turrets -> {2000}
    [] p \in {"LASER_ARM", "GATLING_ARM", "GATLING_GAP"} -> {1000}
    [] p = "LASER_GAP" -> {SoundMs + GunMs}
    [] p \in {"LASER_HOLD", "AFTER_GATLING", "AFTER_MIST"} -> {3000}
    [] p \in {"HEADLIGHT_DELAY", "HEADLIGHT_DELAY_2"} -> {1000}
    [] p \in Lights -> {3000}
    [] p \in {"AFTER_HEADLIGHT", "AFTER_HEADLIGHT_2"} -> {1000}
    [] p \in {"MIST", "AFTER_SFX"} -> {2000}
    [] p = "SFX" -> SfxMs

TypeOK ==
  /\ s_connected \in BOOLEAN /\ interrupted \in BOOLEAN
  /\ bt \in {"idle", "stop", "fs_turret", "fs_radar", "fs_mist"}
  /\ core1 \in {"wait", "gate", "first", "gun", "gun_play", "phase", "perform",
                "after", "abort"}
  /\ running \in BOOLEAN /\ s_phase \in Phase /\ left \in 0..LongestMs
  /\ s_turret_cmd \in {-1, 0, 1} /\ s_turret_sign \in {-1, 1}
  /\ gun \in -1..SoundMs
  /\ turret \in {-1, 0, 1}
  /\ light \in BOOLEAN /\ radar \in BOOLEAN /\ mist \in BOOLEAN

Init ==
  /\ s_connected = FALSE /\ bt = "idle" /\ core1 = "wait" /\ interrupted = FALSE
  /\ running = FALSE /\ s_phase = "START" /\ left = 0
  /\ s_turret_cmd = 0 /\ s_turret_sign = 1 /\ gun = -1
  /\ turret = 0 /\ light = FALSE /\ radar = FALSE /\ mist = FALSE

-----------------------------------------------------------------------------
(* The btstack thread: on_device_ready of the first device, and the handler  *)
(* of a disconnect that leaves no device.  The latter also runs, without a    *)
(* connection, when a controller goes away before it was ready.              *)

OnDeviceReady ==
  /\ bt = "idle" /\ bt' = "stop"
  /\ s_connected' = TRUE /\ interrupted' = TRUE
  /\ UNCHANGED <<core1, show, outputs>>

OnDeviceDisconnected ==
  /\ bt = "idle" /\ bt' = "fs_turret"
  /\ s_connected' = FALSE
  /\ UNCHANGED <<core1, interrupted, show, outputs>>

\* rccar_motor_all_stop, and failsafe_stop output by output.
BtStops ==
  /\ \/ bt = "stop" /\ bt' = "idle" /\ turret' = 0 /\ UNCHANGED <<radar, mist>>
     \/ bt = "fs_turret" /\ bt' = "fs_radar" /\ turret' = 0 /\ UNCHANGED <<radar, mist>>
     \/ bt = "fs_radar" /\ bt' = "fs_mist" /\ radar' = FALSE /\ UNCHANGED <<turret, mist>>
     \/ bt = "fs_mist" /\ bt' = "idle" /\ mist' = FALSE /\ UNCHANGED <<turret, radar>>
  /\ UNCHANGED <<light, core1, s_connected, interrupted, show>>

-----------------------------------------------------------------------------
(* core1. *)

Core1Goes(from, to) ==
  /\ core1 = from /\ core1' = to
  /\ UNCHANGED <<s_connected, bt>>

\* Mutant: times run below zero.
LessUnchecked(t, dt) == t - dt

Less(t, dt) == IF t > dt THEN t - dt ELSE 0

\* The wait for a sample: dt milliseconds pass.
Poll(dt) ==
  /\ Core1Goes("wait", "gate")
  /\ left' = Less(left, dt)
  /\ gun' = IF gun < 0 THEN gun ELSE Less(gun, dt)
  /\ UNCHANGED <<running, s_phase, s_turret_cmd, s_turret_sign, outputs, interrupted>>

\* rccar_exhibit_begin, when the task finds no connection and no exhibit.
Begin ==
  /\ ~s_connected /\ ~running /\ Core1Goes("gate", "first")
  /\ running' = TRUE /\ s_phase' = "START" /\ left' = 0
  /\ s_turret_cmd' = 0 /\ s_turret_sign' = 1 /\ gun' = -1
  /\ light' = FALSE /\ interrupted' = FALSE
  /\ UNCHANGED <<turret, radar, mist>>

\* Mutant: the headlight is left as it is.
AbortLit ==
  /\ Core1Goes("abort", "wait")
  /\ running' = FALSE
  /\ IF running
       THEN /\ s_phase' = "START" /\ s_turret_cmd' = 0 /\ gun' = -1
            /\ turret' = 0 /\ radar' = FALSE /\ mist' = FALSE
       ELSE UNCHANGED <<s_phase, s_turret_cmd, gun, turret, radar, mist>>
  /\ UNCHANGED <<left, s_turret_sign, light, interrupted>>

\* rccar_exhibit_abort switches off whatever the exhibit had on.
Abort ==
  /\ Core1Goes("abort", "wait")
  /\ running' = FALSE
  /\ IF running
       THEN /\ s_phase' = "START" /\ s_turret_cmd' = 0 /\ gun' = -1
            /\ turret' = 0 /\ light' = FALSE /\ radar' = FALSE /\ mist' = FALSE
       ELSE UNCHANGED <<s_phase, s_turret_cmd, gun, outputs>>
  /\ UNCHANGED <<left, s_turret_sign, interrupted>>

\* Mutants: a turret phase never ends; the second shot is not watched for.
TurningForever == s_phase \in Turrets
GunDueOnce == s_phase = "LASER_GAP" /\ gun = 0

Turning == s_phase \in Turrets /\ left > 0
Due == s_phase = "START" \/ left = 0
GunDue == s_phase \in {"LASER_GAP", "LASER_HOLD"} /\ gun = 0

\* A look at s_connected: where core1 goes if nothing, and if something, is
\* connected.
Asks(from, free, blocked) == Core1Goes(from, IF s_connected THEN blocked ELSE free)

Ask ==
  /\ \/ running /\ Asks("gate", "first", "abort")
     \/ ~running /\ s_connected /\ Core1Goes("gate", "wait")
     \/ Asks("first", "gun", "after")
     \/ GunDue /\ Asks("gun", "gun_play", "after")
     \/ ~GunDue /\ Core1Goes("gun", "phase")
     \/ (Turning \/ Due) /\ Asks("phase", "perform", "after")
     \/ ~(Turning \/ Due) /\ Core1Goes("phase", "after")
     \/ Asks("after", "wait", "abort")
  /\ UNCHANGED <<show, outputs, interrupted>>

\* The sound of a shot, SoundMs after its light.
PlayGun ==
  /\ Core1Goes("gun_play", "phase")
  /\ gun' = -1
  /\ UNCHANGED <<running, s_phase, left, s_turret_cmd, s_turret_sign, outputs,
                 interrupted>>

\* While a turret phase lasts its command is given again at every tick.
KeepTurning ==
  /\ Turning /\ Core1Goes("perform", "after")
  /\ turret' = s_turret_cmd
  /\ UNCHANGED <<show, light, radar, mist, interrupted>>

\* Mutant: the direction stays.
StartTurretSameWay ==
  /\ s_turret_cmd' = s_turret_sign /\ turret' = s_turret_sign
  /\ UNCHANGED s_turret_sign

\* start_turret: the other way than the last time.
StartTurret ==
  /\ s_turret_cmd' = s_turret_sign /\ turret' = s_turret_sign
  /\ s_turret_sign' = -s_turret_sign

StopTurret == s_turret_cmd' = 0 /\ turret' = 0 /\ UNCHANGED s_turret_sign

\* arm_laser_shot, for the first shot and for the second.
ArmGun == gun' = SoundMs

\* start_headlight; the phase that follows switches it off.
SwitchHeadlight ==
  light' = (s_phase' \in Lights \/ (s_phase \notin Lights /\ light))

\* The phase is over: switch its output off, the next one's on.
Advance ==
  /\ ~Turning /\ Core1Goes("perform", "after")
  /\ s_phase' = NextPhase[s_phase]
  /\ left' \in Duration(s_phase')
  /\ IF s_phase' \in Turrets THEN StartTurret
     ELSE IF s_phase \in Turrets THEN StopTurret
     ELSE UNCHANGED <<s_turret_cmd, s_turret_sign, turret>>
  /\ IF s_phase' \in {"LASER_GAP", "LASER_HOLD"} THEN ArmGun ELSE UNCHANGED gun
  /\ SwitchHeadlight
  /\ mist' = (s_phase' = "MIST" \/ (s_phase # "MIST" /\ mist))
  /\ radar' = (s_phase' = "SFX" \/ (s_phase # "SFX" /\ radar))
  /\ UNCHANGED <<running, interrupted>>

Core1 == \/ \E dt \in Polls : Poll(dt)
         \/ Begin \/ Ask \/ PlayGun \/ KeepTurning \/ Advance \/ Abort

Next == OnDeviceReady \/ OnDeviceDisconnected \/ BtStops \/ Core1

Spec == Init /\ [][Next]_vars

\* core1 polls for ever, and a btstack handler that has begun ends.
FairSpec == Spec /\ WF_vars(Core1) /\ WF_vars(BtStops)

-----------------------------------------------------------------------------
\* Every output the exhibit has on belongs to the phase it is in, and none is on
\* when it is over, however connections come and go between its questions.
NothingLeftOn ==
  /\ turret # 0 => running /\ s_phase \in Turrets /\ turret = s_turret_cmd
  /\ light => running /\ s_phase \in Lights
  /\ radar => running /\ s_phase = "SFX"
  /\ mist => running /\ s_phase = "MIST"

\* The sound of a laser shot is still owed only in the two phases that watch for
\* it: no shot of the show stays silent, and none sounds in a later act
\* (rccar_exhibit.c:205).
ShotsAreHeard == gun >= 0 => running /\ s_phase \in {"LASER_GAP", "LASER_HOLD"}

\* The act of the show each phase belongs to.
ActOf ==
  [p \in Phase |->
     CASE p = "START" -> 0
       [] p = "TURRET_A" -> 1
       [] p \in {"LASER_ARM", "LASER_GAP", "LASER_HOLD"} -> 2
       [] p \in {"HEADLIGHT_DELAY", "HEADLIGHT", "AFTER_HEADLIGHT"} -> 3
       [] p = "TURRET_REV" -> 4
       [] p \in {"HEADLIGHT_DELAY_2", "HEADLIGHT_2", "AFTER_HEADLIGHT_2"} -> 5
       [] p = "TURRET_B" -> 6
       [] p \in {"GATLING_ARM", "GATLING_GAP", "AFTER_GATLING"} -> 7
       [] p \in {"MIST", "AFTER_MIST"} -> 8
       [] p \in {"SFX", "AFTER_SFX"} -> 9]

TheShow == INSTANCE Show WITH act <- IF running THEN ActOf[s_phase] ELSE 0,
                              turn <- -s_turret_sign

\* The exhibit plays the acts of Show in order, with an alternating turret
\* (rccar_exhibit.c:5-14).
PlaysTheShow == TheShow!Spec

\* Left alone, the show comes round to its last act again and again.
ShowGoesOn == <>[](~s_connected /\ bt = "idle") => []<>(s_phase = "SFX")

-----------------------------------------------------------------------------
(* What documents say and the code does not keep. *)

\* "mist 2 s ... radar while 0006-0009 plays" (README.md:23): between two ticks
\* of a display that nothing interrupts the output of the phase is on.
ShowUndisturbed ==
  running /\ ~s_connected /\ ~interrupted /\ bt = "idle" /\ core1 = "wait" =>
    /\ s_phase = "MIST" => mist
    /\ s_phase = "SFX" => radar
=============================================================================
