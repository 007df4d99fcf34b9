------------------------------ MODULE Control ------------------------------
(***************************************************************************)
(* Who turns the wheels and the turret.  Three threads of the firmware run  *)
(* in parallel over shared variables that no lock protects:                 *)
(*                                                                          *)
(*   bt     the btstack run loop on core 0, which calls the platform        *)
(*          callbacks on_device_connected / ready / disconnected and        *)
(*          on_controller_data (main/my_platform.c:1005-1198);              *)
(*   core1  input_process_task (592-817), which takes samples from a queue  *)
(*          of one slot, drives, runs the exhibit while nothing is          *)
(*          connected, and starts the wheel test;                           *)
(*   wt     wheel_test_task (components/rccar/rccar_motor.c:425-457).       *)
(*                                                                          *)
(* A step of the model is one access to shared state, or a group of         *)
(* accesses between which no other thread can tell the difference.          *)
(* Samples carry only their kind: whether a sample pushes a stick, is fresh  *)
(* enough or completes a hold is chosen.                                    *)
(***************************************************************************)
EXTENDS Registry

CONSTANT TestSteps      \* wheel runs of a wheel test: 2 passes over 4 wheels

ASSUME ControlAssumption == TestSteps \in Nat \ {0}

VARIABLES
  bt,               \* what the btstack thread does next
  was,              \* was_bb and was_gp of the disconnect being handled
  queue,            \* input_queue: NULL or the kind of the one queued sample
  core1,            \* what input_process_task does next
  evt,              \* its sample, NULL if xQueueReceive timed out
  seen,             \* last_input_ms # 0
  failsafe_active,
  exhibit_running,
  cmd,              \* a motor command decided and not yet applied, else "stop"
  wheels,           \* who set the wheels last: "stop", "drive" or "test"
  turret,           \* "stop", "pad" or "exhibit"
  moving,           \* s_vehicle_moving of rccar_radar.c
  wt,               \* what wheel_test_task does next, "none" when it is gone
  wt_step,          \* runs it has made
  wt_active,        \* s_wheel_test_active
  wt_cancel         \* s_wheel_test_cancel

btVars == <<bt, was>>
inputVars == <<core1, evt, seen, failsafe_active, exhibit_running, cmd>>
motorVars == <<wheels, turret, moving>>
testVars == <<wt, wt_step, wt_active, wt_cancel>>
vars == <<link, registry, s_connected, btVars, queue, inputVars, motorVars,
          testVars>>

Sample == {"pad", "board"}

BtPC == {"idle", "keep", "drop", "fs_moving", "fs_cancel", "fs_wheels",
         "fs_turret", "fs_queue", "first", "more", "first_wheels",
         "first_turret", "first_queue"}

Core1PC == {"receive", "gate", "tick", "tick_wheels", "tick_ask",
            "tick_turret", "regate", "serve", "judge", "fs_moving",
            "fs_cancel", "fs_wheels", "fs_turret", "recheck", "hold",
            "create", "choose", "apply", "moved", "turret_ask", "turret_set"}

WtPC == {"none", "born", "check", "spin", "run", "gap", "finish", "ending",
         "delete"}

TypeOK ==
  /\ RegistryTypeOK
  /\ bt \in BtPC /\ was \in SUBSET Sample
  /\ queue \in Sample \cup {NULL}
  /\ core1 \in Core1PC /\ evt \in Sample \cup {NULL}
  /\ seen \in BOOLEAN /\ failsafe_active \in BOOLEAN
  /\ exhibit_running \in BOOLEAN
  /\ cmd \in {"stop", "drive", "pad", "exhibit"}
  /\ wheels \in {"stop", "drive", "test"}
  /\ turret \in {"stop", "pad", "exhibit"}
  /\ moving \in BOOLEAN
  /\ wt \in WtPC /\ wt_step \in 0..TestSteps
  /\ wt_active \in BOOLEAN /\ wt_cancel \in BOOLEAN

Init ==
  /\ RegistryInit
  /\ bt = "idle" /\ was = {}
  /\ queue = NULL
  /\ core1 = "receive" /\ evt = NULL /\ seen = FALSE
  /\ failsafe_active = TRUE /\ exhibit_running = FALSE /\ cmd = "stop"
  /\ wheels = "stop" /\ turret = "stop" /\ moving = FALSE
  /\ wt = "none" /\ wt_step = 0 /\ wt_active = FALSE /\ wt_cancel = FALSE

-----------------------------------------------------------------------------
(* The btstack thread. *)

BtGoes(from, to) == bt = from /\ bt' = to

OnDeviceConnected(d) ==
  /\ bt = "idle" /\ LinkUp(d) /\ ClearReady(d)
  /\ UNCHANGED <<s_ready_count, s_bb_device, s_gp_device, s_connected, btVars,
                 queue, inputVars, motorVars, testVars>>

\* on_device_ready of a virtual device is refused and changes nothing.
OnDeviceReady(d) ==
  /\ d \in Real /\ link[d] = "up" /\ ~ready[d]
  /\ BtGoes("idle", IF s_ready_count = 0 THEN "first" ELSE "more")
  /\ Accept(d)
  /\ UNCHANGED <<link, s_connected, was, queue, inputVars, motorVars, testVars>>

ReadyConnects ==
  /\ \/ BtGoes("first", "first_wheels")
     \/ BtGoes("more", "idle")
  /\ s_connected' = TRUE
  /\ UNCHANGED <<link, registry, was, queue, inputVars, motorVars, testVars>>

\* A virtual child going away is ignored; for any other device the books are
\* updated before the handler asks whether a device is left.
OnDeviceDisconnected(d) ==
  /\ LinkDown(d)
  /\ \/ /\ d \in Virtual /\ bt = "idle"
        /\ UNCHANGED <<registry, btVars>>
     \/ /\ d \notin Virtual
        /\ Forget(d)
        /\ was' = {k \in Sample : d = IF k = "board" THEN s_bb_device
                                                     ELSE s_gp_device}
        /\ BtGoes("idle", IF s_ready_count' > 0 THEN "keep" ELSE "drop")
  /\ UNCHANGED <<s_connected, queue, inputVars, motorVars, testVars>>

\* A device is left: stop only what the lost one was driving.
KeepOthers ==
  /\ BtGoes("keep", "idle")
  /\ s_connected' = TRUE
  /\ wheels' = IF "board" \in was THEN "stop" ELSE wheels
  /\ turret' = IF "pad" \in was THEN "stop" ELSE turret
  /\ was' = {}
  /\ UNCHANGED <<link, registry, queue, inputVars, moving, testVars>>

DropConnection ==
  /\ BtGoes("drop", "fs_moving")
  /\ s_connected' = FALSE /\ was' = {}
  /\ UNCHANGED <<link, registry, queue, inputVars, motorVars, testVars>>

(* failsafe_stop: the vehicle is said to stand, the wheel test is told to    *)
(* stop, then wheels and turret are zeroed.  (rccar_motor_wheel_test_stop    *)
(* zeroes the motors once more just before; the later write is the one that  *)
(* counts.)  Both the btstack thread and core1 call it.                      *)
StandStill == moving' = FALSE /\ UNCHANGED <<wheels, turret, testVars>>
CancelTest == wt_cancel' = TRUE /\ UNCHANGED <<motorVars, wt, wt_step, wt_active>>
ZeroWheels == wheels' = "stop" /\ UNCHANGED <<turret, moving, testVars>>
ZeroTurret == turret' = "stop" /\ UNCHANGED <<wheels, moving, testVars>>

BtStops ==
  /\ \/ BtGoes("fs_moving", "fs_cancel") /\ StandStill
     \/ BtGoes("fs_cancel", "fs_wheels") /\ CancelTest
     \/ BtGoes("fs_wheels", "fs_turret") /\ ZeroWheels
     \/ BtGoes("fs_turret", "fs_queue") /\ ZeroTurret
     \/ BtGoes("first_wheels", "first_turret") /\ ZeroWheels
     \/ BtGoes("first_turret", "first_queue") /\ ZeroTurret
  /\ UNCHANGED <<link, registry, s_connected, was, queue, inputVars>>

\* Mutant: the handlers return without the xQueueReset.
LeaveQueue ==
  /\ BtGoes("fs_queue", "idle") \/ BtGoes("first_queue", "idle")
  /\ UNCHANGED <<link, registry, s_connected, was, queue, inputVars, motorVars,
                 testVars>>

\* xQueueReset at the end of a disconnect and of the first ready.
ResetQueue ==
  /\ \/ BtGoes("fs_queue", "idle")
     \/ BtGoes("first_queue", "idle")
  /\ queue' = NULL
  /\ UNCHANGED <<link, registry, s_connected, was, inputVars, motorVars,
                 testVars>>

\* on_controller_data: a report of a linked device overwrites the queue slot.
OnControllerData(d) ==
  /\ bt = "idle" /\ link[d] = "up" /\ d \in Real
  /\ s_connected
  /\ queue' = IF d \in Board THEN "board" ELSE "pad"
  /\ UNCHANGED <<link, registry, s_connected, btVars, inputVars, motorVars,
                 testVars>>

BtContinues == ReadyConnects \/ KeepOthers \/ DropConnection \/ BtStops \/ ResetQueue

BtCallback ==
  \E d \in Device : \/ OnDeviceConnected(d) \/ OnDeviceReady(d)
                    \/ OnDeviceDisconnected(d) \/ OnControllerData(d)

-----------------------------------------------------------------------------
(* input_process_task on core 1. *)

Core1Goes(from, to) == core1 = from /\ core1' = to

\* xQueueReceive takes the queued sample or times out after INPUT_POLL_MS.
Receive ==
  /\ Core1Goes("receive", "gate")
  /\ evt' = queue /\ queue' = NULL /\ cmd' = "stop"
  /\ UNCHANGED <<link, registry, s_connected, btVars, seen, failsafe_active,
                 exhibit_running, motorVars, testVars>>

\* First look at s_connected: without a connection the exhibit takes over.
GateOpen ==
  /\ s_connected
  /\ Core1Goes("gate", "serve")
  /\ UNCHANGED <<evt, seen, failsafe_active, exhibit_running, cmd>>

GateShut ==
  /\ ~s_connected
  /\ Core1Goes("gate", "tick")
  /\ seen' = FALSE /\ failsafe_active' = TRUE /\ exhibit_running' = TRUE
  /\ UNCHANGED <<evt, cmd>>

\* Looks at s_connected that only choose where to go next: the two questions
\* of rccar_exhibit_tick and the one after it.
Ask ==
  /\ \/ Core1Goes("tick", IF s_connected THEN "regate" ELSE "tick_wheels")
     \/ Core1Goes("tick_ask", IF s_connected THEN "regate" ELSE "tick_turret")
     \/ Core1Goes("regate", IF s_connected THEN "serve" ELSE "receive")
  /\ UNCHANGED <<evt, seen, failsafe_active, exhibit_running, cmd>>

Gate ==
  /\ GateOpen \/ GateShut \/ Ask
  /\ UNCHANGED <<link, registry, s_connected, btVars, queue, motorVars, testVars>>

\* Mutant: the exhibit does not hold the wheels.
TickTurretOnly ==
  /\ \/ Core1Goes("tick_wheels", "tick_ask") /\ UNCHANGED turret
     \/ Core1Goes("tick_turret", "regate") /\ turret' \in {turret, "stop", "exhibit"}
  /\ UNCHANGED <<link, registry, s_connected, btVars, queue, evt, seen,
                 failsafe_active, exhibit_running, cmd, wheels, moving, testVars>>

\* rccar_exhibit_tick: the wheels stand, the turret is what the phase wants.
Tick ==
  /\ \/ Core1Goes("tick_wheels", "tick_ask") /\ ZeroWheels
     \/ /\ Core1Goes("tick_turret", "regate")
        /\ turret' \in {turret, "stop", "exhibit"}
        /\ UNCHANGED <<wheels, moving, testVars>>
  /\ UNCHANGED <<link, registry, s_connected, btVars, queue, evt, seen,
                 failsafe_active, exhibit_running, cmd>>

\* Mutant: the abort does not stop the turret.
ServeTurretTurning ==
  /\ Core1Goes("serve", "judge")
  /\ exhibit_running' = FALSE
  /\ wheels' = IF exhibit_running THEN "stop" ELSE wheels
  /\ UNCHANGED <<link, registry, s_connected, btVars, queue, evt, seen,
                 failsafe_active, cmd, turret, moving, testVars>>

\* rccar_exhibit_abort ends a running exhibit before a sample is looked at.
Serve ==
  /\ Core1Goes("serve", "judge")
  /\ exhibit_running' = FALSE
  /\ IF exhibit_running THEN wheels' = "stop" /\ turret' = "stop"
                        ELSE UNCHANGED <<wheels, turret>>
  /\ UNCHANGED <<link, registry, s_connected, btVars, queue, evt, seen,
                 failsafe_active, cmd, moving, testVars>>

\* The failsafe of core1 runs once per silence.
GiveUp ==
  /\ core1' = IF failsafe_active THEN "receive" ELSE "fs_moving"
  /\ failsafe_active' = TRUE

\* Is there a report, and is the last one at most FAILSAFE_MS old?
Judge ==
  /\ core1 = "judge"
  /\ seen' = (seen \/ evt # NULL)
  /\ \/ GiveUp
     \/ /\ seen'
        /\ core1' = IF evt # NULL THEN "recheck" ELSE "receive"
        /\ UNCHANGED failsafe_active
  /\ UNCHANGED <<link, registry, s_connected, btVars, queue, evt,
                 exhibit_running, cmd, motorVars, testVars>>

\* "Re-check after receive: disconnect may race with queue read."
Recheck ==
  /\ core1 = "recheck"
  /\ \/ /\ s_connected
        /\ core1' = "hold" /\ failsafe_active' = FALSE
        /\ UNCHANGED seen
     \/ /\ ~s_connected
        /\ seen' = FALSE
        /\ GiveUp
  /\ UNCHANGED <<link, registry, s_connected, btVars, queue, evt,
                 exhibit_running, cmd, motorVars, testVars>>

Core1Stops ==
  /\ \/ Core1Goes("fs_moving", "fs_cancel") /\ StandStill
     \/ Core1Goes("fs_cancel", "fs_wheels") /\ CancelTest
     \/ Core1Goes("fs_wheels", "fs_turret") /\ ZeroWheels
     \/ Core1Goes("fs_turret", "receive") /\ ZeroTurret
  /\ UNCHANGED <<link, registry, s_connected, btVars, queue, evt, seen,
                 failsafe_active, exhibit_running, cmd>>

PadSpeaks == evt = "pad" \/ s_gp_ready

\* L1+R1 held for WHEEL_TEST_HOLD_MS: rccar_motor_wheel_test_start.
Hold ==
  /\ \/ Core1Goes("hold", "choose") /\ UNCHANGED wt_cancel
     \/ /\ PadSpeaks /\ ~wt_active
        /\ wt = "none"
        /\ Core1Goes("hold", "create")
        /\ wt_cancel' = FALSE
  /\ UNCHANGED <<link, registry, s_connected, btVars, queue, evt, seen,
                 failsafe_active, exhibit_running, cmd, motorVars, wt, wt_step,
                 wt_active>>

\* xTaskCreatePinnedToCore may fail.
CreateTest ==
  /\ Core1Goes("create", "choose")
  /\ \/ wt' = "born" /\ wt_step' = 0
     \/ UNCHANGED <<wt, wt_step>>
  /\ UNCHANGED <<link, registry, s_connected, btVars, queue, evt, seen,
                 failsafe_active, exhibit_running, cmd, motorVars, wt_active,
                 wt_cancel>>

\* While the test runs the sticks are ignored; otherwise a ready board decides
\* with the pad behind it, then the pad's own sample, and a sample of a board
\* that is gone stops the wheels.
Choose ==
  /\ core1 = "choose"
  /\ \/ /\ wt_active
        /\ moving' = TRUE
        /\ core1' = "turret_ask" /\ UNCHANGED cmd
     \/ /\ ~wt_active
        /\ cmd' \in (IF s_bb_ready \/ evt = "pad" THEN {"stop", "drive"} ELSE {"stop"})
        /\ core1' = "apply" /\ UNCHANGED moving
  /\ UNCHANGED <<link, registry, s_connected, btVars, queue, evt, seen,
                 failsafe_active, exhibit_running, wheels, turret, testVars>>

\* rccar_motor_wheel_set, then maybe_idle_exhaust tells the radar.
Apply ==
  /\ \/ /\ Core1Goes("apply", "moved")
        /\ wheels' = cmd /\ UNCHANGED moving
     \/ /\ Core1Goes("moved", "turret_ask")
        /\ moving' = (cmd = "drive") /\ UNCHANGED wheels
  /\ UNCHANGED <<link, registry, s_connected, btVars, queue, evt, seen,
                 failsafe_active, exhibit_running, cmd, turret, testVars>>

ChooseTurret ==
  /\ core1 = "turret_ask"
  /\ \/ wt_active /\ core1' = "receive" /\ UNCHANGED cmd
     \/ /\ ~wt_active
        /\ core1' = "turret_set"
        /\ cmd' \in (IF PadSpeaks THEN {"stop", "pad"} ELSE {"stop"})
  /\ UNCHANGED <<link, registry, s_connected, btVars, queue, evt, seen,
                 failsafe_active, exhibit_running, motorVars, testVars>>

ApplyTurret ==
  /\ Core1Goes("turret_set", "receive")
  /\ turret' = cmd
  /\ UNCHANGED <<link, registry, s_connected, btVars, queue, evt, seen,
                 failsafe_active, exhibit_running, cmd, wheels, moving, testVars>>

Core1 == \/ Receive \/ Gate \/ Tick \/ Serve \/ Judge \/ Recheck \/ Core1Stops
         \/ Hold \/ CreateTest \/ Choose \/ Apply \/ ChooseTurret \/ ApplyTurret

-----------------------------------------------------------------------------
(* wheel_test_task. *)

WtGoes(from, to) == wt = from /\ wt' = to

WtStart ==
  /\ WtGoes("born", "check")
  /\ wt_active' = TRUE
  /\ UNCHANGED <<wheels, wt_step>>

\* Mutant: only a cancel ends the loop.
WtCheckForever ==
  /\ WtGoes("check", IF wt_cancel THEN "finish" ELSE "spin")
  /\ UNCHANGED <<wheels, wt_step, wt_active>>

\* The loop conditions: both passes over the four wheels, unless cancelled.
WtCheck ==
  /\ WtGoes("check", IF wt_cancel \/ wt_step = TestSteps THEN "finish" ELSE "spin")
  /\ UNCHANGED <<wheels, wt_step, wt_active>>

WtSpin ==
  /\ WtGoes("spin", "run")
  /\ wheels' = "test" /\ wt_step' = wt_step + 1
  /\ UNCHANGED wt_active

\* wheel_test_wait_or_cancel, then the wheel stops for the gap.
WtRun ==
  /\ \/ wt_cancel /\ WtGoes("run", "finish") /\ UNCHANGED wheels
     \/ ~wt_cancel /\ WtGoes("run", "gap") /\ wheels' = "stop"
  /\ UNCHANGED <<wt_step, wt_active>>

WtGap ==
  /\ WtGoes("gap", IF wt_cancel THEN "finish" ELSE "check")
  /\ UNCHANGED <<wheels, wt_step, wt_active>>

\* Mutant: the task ends without rccar_motor_all_stop.
WtFinishSpinning ==
  /\ \/ WtGoes("finish", "ending") /\ UNCHANGED wt_active
     \/ WtGoes("ending", "delete") /\ wt_active' = FALSE
     \/ WtGoes("delete", "none") /\ UNCHANGED wt_active
  /\ wt_step' = IF wt = "delete" THEN 0 ELSE wt_step
  /\ UNCHANGED wheels

WtFinish ==
  /\ \/ WtGoes("finish", "ending") /\ wheels' = "stop" /\ UNCHANGED wt_active
     \/ WtGoes("ending", "delete") /\ wt_active' = FALSE /\ UNCHANGED wheels
     \/ WtGoes("delete", "none") /\ UNCHANGED <<wheels, wt_active>>
  /\ wt_step' = IF wt = "delete" THEN 0 ELSE wt_step

WheelTest ==
  /\ WtStart \/ WtCheck \/ WtSpin \/ WtRun \/ WtGap \/ WtFinish
  /\ UNCHANGED <<link, registry, s_connected, btVars, queue, inputVars, turret,
                 moving, wt_cancel>>

-----------------------------------------------------------------------------
Next == BtCallback \/ BtContinues \/ Core1 \/ WheelTest

Spec == Init /\ [][Next]_vars

\* A btstack handler that has begun runs to its end, and FreeRTOS keeps both
\* tasks of core 1 running.  Nothing makes a controller call.
FairSpec == Spec /\ WF_vars(BtContinues) /\ WF_vars(Core1) /\ WF_vars(WheelTest)

-----------------------------------------------------------------------------
(* Safety. *)

\* The disconnect handler decides by s_ready_count whether the car is free
\* (my_platform.c:1056): outside the two windows in which a handler has updated
\* the books and not yet the flag, s_connected says whether a device is ready,
\* and the books themselves are exact.
ConnectionMatchesBooks ==
  /\ RegistryConsistent
  /\ bt \notin {"drop", "first"} => (s_connected <=> s_ready_count > 0)

\* While the exhibit runs the sticks have no say: a sample that was being
\* applied when the connection fell is undone by the next exhibit tick, or by
\* motor_all_stop of the next on_device_ready, before core1 waits again
\* ("wheels always stand", rccar_exhibit.c:3).
ExhibitNeverDrives ==
  exhibit_running /\ wheels = "drive" =>
    \/ core1 \in {"tick", "tick_wheels"}
    \/ core1 \in {"regate", "serve"} /\ bt = "first_wheels"

\* rccar_exhibit_abort gives the turret back: outside the exhibit no exhibit
\* command is left on the turret motor, however the connection flickered.
TurretGivenBack == turret = "exhibit" => exhibit_running

\* No sample outlives its connection in the queue: once the handler of the
\* last disconnect is done the slot is empty (my_platform.c:1077).
NoSampleWaits == ~s_connected /\ bt \in {"idle", "first"} => queue = NULL

\* The wheels are never left spinning by a test that is gone
\* (rccar_motor.c:452-455).
TestCleansUp == wheels = "test" => wt \in {"run", "finish"}

\* A cancel that a live wheel test has not seen yet is never withdrawn: only
\* the start of the next test clears the flag (rccar_motor.c:476).
CancelSticks ==
  [][wt # "none" /\ wt_cancel => wt_cancel' \/ wt' = "none"]_vars

-----------------------------------------------------------------------------
(* Liveness. *)

\* If the car stays unconnected, wheels stop for good.
WheelsStopWhenAlone == <>[]~s_connected => <>[](wheels = "stop")

-----------------------------------------------------------------------------
(* What comments and documents say and the code does not keep. *)

\* The failsafe stops the wheel test: when the last disconnect is handled,
\* every live test is cancelled.
FailsafeStopsTest ==
  ~s_connected /\ bt = "idle" /\ wt \in {"born", "check", "spin", "run", "gap"}
    => wt_cancel
=============================================================================
