--------------------------- MODULE ControlProofs ---------------------------
(* Proofs about Control for every set of devices and every MaxDevices.      *)
EXTENDS Control, RegistryProofs

USE DEF Real, Device, Sample

\* Where core1 is in a pass that has seen a connection.
Serving == {"judge", "fs_moving", "fs_cancel", "fs_wheels", "fs_turret",
            "recheck", "hold", "create", "choose", "apply", "moved",
            "turret_ask", "turret_set"}

\* What the handlers know about the flag at each of their steps.
FlagInv ==
  /\ bt \notin {"drop", "first"} => (s_connected <=> s_ready_count > 0)
  /\ bt = "drop" => s_ready_count = 0
  /\ bt \in {"first", "keep", "more"} => s_ready_count > 0
  /\ bt = "first" => ~s_connected

\* The wheels of the exhibit: a late sample is only in force before the first
\* tick, or while the connection that interrupts the tick has still to stop them.
DriveInv ==
  /\ bt = "first_wheels" => s_connected
  /\ core1 \in Serving => ~exhibit_running
  /\ exhibit_running /\ wheels = "drive" =>
       \/ core1 = "tick" /\ (~s_connected \/ bt = "first_wheels")
       \/ core1 = "tick_wheels"
       \/ core1 \in {"regate", "serve"} /\ bt = "first_wheels"

\* The command in core1's hands is never an exhibit command.
TurretInv ==
  /\ core1 \in {"tick", "tick_wheels", "tick_ask", "tick_turret"} => exhibit_running
  /\ core1 = "apply" => cmd \in {"stop", "drive"}
  /\ core1 = "turret_set" => cmd \in {"stop", "pad"}
  /\ turret = "exhibit" => exhibit_running

-----------------------------------------------------------------------------
(* Type correctness.  The two provers at hand share the work: the flags are  *)
(* Boolean-valued variables, everything else is arithmetic, sets and         *)
(* enumerations.                                                             *)

Flags ==
  /\ s_connected \in BOOLEAN
  /\ seen \in BOOLEAN /\ failsafe_active \in BOOLEAN /\ exhibit_running \in BOOLEAN
  /\ moving \in BOOLEAN /\ wt_active \in BOOLEAN /\ wt_cancel \in BOOLEAN

Values ==
  /\ link \in [Device -> {"down", "up"}]
  /\ ready \in [Device -> BOOLEAN]
  /\ s_ready_count \in Nat
  /\ s_bb_device \in Board \cup {NULL}
  /\ s_gp_device \in Pad \cup {NULL}
  /\ bt \in BtPC /\ was \in SUBSET Sample
  /\ queue \in Sample \cup {NULL}
  /\ core1 \in Core1PC /\ evt \in Sample \cup {NULL}
  /\ cmd \in {"stop", "drive", "pad", "exhibit"}
  /\ wheels \in {"stop", "drive", "test"}
  /\ turret \in {"stop", "pad", "exhibit"}
  /\ wt \in WtPC /\ wt_step \in 0..TestSteps
  /\ wt = "spin" => wt_step < TestSteps
  /\ core1 = "apply" => cmd \in {"stop", "drive"}
  /\ core1 = "turret_set" => cmd \in {"stop", "pad"}

LEMMA TypeParts == Flags /\ Values => TypeOK
  BY DEF TypeOK, RegistryTypeOK, Flags, Values

\* The flags stay Boolean.
LEMMA FlagsTyped == Flags /\ [Next]_vars => Flags'
<1> SUFFICES ASSUME Flags, [Next]_vars PROVE Flags'
  OBVIOUS
<1> USE DEF Flags, registry, btVars, inputVars, motorVars, testVars
<1>1. CASE BtCallback
  <2>1. ASSUME NEW d \in Device, OnDeviceConnected(d) PROVE Flags'
    BY <2>1, Zenon DEF OnDeviceConnected
  <2>2. ASSUME NEW d \in Device, OnDeviceReady(d) PROVE Flags'
    BY <2>2, Zenon DEF OnDeviceReady
  <2>3. ASSUME NEW d \in Device, OnDeviceDisconnected(d) PROVE Flags'
    BY <2>3, Zenon DEF OnDeviceDisconnected
  <2>4. ASSUME NEW d \in Device, OnControllerData(d) PROVE Flags'
    BY <2>4, Zenon DEF OnControllerData
  <2> QED BY <1>1, <2>1, <2>2, <2>3, <2>4 DEF BtCallback
<1>2. CASE BtContinues
  BY <1>2, Zenon DEF BtContinues, ReadyConnects, KeepOthers, DropConnection, BtStops,
     ResetQueue, StandStill, CancelTest, ZeroWheels, ZeroTurret
<1>3. CASE Receive \/ Gate \/ Tick \/ Serve
  BY <1>3, Zenon DEF Receive, Gate, GateOpen, GateShut, Ask, Tick, Serve, ZeroWheels
<1>4. CASE Judge \/ Recheck \/ Core1Stops
  BY <1>4, Zenon DEF Judge, Recheck, GiveUp, Core1Stops, StandStill, CancelTest, ZeroWheels,
     ZeroTurret
<1>5. CASE Hold \/ CreateTest \/ Choose \/ Apply \/ ChooseTurret \/ ApplyTurret
  BY <1>5, Zenon DEF Hold, CreateTest, Choose, Apply, ChooseTurret, ApplyTurret
<1>6. CASE WheelTest
  BY <1>6, Zenon DEF WheelTest, WtStart, WtCheck, WtSpin, WtRun, WtGap, WtFinish
<1>7. CASE UNCHANGED vars
  BY <1>7, Zenon DEF vars
<1> QED
  BY <1>1, <1>2, <1>3, <1>4, <1>5, <1>6, <1>7 DEF Next, Core1

\* Everything else keeps its type.
LEMMA ValuesTyped == Values /\ [Next]_vars => Values'
<1> SUFFICES ASSUME Values, [Next]_vars PROVE Values'
  OBVIOUS
<1> USE ControlAssumption DEF Values, BtPC, Core1PC, WtPC, registry, btVars, inputVars,
        motorVars, testVars, BtGoes, Core1Goes, WtGoes
<1>1. CASE BtCallback
  <2>1. ASSUME NEW d \in Device, OnDeviceConnected(d) PROVE Values'
    BY <2>1 DEF OnDeviceConnected, LinkUp, ClearReady
  <2>2. ASSUME NEW d \in Device, OnDeviceReady(d) PROVE Values'
    BY <2>2 DEF OnDeviceReady, Accept
  <2>3. ASSUME NEW d \in Device, OnDeviceDisconnected(d) PROVE Values'
    <3>1. /\ LinkDown(d)
          /\ UNCHANGED <<queue, core1, evt, cmd, wheels, turret, wt, wt_step>>
      BY <2>3, Zenon DEF OnDeviceDisconnected
    <3>2. CASE d \in Virtual
      <4>1. UNCHANGED <<registry, btVars>>
        BY <2>3, <3>2, Zenon DEF OnDeviceDisconnected
      <4> QED BY <3>1, <4>1 DEF LinkDown
    <3>3. CASE d \notin Virtual
      <4>1. was' \subseteq Sample
        BY <2>3, <3>3, Zenon DEF OnDeviceDisconnected
      <4>2. Forget(d)
        BY <2>3, <3>3, Zenon DEF OnDeviceDisconnected
      <4>3. bt' \in {"keep", "drop"}
        <5>1. bt' = IF s_ready_count' > 0 THEN "keep" ELSE "drop"
          BY <2>3, <3>3, Zenon DEF OnDeviceDisconnected
        <5> QED BY <5>1
      <4> QED
        BY <3>1, <4>1, <4>2, <4>3 DEF LinkDown, Forget
    <3> QED BY <3>2, <3>3
  <2>4. ASSUME NEW d \in Device, OnControllerData(d) PROVE Values'
    BY <2>4 DEF OnControllerData
  <2> QED BY <1>1, <2>1, <2>2, <2>3, <2>4 DEF BtCallback
<1>2. CASE BtContinues
  <2>1. CASE ReadyConnects
    BY <2>1 DEF ReadyConnects
  <2>2. CASE KeepOthers
    BY <2>2 DEF KeepOthers
  <2>3. CASE DropConnection
    BY <2>3 DEF DropConnection
  <2>4. CASE BtStops
    BY <2>4 DEF BtStops, StandStill, CancelTest, ZeroWheels, ZeroTurret
  <2>5. CASE ResetQueue
    BY <2>5 DEF ResetQueue
  <2> QED BY <1>2, <2>1, <2>2, <2>3, <2>4, <2>5 DEF BtContinues
<1>3. CASE Core1
  <2>1. CASE Receive
    BY <2>1 DEF Receive
  <2>2. CASE Gate
    BY <2>2 DEF Gate, GateOpen, GateShut, Ask
  <2>3. CASE Tick
    BY <2>3 DEF Tick, ZeroWheels
  <2>4. CASE Serve
    BY <2>4 DEF Serve
  <2>5. CASE Judge
    BY <2>5 DEF Judge, GiveUp
  <2>6. CASE Recheck
    BY <2>6 DEF Recheck, GiveUp
  <2>7. CASE Core1Stops
    BY <2>7 DEF Core1Stops, StandStill, CancelTest, ZeroWheels, ZeroTurret
  <2>8. CASE Hold
    BY <2>8 DEF Hold
  <2>9. CASE CreateTest
    BY <2>9 DEF CreateTest
  <2>10. CASE Choose
    BY <2>10 DEF Choose
  <2>11. CASE Apply
    BY <2>11 DEF Apply
  <2>12. CASE ChooseTurret
    BY <2>12 DEF ChooseTurret
  <2>13. CASE ApplyTurret
    BY <2>13 DEF ApplyTurret
  <2> QED BY <1>3, <2>1, <2>2, <2>3, <2>4, <2>5, <2>6, <2>7, <2>8, <2>9, <2>10, <2>11, <2>12, <2>13 DEF Core1
<1>4. CASE WheelTest
  BY <1>4 DEF WheelTest, WtStart, WtCheck, WtSpin, WtRun, WtGap, WtFinish
<1>5. CASE UNCHANGED vars
  BY <1>5 DEF vars
<1> QED
  BY <1>1, <1>2, <1>3, <1>4, <1>5 DEF Next

\* Every variable keeps its type, for all devices and test lengths.
THEOREM TypeCorrect == Spec => []TypeOK
<1>1. Init => Flags
  BY Zenon DEF Init, RegistryInit, Flags
<1>2. Init => Values
  BY ControlAssumption DEF Init, RegistryInit, Values, BtPC, Core1PC, WtPC
<1>3. QED
  BY <1>1, <1>2, TypeParts, FlagsTyped, ValuesTyped, PTL DEF Spec

-----------------------------------------------------------------------------
(* The books are exact. *)

\* Only these callbacks touch the books or the links.
LEMMA BooksFrame ==
  ASSUME [Next]_vars
  PROVE  \/ \E d \in Device : \/ OnDeviceConnected(d) \/ OnDeviceReady(d)
                              \/ OnDeviceDisconnected(d)
         \/ UNCHANGED <<link, registry>>
<1> USE DEF registry
<1>1. CASE BtCallback
  <2>1. ASSUME NEW d \in Device, OnControllerData(d) PROVE UNCHANGED <<link, registry>>
    BY <2>1, Zenon DEF OnControllerData
  <2> QED BY <1>1, <2>1, Zenon DEF BtCallback
<1>2. CASE BtContinues
  BY <1>2, Zenon DEF BtContinues, ReadyConnects, KeepOthers, DropConnection, BtStops, ResetQueue
<1>3. CASE Core1
  BY <1>3, Zenon DEF Core1, Receive, Gate, Tick, Serve, Judge, Recheck, Core1Stops, Hold,
     CreateTest, Choose, Apply, ChooseTurret, ApplyTurret
<1>4. CASE WheelTest
  BY <1>4, Zenon DEF WheelTest
<1>5. CASE UNCHANGED vars
  BY <1>5, Zenon DEF vars
<1> QED
  BY <1>1, <1>2, <1>3, <1>4, <1>5 DEF Next

\* Each of those callbacks keeps them exact.
LEMMA BooksStep == Values /\ RegistryConsistent /\ [Next]_vars => RegistryConsistent'
<1> SUFFICES ASSUME Values, RegistryConsistent, [Next]_vars PROVE RegistryConsistent'
  OBVIOUS
<1> USE DEF registry
<1>0. Books
  BY DEF Values, Books
<1>1. ASSUME NEW d \in Device, OnDeviceConnected(d) PROVE RegistryConsistent'
  <2>1. /\ LinkUp(d) /\ ClearReady(d)
        /\ UNCHANGED <<s_ready_count, s_bb_device, s_gp_device>>
    BY <1>1, Zenon DEF OnDeviceConnected
  <2> QED BY <1>0, <2>1, ConnectKeepsBooks
<1>2. ASSUME NEW d \in Device, OnDeviceReady(d) PROVE RegistryConsistent'
  <2>1. d \in Real /\ link[d] = "up" /\ ~ready[d] /\ Accept(d) /\ link' = link
    BY <1>2, Zenon DEF OnDeviceReady
  <2> QED BY <1>0, <2>1, ReadyKeepsBooks
<1>3. ASSUME NEW d \in Device, OnDeviceDisconnected(d) PROVE RegistryConsistent'
  <2>1. LinkDown(d)
    BY <1>3, Zenon DEF OnDeviceDisconnected
  <2>2. CASE d \in Virtual
    <3>1. UNCHANGED registry
      BY <1>3, <2>2, Zenon DEF OnDeviceDisconnected
    <3> QED BY <1>0, <2>1, <2>2, <3>1, VirtualKeepsBooks
  <2>3. CASE d \notin Virtual
    <3>1. Forget(d)
      BY <1>3, <2>3, Zenon DEF OnDeviceDisconnected
    <3> QED BY <1>0, <2>1, <3>1, ForgetKeepsBooks
  <2> QED BY <2>2, <2>3
<1>4. CASE UNCHANGED <<link, registry>>
  BY <1>4 DEF RegistryConsistent, ReadyDevices, Linked
<1> QED
  BY <1>1, <1>2, <1>3, <1>4, BooksFrame

-----------------------------------------------------------------------------
(* The flag follows the books. *)

\* Only the btstack thread moves bt, the books and the flag.
LEMMA BtFrame ==
  ASSUME Core1 \/ WheelTest \/ UNCHANGED vars
  PROVE  UNCHANGED <<bt, s_ready_count, s_connected>>
  BY Zenon DEF Core1, Receive, Gate, Tick, Serve, Judge, Recheck, Core1Stops, Hold,
     CreateTest, Choose, Apply, ChooseTurret, ApplyTurret, WheelTest, vars, registry, btVars

LEMMA FlagStep == Values /\ FlagInv /\ [Next]_vars => FlagInv'
<1> SUFFICES ASSUME Values, FlagInv, [Next]_vars PROVE FlagInv'
  OBVIOUS
<1> USE DEF FlagInv, BtGoes, registry, btVars
<1>1. ASSUME NEW d \in Device, OnDeviceConnected(d) PROVE FlagInv'
  BY <1>1, Zenon DEF OnDeviceConnected
<1>2. ASSUME NEW d \in Device, OnDeviceReady(d) PROVE FlagInv'
  BY <1>2 DEF OnDeviceReady, Accept, Values
<1>3. ASSUME NEW d \in Device, OnDeviceDisconnected(d) PROVE FlagInv'
  <2>1. UNCHANGED s_connected
    BY <1>3, Zenon DEF OnDeviceDisconnected
  <2>2. CASE d \in Virtual
    <3>1. UNCHANGED <<registry, btVars>>
      BY <1>3, <2>2, Zenon DEF OnDeviceDisconnected
    <3> QED BY <2>1, <3>1
  <2>3. CASE d \notin Virtual
    <3>1. /\ Forget(d)
          /\ bt = "idle"
          /\ bt' = IF s_ready_count' > 0 THEN "keep" ELSE "drop"
      BY <1>3, <2>3, Zenon DEF OnDeviceDisconnected
    <3> QED BY <2>1, <3>1 DEF Forget, Values
  <2> QED BY <2>2, <2>3
<1>4. ASSUME NEW d \in Device, OnControllerData(d) PROVE FlagInv'
  BY <1>4, Zenon DEF OnControllerData
<1>5. CASE BtContinues
  <2>1. CASE ReadyConnects
    BY <2>1 DEF ReadyConnects
  <2>2. CASE KeepOthers
    BY <2>2 DEF KeepOthers
  <2>3. CASE DropConnection
    BY <2>3 DEF DropConnection, Values
  <2>4. CASE BtStops
    <3>1. /\ bt \notin {"drop", "first"} /\ bt' \notin {"drop", "first", "keep", "more"}
          /\ UNCHANGED <<s_connected, s_ready_count>>
      BY <2>4, Zenon DEF BtStops
    <3> QED BY <3>1
  <2>5. CASE ResetQueue
    <3>1. /\ bt \notin {"drop", "first"} /\ bt' = "idle"
          /\ UNCHANGED <<s_connected, s_ready_count>>
      BY <2>5, Zenon DEF ResetQueue
    <3> QED BY <3>1
  <2> QED BY <1>5, <2>1, <2>2, <2>3, <2>4, <2>5 DEF BtContinues
<1>6. CASE Core1 \/ WheelTest \/ UNCHANGED vars
  BY <1>6, BtFrame
<1> QED
  BY <1>1, <1>2, <1>3, <1>4, <1>5, <1>6 DEF Next, BtCallback

\* s_connected and the books agree outside the two windows of the handlers, and
\* the count is the number of ready devices.
THEOREM ConnectionCorrect == Spec => []ConnectionMatchesBooks
<1> DEFINE IInv == Values /\ RegistryConsistent /\ FlagInv
<1>1. Init => IInv
  <2> SUFFICES ASSUME Init PROVE IInv
    OBVIOUS
  <2>1. Values
    BY ControlAssumption DEF Init, RegistryInit, Values, BtPC, Core1PC, WtPC
  <2>2. ReadyDevices = {}
    BY DEF Init, RegistryInit, ReadyDevices
  <2>3. RegistryConsistent
    BY <2>2, FS_EmptySet DEF Init, RegistryInit, RegistryConsistent
  <2>4. FlagInv
    BY DEF Init, RegistryInit, FlagInv
  <2> QED BY <2>1, <2>3, <2>4
<1>2. IInv /\ [Next]_vars => IInv'
  BY ValuesTyped, BooksStep, FlagStep, Zenon
<1>3. IInv => ConnectionMatchesBooks
  BY Zenon DEF FlagInv, ConnectionMatchesBooks
<1> QED
  BY <1>1, <1>2, <1>3, PTL DEF Spec

-----------------------------------------------------------------------------
(* The exhibit and the motors. *)

\* A btstack callback that starts leaves the motors and core1 alone.
LEMMA CallbackFrame ==
  ASSUME BtCallback
  PROVE  UNCHANGED <<core1, exhibit_running, cmd, wheels, turret, s_connected>>
<1>1. ASSUME NEW d \in Device, OnDeviceConnected(d)
      PROVE  UNCHANGED <<core1, exhibit_running, cmd, wheels, turret, s_connected>>
  BY <1>1, Zenon DEF OnDeviceConnected, inputVars, motorVars
<1>2. ASSUME NEW d \in Device, OnDeviceReady(d)
      PROVE  UNCHANGED <<core1, exhibit_running, cmd, wheels, turret, s_connected>>
  BY <1>2, Zenon DEF OnDeviceReady, inputVars, motorVars
<1>3. ASSUME NEW d \in Device, OnDeviceDisconnected(d)
      PROVE  UNCHANGED <<core1, exhibit_running, cmd, wheels, turret, s_connected>>
  BY <1>3, Zenon DEF OnDeviceDisconnected, inputVars, motorVars
<1>4. ASSUME NEW d \in Device, OnControllerData(d)
      PROVE  UNCHANGED <<core1, exhibit_running, cmd, wheels, turret, s_connected>>
  BY <1>4, Zenon DEF OnControllerData, inputVars, motorVars
<1> QED BY <1>1, <1>2, <1>3, <1>4, Zenon DEF BtCallback

LEMMA TurretStep == TurretInv /\ [Next]_vars => TurretInv'
<1> SUFFICES ASSUME TurretInv, [Next]_vars PROVE TurretInv'
  OBVIOUS
<1> USE DEF TurretInv, Core1Goes, inputVars, motorVars
<1>1. CASE BtCallback
  BY <1>1, CallbackFrame
<1>2. CASE BtContinues
  BY <1>2 DEF BtContinues, ReadyConnects, KeepOthers, DropConnection, BtStops, ResetQueue,
     StandStill, CancelTest, ZeroWheels, ZeroTurret
<1>3. CASE Core1
  <2>1. CASE Receive
    BY <2>1 DEF Receive
  <2>2. CASE Gate
    BY <2>2 DEF Gate, GateOpen, GateShut, Ask
  <2>3. CASE Tick
    BY <2>3 DEF Tick, ZeroWheels
  <2>4. CASE Serve
    BY <2>4 DEF Serve
  <2>5. CASE Judge
    BY <2>5 DEF Judge, GiveUp
  <2>6. CASE Recheck
    BY <2>6 DEF Recheck, GiveUp
  <2>7. CASE Core1Stops
    BY <2>7 DEF Core1Stops, StandStill, CancelTest, ZeroWheels, ZeroTurret
  <2>8. CASE Hold
    BY <2>8 DEF Hold
  <2>9. CASE CreateTest
    BY <2>9 DEF CreateTest
  <2>10. CASE Choose
    BY <2>10 DEF Choose
  <2>11. CASE Apply
    BY <2>11 DEF Apply
  <2>12. CASE ChooseTurret
    BY <2>12 DEF ChooseTurret
  <2>13. CASE ApplyTurret
    BY <2>13 DEF ApplyTurret
  <2> QED BY <1>3, <2>1, <2>2, <2>3, <2>4, <2>5, <2>6, <2>7, <2>8, <2>9, <2>10, <2>11, <2>12, <2>13 DEF Core1
<1>4. CASE WheelTest
  BY <1>4, Zenon DEF WheelTest
<1>5. CASE UNCHANGED vars
  BY <1>5, Zenon DEF vars
<1> QED BY <1>1, <1>2, <1>3, <1>4, <1>5 DEF Next

\* Nothing of the exhibit is left on the turret when the exhibit is over.
THEOREM TurretReturned == Spec => []TurretGivenBack
<1>1. Init => TurretInv
  BY DEF Init, TurretInv
<1>2. TurretInv => TurretGivenBack
  BY Zenon DEF TurretInv, TurretGivenBack
<1> QED BY <1>1, <1>2, TurretStep, PTL DEF Spec

LEMMA DriveStep ==
  Values /\ FlagInv /\ TurretInv /\ DriveInv /\ [Next]_vars => DriveInv'
<1> SUFFICES ASSUME Values, FlagInv, TurretInv, DriveInv, [Next]_vars PROVE DriveInv'
  OBVIOUS
<1> USE DEF DriveInv, Core1Goes, BtGoes, inputVars, motorVars, btVars, Serving
<1>1. CASE BtCallback
  <2>1. bt = "idle" \/ bt' = bt
    BY <1>1, Zenon DEF BtCallback, OnDeviceConnected, OnDeviceReady, OnDeviceDisconnected,
       OnControllerData
  <2>2. bt' # "first_wheels"
    BY <1>1 DEF BtCallback, OnDeviceConnected, OnDeviceReady, OnDeviceDisconnected,
       OnControllerData
  <2> QED BY <1>1, <2>1, <2>2, CallbackFrame
<1>2. CASE BtContinues
  <2>1. CASE ReadyConnects
    BY <2>1 DEF ReadyConnects, FlagInv, Values
  <2>2. CASE KeepOthers
    BY <2>2 DEF KeepOthers, FlagInv, Values
  <2>3. CASE DropConnection
    BY <2>3 DEF DropConnection
  <2>4. CASE BtStops
    BY <2>4 DEF BtStops, StandStill, CancelTest, ZeroWheels, ZeroTurret
  <2>5. CASE ResetQueue
    BY <2>5 DEF ResetQueue
  <2> QED BY <1>2, <2>1, <2>2, <2>3, <2>4, <2>5 DEF BtContinues
<1>3. CASE Core1
  <2>1. CASE Receive
    BY <2>1 DEF Receive
  <2>2. CASE Gate
    BY <2>2 DEF Gate, GateOpen, GateShut, Ask
  <2>3. CASE Tick
    BY <2>3 DEF Tick, ZeroWheels
  <2>4. CASE Serve
    BY <2>4 DEF Serve
  <2>5. CASE Judge
    BY <2>5 DEF Judge, GiveUp
  <2>6. CASE Recheck
    BY <2>6 DEF Recheck, GiveUp
  <2>7. CASE Core1Stops
    BY <2>7 DEF Core1Stops, StandStill, CancelTest, ZeroWheels, ZeroTurret
  <2>8. CASE Hold
    BY <2>8 DEF Hold
  <2>9. CASE CreateTest
    BY <2>9 DEF CreateTest
  <2>10. CASE Choose
    BY <2>10 DEF Choose
  <2>11. CASE Apply
    BY <2>11 DEF Apply
  <2>12. CASE ChooseTurret
    BY <2>12 DEF ChooseTurret
  <2>13. CASE ApplyTurret
    BY <2>13 DEF ApplyTurret
  <2> QED BY <1>3, <2>1, <2>2, <2>3, <2>4, <2>5, <2>6, <2>7, <2>8, <2>9, <2>10, <2>11, <2>12, <2>13 DEF Core1
<1>4. CASE WheelTest
  <2>1. UNCHANGED <<core1, exhibit_running, cmd, s_connected, bt>>
    BY <1>4, Zenon DEF WheelTest
  <2>2. wheels' \in {wheels, "stop", "test"}
    BY <1>4, Zenon DEF WheelTest, WtStart, WtCheck, WtSpin, WtRun, WtGap, WtFinish
  <2> QED BY <2>1, <2>2
<1>5. CASE UNCHANGED vars
  BY <1>5, Zenon DEF vars
<1> QED BY <1>1, <1>2, <1>3, <1>4, <1>5 DEF Next

\* The sticks have no say while the exhibit runs.
THEOREM ExhibitStands == Spec => []ExhibitNeverDrives
<1> DEFINE IInv == Values /\ FlagInv /\ TurretInv /\ DriveInv
<1>1. Init => IInv
  <2>1. Init => Values
    BY ControlAssumption DEF Init, RegistryInit, Values, BtPC, Core1PC, WtPC
  <2>2. Init => FlagInv /\ TurretInv /\ DriveInv
    BY DEF Init, RegistryInit, FlagInv, TurretInv, DriveInv, Serving
  <2> QED BY <2>1, <2>2
<1>2. IInv /\ [Next]_vars => IInv'
  BY ValuesTyped, FlagStep, TurretStep, DriveStep, Zenon
<1>3. IInv => ExhibitNeverDrives
  BY DEF DriveInv, ExhibitNeverDrives
<1> QED BY <1>1, <1>2, <1>3, PTL DEF Spec

-----------------------------------------------------------------------------
(* The wheel test. *)

\* Only a start that found no test running creates one, and a wheel that the
\* test spins has the task at the run or on its way to the final stop.
TestInv ==
  /\ core1 = "create" => wt = "none"
  /\ wheels = "test" => wt \in {"run", "finish"}

\* What core1 and the btstack thread may do to the test: create it when there is
\* none, and set its cancel flag; clear the flag when there is no test.
LEMMA OthersAndTest ==
  ASSUME BtCallback \/ BtContinues \/ Core1
  PROVE  /\ \/ wt' = wt
            \/ core1 = "create" /\ core1' = "choose" /\ wt' \in {"born", wt}
         /\ \/ wt_cancel' = wt_cancel
            \/ wt_cancel' = TRUE
            \/ wt = "none"
<1> USE DEF Core1Goes, BtGoes, testVars
<1>1. CASE BtCallback
  <2>1. ASSUME NEW d \in Device, OnDeviceConnected(d) PROVE wt' = wt /\ wt_cancel' = wt_cancel
    BY <2>1, Zenon DEF OnDeviceConnected
  <2>2. ASSUME NEW d \in Device, OnDeviceReady(d) PROVE wt' = wt /\ wt_cancel' = wt_cancel
    BY <2>2, Zenon DEF OnDeviceReady
  <2>3. ASSUME NEW d \in Device, OnDeviceDisconnected(d) PROVE wt' = wt /\ wt_cancel' = wt_cancel
    BY <2>3, Zenon DEF OnDeviceDisconnected
  <2>4. ASSUME NEW d \in Device, OnControllerData(d) PROVE wt' = wt /\ wt_cancel' = wt_cancel
    BY <2>4, Zenon DEF OnControllerData
  <2> QED BY <1>1, <2>1, <2>2, <2>3, <2>4, Zenon DEF BtCallback
<1>2. CASE BtContinues
  <2>1. CASE ReadyConnects
    BY <2>1, Zenon DEF ReadyConnects
  <2>2. CASE KeepOthers
    BY <2>2, Zenon DEF KeepOthers
  <2>3. CASE DropConnection
    BY <2>3, Zenon DEF DropConnection
  <2>4. CASE BtStops
    <3>1. StandStill \/ CancelTest \/ ZeroWheels \/ ZeroTurret
      BY <2>4, Zenon DEF BtStops
    <3> QED BY <3>1, Zenon DEF StandStill, CancelTest, ZeroWheels, ZeroTurret
  <2>5. CASE ResetQueue
    BY <2>5, Zenon DEF ResetQueue
  <2> QED BY <1>2, <2>1, <2>2, <2>3, <2>4, <2>5, Zenon DEF BtContinues
<1>3. CASE Core1
  <2>1. CASE Receive \/ Gate \/ Serve \/ Judge \/ Recheck
    <3>1. wt' = wt /\ wt_cancel' = wt_cancel
      BY <2>1, Zenon DEF Receive, Gate, Serve, Judge, Recheck
    <3> QED BY <3>1, Zenon
  <2>2. CASE Core1Stops
    <3>1. StandStill \/ CancelTest \/ ZeroWheels \/ ZeroTurret
      BY <2>2, Zenon DEF Core1Stops
    <3> QED BY <3>1, Zenon DEF StandStill, CancelTest, ZeroWheels, ZeroTurret
  <2>3. CASE Hold
    <3>1. /\ wt' = wt
          /\ wt_cancel' = wt_cancel \/ wt = "none"
      BY <2>3, Zenon DEF Hold
    <3> QED BY <3>1, Zenon
  <2>4. CASE CreateTest
    <3>1. /\ core1 = "create" /\ core1' = "choose" /\ wt' \in {"born", wt}
          /\ wt_cancel' = wt_cancel
      BY <2>4, Zenon DEF CreateTest
    <3> QED BY <3>1, Zenon
  <2>5. CASE Choose \/ Apply \/ ChooseTurret \/ ApplyTurret
    <3>1. wt' = wt /\ wt_cancel' = wt_cancel
      BY <2>5, Zenon DEF Choose, Apply, ChooseTurret, ApplyTurret
    <3> QED BY <3>1, Zenon
  <2>6. CASE Tick
    <3>1. wt' = wt /\ wt_cancel' = wt_cancel
      BY <2>6, Zenon DEF Tick, ZeroWheels
    <3> QED BY <3>1, Zenon
  <2> QED BY <1>3, <2>1, <2>2, <2>3, <2>4, <2>5, <2>6, Zenon DEF Core1
<1> QED BY <1>1, <1>2, <1>3, Zenon

LEMMA TestStep == TurretInv /\ TestInv /\ [Next]_vars => TestInv'
<1> SUFFICES ASSUME TurretInv, TestInv, [Next]_vars PROVE TestInv'
  OBVIOUS
<1> USE DEF TestInv, TurretInv
<1>1. CASE BtCallback
  <2>1. wt' = wt
    BY <1>1, OthersAndTest, CallbackFrame
  <2> QED BY <1>1, <2>1, CallbackFrame
<1>2. CASE BtContinues
  <2>1. core1' = core1 /\ wheels' \in {wheels, "stop"}
    BY <1>2, Zenon DEF BtContinues, ReadyConnects, KeepOthers, DropConnection, BtStops,
       ResetQueue, StandStill, CancelTest, ZeroWheels, ZeroTurret, inputVars, motorVars
  <2>2. wt' = wt \/ (core1' = "choose" /\ core1 = "create")
    BY <1>2, OthersAndTest
  <2> QED BY <2>1, <2>2
<1>3. CASE Core1
  <2>1. wheels' \in {wheels, "stop", "drive"}
    BY <1>3 DEF Core1, Core1Goes, Receive, Gate, Tick, Serve, Judge, Recheck, Core1Stops, Hold,
       CreateTest, Choose, Apply, ChooseTurret, ApplyTurret, motorVars, StandStill,
       CancelTest, ZeroWheels, ZeroTurret
  <2>2. core1' = "create" => wt = "none" /\ wt' = wt
    BY <1>3 DEF Core1, Core1Goes, Receive, Gate, GateOpen, GateShut, Ask, Tick, Serve, Judge,
       GiveUp, Recheck, Core1Stops, Hold, CreateTest, Choose, Apply, ChooseTurret, ApplyTurret
  <2> QED BY <1>3, <2>1, <2>2, OthersAndTest
<1>4. CASE WheelTest
  <2>1. core1' = core1 /\ wt # "none"
    BY <1>4 DEF WheelTest, inputVars, WtGoes, WtStart, WtCheck, WtSpin, WtRun, WtGap, WtFinish
  <2>2. wheels' = "test" => wt' \in {"run", "finish"}
    BY <1>4 DEF WheelTest, WtGoes, WtStart, WtCheck, WtSpin, WtRun, WtGap, WtFinish
  <2> QED BY <2>1, <2>2
<1>5. CASE UNCHANGED vars
  BY <1>5, Zenon DEF vars, inputVars, motorVars, testVars
<1> QED BY <1>1, <1>2, <1>3, <1>4, <1>5 DEF Next

\* No wheel spins on for a wheel test that is gone, however it was cancelled.
THEOREM TestLeavesNoWheel == Spec => []TestCleansUp
<1>1. Init => TurretInv /\ TestInv
  BY DEF Init, TurretInv, TestInv
<1>2. TestInv => TestCleansUp
  BY Zenon DEF TestInv, TestCleansUp
<1> QED BY <1>1, <1>2, TurretStep, TestStep, PTL DEF Spec

\* A cancelled wheel test stays cancelled until it is gone.
THEOREM CancelHolds == Spec => CancelSticks
<1>1. [Next]_vars => [wt # "none" /\ wt_cancel => wt_cancel' \/ wt' = "none"]_vars
  <2> SUFFICES ASSUME Next, wt # "none", wt_cancel PROVE wt_cancel'
    BY Zenon
  <2>1. CASE BtCallback \/ BtContinues \/ Core1
    BY <2>1, OthersAndTest, Zenon
  <2>2. CASE WheelTest
    BY <2>2, Zenon DEF WheelTest
  <2> QED BY <2>1, <2>2, Zenon DEF Next
<1> QED BY <1>1, PTL DEF Spec, CancelSticks

-----------------------------------------------------------------------------
(* The queue. *)

LEMMA QueueStep == NoSampleWaits /\ [Next]_vars => NoSampleWaits'
<1> SUFFICES ASSUME NoSampleWaits, [Next]_vars PROVE NoSampleWaits'
  OBVIOUS
<1> USE DEF NoSampleWaits
<1>1. CASE BtCallback
  <2>1. ASSUME NEW d \in Device, OnDeviceConnected(d) PROVE NoSampleWaits'
    BY <2>1, Zenon DEF OnDeviceConnected, btVars
  <2>2. ASSUME NEW d \in Device, OnDeviceReady(d) PROVE NoSampleWaits'
    BY <2>2, Zenon DEF OnDeviceReady, BtGoes
  <2>3. ASSUME NEW d \in Device, OnDeviceDisconnected(d) PROVE NoSampleWaits'
    <3>1. /\ UNCHANGED <<s_connected, queue>>
          /\ UNCHANGED btVars \/ bt' \in {"keep", "drop"}
      BY <2>3 DEF OnDeviceDisconnected, BtGoes
    <3> QED BY <3>1 DEF btVars
  <2>4. ASSUME NEW d \in Device, OnControllerData(d) PROVE NoSampleWaits'
    BY <2>4, Zenon DEF OnControllerData
  <2> QED BY <1>1, <2>1, <2>2, <2>3, <2>4, Zenon DEF BtCallback
<1>2. CASE BtContinues
  <2>1. CASE ReadyConnects \/ KeepOthers
    BY <2>1, Zenon DEF ReadyConnects, KeepOthers
  <2>2. CASE DropConnection
    BY <2>2 DEF DropConnection, BtGoes
  <2>3. CASE BtStops
    BY <2>3 DEF BtStops, BtGoes
  <2>4. CASE ResetQueue
    BY <2>4, Zenon DEF ResetQueue
  <2> QED BY <1>2, <2>1, <2>2, <2>3, <2>4, Zenon DEF BtContinues
<1>3. CASE Core1 \/ WheelTest \/ UNCHANGED vars
  <2>1. UNCHANGED <<s_connected, bt>> /\ queue' \in {queue, NULL}
    <3>1. CASE Core1
      <4>1. UNCHANGED <<s_connected, btVars>> /\ (queue' = NULL \/ queue' = queue)
        BY <3>1, Zenon DEF Core1, Receive, Gate, Tick, Serve, Judge, Recheck, Core1Stops,
           Hold, CreateTest, Choose, Apply, ChooseTurret, ApplyTurret
      <4> QED BY <4>1, Zenon DEF btVars
    <3>2. CASE WheelTest
      BY <3>2, Zenon DEF WheelTest, btVars
    <3>3. CASE UNCHANGED vars
      BY <3>3, Zenon DEF vars, btVars
    <3> QED BY <1>3, <3>1, <3>2, <3>3, Zenon
  <2> QED BY <2>1
<1> QED BY <1>1, <1>2, <1>3 DEF Next

\* No sample of a connection that is over waits for the next one
\* (my_platform.c:1078, 1132).
THEOREM QueueIsEmptied == Spec => []NoSampleWaits
<1>1. Init => NoSampleWaits
  BY DEF Init, NoSampleWaits
<1> QED BY <1>1, QueueStep, PTL DEF Spec
=============================================================================
