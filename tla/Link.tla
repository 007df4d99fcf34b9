-------------------------------- MODULE Link --------------------------------
(***************************************************************************)
(* The radio work around a controller that comes or goes                    *)
(* (main/my_platform.c): the inquiry scan that is stopped for a connection  *)
(* and resumed later, the delayed connect effect and the keep-alive reports. *)
(*                                                                          *)
(* The platform callbacks and the posted requests run on the btstack        *)
(* thread; the timers expire on the esp_timer task, which preempts it, and  *)
(* hand their work back to it as a request.  A request that is posted twice *)
(* before it ran is queued once (btstack_run_loop_base_add_callback).       *)
(***************************************************************************)
EXTENDS Registry

CONSTANT SelfAlive      \* pads whose parser keeps the link alive itself

ASSUME LinkAssumption == SelfAlive \subseteq Pad

VARIABLES
  scanning,             \* external: Bluepad32 is looking for controllers
  scan_timer,           \* scan_restart_timer is armed
  scan_request,         \* uni_bt_start_scanning_and_autoconnect_safe is queued
  effect_device,        \* gamepad_effect_device
  effect_timer, effect_request,
  keepalive_device,
  keepalive_timer, keepalive_request

scan == <<scanning, scan_timer, scan_request>>
effect == <<effect_device, effect_timer, effect_request>>
keepalive == <<keepalive_device, keepalive_timer, keepalive_request>>
vars == <<link, registry, s_connected, scan, effect, keepalive>>

TypeOK ==
  /\ RegistryTypeOK
  /\ scanning \in BOOLEAN /\ scan_timer \in BOOLEAN /\ scan_request \in BOOLEAN
  /\ effect_device \in Device \cup {NULL}
  /\ effect_timer \in BOOLEAN /\ effect_request \in BOOLEAN
  /\ keepalive_device \in Pad \cup {NULL}
  /\ keepalive_timer \in BOOLEAN /\ keepalive_request \in BOOLEAN

\* on_init_complete has started the scan.
Init ==
  /\ RegistryInit
  /\ scanning = TRUE /\ scan_timer = FALSE /\ scan_request = FALSE
  /\ effect_device = NULL /\ effect_timer = FALSE /\ effect_request = FALSE
  /\ keepalive_device = NULL /\ keepalive_timer = FALSE /\ keepalive_request = FALSE

-----------------------------------------------------------------------------
(* The callbacks of the platform. *)

\* A connection stops the scan and calls off a scan that is due.
OnDeviceConnected(d) ==
  /\ LinkUp(d) /\ ClearReady(d)
  /\ IF d \in Virtual THEN UNCHANGED scan
     ELSE scanning' = FALSE /\ scan_timer' = FALSE /\ UNCHANGED scan_request
  /\ UNCHANGED <<s_ready_count, s_bb_device, s_gp_device, s_connected, effect,
                 keepalive>>

\* Mutant: a scan is only due while no device is ready.
ScheduleScanWhenEmpty ==
  /\ scan_timer' = (scan_timer \/ s_ready_count' = 0)
  /\ UNCHANGED <<scanning, scan_request>>

\* maybe_schedule_scan: a scan is due while there is room for a controller.  The
\* timer that is stopped may just have expired.
ScheduleScan ==
  /\ scan_timer' = (scan_timer \/ s_ready_count' < MaxDevices)
  /\ scan_request' \in {scan_request, scan_request \/ (scan_timer /\ s_ready_count' < MaxDevices)}
  /\ UNCHANGED scanning

\* The connect effect is due for a new pad, and for a board that comes first.
ArmEffect(d) ==
  IF d \in Pad \/ s_ready_count = 0
    THEN effect_device' = d /\ effect_timer' = TRUE /\ UNCHANGED effect_request
    ELSE UNCHANGED effect

\* Mutant: a board takes the keep-alive too.
StartKeepaliveAny(d) ==
  keepalive_device' = d /\ keepalive_timer' = TRUE /\ UNCHANGED keepalive_request

\* gamepad_keepalive_start: the newest pad that needs it.
StartKeepalive(d) ==
  IF d \in Pad \ SelfAlive
    THEN keepalive_device' = d /\ keepalive_timer' = TRUE /\ UNCHANGED keepalive_request
    ELSE UNCHANGED keepalive

OnDeviceReady(d) ==
  /\ d \in Real /\ link[d] = "up" /\ ~ready[d]
  /\ Accept(d)
  /\ s_connected' = TRUE
  /\ ArmEffect(d) /\ StartKeepalive(d) /\ ScheduleScan
  /\ UNCHANGED link

\* Mutant: the device that goes stays in the mailbox.
DropEffectTimer(d) ==
  /\ effect_timer' = (effect_timer /\ effect_device # d)
  /\ UNCHANGED <<effect_device, effect_request>>

\* The effect and the keep-alive of a device that goes are called off.
DropEffect(d) ==
  IF d = effect_device
    THEN effect_device' = NULL /\ effect_timer' = FALSE /\ UNCHANGED effect_request
    ELSE UNCHANGED effect

DropKeepalive(d) ==
  IF d = keepalive_device
    THEN keepalive_device' = NULL /\ keepalive_timer' = FALSE /\ UNCHANGED keepalive_request
    ELSE UNCHANGED keepalive

OnDeviceDisconnected(d) ==
  /\ LinkDown(d)
  /\ IF d \in Virtual
       THEN UNCHANGED <<registry, s_connected, scan, effect, keepalive>>
       ELSE /\ Forget(d)
            /\ DropEffect(d) /\ DropKeepalive(d)
            /\ s_connected' = (s_ready_count' > 0)
            /\ ScheduleScan

-----------------------------------------------------------------------------
(* Timers on the esp_timer task, and the requests they post. *)

\* scan_restart_cb.
ScanTimer ==
  /\ scan_timer /\ scan_timer' = FALSE
  /\ scan_request' = (scan_request \/ s_ready_count < MaxDevices)
  /\ UNCHANGED <<link, registry, s_connected, scanning, effect, keepalive>>

ScanRequest ==
  /\ scan_request /\ scan_request' = FALSE
  /\ scanning' = TRUE
  /\ UNCHANGED <<link, registry, s_connected, scan_timer, effect, keepalive>>

\* gamepad_effect_cb and gamepad_effect_on_btstack_thread: LEDs and rumble of
\* whatever device is in the mailbox when the request runs.
EffectTimer ==
  /\ effect_timer /\ effect_timer' = FALSE
  /\ effect_request' = TRUE
  /\ UNCHANGED <<link, registry, s_connected, scan, effect_device, keepalive>>

EffectRequest ==
  /\ effect_request /\ effect_request' = FALSE
  /\ UNCHANGED <<link, registry, s_connected, scan, effect_device, effect_timer, keepalive>>

\* gamepad_keepalive_cb (periodic) and gamepad_keepalive_on_btstack_thread.
KeepaliveTimer ==
  /\ keepalive_timer
  /\ keepalive_request' = TRUE
  /\ UNCHANGED <<link, registry, s_connected, scan, effect, keepalive_device, keepalive_timer>>

KeepaliveRequest ==
  /\ keepalive_request /\ keepalive_request' = FALSE
  /\ UNCHANGED <<link, registry, s_connected, scan, effect, keepalive_device, keepalive_timer>>

Callback == \E d \in Device : OnDeviceConnected(d) \/ OnDeviceReady(d) \/ OnDeviceDisconnected(d)
Timer == ScanTimer \/ EffectTimer \/ KeepaliveTimer
Request == ScanRequest \/ EffectRequest \/ KeepaliveRequest

Next == Callback \/ Timer \/ Request

Spec == Init /\ [][Next]_vars

-----------------------------------------------------------------------------
\* A device is being set up: it is linked and not ready yet.
InSetup == (Linked \cap Real) \ ReadyDevices

\* The car is never deaf: with room for a controller and no connection being set
\* up, a scan is running, due or queued (my_platform.c:327-340, 1062, 1086).
ScanPlanned ==
  InSetup = {} /\ s_ready_count < MaxDevices => scanning \/ scan_timer \/ scan_request

\* No request reaches a device that is gone: the two mailboxes name ready devices
\* or nothing (my_platform.c:1048-1053).
MailboxesAlive == {effect_device, keepalive_device} \ {NULL} \subseteq ReadyDevices

\* A pad that needs keep-alive reports gets them from its ready on for as long as
\* it is the newest pad; a board that joins does not take them over
\* (my_platform.c:1137).
PadKeptAlive ==
  s_gp_device \in Pad \ SelfAlive => keepalive_device = s_gp_device /\ keepalive_timer

\* Whenever the car has room for a controller it scans again, unless a
\* connection is being set up.
ScanResumes == []<>(scanning \/ InSetup # {} \/ s_ready_count = MaxDevices)

=============================================================================
