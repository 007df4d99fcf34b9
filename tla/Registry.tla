------------------------------ MODULE Registry ------------------------------
(***************************************************************************)
(* The controllers the car holds (main/my_platform.c): the "ready" mark of  *)
(* every device, s_ready_count, s_bb_device, s_gp_device and s_connected.   *)
(* Only the btstack thread writes them; the input task and the timer task   *)
(* read them at any moment.  s_bb_ready and s_gp_ready are TRUE exactly when *)
(* the corresponding device pointer is set, so they are operators here.     *)
(*                                                                          *)
(* "link" is external: it is the state Bluepad32 keeps of each HID device   *)
(* and decides which callbacks it may call.                                 *)
(***************************************************************************)
EXTENDS Integers, FiniteSets

CONSTANTS Pad,        \* gamepads
          Board,      \* Wii Balance Boards
          Virtual,    \* child devices (d->parent # NULL), e.g. a DS4 touchpad
          NULL,       \* the null device pointer
          MaxDevices  \* CONFIG_BLUEPAD32_MAX_DEVICES

Real == Pad \cup Board
Device == Real \cup Virtual

ASSUME RegistryAssumption ==
  /\ IsFiniteSet(Device)
  /\ Pad \cap Board = {} /\ Real \cap Virtual = {}
  /\ NULL \notin Device
  /\ MaxDevices \in Nat \ {0}

VARIABLES link,           \* [Device -> {"down", "up"}]
          ready,          \* ins->ready of each device
          s_ready_count,
          s_bb_device, s_gp_device,
          s_connected

registry == <<ready, s_ready_count, s_bb_device, s_gp_device>>

RegistryTypeOK ==
  /\ link \in [Device -> {"down", "up"}]
  /\ ready \in [Device -> BOOLEAN]
  /\ s_ready_count \in Nat
  /\ s_bb_device \in Board \cup {NULL}
  /\ s_gp_device \in Pad \cup {NULL}
  /\ s_connected \in BOOLEAN

RegistryInit ==
  /\ link = [d \in Device |-> "down"]
  /\ ready = [d \in Device |-> FALSE]
  /\ s_ready_count = 0
  /\ s_bb_device = NULL /\ s_gp_device = NULL
  /\ s_connected = FALSE

s_bb_ready == s_bb_device # NULL
s_gp_ready == s_gp_device # NULL

ReadyDevices == {d \in Device : ready[d]}
Linked == {d \in Device : link[d] = "up"}

\* External: Bluepad32 opens a HID connection while it has a free slot.
LinkUp(d) ==
  /\ link[d] = "down"
  /\ Cardinality(Linked) < MaxDevices
  /\ link' = [link EXCEPT ![d] = "up"]

\* External: Bluepad32 loses or closes the connection of d.
LinkDown(d) ==
  /\ link[d] = "up"
  /\ link' = [link EXCEPT ![d] = "down"]

\* on_device_connected: the instance of a device that is not virtual is not
\* ready yet.
ClearReady(d) ==
  ready' = IF d \in Virtual THEN ready ELSE [ready EXCEPT ![d] = FALSE]

\* on_device_ready: the newest pad or board takes the pointer of its kind.
Accept(d) ==
  /\ IF d \in Board
       THEN s_bb_device' = d /\ UNCHANGED s_gp_device
       ELSE s_gp_device' = d /\ UNCHANGED s_bb_device
  /\ ready' = [ready EXCEPT ![d] = TRUE]
  /\ s_ready_count' = s_ready_count + 1

\* Mutant: the count goes down for a device that was never ready.
ForgetUnready(d) ==
  /\ ready' = [ready EXCEPT ![d] = FALSE]
  /\ s_ready_count' = IF s_ready_count > 0 THEN s_ready_count - 1 ELSE s_ready_count
  /\ s_bb_device' = IF d = s_bb_device THEN NULL ELSE s_bb_device
  /\ s_gp_device' = IF d = s_gp_device THEN NULL ELSE s_gp_device

\* on_device_disconnected and forget_ready_device.
Forget(d) ==
  /\ ready' = [ready EXCEPT ![d] = FALSE]
  /\ s_ready_count' = IF ready[d] /\ s_ready_count > 0
                        THEN s_ready_count - 1 ELSE s_ready_count
  /\ s_bb_device' = IF d = s_bb_device THEN NULL ELSE s_bb_device
  /\ s_gp_device' = IF d = s_gp_device THEN NULL ELSE s_gp_device

\* The count is the number of ready devices, only linked devices are ready, and
\* the two pointers name ready devices.
RegistryConsistent ==
  /\ s_ready_count = Cardinality(ReadyDevices)
  /\ ReadyDevices \subseteq Linked \cap Real
  /\ {s_bb_device, s_gp_device} \ {NULL} \subseteq ReadyDevices
=============================================================================
