------------------------------ MODULE Buttons ------------------------------
(***************************************************************************)
(* What a button does (main/my_platform.c): the reports of a gamepad, with  *)
(* a Wii Balance Board beside it whose reports take the one queue slot too,  *)
(* and the edges, debounce times, holds and volume steps that               *)
(* input_process_task makes of them (675-701, 736-815); X, which the         *)
(* btstack thread handles itself (1163-1165); the factory reset.             *)
(*                                                                          *)
(* One tick is a second: a hold of Hold ticks, a report that is stale after *)
(* Failsafe.  Debounce times are shorter: they pass at the latest with the  *)
(* tick.  Core 1 polls at least once in a tick and serves a sample before   *)
(* the tick ends.  Callbacks of the platform are one step here; module      *)
(* Control has their interleavings.                                         *)
(*                                                                          *)
(* Bounds: one pad; Presses caps how often a finger moves, and a player     *)
(* uses the buttons of one member of Players.                               *)
(***************************************************************************)
EXTENDS Storage

CONSTANTS
  Hold,           \* SELECT_START_HOLD_MS = WHEEL_TEST_HOLD_MS
  Failsafe,       \* FAILSAFE_MS
  Players,        \* bound: the sets of buttons a player may use
  Presses         \* bound: movements of a finger

Button == {"A", "X", "SELECT", "START", "L1", "R1"}

\* A stands for Y and B as well: the same three lines with another function.
Trigger == [gatling |-> {"A"}, puff |-> {"X"}, headlight |-> {"SELECT"},
            test |-> {"L1", "R1"}, reset |-> {"SELECT", "START"}]
Act == DOMAIN Trigger
HoldAct == {"test", "reset"}

\* No report is taken for a missing one.
ASSUME ButtonsAssumption ==
  /\ Hold \in Nat /\ Failsafe \in Nat /\ Presses \in Nat
  /\ Players \subseteq SUBSET Button
  /\ \A b \in SUBSET Button : NULL # b

VARIABLES
  hands,                \* external: the buttons that are pressed
  player, presses,      \* bounds
  s_gp_ready, s_bb_ready,
  s_last_gp_evt,        \* buttons of the pad's last report
  gp_age,               \* ticks since s_gp_last_ms, NULL for 0
  x_prev,               \* X in s_gamepad_prev_buttons
  queue,                \* NULL, or the buttons of the queued sample
  core1,                \* what core 1 does next
  evt,                  \* the sample it has taken
  polled,               \* it has polled in this tick
  prev,                 \* prev_buttons and prev_misc_buttons
  recent,               \* buttons whose debounce time has not passed
  pressed_at,           \* ticks since each hold was first seen, or NULL
  fired,                \* the holds that have fired
  testing,              \* rccar_motor_wheel_test_is_running
  restart,              \* restart_timer and its callback
  act,                  \* what the last step has set off
  fresh,                \* history: acts whose buttons were pressed and not served
  late,                 \* history: acts of the last report of a pad that has gone
  held, told            \* history: ticks a hold lasts, and ticks the pad tells
                        \* of the buttons in time

input == <<core1, evt, polled, prev, recent, pressed_at, fired>>
reports == <<s_gp_ready, s_bb_ready, s_last_gp_evt, gp_age, x_prev, queue>>
fingers == <<hands, player, presses>>
outside == <<testing, restart>>
history == <<fresh, late, held, told>>
vars == <<fingers, reports, input, outside, act, history, storage>>

s_connected == s_gp_ready \/ s_bb_ready

TypeOK ==
  /\ StorageTypeOK
  /\ hands \subseteq player /\ player \in Players /\ presses \in 0..Presses
  /\ s_gp_ready \in BOOLEAN /\ s_bb_ready \in BOOLEAN
  /\ s_last_gp_evt \subseteq Button
  /\ gp_age \in 0..(Failsafe + 1) \cup {NULL}
  /\ x_prev \subseteq {"X"}
  /\ queue \in (SUBSET Button) \cup {NULL} /\ evt \subseteq Button
  /\ core1 \in {"receive", "act", "save", "tell"} /\ polled \in BOOLEAN
  /\ prev \subseteq Button /\ recent \subseteq Button
  /\ pressed_at \in [HoldAct -> 0..Hold \cup {NULL}] /\ fired \subseteq HoldAct
  /\ testing \in BOOLEAN
  /\ restart \in {"off", "armed", "due", "erased", "closed"}
  /\ act \subseteq Act /\ fresh \subseteq Act /\ late \subseteq Act
  /\ held \in [HoldAct -> 0..Hold] /\ told \in 0..Hold

\* The acts whose buttons are down in b.
Down(b) == {a \in Act : Trigger[a] \subseteq b}

Reset(f) == [h \in HoldAct |-> f]

\* Everything in memory begins anew.
Boot ==
  /\ s_gp_ready' = FALSE /\ s_bb_ready' = FALSE /\ x_prev' = {}
  /\ s_last_gp_evt' = {} /\ gp_age' = NULL /\ queue' = NULL
  /\ core1' = "receive" /\ evt' = {} /\ polled' = TRUE
  /\ prev' = {} /\ recent' = {} /\ pressed_at' = Reset(NULL) /\ fired' = {}
  /\ testing' = FALSE /\ restart' = "off" /\ act' = {}
  /\ fresh' = Down(hands) /\ late' = {} /\ told' = 0

Init ==
  /\ player \in Players /\ hands = {} /\ presses = 0
  /\ s_gp_ready = FALSE /\ s_bb_ready = FALSE /\ x_prev = {}
  /\ s_last_gp_evt = {} /\ gp_age = NULL /\ queue = NULL
  /\ core1 = "receive" /\ evt = {} /\ polled = TRUE
  /\ prev = {} /\ recent = {} /\ pressed_at = Reset(NULL) /\ fired = {}
  /\ testing = FALSE /\ restart = "off" /\ act = {}
  /\ fresh = {} /\ late = {} /\ held = Reset(0) /\ told = 0
  /\ nvs \in {VolumeMin, VolumeMax + 1, NULL}
  /\ s_handle = TRUE /\ s_volume = Loaded(nvs) /\ audible = s_volume
  /\ refused = FALSE

-----------------------------------------------------------------------------
(* The player and the radio. *)

Finger(b) ==
  /\ presses < Presses /\ presses' = presses + 1
  /\ hands' = IF b \in hands THEN hands \ {b} ELSE hands \cup {b}
  /\ fresh' = fresh \cup (Down(hands') \ Down(hands))
  /\ act' = {}
  /\ UNCHANGED <<player, reports, input, outside, late, held, told, storage>>

\* on_device_ready; the first one empties the queue.  To set a device up takes
\* longer than core 1 needs for the last sample of a pad that was there before;
\* a button that is down then counts as pressed anew.
Ready(pad) ==
  /\ core1 = "receive" /\ queue \in {NULL, {}}
  /\ IF pad THEN ~s_gp_ready /\ s_gp_ready' = TRUE /\ UNCHANGED s_bb_ready
            ELSE ~s_bb_ready /\ s_bb_ready' = TRUE /\ UNCHANGED s_gp_ready
  /\ queue' = IF s_connected THEN queue ELSE NULL
  /\ fresh' = IF pad THEN fresh \cup Down(hands) ELSE fresh
  /\ late' = IF pad THEN {} ELSE late
  /\ act' = {}
  /\ UNCHANGED <<fingers, s_last_gp_evt, gp_age, x_prev, input, outside, held,
                 told, storage>>

\* on_device_disconnected of the pad: its last report is forgotten, but beside
\* a board a sample of it stays in the queue.
PadGone ==
  /\ s_gp_ready /\ s_gp_ready' = FALSE
  /\ s_last_gp_evt' = {} /\ gp_age' = NULL /\ x_prev' = {}
  /\ queue' = IF s_bb_ready THEN queue ELSE NULL
  /\ late' = Down(s_last_gp_evt) /\ act' = {}
  /\ UNCHANGED <<fingers, s_bb_ready, input, outside, fresh, held, told, storage>>

\* The last device to go empties the queue and the memory of X.
BoardGone ==
  /\ s_bb_ready /\ s_bb_ready' = FALSE
  /\ queue' = IF s_gp_ready THEN queue ELSE NULL
  /\ x_prev' = IF s_gp_ready THEN x_prev ELSE {}
  /\ act' = {}
  /\ UNCHANGED <<fingers, s_gp_ready, s_last_gp_evt, gp_age, input, outside,
                 history, storage>>

\* on_controller_data of the pad, which tells of X itself.
PadReport ==
  /\ s_gp_ready
  /\ x_prev' = hands \cap {"X"}
  /\ act' = Down(x_prev' \ x_prev)
  /\ fresh' = fresh \ act'
  /\ s_last_gp_evt' = hands /\ gp_age' = 0
  /\ queue' = hands
  /\ UNCHANGED <<fingers, s_gp_ready, s_bb_ready, input, outside, late, held,
                 told, storage>>

\* A board has no buttons; its sample overwrites that of the pad.
BoardReport ==
  /\ s_bb_ready
  /\ queue' = {} /\ act' = {}
  /\ UNCHANGED <<fingers, s_gp_ready, s_bb_ready, s_last_gp_evt, gp_age, x_prev,
                 input, outside, history, storage>>

-----------------------------------------------------------------------------
(* input_process_task. *)

\* A pass without a connection forgets edges and holds; one without a sample
\* leaves them alone, silence or not (647-656).
PollNothing ==
  /\ core1 = "receive"
  /\ ~s_connected \/ queue = NULL
  /\ queue' = NULL /\ polled' = TRUE /\ act' = {}
  /\ IF s_connected
       THEN UNCHANGED <<prev, pressed_at, fired>>
       ELSE prev' = {} /\ pressed_at' = Reset(NULL) /\ fired' = {}
  /\ UNCHANGED <<fingers, s_gp_ready, s_bb_ready, s_last_gp_evt, gp_age, x_prev,
                 core1, evt, recent, outside, history, storage>>

Receive ==
  /\ core1 = "receive" /\ s_connected /\ queue # NULL
  /\ evt' = queue /\ queue' = NULL /\ polled' = TRUE
  /\ core1' = "act" /\ act' = {}
  /\ UNCHANGED <<fingers, s_gp_ready, s_bb_ready, s_last_gp_evt, gp_age, x_prev,
                 prev, recent, pressed_at, fired, outside, history, storage>>

pad_live == s_gp_ready /\ gp_age # NULL /\ gp_age <= Failsafe

\* Mutant: always the buttons of the sample that was received.
PadOfSample == evt

\* With a board beside it the pad is heard through its last report.
Pad == IF pad_live THEN s_last_gp_evt ELSE evt

Completed(h) ==
  /\ Trigger[h] \subseteq Pad /\ h \notin fired
  /\ pressed_at[h] # NULL /\ pressed_at[h] >= Hold
  /\ h = "test" => ~testing

\* Mutant: a hold that is let go is not forgotten.
FollowHoldsOnly ==
  /\ pressed_at' = [h \in HoldAct |->
       IF Trigger[h] \subseteq Pad /\ pressed_at[h] = NULL THEN 0 ELSE pressed_at[h]]
  /\ fired' = {h \in HoldAct : Trigger[h] \subseteq Pad /\ (h \in fired \/ Completed(h))}

FollowHolds ==
  /\ pressed_at' = [h \in HoldAct |->
       IF ~(Trigger[h] \subseteq Pad) THEN NULL
       ELSE IF pressed_at[h] = NULL THEN 0 ELSE pressed_at[h]]
  /\ fired' = {h \in HoldAct : Trigger[h] \subseteq Pad /\ (h \in fired \/ Completed(h))}

\* SELECT under START belongs to the factory reset.
Edges ==
  LET new == Pad \ prev
  IN {b \in new \cap {"A", "SELECT"} : b = "SELECT" => "START" \notin Pad}

\* L1 and R1 repeat while one of them is down alone.
VolumeButton ==
  IF {"L1", "R1"} \subseteq Pad THEN {} ELSE Pad \cap {"L1", "R1"}

Step(b) == IF b = "L1" THEN s_volume - 1 ELSE s_volume + 1

ActOnPad ==
  LET heard == (Edges \cup VolumeButton) \ recent
      louder == {b \in heard \cap {"L1", "R1"} : Step(b) \in Volume}
  IN /\ act' = Down(heard \cap {"A", "SELECT"}) \cup {h \in HoldAct : Completed(h)}
     /\ recent' = recent \cup heard
     /\ FollowHolds /\ prev' = Pad
     /\ testing' = (testing \/ Completed("test"))
     /\ restart' = IF Completed("reset") THEN "armed" ELSE restart
     /\ IF louder = {} THEN core1' = "receive" /\ UNCHANGED storage
        ELSE core1' = "save" /\ \E b \in louder : SetCopy(Step(b))

\* The sample is acted on unless the connection fell meanwhile (659).
Serve ==
  /\ core1 = "act" /\ evt' = {}
  /\ IF s_connected THEN ActOnPad
     ELSE /\ core1' = "receive" /\ act' = {}
          /\ UNCHANGED <<prev, recent, pressed_at, fired, outside, storage>>
  /\ fresh' = fresh \ act' /\ late' = late \ act'
  /\ UNCHANGED <<fingers, reports, polled, held, told>>

\* The rest of rccar_storage_volume_set, then rccar_dfplayer_set_volume.
ChangeVolume ==
  /\ \/ core1 = "save" /\ core1' = "tell" /\ Save
     \/ core1 = "tell" /\ core1' = "receive" /\ Tell
  /\ act' = {}
  /\ UNCHANGED <<fingers, reports, evt, polled, prev, recent, pressed_at, fired,
                 outside, history>>

-----------------------------------------------------------------------------
(* Time, the wheel test and the end. *)

Older(age, most) == IF age = NULL \/ age = most THEN age ELSE age + 1

\* A second passes.  The pad has told of the buttons in time if its last report
\* is of this tick and of the buttons as they are.
Tick ==
  /\ core1 = "receive" /\ queue = NULL /\ polled /\ polled' = FALSE
  /\ restart \in {"off", "armed"}
  /\ restart' = IF restart = "armed" THEN "due" ELSE restart
  /\ gp_age' = Older(gp_age, Failsafe + 1)
  /\ pressed_at' = [h \in HoldAct |-> Older(pressed_at[h], Hold)]
  /\ recent' = {} /\ act' = {}
  /\ held' = [h \in HoldAct |->
                IF Trigger[h] \subseteq hands THEN Older(held[h], Hold) ELSE 0]
  /\ told' = IF gp_age = 0 /\ s_last_gp_evt = hands THEN Older(told, Hold) ELSE 0
  /\ fresh' = IF gp_age' = Failsafe + 1 THEN fresh \cup Down(hands) ELSE fresh
  /\ UNCHANGED <<fingers, s_gp_ready, s_bb_ready, s_last_gp_evt, x_prev, queue,
                 core1, evt, prev, fired, testing, late, storage>>

DebounceOver ==
  /\ \E b \in recent : recent' = recent \ {b}
  /\ act' = {}
  /\ UNCHANGED <<fingers, reports, core1, evt, polled, prev, pressed_at, fired,
                 outside, history, storage>>

\* Module Control has the wheel test.
TestEnds ==
  /\ testing /\ testing' = FALSE /\ act' = {}
  /\ UNCHANGED <<fingers, reports, input, restart, history, storage>>

\* delayed_restart_cb, 800 ms after the hold, beside core 1.
Wipe ==
  /\ \/ restart \in {"armed", "due"} /\ restart' = "erased" /\ EraseAll
     \/ restart = "erased" /\ restart' = "closed" /\ CloseHandle
  /\ act' = {}
  /\ UNCHANGED <<fingers, reports, input, testing, history>>

\* esp_restart at the end of the reset, or the power fails.
Reboot ==
  /\ Boot /\ Load
  /\ UNCHANGED <<fingers, held>>

Next ==
  \/ \E b \in player : Finger(b)
  \/ \E pad \in BOOLEAN : Ready(pad)
  \/ PadGone \/ BoardGone \/ PadReport \/ BoardReport
  \/ PollNothing \/ Receive \/ Serve \/ ChangeVolume
  \/ Tick \/ DebounceOver \/ TestEnds \/ Wipe \/ Reboot

Spec == Init /\ [][Next]_vars

-----------------------------------------------------------------------------
(* Properties *)

\* While a pad is connected a press acts at most once, and so does a hold: a board
\* beside it may overwrite its samples, but nothing is set off for which the
\* buttons were not pressed anew.  A button that is down when the pad comes back,
\* or after a silence beyond Failsafe, counts as pressed anew.  Of a pad that has
\* gone, what its last report said may act once more, and nothing else
\* (my_platform.c:675-683, 744, 753, 802, 1163).
PressActsOnce ==
  [][act' \subseteq IF s_gp_ready THEN fresh ELSE fresh \cup late]_vars

\* my_platform.c:675-676: the sample of a board that overwrites that of the pad
\* does not release an edge.
EdgesSurviveTheBoard == [][act' \subseteq fresh]_vars

\* While the pad tells of the buttons in time, a hold sets off its act only
\* after it has lasted for its time (my_platform.c:687-701, 800-812).
HoldsCount ==
  [][\A h \in act' \cap HoldAct : told = Hold => held[h] = Hold]_vars

\* What is heard is the volume in memory, and that is what the next restart
\* will load, wherever the power fails between the copy, the flash and the MP3
\* module and whatever a reset erases beside it; only a flash that refuses a
\* byte or has lost it is excused (rccar_storage.c:55-88, my_platform.c:770-795).
HeardIsStored ==
  /\ core1 \notin {"save", "tell"} => audible = s_volume
  /\ core1 # "save" /\ ~refused => s_volume = Loaded(nvs)

=============================================================================
