-------------------------------- MODULE Mist --------------------------------
(***************************************************************************)
(* The humidifier and the LED strip that shows its mist (components/rccar/   *)
(* rccar_humidifier.c, rccar_neopixel.c).  Three threads switch it: core 1   *)
(* (the exhaust puff when the car starts, the MIST act of the exhibit, the   *)
(* failsafe), the btstack thread when the last controller goes, and the     *)
(* esp_timer task, which puffs half a second after X and ends a puff.  The   *)
(* strip has a lock that nobody holds long, so its functions are one step    *)
(* each; the humidifier has none.                                           *)
(* The engine effect of the strip is left out: nothing in main/ turns it on. *)
(***************************************************************************)
EXTENDS Threads

VARIABLES
  s_connected,
  s_on, pin,     \* the humidifier: the flag and the GPIO level
  restore, x,    \* s_restore_timer and humidifier_pulse_timer armed
  acting,        \* core 1 has begun the MIST act and not ended it
  s_mist, anim,  \* the strip: mist wanted, s_anim_timer active
  rmt,           \* "busy" while a frame is being sent
  strip          \* the last frame that was sent: "mist" or "dark"

humidifier == <<s_on, pin, restore, x>>
neopixel == <<s_mist, anim, rmt, strip>>
vars == <<todo, s_connected, humidifier, acting, neopixel>>

\* "test v" skips the two accesses that follow it when s_on is v already.
On == <<"test on", "on = true", "pin high", "mist on">>
Off == <<"test off", "on = false", "pin low", "mist off">>

\* Mutant: the timer is started before the humidifier.
PulseStartFirst == <<"stop restore", "start restore">> \o On

pulse_on_ms == <<"stop restore">> \o On \o <<"start restore">>

restore_timer_cb == Off
humidifier_pulse_cb == pulse_on_ms
anim_timer_cb == <<"frame">>

handle_x_button_press == <<"stop x", "start x">>
on_device_disconnected == <<"disconnect", "stop x">> \o Off

Function == [
  core1 |-> {pulse_on_ms, On, Off},
  btstack |-> {handle_x_button_press, on_device_disconnected, <<"connect">>},
  timer |-> {restore_timer_cb, humidifier_pulse_cb, anim_timer_cb}]

TypeOK ==
  /\ \A a \in Actor : \E f \in Function[a] : todo[a] \in Suffixes(f)
  /\ s_connected \in BOOLEAN /\ s_on \in BOOLEAN /\ pin \in BOOLEAN
  /\ restore \in BOOLEAN /\ x \in BOOLEAN /\ acting \in BOOLEAN
  /\ s_mist \in BOOLEAN /\ anim \in BOOLEAN
  /\ rmt \in {"idle", "busy"} /\ strip \in {"mist", "dark"}

Init ==
  /\ todo = Quiet
  /\ s_connected = FALSE
  /\ s_on = FALSE /\ pin = FALSE /\ restore = FALSE /\ x = FALSE
  /\ acting = FALSE
  /\ s_mist = FALSE /\ anim = FALSE /\ rmt = "idle" /\ strip = "dark"

-----------------------------------------------------------------------------
(* Who calls what, and when. *)

\* A device that never became ready also goes through the disconnect handler.
BtCalls ==
  /\ \/ s_connected /\ Calls("btstack", handle_x_button_press)
     \/ Calls("btstack", on_device_disconnected)
     \/ ~s_connected /\ Calls("btstack", <<"connect">>)
  /\ UNCHANGED <<s_connected, humidifier, acting, neopixel>>

\* Core 1 drives while it sees the connection and acts while it does not; an
\* act that has begun is ended, by its time or by the abort, before it drives.
Core1Calls ==
  /\ \/ ~acting /\ s_connected /\ Calls("core1", pulse_on_ms) /\ UNCHANGED acting
     \/ ~acting /\ s_connected /\ Calls("core1", Off) /\ UNCHANGED acting
     \/ ~acting /\ ~s_connected /\ Calls("core1", On) /\ acting' = TRUE
     \/ acting /\ Calls("core1", Off) /\ acting' = FALSE
  /\ UNCHANGED <<s_connected, humidifier, neopixel>>

RestoreExpires ==
  /\ restore /\ restore' = FALSE /\ Calls("timer", restore_timer_cb)
  /\ UNCHANGED <<s_connected, s_on, pin, x, acting, neopixel>>

XExpires ==
  /\ x /\ x' = FALSE /\ Calls("timer", humidifier_pulse_cb)
  /\ UNCHANGED <<s_connected, s_on, pin, restore, acting, neopixel>>

AnimExpires ==
  /\ anim /\ Calls("timer", anim_timer_cb)
  /\ UNCHANGED <<s_connected, humidifier, acting, neopixel>>

RmtDone ==
  /\ rmt = "busy" /\ rmt' = "idle"
  /\ UNCHANGED <<todo, s_connected, humidifier, acting, s_mist, anim, strip>>

-----------------------------------------------------------------------------
(* What a statement does. *)

\* A frame is dropped while the one before is being sent.
flush_pixels(frame) ==
  /\ rmt' = "busy"
  /\ strip' = IF rmt = "idle" THEN frame ELSE strip

\* Mutant: the flag is set and the animation is not started.
MistOnUnsent == s_mist' = TRUE /\ UNCHANGED <<anim, rmt, strip>>

\* The strip is sent a frame, and another one at once: the second is dropped
\* unless the frame that delayed the first has ended meanwhile.
mist_on ==
  /\ s_mist' = TRUE /\ anim' = TRUE /\ rmt' = "busy"
  /\ strip' \in IF rmt = "idle" THEN {"mist"} ELSE {strip, "mist"}

mist_off ==
  /\ s_mist' = FALSE /\ anim' = FALSE
  /\ IF s_mist /\ anim THEN flush_pixels("dark") ELSE UNCHANGED <<rmt, strip>>

frame ==
  /\ UNCHANGED <<s_mist, anim>>
  /\ IF s_mist THEN flush_pixels("mist") ELSE UNCHANGED <<rmt, strip>>

Strip(s) ==
  CASE s = "mist on" -> mist_on
    [] s = "mist off" -> mist_off
    [] s = "frame" -> frame
    [] OTHER -> UNCHANGED neopixel

Set(s, yes, no, v) == CASE s = yes -> TRUE [] s = no -> FALSE [] OTHER -> v

Effect(s) ==
  /\ s_connected' = Set(s, "connect", "disconnect", s_connected)
  /\ s_on' = Set(s, "on = true", "on = false", s_on)
  /\ pin' = Set(s, "pin high", "pin low", pin)
  /\ restore' = Set(s, "start restore", "stop restore", restore)
  /\ x' = Set(s, "start x", "stop x", x)
  /\ Strip(s)

\* Only "test" branches.
Rest(f) ==
  IF Head(f) = (IF s_on THEN "test on" ELSE "test off")
  THEN SubSeq(f, 4, Len(f)) ELSE Tail(f)

\* A callback may wait where it logs, plays a track or takes the strip's lock, and
\* the btstack thread runs meanwhile.
timer_waits ==
  todo["timer"] # <<>> => Head(todo["timer"]) \in {"test on", "mist on", "mist off", "frame"}

Step(a) ==
  /\ todo[a] # <<>> /\ (a = "btstack" => timer_waits)
  /\ todo' = [todo EXCEPT ![a] = Rest(@)]
  /\ Effect(Head(todo[a]))
  /\ UNCHANGED acting

Next ==
  \/ BtCalls \/ Core1Calls
  \/ RestoreExpires \/ XExpires \/ AnimExpires \/ RmtDone
  \/ \E a \in Actor : Step(a)

Spec == Init /\ [][Next]_vars

-----------------------------------------------------------------------------
(* Properties *)

\* The puff's timer is armed or will be, or the MIST act is on.
Watched ==
  restore \/ acting \/ \E a \in Actor : Owes(a, "start restore")

\* A humidifier that believes itself on has somebody who will end it,
\* whichever thread is where (rccar_humidifier.h:22-25: on for on_ms, then
\* off): its timer, a thread about to arm it, the act, or a thread in set(off).
PuffEnds == s_on => Watched \/ \E a \in Actor : Owes(a, "on = false")

\* A mist that lasts is seen, whatever frames are dropped
\* (rccar_neopixel.c:46-49, 275-280).
MistShows == s_mist ~> strip = "mist" \/ ~s_mist

\* README.md:24: when the connection ends the humidifier is off.
DryWhenAlone == ~s_connected /\ todo = Quiet /\ ~restore /\ ~acting => ~pin

=============================================================================
