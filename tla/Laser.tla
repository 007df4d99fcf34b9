------------------------------- MODULE Laser --------------------------------
(***************************************************************************)
(* The two gun LEDs (components/rccar/rccar_laser.c).  Core 1 fires and      *)
(* stops them (buttons, exhibit, failsafe), the btstack thread stops them   *)
(* when the last controller goes, and the esp_timer task runs the three     *)
(* timer callbacks.  s_gatling_on is neither volatile nor locked.            *)
(***************************************************************************)
EXTENDS Threads

VARIABLES
  off, blink, end,  \* s_led_off_timer, s_gatling_blink_timer, s_gatling_stop_timer armed
  laser, gatling,   \* the LEDs are lit
  s_gatling_on,
  held,             \* gatling_blink_cb's copy of s_gatling_on
  raced             \* history: since the gatling was dark with nobody at it,
                    \* the two cores have been at it together

timers == <<off, blink, end>>
leds == <<laser, gatling>>
gunVars == <<todo, timers, leds, s_gatling_on, held, raced>>

cancel_cannon == <<"stop off">>
cancel_gatling == <<"stop blink", "stop end", "on = false">>

\* Mutant: the LED is switched off before its timer is stopped.
StopLedFirst == <<"laser off", "gatling off">> \o cancel_cannon \o cancel_gatling
\* Mutant: a shot does not restart the timer of the one before.
FireWithoutTimer == cancel_cannon \o <<"laser on">>

rccar_laser_fire == cancel_cannon \o <<"laser on", "start off">>
rccar_laser_gatling ==
  cancel_gatling \o <<"on = true", "gatling on", "start blink", "start end">>
rccar_laser_stop == cancel_cannon \o cancel_gatling \o <<"laser off", "gatling off">>

led_off_timer_cb == <<"laser off">>
gatling_blink_cb == <<"load on", "store on", "gatling = on">>
gatling_stop_cb == cancel_gatling \o <<"gatling off">>

\* What each actor runs.
GunFunction == [
  core1 |-> {rccar_laser_fire, rccar_laser_gatling, rccar_laser_stop},
  btstack |-> {rccar_laser_stop},
  timer |-> {led_off_timer_cb, gatling_blink_cb, gatling_stop_cb}]

\* An actor is inside one of its own functions, or between two.
GunTypeOK ==
  /\ \A a \in Actor : \E f \in GunFunction[a] : todo[a] \in Suffixes(f)
  /\ off \in BOOLEAN /\ blink \in BOOLEAN /\ end \in BOOLEAN
  /\ laser \in BOOLEAN /\ gatling \in BOOLEAN
  /\ s_gatling_on \in BOOLEAN /\ held \in BOOLEAN /\ raced \in BOOLEAN

GunInit ==
  /\ todo = Quiet
  /\ off = FALSE /\ blink = FALSE /\ end = FALSE
  /\ laser = FALSE /\ gatling = FALSE
  /\ s_gatling_on = FALSE /\ held = FALSE /\ raced = FALSE

\* Core 1 and the btstack thread call.
Call ==
  /\ \E a \in {"core1", "btstack"} : \E f \in GunFunction[a] : Calls(a, f)
  /\ UNCHANGED <<timers, leds, s_gatling_on, held>>

\* A timer expires; the periodic one stays armed.
OffExpires ==
  /\ off /\ off' = FALSE /\ Calls("timer", led_off_timer_cb)
  /\ UNCHANGED <<blink, end, leds, s_gatling_on, held>>

BlinkExpires ==
  /\ blink /\ Calls("timer", gatling_blink_cb)
  /\ UNCHANGED <<timers, leds, s_gatling_on, held>>

EndExpires ==
  /\ end /\ end' = FALSE /\ Calls("timer", gatling_stop_cb)
  /\ UNCHANGED <<off, blink, leds, s_gatling_on, held>>

\* The effect of statement s.  The copy of s_gatling_on that is written to the
\* LED may be the register or a new read of the variable.
GunEffect(s) ==
  /\ off' = CASE s = "stop off" -> FALSE [] s = "start off" -> TRUE [] OTHER -> off
  /\ blink' = CASE s = "stop blink" -> FALSE [] s = "start blink" -> TRUE [] OTHER -> blink
  /\ end' = CASE s = "stop end" -> FALSE [] s = "start end" -> TRUE [] OTHER -> end
  /\ laser' = CASE s = "laser on" -> TRUE [] s = "laser off" -> FALSE [] OTHER -> laser
  /\ s_gatling_on' = CASE s = "on = true" -> TRUE [] s = "on = false" -> FALSE
                       [] s = "store on" -> held [] OTHER -> s_gatling_on
  /\ held' = IF s = "load on" THEN ~s_gatling_on ELSE held
  /\ gatling' \in CASE s = "gatling on" -> {TRUE} [] s = "gatling off" -> {FALSE}
                    [] s = "gatling = on" -> {held, s_gatling_on} [] OTHER -> {gatling}

\* One statement of actor a.
GunStep(a) ==
  /\ Runs(a)
  /\ todo' = [todo EXCEPT ![a] = Tail(@)]
  /\ GunEffect(Head(todo[a]))

Expire == OffExpires \/ BlinkExpires \/ EndExpires

\* Core 1 and core 0 are in functions of the gatling at the same time.
Together ==
  /\ Owes("core1", "start end") \/ Owes("core1", "gatling off")
  /\ \/ Owes("btstack", "gatling off") \/ Owes("timer", "gatling off")
     \/ Owes("timer", "gatling = on")

Dark == ~gatling /\ ~blink /\ ~end /\ todo = Quiet

GunNext ==
  /\ Call \/ Expire \/ \E a \in Actor : GunStep(a)
  /\ raced' = (Together' \/ (raced /\ ~Dark'))

GunSpec == GunInit /\ [][GunNext]_gunVars

-----------------------------------------------------------------------------
\* A lit laser always has somebody who will put it out: its timer, core 1 about
\* to arm that timer, or a thread that is about to switch it off, whichever of
\* the three threads is where (rccar_laser.h: "lit at once, kept 1.2 s").
LaserGoesOut ==
  laser => off \/ Owes("core1", "start off") \/ \E a \in Actor : Owes(a, "laser off")

\* The same of the gatling (rccar_laser.h:19, "gatling blinking, about 0.5 s"),
\* unless core 1 begins or ends a burst while core 0 is ending one or blinks: what
\* core 0 does then stops the timers of a burst that is not its own, or lights the
\* LED with a copy of s_gatling_on that is no longer true (rccar_laser.c:48-75).
\* Bursts in a row, and a timer callback inside a stop of the btstack thread, are
\* covered: one core at a time, the order of the stops is enough.
BurstGoesOut ==
  (gatling \/ blink) /\ ~raced =>
    end \/ Owes("core1", "start end") \/ \E a \in Actor : Owes(a, "gatling off")
=============================================================================
