------------------------------- MODULE Sound --------------------------------
(***************************************************************************)
(* The sounds of a connection (main/my_platform.c), composed with the radio *)
(* work of module Link: the connect sound, which is two timers in a row      *)
(* (stop the player, play 100 ms later), and the background music that an    *)
(* idle driver hears after 30 s and then every 60 s.                        *)
(*                                                                          *)
(* Here the callbacks of a device that is ready or gone are not atomic: what *)
(* they do to the sound timers is a sequence of statements, between which a  *)
(* timer callback may run on the same core.  A timer callback tells the MP3  *)
(* module something and may have to wait for the UART (rccar_dfplayer.c:80); *)
(* the btstack thread may then run inside it.  Core 1, which resets the      *)
(* music when a sample shows activity, runs beside both.                    *)
(***************************************************************************)
EXTENDS Link, Sequences, SequencesExt

VARIABLES
  connect_sound_timer, connect_sound_play_timer, connected_idle_bgm_timer,
  todo,             \* what is left of the callback the btstack thread is in
  device,           \* the device that callback is about
  timer,            \* the esp_timer task is "out", or at the UART in connect_sound_cb
                    \* ("stop"), connect_sound_play_cb ("play") or
                    \* connected_idle_bgm_cb ("bgm")
  core1,            \* core 1 is outside connected_idle_bgm_reset, or where in it
  owed,             \* history: a connection has not been heard yet
  overtaken         \* history: the timers of the connect sound were stopped while
                    \* one of its callbacks was at the UART

timers == <<connect_sound_timer, connect_sound_play_timer, connected_idle_bgm_timer>>
sound == <<timers, todo, device, timer, core1, owed, overtaken>>
soundVars == <<vars, sound>>

connected_idle_bgm_reset == <<"stop bgm", "start bgm">>
\* Mutant: the second timer is stopped before the first.
StopPlayFirst == <<"stop play", "stop connect">>

stop_connect_sound == <<"stop connect", "stop play">>

\* Mutant: the music is reset before the connection is known.
ReadyResetsFirst ==
  stop_connect_sound \o <<"start connect">> \o connected_idle_bgm_reset \o <<"accept">>

\* on_device_ready.  What it does to the registry, the effect and the scan is in
\* "accept": no timer callback reads s_connected and the registry together.
on_device_ready ==
  stop_connect_sound \o <<"start connect", "accept">> \o connected_idle_bgm_reset

\* on_device_disconnected of the last device, after s_connected is lowered.
on_last_disconnected == stop_connect_sound \o connected_idle_bgm_reset

SoundTypeOK ==
  /\ TypeOK
  /\ connect_sound_timer \in BOOLEAN /\ connect_sound_play_timer \in BOOLEAN
  /\ connected_idle_bgm_timer \in BOOLEAN
  /\ todo \in Suffixes(on_device_ready) \cup Suffixes(on_last_disconnected)
  /\ device \in Real \cup {NULL}
  /\ timer \in {"out", "stop", "play", "bgm"} /\ core1 \in {"out", "look", "start"}
  /\ owed \in BOOLEAN /\ overtaken \in BOOLEAN

SoundInit ==
  /\ Init
  /\ connect_sound_timer = FALSE /\ connect_sound_play_timer = FALSE
  /\ connected_idle_bgm_timer = FALSE
  /\ todo = <<>> /\ device = NULL /\ timer = "out" /\ core1 = "out"
  /\ owed = FALSE /\ overtaken = FALSE

-----------------------------------------------------------------------------
(* The btstack thread. *)

Idle == todo = <<>>

DeviceConnected(d) == Idle /\ OnDeviceConnected(d) /\ UNCHANGED sound

DeviceReady(d) ==
  /\ Idle /\ d \in Real /\ link[d] = "up" /\ ~ready[d]
  /\ todo' = on_device_ready /\ device' = d
  /\ UNCHANGED <<vars, timers, timer, core1, owed, overtaken>>

\* A device that stays keeps the sounds as they are; so does a virtual one.
DeviceDisconnected(d) ==
  /\ Idle /\ OnDeviceDisconnected(d)
  /\ IF d \in Virtual \/ s_connected' THEN UNCHANGED <<todo, owed>>
     ELSE todo' = on_last_disconnected /\ owed' = FALSE
  /\ UNCHANGED <<timers, device, timer, core1, overtaken>>

\* One statement of the callback.  A timer that is armed is not started again
\* (esp_timer_start_once refuses).
Statement ==
  /\ todo # <<>> /\ todo' = Tail(todo)
  /\ LET s == Head(todo) IN
     /\ connect_sound_timer' =
          (s = "start connect" \/ (connect_sound_timer /\ s # "stop connect"))
     /\ connect_sound_play_timer' = (connect_sound_play_timer /\ s # "stop play")
     /\ connected_idle_bgm_timer' =
          \/ s = "start bgm" /\ s_connected
          \/ connected_idle_bgm_timer /\ s # "stop bgm"
     /\ IF s = "accept" THEN OnDeviceReady(device) /\ device' = NULL
        ELSE UNCHANGED <<vars, device>>
     /\ owed' = (owed \/ s = "start connect")
     /\ overtaken' = IF s = "stop play" THEN timer \in {"stop", "play"} ELSE overtaken
  /\ UNCHANGED <<timer, core1>>

LinkRequest == Idle /\ Request /\ UNCHANGED sound

-----------------------------------------------------------------------------
(* The esp_timer task, and core 1. *)

LinkTimer == timer = "out" /\ Timer /\ UNCHANGED sound

\* connect_sound_cb: it stops the player,
ConnectSound ==
  /\ timer = "out" /\ timer' = "stop"
  /\ connect_sound_timer /\ connect_sound_timer' = FALSE
  /\ UNCHANGED <<vars, connect_sound_play_timer, connected_idle_bgm_timer, todo,
                 device, core1, owed, overtaken>>

\* and starts the second timer again.
ConnectSoundArms ==
  /\ timer = "stop" /\ timer' = "out"
  /\ connect_sound_play_timer' = TRUE
  /\ UNCHANGED <<vars, connect_sound_timer, connected_idle_bgm_timer, todo, device,
                 core1, owed, overtaken>>

\* connect_sound_play_cb.
ConnectSoundPlay ==
  /\ timer = "out" /\ timer' = "play"
  /\ connect_sound_play_timer /\ connect_sound_play_timer' = FALSE
  /\ UNCHANGED <<vars, connect_sound_timer, connected_idle_bgm_timer, todo, device,
                 core1, owed, overtaken>>

\* The track is heard, for every device that is not to be announced again.
ConnectSoundHeard ==
  /\ timer = "play" /\ timer' = "out"
  /\ owed' = (owed /\ connect_sound_timer) /\ overtaken' = FALSE
  /\ UNCHANGED <<vars, timers, todo, device, core1>>

\* connected_idle_bgm_cb: it looks at s_connected,
BgmExpires ==
  /\ timer = "out" /\ timer' = IF s_connected THEN "bgm" ELSE "out"
  /\ connected_idle_bgm_timer /\ connected_idle_bgm_timer' = FALSE
  /\ UNCHANGED <<vars, connect_sound_timer, connect_sound_play_timer, todo, device,
                 core1, owed, overtaken>>

\* plays a track and starts its timer for the next one.
BgmAgain ==
  /\ timer = "bgm" /\ timer' = "out"
  /\ connected_idle_bgm_timer' = TRUE
  /\ UNCHANGED <<vars, connect_sound_timer, connect_sound_play_timer, todo, device,
                 core1, owed, overtaken>>

\* input_process_task has seen activity in a sample of a connected device.
ActivityStops ==
  /\ core1 = "out" /\ s_connected /\ core1' = "look"
  /\ connected_idle_bgm_timer' = FALSE
  /\ UNCHANGED <<vars, connect_sound_timer, connect_sound_play_timer, todo, device,
                 timer, owed, overtaken>>

ActivityLooks ==
  /\ core1 = "look" /\ core1' = IF s_connected THEN "start" ELSE "out"
  /\ UNCHANGED <<vars, timers, todo, device, timer, owed, overtaken>>

ActivityStarts ==
  /\ core1 = "start" /\ core1' = "out"
  /\ connected_idle_bgm_timer' = TRUE
  /\ UNCHANGED <<vars, connect_sound_timer, connect_sound_play_timer, todo, device,
                 timer, owed, overtaken>>

SoundNext ==
  \/ \E d \in Device : DeviceConnected(d) \/ DeviceReady(d) \/ DeviceDisconnected(d)
  \/ Statement \/ LinkRequest \/ LinkTimer
  \/ ConnectSound \/ ConnectSoundArms \/ ConnectSoundPlay \/ ConnectSoundHeard
  \/ BgmExpires \/ BgmAgain
  \/ ActivityStops \/ ActivityLooks \/ ActivityStarts

SoundSpec == SoundInit /\ [][SoundNext]_soundVars

\* A callback that has begun ends, and the timers of the music, which expire for
\* ever, keep neither the scan timer nor the btstack thread waiting for ever.
FairSoundSpec ==
  /\ SoundSpec
  /\ SF_soundVars(LinkTimer /\ ScanTimer) /\ SF_soundVars(LinkRequest /\ ScanRequest)
  /\ WF_soundVars(Statement)
  /\ WF_soundVars(ConnectSoundArms) /\ WF_soundVars(ConnectSoundHeard)
  /\ WF_soundVars(BgmAgain)

-----------------------------------------------------------------------------
\* The connect sound is on its way: before, inside or between its callbacks.
ConnectPending == connect_sound_timer
StopPending == timer = "stop"
PlayPending == connect_sound_play_timer \/ timer = "play"

\* Between the callbacks of the btstack thread a connection that has not been heard
\* is on its way to be, and the car it belongs to still has a controller.  The
\* other way round, what is on its way belongs to such a connection and is on its
\* way once: a device that connects meanwhile starts the wait again, so that one
\* sound announces both, and the last disconnect takes the sound back.  Unless
\* they stop the timers while one of the two callbacks is at the UART: that one
\* goes on.  A sound that is heard already is cut and played again for the next
\* device (my_platform.c:311-323, 1069-1073, 1119-1123; README.md:137).
ConnectSoundPlanned ==
  todo = <<>> =>
    /\ owed => s_connected /\ (ConnectPending \/ StopPending \/ PlayPending)
    /\ ~overtaken =>
         /\ ConnectPending \/ StopPending \/ PlayPending => owed
         /\ ~(ConnectPending /\ StopPending)
         /\ ~(ConnectPending /\ PlayPending) /\ ~(StopPending /\ PlayPending)

\* While a controller is connected the music always has somebody who brings it:
\* its timer, the callback that starts it again, or one of the two threads that
\* are resetting it, whichever of them is where (my_platform.c:265-292, 1126,
\* 1146).
MusicGoesOn ==
  s_connected =>
    connected_idle_bgm_timer \/ timer = "bgm" \/ core1 # "out" \/ todo # <<>>
=============================================================================
