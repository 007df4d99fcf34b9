# nutcracker-idf: the models

nutcracker-idf is the firmware of a remote-controlled car on an ESP32: four
mecanum wheels and a turret driven through MCPWM, two gun LEDs, a humidifier
for smoke, an LED strip, a headlight, a radar servo and an MP3 module. It is
driven with Bluetooth gamepads, or with a Wii Balance Board to stand on; while
nothing is connected it runs a display of its own ("exhibit").
The application is `main/my_platform.c` and `components/rccar/`; everything
else under `components/` is third party.

This directory holds TLA+ modules of the application, the configurations with
which TLC checks them, and proofs for TLAPS. Paths and line numbers below are
relative to the repository; `PROJECT.json` maps every definition to the lines
it stands for.

## 1. The system

### Threads

| thread | core | priority | what it runs |
|---|---|---|---|
| btstack run loop | 0 | 1 | the platform callbacks of Bluepad32 (`my_platform.c:1005-1198`) and the requests that other threads post to it |
| radar_sweep_task | 0 | 3 | the radar servo (`rccar_radar.c:197-256`) |
| esp_timer task | 0 | 22 | every one-shot and periodic timer callback, one after the other |
| input_process_task | 1 | 5 | `my_platform.c:592-817`: one pass per sample or per 50 ms |
| wheel_test_task | 1 | 5 | created by a hold of L1+R1 (`rccar_motor.c:425-457`) |

Core 1 runs in parallel with core 0. On core 0 a thread of higher priority
preempts a lower one, so a timer callback or the radar task finds the btstack
thread anywhere in a handler. The other way round only where a callback waits
for a lock: those of the UART (a command to the MP3 module, a log) and of the LED
strip; the btstack thread may then run inside it. Apart from these, from the lock
of the motors and from the queue of one slot (`input_queue`, overwritten), the
threads share plain and `volatile` variables without a lock. That is where
this code is hard: the interesting states are between two statements.

### Components

| component | state | operations | must hold |
|---|---|---|---|
| controller registry (`my_platform.c`) | `ready` marks, `s_ready_count`, `s_bb_device`, `s_gp_device`, `s_connected` | on_device_connected, ready, disconnected | the flag says whether a device is ready, in any order of callbacks |
| driving (`my_platform.c`, `rccar_motor.c`) | queue, `failsafe_active`, `exhibit_running`, wheel test flags, motors | samples, failsafe, wheel test, all stop | nothing drives an unconnected car for long; nobody leaves wheels or turret on |
| steering (`my_platform.c:426-539`, `rccar_drive.c`, duty of `rccar_motor.c`) | last pad report, board filter and axes, compare values | pad and board reports | a command stays in range, keeps its proportions, has no preferred way and does not creep |
| display (`rccar_exhibit.c`) | phase, its end, gun state | begin, tick, abort | nine acts in order; what an act switched on ends with it |
| scan, connect effect, keep-alive (`my_platform.c:327-424`) | three timers, two mailboxes, the external scan | timer callbacks, posted requests | the car keeps looking for controllers; no request names a dead device |
| gun LEDs (`rccar_laser.c`) | LEDs, three timers, blink flag | fire, gatling, stop | what is lit goes out |
| radar (`rccar_radar.c`) | sweep phase, angles, start delay | set_moving, set_enabled, toggle, exhibit_begin | full sweeps only, none at the wrong time, off is without PWM |
| humidifier (`rccar_humidifier.c`) | flag, pin, restore timer | set, pulse | a puff ends |
| LED strip (`rccar_neopixel.c`) | mist, engine, animation timer, RMT channel | humidifier on and off, engine | what is wanted is shown |
| sound (`rccar_dfplayer.c`, `my_platform.c:266-325`) | resume track, four timers | play, loop, connect sound, background music | the right track for the state of the connection |
| buttons (`my_platform.c:744-815`, 1151-1170) | edges, debounce and hold times | volume, radar, lights, guns, factory reset | one press of a connected pad acts once, a hold is a hold |
| storage (`rccar_storage.c`) | one byte in NVS, a cached copy | load, save, erase and restart | the stored volume is the one last set |

External: Bluepad32 (a submodule, not in the tree) decides which platform
callbacks come; BTstack (vendored) queues a request that is posted twice only
once (`btstack_run_loop_freertos.c:154-215`). They are modelled by how the
application uses them.

### How the components interact

on_controller_data overwrites the queue slot; core 1 takes the sample, looks at
`s_connected`, drives, and tells the radar whether the car moves. on_device_ready
and on_device_disconnected write the registry, then `s_connected`, then stop
motors and effects themselves, while core 1 may be in the middle of a pass.
Without a connection core 1 runs the display, which uses the outputs of all the
others and asks for a connection before each. The esp_timer task ends shots,
bursts and puffs, and hands radio work back to the btstack thread by posted
requests that read a mailbox variable.

## 2. The modules

| module | models | composed of |
|---|---|---|
| `Registry` | the controllers the car holds, and the books kept of them | used by `Control`, `Link` and `Sound` |
| `Control` | who turns wheels and turret: btstack thread, input task and wheel test, access by access | EXTENDS `Registry` |
| `Show` | abstract: a display is nine acts in order, with a turret that alternates | |
| `Exhibit` | the display with the milliseconds of the source, against a btstack thread | implements `Show` |
| `Link` | scan restart, connect effect, keep-alive: timers, mailboxes and posted requests | EXTENDS `Registry` |
| `Sound` | connect sound and background music, with the handlers cut into statements that timer callbacks interrupt | EXTENDS `Link` and implements it |
| `Threads` | functions as the sequences of their accesses, and the threads that are inside them | used by `Laser` and `Mist` |
| `Laser` | gun LEDs and their three timers, statement by statement | EXTENDS `Threads` |
| `Radar` | the sweep task and its callers, with a driver that may fail | |
| `Drive` | arithmetic of the drive train as operators | used by `Steering` |
| `Steering` | from a report of pad or board to the wheels and their duty | EXTENDS `Drive` |
| `Mist` | humidifier and LED strip under three threads | EXTENDS `Threads` |
| `Storage` | the volume, its byte in flash and the MP3 module, operation by operation | used by `Buttons` |
| `Buttons` | from fingers to acts: reports, edges, debounce, holds, volume, factory reset, power cuts | EXTENDS `Storage` |
| `MC...` | instances for TLC; `MCThreads` has the guns and the humidifier, one at a time, in one run | |
| `RegistryProofs`, `ControlProofs`, `SoundProofs` (with `Link`), `RadarProofs`, `SteeringProofs`, `ButtonsProofs`, `ExhibitProofs`, `ThreadsProofs` (`Laser` and `Mist`) | theorems | |

**How state and actions correspond to the code.** A module uses the source's
names for variables and functions where it can. A "program counter" (`bt`,
`core1`, `wt` in `Control`; `task`, `call` in `Radar`) names the next access to
shared state of a thread; what a thread does between two such accesses is one
action. `Laser` and `Mist` write a function as the sequence of its accesses,
and the state of a thread is what is left of the sequence; `Threads` holds what
the two share (`Calls` begins a function, `Runs` is a thread at a given access,
`Owes` says that an access is still ahead of it). Variables that
exist for the properties only are marked "history". Definitions marked
"Mutant" are plausible mistakes in the definition that follows them: the
properties are shown to notice them.

*Control.* `s_connected` is looked at three times in a pass of core 1
(617, 639, 659), each look an action of its own: `GateOpen`/`GateShut`, `Ask`,
`Recheck`. Between any two the btstack thread may run a whole handler. The
failsafe is four writes, by whichever thread calls it (`BtStops`, `Core1Stops`).
A sample carries only its kind; whether it is fresh, pushes a stick or completes
a hold is chosen, so the model has every timing of the input.

*Exhibit.* Time passes between two ticks (`Polls` milliseconds), `left` and
`gun` are the distances to the source's deadlines. The question
`is_connected()` and the output that follows are two steps.

*Link.* A timer callback that posts a request sets a flag; the request runs as a
later action of the btstack thread and reads the mailbox then.

*Sound.* What on_device_ready and the last disconnect do to the sound timers is
a sequence of statements (`todo`), and timer callbacks run between any two of
them. The callbacks of these timers tell the MP3 module something and may wait
for the UART (`timer` is then at "stop", "play" or "bgm"), so that each is two steps
and a handler may run inside it; core 1, which resets the music, runs beside
both. Whether a track is still sounding is not kept: a second device cuts the
connect sound of the first and plays it again, as the repository's README.md:137
says, and the model follows the timers and callbacks that lead there. Everything
else a handler does is the
atomic action of `Link`, so every step of `Sound` is a step of `Link` or leaves
its variables alone.

*Buttons.* A tick is a second. A finger presses or releases, the pad reports or
does not, the board reports beside it into the same queue slot, core 1 polls at
least once a tick; debounce times are shorter than a tick and pass at the latest
with it. Callbacks are atomic here (`Control` has their interleavings), but a
change of the volume is three steps (copy, flash, MP3 module) and the factory
reset two (erase, close), with a power cut possible between any of them. The
flash may refuse a byte, lose its content at a start, or hold a byte out of range.

*Radar.* Time and angle are counted in updates of the task; the three
variables that callers write and the task reads are written one at a time. The
btstack thread moves only while the task sleeps, core 1 at any time.

*Steering.* One action is a report together with the drive command that
input_process_task makes of it. C's division truncates (`CDiv`), and the
constants are those of the source.

*Mist.* The humidifier has no lock, so "flag" and "pin" are two accesses; the
strip has one, and its functions are atomic. A callback that logs, plays a track
or takes that lock may wait there, and the btstack thread then runs inside it
(`timer_waits`); the callbacks of the guns in `Laser` wait for nothing. A frame is
dropped while the last one is under way.

## 3. The runs

| run | checks | what it shows |
|---|---|---|
| `control` | TypeOK, ConnectionMatchesBooks, ExhibitNeverDrives, TurretGivenBack, NoSampleWaits, TestCleansUp, WheelsStopWhenAlone | in every interleaving of the three threads the flag agrees with the books, the display holds the wheels and gives the turret back, no queued sample survives its connection (one that core 1 has taken may), no wheel is left spinning; an unconnected car comes to rest |
| `control_cancel` | FailsafeStopsTest (violated) | a cancel of the wheel test is lost, see section 6 |
| `exhibit` | TypeOK, NothingLeftOn, ShotsAreHeard, PlaysTheShow, ShowGoesOn | the display with its real times is the nine-act show and cleans up wherever it is interrupted |
| `exhibit_mist` | ShowUndisturbed (violated) | section 6 |
| `sound` | SoundTypeOK, ScanPlanned, MailboxesAlive, PadKeptAlive, ConnectSoundPlanned, MusicGoesOn, ScanResumes | the car is never deaf, no mailbox names a dead device, the newest pad is kept alive; a connection that was not heard is on its way to be, once and for nobody else, unless a callback was overtaken at the UART; no order of callbacks and activity loses the music |
| `threads` | ThreadsTypeOK, LaserGoesOut, BurstGoesOut, PuffEnds, MistShows | a lit laser always has somebody who puts it out, and so has a burst of the gatling unless the two cores are at it together; a humidifier that believes itself on is always about to be ended, and a lasting mist is seen |
| `radar` | TypeOK, TurnsOnlyAtEnds, SweepFinishes, SweepsGoOn | full sweeps, also after refusals of the driver; sweeping resumes |
| `radar_drive` | NeverStartsDriving (violated) | section 6 |
| `steering` | TypeOK, ScaledNotClipped, MirrorImage, NoCreep, TurnsWhenTold, BoardStopsAgree, BoardCalmsDown | the numbers between stick, board and motor; under a rider who stands still the board's filter calms down to a gram a report |
| `mist_pin` | DryWhenAlone (violated) | section 6 |
| `buttons` | TypeOK, PressActsOnce, HoldsCount, HeardIsStored | beside a board a press of a connected pad acts once, a hold that is reported lasts for its time, the next start loads the volume that is heard |
| `buttons_edge` | EdgesSurviveTheBoard (violated) | section 6 |

### Bounds, and why they are enough

- `control`: one pad, one board, one virtual child and two slots, a wheel test
  of one run. First and second ready, first and last disconnect, a disconnect
  that leaves another device, a device that never becomes ready and a child all
  occur. Two devices of a kind differ from one only in the pointer, and the
  pointer's invariant is proved for any number. The loop of the wheel test has
  the same accesses in each of its eight runs.
- `sound`: three pads, one of which keeps its link alive itself, a board and a
  child, two slots as in `sdkconfig.defaults:23`. The scan logic compares the
  count with the limit only; three pads let one be replaced while another stays.
- `exhibit`: a poll takes 50 ms, or 100 ms when late; the phases have their
  lengths of the source in milliseconds, with all four tracks. A phase ends at
  the first poll after its deadline, so two distances between polls give
  deadlines met exactly, missed by part of a poll and missed by a whole one.
- `radar`: a sweep of two updates, rests of two and a start delay of three, an
  update that may be late by one, one refusal of the driver. Two updates are the
  shortest sweep with a middle, which is where off, stop and refusal bite.
- `steering`: the source's constants. Six values per axis: the two ends, the
  rest, one inside the dead zone but beyond the gate, the first beyond the dead
  zone, and one whose products do not divide. Four weights per corner: none,
  one under Bluepad32's idle threshold, one under which the filter has no value
  that stays (8427 mod 28 = 27), and one that drives an axis to its end.
  All positions of the sticks are reached without a rider; while there is one the
  pad is held forward, which is enough to tell who drives, and the rider shifts
  or steps off three times; he may stand still for any number of reports.
- `buttons`: a hold of two ticks and a failsafe of one, so that a silence can be
  stale before a hold is over, as it can in the source (3 s and 0.5 s). Four
  movements of fingers let a hold be taken up, let go, taken up again, or a
  button be pressed twice. A player uses one pair of buttons, since two pairs
  meet in SELECT and in the volume only, and those pairs are there. Three
  volumes have both ends and a middle, which is the default.
- `threads`: nothing is bounded; a thread is in one call at a time and every timer
  is armed or not. The guns and the humidifier share the threads and no variable,
  so a run is busy with one of them.

Every property has a mutant in `PROJECT.json`: one definition of the model
changed the way a mistake in that code would change it, under which the same run
finds the property violated.

### Fairness

- `control`: a handler of the btstack thread that has begun ends, and both
  tasks of core 1 keep running (they block with timeouts and are of equal
  priority, and FreeRTOS slices time between them). Nothing obliges a
  controller to connect, to report or to go.
- `exhibit`: input_process_task polls for ever, a handler that has begun ends.
- `sound`: a handler that has begun goes on, and so does a timer callback that has
  begun: nobody holds the UART for ever. The scan timer, once armed, expires, and
  the run loop gets to the scan request it posts, both strongly fair: each waits
  for the callbacks of the other timers, of which the music comes for ever, and
  both are served in the order of their times.
- `radar`: the sweep task runs, and a call that has begun ends.
- `threads`: every thread that is in a function of the humidifier goes on, strongly fair since a
  callback on core 0 may suspend the btstack thread again and again; the
  animation timer keeps expiring, and a frame under way ends.
- the guns of `threads`, `steering`, `buttons`: safety only, no fairness.

## 4. What is proved

TLAPS checks, for every value of the constants that satisfies the named
assumptions of the modules (sets of controllers are finite and disjoint, NULL
is none of them and no set of buttons, the limit is positive; the default volume
is in its range; for the drive train the least speed is at least one tick):

| theorem | statement |
|---|---|
| `ControlProofs!TypeCorrect` | Spec => []TypeOK |
| `ControlProofs!ConnectionCorrect` | Spec => []ConnectionMatchesBooks |
| `ControlProofs!TurretReturned` | Spec => []TurretGivenBack |
| `ControlProofs!ExhibitStands` | Spec => []ExhibitNeverDrives |
| `ControlProofs!TestLeavesNoWheel` | Spec => []TestCleansUp |
| `ControlProofs!CancelHolds` | Spec => CancelSticks |
| `ControlProofs!QueueIsEmptied` | Spec => []NoSampleWaits |
| `SoundProofs!NeverDeaf` | Spec => []ScanPlanned |
| `SoundProofs!MailboxesNeverStale` | Spec => []MailboxesAlive |
| `SoundProofs!NewestPadKeptAlive` | Spec => []PadKeptAlive |
| `SoundProofs!SoundImplementsLink` | SoundSpec => Spec of `Link` |
| `SoundProofs!SoundNeverDeaf` | SoundSpec => []ScanPlanned |
| `SoundProofs!ConnectSoundAsPlanned` | SoundSpec => []ConnectSoundPlanned |
| `SoundProofs!MusicNeverLost` | SoundSpec => []MusicGoesOn |
| `SoundProofs!SoundTyped` | SoundSpec => []SoundTypeOK |
| `ButtonsProofs!ButtonsTyped` | Spec => []TypeOK |
| `ButtonsProofs!OnePressOneAct` | Spec => []PressActsOnce |
| `ButtonsProofs!HoldsAreTimed` | Spec => []HoldsCount |
| `ButtonsProofs!VolumeSurvives` | Spec => []HeardIsStored |
| `ExhibitProofs!TypeCorrect` | Spec => []TypeOK |
| `ExhibitProofs!EverythingGoesOff` | Spec => []NothingLeftOn |
| `ExhibitProofs!EveryShotIsHeard` | Spec => []ShotsAreHeard |
| `ExhibitProofs!DisplayIsTheShow` | Spec => PlaysTheShow: the display implements `Show` |
| `RadarProofs!ServoInRange` | Spec => []TypeOK: the servo stays between its two ends |
| `RadarProofs!FullSweeps` | Spec => TurnsOnlyAtEnds |
| `SteeringProofs!SteeringFits` | Spec => []TypeOK: no wheel command beyond full speed, no compare value beyond the period |
| `SteeringProofs!WheelsTurnWhenTold` | Spec => []TurnsWhenTold |
| `SteeringProofs!SticksAtRest` | Spec => []NoCreep |
| `SteeringProofs!OneAnswer` | Spec => []BoardStopsAgree |
| `SteeringProofs!EmptyBoardIsStill` | Spec => []EmptyBoardRests |
| `SteeringProofs!ScalingKeepsTheWay` | Spec => []ScaledNotClipped |
| `SteeringProofs!NoPreferredWay` | Spec => []MirrorImage |
| `SteeringProofs!StandingRiderIsCalm` | Spec => BoardCalmsDown: for any weights |
| `ThreadsProofs!GunsTyped` | GunSpec => []GunTypeOK |
| `ThreadsProofs!LaserNeverStays` | GunSpec => []LaserGoesOut |
| `ThreadsProofs!BurstNeverStays` | GunSpec => []BurstGoesOut |
| `ThreadsProofs!MistTyped` | Spec of `Mist` => []TypeOK |
| `ThreadsProofs!EveryPuffEnds` | Spec of `Mist` => []PuffEnds |

*Arguments.* The books: `RegistryProofs` shows that connecting, accepting and
forgetting a device keep `RegistryConsistent` (the count is the cardinality of
the ready devices), which both machines inherit. The flag is not inductive
alone: between the books and the flag a handler is in one of two windows
("drop", "first"), and `FlagInv` says what the handler already knows there.
`TurretInv` adds that the command in core 1's hands is never a command of the
display. `DriveInv` says where core 1 can be while a late sample is in force:
before the first tick, or while the connection that interrupted the tick has
still to stop the wheels. `NeverDeaf` is inductive only together with the books,
for a disconnect can free a slot exactly when it lowers the count. `SoundProofs`
first shows that every step of `Sound` is a step of `Link` or leaves it alone,
which brings the invariants of `Link` over; `Phase` then says for each statement
a handler has left where the connect sound may be and what is owed (after the
second stop, nothing is on its way but what was overtaken there), `Alone` that the
second callback never runs while its own timer is armed, and `Flag` that
between the books and the flag of a handler the count and `s_connected` agree.
`VInv` of `ButtonsProofs` is HeardIsStored with the one fact it needs of the
steps between copy and flash: nobody but core 1 writes the copy. In
`ExhibitProofs` a tick belongs to a running display and an output is reached
only in a phase that gives it again or is over (`TickInv`); the deadline of a
shot's sound never lies behind that of its phase and is looked at first
(`GunInv`), which is why a phase cannot end with the sound still owed, for any
distances between two polls. From phase to phase the act stays or is the next of
the programme (`ActsInOrder`), so each advance is a step of `Show` or none. In
`SteeringProofs` the drive arithmetic is bounded lemma by lemma: a truncated
quotient is monotone, the peak bounds the four raw sums, so a scaled speed is at
most full; the least duty survives the rounding because MinSpeed * PeriodTicks
is at least AxisMax. The invariant there adds to the types that the duty is
always that of the last command. A standing car follows from the peak: a wheel
of the peak speed is scaled to full speed and never to nothing, so the mix
stands exactly when nothing is asked of it. `TestInv` says that a wheel test is
created only when there is none, and that a wheel it spins has the task still
ahead of its stop. `RadarProofs` needs to know that between sweeps the servo is
where it was sent, and that at least one update has passed when the task returns
to a sweep: otherwise the angle it computes could be the one it started from.

`ButtonsProofs` follows a press from the finger to core 1. `FreshInv` is a
statement about every place where core 1 may find its next sample: the last
report while the pad is there, the sample it has taken, or one that a pad has
left in the queue. Wherever the buttons of an act are down, core 1 has seen them
down already, or they have been pressed since the act and it is still due. What
the queue may hold of a pad that has gone is kept apart (`late`): while a pad is
connected PressActsOnce does not excuse it.
`HoldInv` says that a hold counted so far has lasted for as long as is counted,
or for as long as the pad has told of it.

Four facts carry the symmetry of the drive train, with no bound on its numbers.
A truncated quotient keeps the sign, loses less than one, and is odd; the dead
zone is odd. The diagonal snap is odd in each axis, since the cone in which it
acts contains no axis; so a mirrored stick is snapped to the mirrored point. The
wheels of mirrored sticks are the same four numbers on other sides, so their
peak is the same, and with it the scale. ScaledNotClipped is the first two
applied to the peak itself, which is scaled to full speed exactly. The filter of the
board draws nearer by a quotient that is cut off (`SmoothDraws`): two values a
gap apart are followed by values less than 12 % of the gap and one gram apart,
and the next value of a standing rider is such a pair with the present one.

`ThreadsProofs` argues about functions that are sequences of accesses. What is
left of a function is a suffix of it (`GunTypeOK` and the types of `Mist` say
so), and a function that lights a laser or starts a puff ends with the access
that arms its timer; hence that access is owed as long as anything is left of
the function. `BurstInv` adds why a burst may be excused: two threads are inside
the gatling together only after `raced` has been noted; and it links the blink
of the LED to the burst it belongs to. `PuffInv` adds to PuffEnds that core 1
switches the humidifier on without a timer only in an act of the display.

*Model-checked only.* All liveness, since fairness and anything with ENABLED is
out of the prover's reach: WheelsStopWhenAlone, ShowGoesOn, ScanResumes,
SweepFinishes, SweepsGoOn, MistShows. ThreadsTypeOK joins the two type theorems of
`ThreadsProofs` for the run. Every other invariant and action property of the
runs that pass is a theorem.

## 5. What is not modelled

- The loop of track 0001 that sounded while the car waited: start-up ends by
  switching it off (`my_platform.c:991`) and every later callback does so again,
  so neither waiting_idle_cb nor the resume timer of `rccar_dfplayer.c` ever
  finds it on. The UART frames of the MP3 module carry no state.
- The sound and rumble that follow a laser shot after 100 ms and the mailbox all
  rumbles share: their hazards are listed in `PROJECT.json`; nothing in the code
  prevents them, so there is no property to state.
- rccar_drive_idle_to_move, the puff when the car starts after a rest: two
  variables written by two cores, at worst a puff too many or too few.
- The engine effect of the LED strip has no caller in `main/`; colours and
  brightness are not distinguished.
- The contents of radio reports: player LEDs, strength and length of rumbles.
- A motor driver that refuses a duty: rccar_motor_wheel_set then coasts
  (`rccar_motor.c:348-351`). `SteeringFits` shows that the only value the driver
  would refuse is never written.
- Peripheral set-up, the pin map and start-up run before any task; the models
  begin with the state they leave.
- The WS2812 encoder is the timing of a wire protocol. The allowlist of
  gamepads is handed over once at start-up.
- `cmd_nvs` and `cmd_system` are ESP-IDF console examples that nothing
  registers.
- BTstack is vendored, more than nine tenths of the tree's lines, and Bluepad32 is
  not in the tree: only what they may do to the application is modelled. The
  application does not call BTstack but for posting requests to its run loop,
  and nothing of the car's behaviour is decided there.

## 6. Where code and documents disagree

Each is a run of its own, with the sentence it refutes quoted in `PROJECT.json`.

- `control_cancel`: `rccar_motor_wheel_test_start` clears the cancel flag before
  the task exists. A failsafe between core 1's look at `s_connected` and that
  assignment is forgotten, and the whole test runs on an unconnected car.
- `exhibit_mist`: a controller that goes away before it was ready runs the
  failsafe on a running display, whose mist or radar is then off for the rest
  of its act.
- `radar_drive`: the start delay is renewed by a stop or by switching on at
  rest. Once it has been served, switching the radar off and on while driving
  begins a sweep at once.
- `mist_pin`: an off between the two halves of an on of the humidifier leaves
  the pin high, and every later off finds the flag off and does nothing.
- `buttons_edge`: the code keeps the last report of the pad so that a sample of the
  board beside it does not release an edge (`my_platform.c:675-683`). A pad that
  goes takes that report away at once and leaves its last sample in the queue: the
  sample of the board that core 1 has in hand stands for the pad, releases the
  edge, and the queued one acts a second time on a press that was acted on.

Smaller ones met on the way, described with the hazards in `PROJECT.json` and
not checked by a run of their own:

- the stop callback of one gatling burst stops the stop timer of the next, if
  core 1 starts that one meanwhile, and the LED blinks on (`BurstGoesOut` excuses
  exactly this overlap);
- a hold of SELECT+START or L1+R1 survives a gap in the reports with the link up,
  and completes on the first report after it though the fingers were lifted
  (`HoldsCount` speaks of holds that are reported);
- a rider who stands still may not let the car stand still. The filter of the board
  (`my_platform.c:442-447`) cuts off to whole grams and has no value that stays when
  the sum W of a side leaves 9, 18 or 27 modulo 28; it then alternates between two
  values a gram apart. With tr = 8428 and br = 8427 the side holds 1805 and 1806,
  the axis 60 and 61, and the wheels start and stop at each report, against the
  repository's README.md:90 ("작은 체중 이동은 무시하고"). The same may happen about
  the thresholds of 900 and 1400 g. BoardCalmsDown says what is true;
- connect_sound_cb and connect_sound_play_cb may wait for the UART while a handler
  stops their timers. They go on: the second timer is armed, or the track played,
  all the same, and a car may announce a controller that has gone, or announce one
  twice (ConnectSoundPlanned excuses exactly this, history `overtaken`);
- a volume stored between the erase of the factory reset and the close of its
  handle survives the reset;
- the radar may believe that a displayed car moves; a connection shorter than a
  poll does not restart the display; a scan that starts while a second device is
  being set up goes on when the car is full; a dropped blackout frame leaves the
  strip lit; a shot or rumble may be for a pad that has just gone;
- `rccar_drive_mix` is given a forward speed beyond the range of its header when
  both sticks point forward, and copes;
- the least duty is 43 of 50 ticks, 86 %, where the repository's README.md:136 says
  about 87.5 %: `set_motor_duty` cuts off;
- `host_tests/test_dfplayer_resume.c:25-28` expects tracks of 2500, 1500, 4000 and
  3000 ms where `rccar_dfplayer.h` has 1907, 684, 1097 and 2064.

## 7. The plan

Done, in order of importance: `Registry`, `Control`, `Show`, `Exhibit`, `Link`,
`Laser`, `Radar`, `Drive`, `Steering`, `Mist`, then `Storage` and `Buttons`, and
`Sound`, which took over the run of `Link`; `Threads`, once `Laser` and `Mist`
were to be proved about; with the proofs of section 4.

Left:

1. The shared rumble mailbox and the delayed shot, once the code decides what
   should happen when two requests meet or the pad is gone.
2. The safety half of the liveness properties: that a thread in the middle of a
   function can always go on, and a measure that each of its steps lowers.
