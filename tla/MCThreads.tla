----------------------------- MODULE MCThreads -----------------------------
(***************************************************************************)
(* The guns and the humidifier for TLC, one of them at a time: they share    *)
(* the three threads and no state, so that what one of them can do does not  *)
(* depend on where the other is.                                            *)
(***************************************************************************)
EXTENDS Laser, Mist

VARIABLE subject       \* what the threads are busy with

gunsAtRest == UNCHANGED <<subject, timers, leds, s_gatling_on, held, raced>>
mistAtRest == UNCHANGED <<subject, s_connected, humidifier, acting, neopixel>>

GunMoves == subject = "guns" /\ GunNext /\ mistAtRest
MistMoves == subject = "humidifier" /\ Next /\ gunsAtRest

ThreadsInit == GunInit /\ Init /\ subject \in {"guns", "humidifier"}
ThreadsNext == GunMoves \/ MistMoves
threadsVars == <<gunVars, vars, subject>>

\* Threads run, a frame ends, and the periodic timer keeps expiring.  The guns need
\* no fairness.
FrameEnds == subject = "humidifier" /\ RmtDone /\ gunsAtRest
TimerExpires == subject = "humidifier" /\ AnimExpires /\ gunsAtRest
ThreadRuns(a) == subject = "humidifier" /\ Step(a) /\ gunsAtRest

ThreadsSpec ==
  /\ ThreadsInit /\ [][ThreadsNext]_threadsVars
  /\ WF_threadsVars(FrameEnds) /\ SF_threadsVars(TimerExpires)
  /\ \A a \in Actor : SF_threadsVars(ThreadRuns(a))

\* A thread is inside a function of the subject it is busy with.
ThreadsTypeOK ==
  /\ subject \in {"guns", "humidifier"}
  /\ IF subject = "guns" THEN GunTypeOK ELSE TypeOK
=============================================================================
