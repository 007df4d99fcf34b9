--------------------------- MODULE ExhibitProofs ---------------------------
(***************************************************************************)
(* Proofs about Exhibit, for any distances between two polls: whatever the  *)
(* btstack thread does between a question and an output, the display cleans *)
(* up after itself, loses no shot, and plays the acts of Show in order.     *)
(***************************************************************************)
EXTENDS Exhibit, TLAPS

Shots == {"LASER_GAP", "LASER_HOLD"}

LEMMA Phases ==
  Phase = {"START", "TURRET_A", "LASER_ARM", "LASER_GAP", "LASER_HOLD",
           "HEADLIGHT_DELAY", "HEADLIGHT", "AFTER_HEADLIGHT", "TURRET_REV",
           "HEADLIGHT_DELAY_2", "HEADLIGHT_2", "AFTER_HEADLIGHT_2", "TURRET_B",
           "GATLING_ARM", "GATLING_GAP", "AFTER_GATLING", "MIST", "AFTER_MIST",
           "SFX", "AFTER_SFX"}
BY DEF Phase, NextPhase

\* What the order of the phases has to be for the outputs to end with their acts.
LEMMA Follows ==
  \A p \in Phase :
    /\ NextPhase[p] \in Phase
    /\ NextPhase[p] \in Turrets => p \notin Turrets
    /\ NextPhase[p] \in Lights => p \notin Lights
BY Phases DEF NextPhase, Turrets, Lights

\* The provers count through a range whose end is a numeral, so the two ends stay
\* names wherever their values do not matter.
LEMMA Times == SoundMs \in Nat /\ LongestMs \in Nat
BY DEF SoundMs, LongestMs

LEMMA NeverStart == \A p \in Phase : NextPhase[p] # "START"
BY Phases DEF NextPhase

-----------------------------------------------------------------------------
\* Where core1 can be only while the display runs.
InTick == {"first", "gun", "gun_play", "phase", "perform", "after"}

\* A tick belongs to a display that runs, and an output is reached only in a
\* phase that gives it again or is over.
TickInv ==
  /\ core1 \in InTick => running
  /\ core1 = "perform" => Turning \/ Due

\* A sound that is owed is due before the phase is over, and has been looked
\* after when the phase is.
GunInv ==
  /\ ShotsAreHeard
  /\ gun > 0 => left >= gun
  /\ core1 \in {"phase", "perform"} => gun # 0

IInv == TypeOK /\ TickInv /\ GunInv /\ NothingLeftOn

\* TypeOK in two parts, for two provers.
Flags ==
  /\ s_connected \in BOOLEAN /\ interrupted \in BOOLEAN /\ running \in BOOLEAN
  /\ light \in BOOLEAN /\ radar \in BOOLEAN /\ mist \in BOOLEAN

Data ==
  /\ bt \in {"idle", "stop", "fs_turret", "fs_radar", "fs_mist"}
  /\ core1 \in {"wait", "gate", "first", "gun", "gun_play", "phase", "perform",
                "after", "abort"}
  /\ s_phase \in Phase /\ left \in 0..LongestMs
  /\ s_turret_cmd \in {-1, 0, 1} /\ s_turret_sign \in {-1, 1}
  /\ gun \in -1..SoundMs
  /\ turret \in {-1, 0, 1}

LEMMA Parts == TypeOK <=> Flags /\ Data
BY DEF TypeOK, Flags, Data

LEMMA TypeInit == Init => TypeOK
<1>1. Init => Flags
  BY Zenon DEF Init, Flags
<1>2. Init => Data
  BY Phases, Times DEF Init, Data
<1> QED BY <1>1, <1>2, Parts

LEMMA FlagsStep == Flags /\ [Next]_vars => Flags'
BY Zenon DEF Flags, Next, Core1, OnDeviceReady, OnDeviceDisconnected, BtStops, Poll,
   Begin, Ask, Asks, PlayGun, KeepTurning, Advance, SwitchHeadlight, Abort,
   Core1Goes, vars, control, show, outputs

LEMMA DataStep == Data /\ [Next]_vars => Data'
<1> SUFFICES ASSUME Data, [Next]_vars PROVE Data'
  OBVIOUS
<1> USE Times
<1>1. CASE OnDeviceReady
  BY <1>1 DEF OnDeviceReady, show, outputs, Data
<1>2. CASE OnDeviceDisconnected
  BY <1>2 DEF OnDeviceDisconnected, show, outputs, Data
<1>3. CASE BtStops
  BY <1>3 DEF BtStops, show, Data
<1>4. ASSUME NEW dt \in Polls, Poll(dt) PROVE Data'
  <2>1. left' \in 0..LongestMs
    <3>1. left \in Int /\ 0 <= left /\ left <= LongestMs /\ dt \in Int /\ dt > 0
      BY <1>4, PollsAssumption DEF Data
    <3>2. left' = IF left > dt THEN left - dt ELSE 0
      BY <1>4 DEF Poll, Less, Data
    <3>3. CASE left > dt
      BY <3>1, <3>2, <3>3
    <3>4. CASE ~(left > dt)
      BY <3>2, <3>4
    <3> QED BY <3>3, <3>4
  <2>2. gun' \in -1..SoundMs
    <3>1. CASE gun < 0
      BY <1>4, <3>1 DEF Poll, Data
    <3>2. CASE gun >= 0
      <4>1. gun \in Nat /\ dt \in Nat \ {0} /\ gun' = Less(gun, dt)
        BY <1>4, <3>2, PollsAssumption DEF Poll, Data
      <4> QED BY <4>1 DEF Less, Data
    <3> QED BY <3>1, <3>2 DEF Data
  <2>3. core1' = "gate" /\ bt' = bt /\ s_phase' = s_phase
        /\ s_turret_cmd' = s_turret_cmd /\ s_turret_sign' = s_turret_sign
        /\ turret' = turret
    BY <1>4, Zenon DEF Poll, Core1Goes, outputs
  <2> QED BY <2>1, <2>2, <2>3 DEF Data
<1>5. CASE Begin
  BY <1>5, Phases DEF Begin, Core1Goes, Data
<1>6. CASE Ask
  BY <1>6 DEF Ask, Asks, Core1Goes, show, outputs, Data
<1>7. CASE PlayGun
  BY <1>7 DEF PlayGun, Core1Goes, outputs, Data
<1>8. CASE KeepTurning
  BY <1>8 DEF KeepTurning, Core1Goes, show, Data
<1>9. CASE Advance
  <2>1. s_phase' \in Phase \ {"START"}
    BY <1>9, Follows, NeverStart DEF Advance, Data
  <2>2. left' \in 0..LongestMs
    <3>1. left' \in Duration(s_phase')
      BY <1>9 DEF Advance, Data
    <3>2. left' \in Nat /\ left' <= LongestMs
      BY <2>1, <3>1, Phases
      DEF Duration, Turrets, Lights, SoundMs, GunMs, SfxMs, LongestMs
    <3> QED BY <3>2, Times
  <2>3. /\ s_turret_cmd' \in {-1, 0, 1} /\ s_turret_sign' \in {-1, 1}
        /\ turret' \in {-1, 0, 1}
    BY <1>9 DEF Advance, StartTurret, StopTurret, Data
  <2>4. gun' \in -1..SoundMs
    BY <1>9 DEF Advance, ArmGun, Data
  <2> QED BY <1>9, <2>1, <2>2, <2>3, <2>4
          DEF Advance, Core1Goes, Data
<1>10. CASE Abort
  BY <1>10, Phases DEF Abort, Core1Goes, outputs, Data
<1>11. CASE UNCHANGED vars
  BY <1>11 DEF vars, control, show, outputs, Data
<1> QED BY <1>1, <1>2, <1>3, <1>4, <1>5, <1>6, <1>7, <1>8, <1>9, <1>10, <1>11,
        Zenon DEF Next, Core1

LEMMA TypeStep == TypeOK /\ [Next]_vars => TypeOK'
<1>1. Flags' /\ Data' => TypeOK'
  BY DEF TypeOK, Flags, Data
<1> QED BY Parts, <1>1, FlagsStep, DataStep, Zenon

\* Every variable keeps its type; the times of the phases stay in range.
THEOREM TypeCorrect == Spec => []TypeOK
BY TypeInit, TypeStep, PTL DEF Spec

-----------------------------------------------------------------------------
LEMMA TickStep == TickInv /\ [Next]_vars => TickInv'
<1> SUFFICES ASSUME TickInv, [Next]_vars PROVE TickInv'
  OBVIOUS
<1> USE DEF TickInv, InTick, Turning, Due, Core1Goes
<1>1. CASE OnDeviceReady \/ OnDeviceDisconnected \/ BtStops
  BY <1>1, Zenon DEF OnDeviceReady, OnDeviceDisconnected, BtStops, show
<1>2. ASSUME NEW dt \in Polls, Poll(dt) PROVE TickInv'
  BY <1>2, Zenon DEF Poll
<1>3. CASE Begin
  BY <1>3, Zenon DEF Begin
<1>4. CASE Ask
  BY <1>4, Zenon DEF Ask, Asks, show
<1>5. CASE PlayGun
  BY <1>5, Zenon DEF PlayGun
<1>6. CASE KeepTurning
  BY <1>6, Zenon DEF KeepTurning, show
<1>7. CASE Advance
  BY <1>7, Zenon DEF Advance
<1>8. CASE Abort
  BY <1>8, Zenon DEF Abort
<1>9. CASE UNCHANGED vars
  BY <1>9, Zenon DEF vars, control, show
<1> QED BY <1>1, <1>2, <1>3, <1>4, <1>5, <1>6, <1>7, <1>8, <1>9, Zenon DEF Next, Core1

LEMMA OutputsStep == TickInv /\ NothingLeftOn /\ Data /\ [Next]_vars => NothingLeftOn'
<1> SUFFICES ASSUME TickInv, NothingLeftOn, Data, [Next]_vars PROVE NothingLeftOn'
  OBVIOUS
<1> USE DEF NothingLeftOn, Core1Goes
<1>1. CASE OnDeviceReady \/ OnDeviceDisconnected
  <2>1. UNCHANGED <<running, s_phase, s_turret_cmd, turret, light, radar, mist>>
    BY <1>1 DEF OnDeviceReady, OnDeviceDisconnected, show, outputs
  <2> QED BY <2>1, Zenon
<1>2. CASE BtStops
  <2>1. UNCHANGED <<running, s_phase, s_turret_cmd, light>>
    BY <1>2, Zenon DEF BtStops, show
  <2>2. /\ turret' = 0 \/ turret' = turret
        /\ radar' = FALSE \/ radar' = radar
        /\ mist' = FALSE \/ mist' = mist
    BY <1>2 DEF BtStops
  <2>3. turret' # 0 => running' /\ s_phase' \in Turrets /\ turret' = s_turret_cmd'
    <3>1. turret' # 0 => turret' = turret
      BY <2>2
    <3> QED BY <2>1, <3>1, Zenon
  <2>4. radar' => running' /\ s_phase' = "SFX"
    <3>1. CASE radar' = FALSE
      BY <3>1
    <3>2. CASE radar' = radar
      BY <2>1, <3>2, Zenon
    <3> QED BY <2>2, <3>1, <3>2
  <2>5. mist' => running' /\ s_phase' = "MIST"
    <3>1. CASE mist' = FALSE
      BY <3>1
    <3>2. CASE mist' = mist
      BY <2>1, <3>2, Zenon
    <3> QED BY <2>2, <3>1, <3>2
  <2>6. light' => running' /\ s_phase' \in Lights
    BY <2>1, Zenon
  <2> QED BY <2>3, <2>4, <2>5, <2>6, Zenon
<1>3. ASSUME NEW dt \in Polls, Poll(dt) PROVE NothingLeftOn'
  BY <1>3, Zenon DEF Poll, outputs
<1>4. CASE Begin
  BY <1>4, Zenon DEF Begin
<1>5. CASE Ask
  BY <1>5, Zenon DEF Ask, Asks, show, outputs
<1>6. CASE PlayGun
  BY <1>6, Zenon DEF PlayGun, outputs
<1>7. CASE KeepTurning
  BY <1>7, Zenon DEF KeepTurning, Turning, TickInv, InTick, show
<1>8. CASE Advance
  <2>1. running /\ running' = running
    BY <1>8, Zenon DEF Advance, TickInv, InTick
  <2>2. s_phase' \in Turrets => s_phase \notin Turrets
    BY <1>8, Follows DEF Advance, Data
  <2>3. turret' # 0 => s_phase' \in Turrets /\ turret' = s_turret_cmd'
    BY <1>8, <2>2, Zenon DEF Advance, StartTurret, StopTurret
  <2>4. light' => s_phase' \in Lights
    BY <1>8, Zenon DEF Advance, SwitchHeadlight
  <2>5. (mist' => s_phase' = "MIST") /\ (radar' => s_phase' = "SFX")
    BY <1>8, Zenon DEF Advance
  <2> QED BY <2>1, <2>3, <2>4, <2>5, Zenon
<1>9. CASE Abort
  BY <1>9, Zenon DEF Abort, outputs
<1>10. CASE UNCHANGED vars
  BY <1>10, Zenon DEF vars, show, outputs
<1> QED BY <1>1, <1>2, <1>3, <1>4, <1>5, <1>6, <1>7, <1>8, <1>9, <1>10, Zenon
        DEF Next, Core1

\* Deadlines of phase and gun come nearer together, and the gun's is looked at
\* first.
LEMMA GunStep == TickInv /\ GunInv /\ Data /\ [Next]_vars => GunInv'
<1> SUFFICES ASSUME TickInv, GunInv, Data, [Next]_vars PROVE GunInv'
  OBVIOUS
<1> USE DEF GunInv, ShotsAreHeard, Core1Goes
<1>1. CASE OnDeviceReady \/ OnDeviceDisconnected \/ BtStops
  BY <1>1, Zenon DEF OnDeviceReady, OnDeviceDisconnected, BtStops, show
<1>2. ASSUME NEW dt \in Polls, Poll(dt) PROVE GunInv'
  <2>1. /\ running' = running /\ s_phase' = s_phase /\ core1' = "gate"
    BY <1>2, Zenon DEF Poll
  <2>2. (gun' >= 0 => gun >= 0) /\ (gun' > 0 => left' >= gun')
    <3>1. dt \in Int /\ left \in Int /\ gun \in Int /\ dt > 0
      BY <1>2, PollsAssumption DEF Data
    <3>2. gun > 0 => left >= gun
      OBVIOUS
    <3>3. /\ left' = IF left > dt THEN left - dt ELSE 0
          /\ gun' = IF gun < 0 THEN gun ELSE IF gun > dt THEN gun - dt ELSE 0
      BY <1>2, Zenon DEF Poll, Less
    <3> QED BY <3>1, <3>2, <3>3
  <2> QED BY <2>1, <2>2, Zenon
<1>3. CASE Begin
  <2>1. gun' = -1
    BY <1>3 DEF Begin
  <2> QED BY <2>1
<1>4. CASE Ask
  <2>1. UNCHANGED <<running, s_phase, left, gun>>
    BY <1>4, Zenon DEF Ask, show
  <2>2. core1' \in {"phase", "perform"} => core1 \in {"phase", "perform"} \/ ~GunDue
    BY <1>4, Zenon DEF Ask, Asks
  <2>3. ~GunDue => gun # 0
    <3>1. gun = 0 => gun >= 0
      OBVIOUS
    <3> QED BY <3>1, Zenon DEF GunDue
  <2> QED BY <2>1, <2>2, <2>3, Zenon
<1>5. CASE PlayGun
  <2>1. gun' = -1
    BY <1>5 DEF PlayGun
  <2> QED BY <2>1
<1>6. CASE KeepTurning
  BY <1>6, Zenon DEF KeepTurning, show
<1>7. CASE Advance
  <2>1. running /\ running' = running /\ core1' = "after"
    BY <1>7, Zenon DEF Advance, TickInv, InTick
  <2>2. CASE s_phase' \in {"LASER_GAP", "LASER_HOLD"}
    <3>1. gun' = 200 /\ left' \in Duration(s_phase')
      BY <1>7, <2>2 DEF Advance, ArmGun, SoundMs
    <3>2. left' >= 200
      BY <2>2, <3>1 DEF Duration, Turrets, Lights, SoundMs, GunMs
    <3> QED BY <2>1, <2>2, <3>1, <3>2, Zenon
  <2>3. CASE s_phase' \notin {"LASER_GAP", "LASER_HOLD"}
    <3>1. gun' = gun
      BY <1>7, <2>3, Zenon DEF Advance
    <3>2. gun < 0
      <4>1. s_phase \in {"LASER_GAP", "LASER_HOLD"} => left = 0
        BY <1>7, Zenon DEF Advance, TickInv, Due
      <4>2. core1 = "perform"
        BY <1>7, Zenon DEF Advance
      <4> QED BY <4>1, <4>2 DEF Data
    <3> QED BY <2>1, <3>1, <3>2 DEF Data
  <2> QED BY <2>2, <2>3
<1>8. CASE Abort
  <2>1. CASE running
    <3>1. gun' = -1
      BY <1>8, <2>1 DEF Abort
    <3> QED BY <3>1
  <2>2. CASE ~running
    <3>1. gun' = gun /\ core1' = "wait"
      BY <1>8, <2>2, Zenon DEF Abort
    <3>2. ~(gun >= 0)
      BY <2>2, Zenon
    <3> QED BY <3>1, <3>2 DEF Data
  <2> QED BY <2>1, <2>2
<1>9. CASE UNCHANGED vars
  BY <1>9, Zenon DEF vars, control, show
<1> QED BY <1>1, <1>2, <1>3, <1>4, <1>5, <1>6, <1>7, <1>8, <1>9, Zenon DEF Next, Core1

LEMMA IInvInit == Init => IInv
<1> SUFFICES ASSUME Init PROVE IInv
  OBVIOUS
<1>1. TickInv /\ NothingLeftOn
  BY Zenon DEF Init, TickInv, InTick, NothingLeftOn
<1>2. GunInv
  BY DEF Init, GunInv, ShotsAreHeard
<1> QED BY <1>1, <1>2, TypeInit DEF IInv

LEMMA IInvStep == IInv /\ [Next]_vars => IInv'
BY TypeStep, TickStep, GunStep, OutputsStep, Parts, Zenon DEF IInv

LEMMA IInvAlways == Spec => []IInv
BY IInvInit, IInvStep, PTL DEF Spec

\* Every output the display has on belongs to its phase, and none is on when it
\* is over (rccar_exhibit.c:179-195).
THEOREM EverythingGoesOff == Spec => []NothingLeftOn
BY IInvAlways, PTL DEF IInv

\* No shot of the show stays silent or sounds in a later act
\* (rccar_exhibit.c:205).
THEOREM EveryShotIsHeard == Spec => []ShotsAreHeard
BY IInvAlways, PTL DEF IInv, GunInv

-----------------------------------------------------------------------------
\* From a phase to the next the act stays, without a turn of the turret, or it is
\* the next act of the programme, a turret act exactly when the turret starts.
LEMMA ActsInOrder ==
  \A p \in Phase :
    \/ ActOf[NextPhase[p]] = ActOf[p] /\ NextPhase[p] \notin Turrets
    \/ /\ ActOf[NextPhase[p]] = (ActOf[p] % 9) + 1
       /\ TheShow!Programme[ActOf[NextPhase[p]]] = "turret" <=> NextPhase[p] \in Turrets
<1> SUFFICES ASSUME NEW p \in Phase
             PROVE  \/ ActOf[NextPhase[p]] = ActOf[p] /\ NextPhase[p] \notin Turrets
                    \/ /\ ActOf[NextPhase[p]] = (ActOf[p] % 9) + 1
                       /\ TheShow!Programme[ActOf[NextPhase[p]]] = "turret"
                            <=> NextPhase[p] \in Turrets
  OBVIOUS
<1>1. NextPhase[p] \in Phase
  BY Follows
<1>2. CASE p \in {"START", "AFTER_SFX"}
  <2>1. NextPhase[p] = "TURRET_A"
    BY <1>2 DEF NextPhase
  <2> QED BY <1>1, <1>2, <2>1, Phases DEF ActOf, Turrets, TheShow!Programme
<1>3. CASE p \in {"TURRET_A", "LASER_HOLD", "AFTER_HEADLIGHT", "TURRET_REV",
                  "AFTER_HEADLIGHT_2", "TURRET_B", "AFTER_GATLING", "AFTER_MIST"}
  <2>1. CASE p = "TURRET_A"
    <3>1. NextPhase[p] = "LASER_ARM" /\ ActOf[p] = 1 /\ ActOf["LASER_ARM"] = 2
      BY <2>1, Phases DEF NextPhase, ActOf
    <3> QED BY <3>1 DEF Turrets, TheShow!Programme
  <2>2. CASE p = "LASER_HOLD"
    <3>1. NextPhase[p] = "HEADLIGHT_DELAY" /\ ActOf[p] = 2 /\ ActOf["HEADLIGHT_DELAY"] = 3
      BY <2>2, Phases DEF NextPhase, ActOf
    <3> QED BY <3>1 DEF Turrets, TheShow!Programme
  <2>3. CASE p = "AFTER_HEADLIGHT"
    <3>1. NextPhase[p] = "TURRET_REV" /\ ActOf[p] = 3 /\ ActOf["TURRET_REV"] = 4
      BY <2>3, Phases DEF NextPhase, ActOf
    <3> QED BY <3>1 DEF Turrets, TheShow!Programme
  <2>4. CASE p = "TURRET_REV"
    <3>1. NextPhase[p] = "HEADLIGHT_DELAY_2" /\ ActOf[p] = 4 /\ ActOf["HEADLIGHT_DELAY_2"] = 5
      BY <2>4, Phases DEF NextPhase, ActOf
    <3> QED BY <3>1 DEF Turrets, TheShow!Programme
  <2>5. CASE p = "AFTER_HEADLIGHT_2"
    <3>1. NextPhase[p] = "TURRET_B" /\ ActOf[p] = 5 /\ ActOf["TURRET_B"] = 6
      BY <2>5, Phases DEF NextPhase, ActOf
    <3> QED BY <3>1 DEF Turrets, TheShow!Programme
  <2>6. CASE p = "TURRET_B"
    <3>1. NextPhase[p] = "GATLING_ARM" /\ ActOf[p] = 6 /\ ActOf["GATLING_ARM"] = 7
      BY <2>6, Phases DEF NextPhase, ActOf
    <3> QED BY <3>1 DEF Turrets, TheShow!Programme
  <2>7. CASE p = "AFTER_GATLING"
    <3>1. NextPhase[p] = "MIST" /\ ActOf[p] = 7 /\ ActOf["MIST"] = 8
      BY <2>7, Phases DEF NextPhase, ActOf
    <3> QED BY <3>1 DEF Turrets, TheShow!Programme
  <2>8. CASE p = "AFTER_MIST"
    <3>1. NextPhase[p] = "SFX" /\ ActOf[p] = 8 /\ ActOf["SFX"] = 9
      BY <2>8, Phases DEF NextPhase, ActOf
    <3> QED BY <3>1 DEF Turrets, TheShow!Programme
  <2> QED BY <1>3, <2>1, <2>2, <2>3, <2>4, <2>5, <2>6, <2>7, <2>8
<1>4. CASE p \in {"LASER_ARM", "LASER_GAP", "HEADLIGHT_DELAY", "HEADLIGHT",
                  "HEADLIGHT_DELAY_2", "HEADLIGHT_2", "GATLING_ARM", "GATLING_GAP",
                  "MIST", "SFX"}
  BY <1>1, <1>4, Phases DEF ActOf, NextPhase, Turrets
<1> QED BY <1>2, <1>3, <1>4, Phases

LEMMA ShowInit == Init => TheShow!Init
BY DEF Init, TheShow!Init

LEMMA ShowStep ==
  TickInv /\ Data /\ [Next]_vars
    => [TheShow!Next]_<<IF running THEN ActOf[s_phase] ELSE 0, -s_turret_sign>>
<1> DEFINE act == IF running THEN ActOf[s_phase] ELSE 0
           turn == -s_turret_sign
           Same == UNCHANGED <<running, s_phase, s_turret_sign>>
<1> SUFFICES ASSUME TickInv, Data, [Next]_vars
             PROVE  TheShow!Next \/ UNCHANGED <<act, turn>>
  OBVIOUS
<1>1. Same => UNCHANGED <<act, turn>>
  OBVIOUS
<1>2. CASE Begin
  <2>1. act' = 0 /\ turn' = -1
    BY <1>2, Phases DEF Begin, ActOf
  <2> QED BY <2>1 DEF TheShow!Next, TheShow!Drop
<1>3. CASE Abort
  <2>1. act' = 0 /\ turn' = turn
    BY <1>3 DEF Abort
  <2> QED BY <2>1 DEF TheShow!Next, TheShow!Drop
<1>4. CASE Advance
  <2>1. running /\ running'
    BY <1>4, Zenon DEF Advance, TickInv, InTick, Core1Goes
  <2>2. s_phase \in Phase /\ s_phase' = NextPhase[s_phase] /\ s_turret_sign \in {-1, 1}
    BY <1>4 DEF Advance, Data
  <2>3. s_turret_sign' = IF s_phase' \in Turrets THEN -s_turret_sign ELSE s_turret_sign
    BY <1>4, Zenon DEF Advance, StartTurret, StopTurret
  <2>4. act = ActOf[s_phase] /\ act' = ActOf[s_phase']
    BY <2>1
  <2>5. turn' = IF s_phase' \in Turrets THEN -turn ELSE turn
    BY <2>2, <2>3
  <2>6. CASE act' = act /\ s_phase' \notin Turrets
    BY <2>5, <2>6
  <2>7. CASE /\ act' = (act % 9) + 1
             /\ TheShow!Programme[act'] = "turret" <=> s_phase' \in Turrets
    BY <2>5, <2>7 DEF TheShow!Next, TheShow!Play
  <2> QED BY <2>2, <2>4, <2>6, <2>7, ActsInOrder
<1>5. CASE OnDeviceReady \/ OnDeviceDisconnected \/ BtStops \/ Ask \/ PlayGun \/ KeepTurning
  BY <1>1, <1>5 DEF OnDeviceReady, OnDeviceDisconnected, BtStops, Ask, PlayGun,
     KeepTurning, show
<1>6. ASSUME NEW dt \in Polls, Poll(dt) PROVE UNCHANGED <<act, turn>>
  BY <1>1, <1>6 DEF Poll
<1>7. CASE UNCHANGED vars
  BY <1>1, <1>7 DEF vars, show
<1> QED BY <1>2, <1>3, <1>4, <1>5, <1>6, <1>7, Zenon DEF Next, Core1

\* The display plays the acts of Show in their order, whoever connects meanwhile
\* (rccar_exhibit.c:5-14).
THEOREM DisplayIsTheShow == Spec => PlaysTheShow
<1>1. IInv => TickInv /\ Data
  BY Parts, Zenon DEF IInv
<1> QED BY <1>1, ShowInit, ShowStep, IInvAlways, PTL DEF Spec, PlaysTheShow, TheShow!Spec
=============================================================================
