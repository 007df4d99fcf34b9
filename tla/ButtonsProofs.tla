--------------------------- MODULE ButtonsProofs ----------------------------
(***************************************************************************)
(* Proofs about Buttons and Storage, for every range of volumes, every length *)
(* of a hold and every set of players: the volume that is heard is the one    *)
(* stored; a press acts once, of a pad that goes twice; a hold lasts.        *)
(***************************************************************************)
EXTENDS Buttons, TLAPS

-----------------------------------------------------------------------------
(* The volume. *)

\* Whatever byte the flash holds, a volume that can be played is made of it.
LEMMA LoadedInRange == \A byte : Loaded(byte) \in Volume
BY StorageAssumption DEF Loaded

\* A stored volume is loaded as it is.
LEMMA LoadedIsIdentity == \A v \in Volume : Loaded(v) = v
BY DEF Loaded

\* What is heard is what is stored only as long as the volume is one the byte
\* can hold.
VInv == s_volume \in Volume /\ HeardIsStored

LEMMA InitVInv == Init => VInv
BY LoadedInRange DEF Init, VInv, HeardIsStored

\* Core 1 changes the copy and owes the rest.
LEMMA ServeStep == ASSUME VInv, Serve PROVE VInv'
<1>1. core1 = "act"
  BY DEF Serve
<1>2. CASE UNCHANGED storage /\ core1' = "receive"
  BY <1>1, <1>2 DEF VInv, HeardIsStored, storage, Loaded
<1>3. CASE core1' = "save" /\ \E v \in Volume : SetCopy(v)
  BY <1>3 DEF SetCopy, VInv, HeardIsStored
<1>4. (UNCHANGED storage /\ core1' = "receive") \/ (core1' = "save" /\ \E v \in Volume : SetCopy(v))
  <2>1. CASE s_connected
    <3>1. ActOnPad
      BY <2>1 DEF Serve
    <3> QED BY <3>1 DEF ActOnPad
  <2>2. CASE ~s_connected
    BY <2>2 DEF Serve
  <2> QED BY <2>1, <2>2
<1> QED BY <1>2, <1>3, <1>4

LEMMA ChangeStep == ASSUME VInv, ChangeVolume PROVE VInv'
<1>1. CASE core1 = "save" /\ core1' = "tell" /\ Save
  <2>1. s_volume' = s_volume
    BY <1>1 DEF Save
  <2>2. CASE nvs' = s_volume
    BY <1>1, <2>1, <2>2, LoadedIsIdentity DEF VInv, HeardIsStored
  <2>3. CASE refused' = TRUE
    BY <1>1, <2>1, <2>3 DEF VInv, HeardIsStored
  <2> QED BY <1>1, <2>2, <2>3 DEF Save
<1>2. CASE core1 = "tell" /\ core1' = "receive" /\ Tell
  BY <1>2 DEF Tell, VInv, HeardIsStored, Loaded
<1> QED BY <1>1, <1>2 DEF ChangeVolume

\* A reset erases beside core 1; what it erases is not there to be loaded.
LEMMA WipeStep == ASSUME VInv, Wipe PROVE VInv'
<1>1. CASE EraseAll
  BY <1>1 DEF Wipe, EraseAll, VInv, HeardIsStored, input, Loaded
<1>2. CASE CloseHandle
  BY <1>2 DEF Wipe, CloseHandle, VInv, HeardIsStored, input, Loaded
<1> QED BY <1>1, <1>2 DEF Wipe

LEMMA RebootStep == ASSUME VInv, Reboot PROVE VInv'
<1>1. Load /\ core1' = "receive"
  BY DEF Reboot, Boot
<1>2. CASE s_volume' = Loaded(nvs')
  BY <1>1, <1>2, LoadedInRange DEF Load, VInv, HeardIsStored
<1>3. CASE refused' = TRUE /\ s_volume' = VolumeDefault
  BY <1>1, <1>3, StorageAssumption DEF Load, VInv, HeardIsStored
<1> QED BY <1>1, <1>2, <1>3 DEF Load

\* Nobody else touches the volume, and nobody else takes core 1 into or out of
\* the change of one.
LEMMA OtherStep ==
  ASSUME VInv, UNCHANGED storage,
         core1 \in {"save", "tell"} => core1' = core1
  PROVE  VInv'
BY DEF VInv, HeardIsStored, storage, Loaded

LEMMA StepVInv == VInv /\ [Next]_vars => VInv'
<1> SUFFICES ASSUME VInv, [Next]_vars PROVE VInv'
  OBVIOUS
<1>1. ASSUME NEW b \in player, Finger(b) PROVE VInv'
  BY <1>1, OtherStep DEF Finger, input
<1>2. ASSUME NEW pad \in BOOLEAN, Ready(pad) PROVE VInv'
  BY <1>2, OtherStep DEF Ready, input
<1>3. CASE PadGone
  BY <1>3, OtherStep DEF PadGone, input
<1>4. CASE BoardGone
  BY <1>4, OtherStep DEF BoardGone, input
<1>5. CASE PadReport
  BY <1>5, OtherStep DEF PadReport, input
<1>6. CASE BoardReport
  BY <1>6, OtherStep DEF BoardReport, input
<1>7. CASE PollNothing
  BY <1>7, OtherStep DEF PollNothing
<1>8. CASE Receive
  BY <1>8, OtherStep DEF Receive
<1>9. CASE Tick
  BY <1>9, OtherStep DEF Tick
<1>10. CASE DebounceOver
  BY <1>10, OtherStep DEF DebounceOver
<1>11. CASE TestEnds
  BY <1>11, OtherStep DEF TestEnds, input
<1>12. CASE UNCHANGED vars
  BY <1>12, OtherStep DEF vars, input
<1> QED
  BY <1>1, <1>2, <1>3, <1>4, <1>5, <1>6, <1>7, <1>8, <1>9, <1>10, <1>11, <1>12,
     ServeStep, ChangeStep, WipeStep, RebootStep
  DEF Next

\* For every range of volumes: what is heard is what the next restart loads,
\* power cuts and a reset beside core 1 included, unless the flash refuses
\* (rccar_storage.c:55-88, my_platform.c:770-795).
THEOREM VolumeSurvives == Spec => []HeardIsStored
<1>1. VInv => HeardIsStored
  BY DEF VInv
<1> QED BY <1>1, InitVInv, StepVInv, PTL DEF Spec

-----------------------------------------------------------------------------
(* Types, of all but the volume and of the volume. *)

\* A counted age stays in its range and is counted as long as it was.
LEMMA OlderIs ==
  ASSUME NEW most \in Nat, NEW age \in 0..most \cup {NULL}
  PROVE  /\ Older(age, most) \in 0..most \cup {NULL}
         /\ age \in 0..most => Older(age, most) \in 0..most
         /\ Older(age, most) = NULL <=> age = NULL
BY StorageAssumption DEF Older

LEMMA VolumeType ==
  ASSUME StorageTypeOK,
         UNCHANGED storage \/ Load \/ Save \/ Tell \/ EraseAll \/ CloseHandle
           \/ \E v \in Volume : SetCopy(v)
  PROVE  StorageTypeOK'
<1>1. CASE Load
  <2>1. nvs' \in Volume \cup {VolumeMax + 1, NULL} /\ s_volume' \in Volume
    BY <1>1, StorageAssumption DEF Load, Loaded, StorageTypeOK
  <2> QED BY <1>1, <2>1 DEF Load, StorageTypeOK
<1>2. CASE UNCHANGED storage
  BY <1>2 DEF storage, StorageTypeOK
<1>3. CASE Save
  BY <1>3 DEF Save, StorageTypeOK
<1>4. CASE Tell
  BY <1>4 DEF Tell, StorageTypeOK
<1>5. CASE EraseAll
  BY <1>5 DEF EraseAll, StorageTypeOK
<1>6. CASE CloseHandle
  BY <1>6 DEF CloseHandle, StorageTypeOK
<1>7. CASE \E v \in Volume : SetCopy(v)
  BY <1>7 DEF SetCopy, StorageTypeOK
<1> QED BY <1>1, <1>2, <1>3, <1>4, <1>5, <1>6, <1>7

\* What the queue holds.
Sample == (SUBSET Button) \cup {NULL}

LEMMA SampleIs ==
  /\ NULL \in Sample /\ \A b : b \subseteq Button => b \in Sample
  /\ \A q \in Sample : q # NULL => q \subseteq Button
BY DEF Sample

LEMMA NoButton == {} \in Sample /\ {} \subseteq Button
<1>1. {} \subseteq Button
  OBVIOUS
<1> QED BY <1>1, SampleIs

\* The type of all but the volume.
KeysTypeOK ==
  /\ hands \subseteq player /\ player \in Players /\ presses \in 0..Presses
  /\ s_gp_ready \in BOOLEAN /\ s_bb_ready \in BOOLEAN
  /\ s_last_gp_evt \subseteq Button
  /\ gp_age \in 0..(Failsafe + 1) \cup {NULL}
  /\ x_prev \subseteq {"X"}
  /\ queue \in Sample /\ evt \subseteq Button
  /\ core1 \in {"receive", "act", "save", "tell"} /\ polled \in BOOLEAN
  /\ prev \subseteq Button /\ recent \subseteq Button
  /\ pressed_at \in [HoldAct -> 0..Hold \cup {NULL}] /\ fired \subseteq HoldAct
  /\ testing \in BOOLEAN
  /\ restart \in {"off", "armed", "due", "erased", "closed"}
  /\ act \subseteq Act /\ fresh \subseteq Act /\ late \subseteq Act
  /\ held \in [HoldAct -> 0..Hold] /\ told \in 0..Hold

LEMMA Hands == KeysTypeOK => hands \subseteq Button
BY ButtonsAssumption DEF KeysTypeOK

LEMMA DownType == \A b : Down(b) \subseteq Act
BY DEF Down

LEMMA ResetType == Reset(NULL) \in [HoldAct -> 0..Hold \cup {NULL}]
BY DEF Reset

LEMMA InitType == Init => KeysTypeOK /\ StorageTypeOK
<1> SUFFICES ASSUME Init PROVE KeysTypeOK /\ StorageTypeOK
  OBVIOUS
<1>1. StorageTypeOK
  <2>1. VolumeMin \in Volume
    BY StorageAssumption DEF Volume
  <2>2. s_volume \in Volume
    BY StorageAssumption DEF Init, Loaded
  <2> QED BY <2>1, <2>2 DEF Init, StorageTypeOK
<1>2. held \in [HoldAct -> 0..Hold] /\ told \in 0..Hold /\ presses \in 0..Presses
  BY ButtonsAssumption DEF Init, Reset
<1>3. pressed_at \in [HoldAct -> 0..Hold \cup {NULL}]
  BY ResetType DEF Init
<1>4. player \in Players /\ hands \subseteq player /\ queue \in Sample
  BY SampleIs DEF Init
<1>5. gp_age \in 0..(Failsafe + 1) \cup {NULL}
  BY DEF Init
<1>6. KeysTypeOK
  BY <1>2, <1>3, <1>4, <1>5 DEF Init, KeysTypeOK
<1> QED BY <1>1, <1>6

LEMMA HoldsType ==
  ASSUME pressed_at \in [HoldAct -> 0..Hold \cup {NULL}], FollowHolds
  PROVE  /\ pressed_at' \in [HoldAct -> 0..Hold \cup {NULL}]
         /\ fired' \subseteq HoldAct
<1>1. 0 \in 0..Hold
  BY ButtonsAssumption
<1> QED BY <1>1 DEF FollowHolds

LEMMA ServeType == ASSUME KeysTypeOK, Serve PROVE KeysTypeOK'
<1>1. Pad \subseteq Button
  BY DEF KeysTypeOK, Pad
<1>2. CASE s_connected
  <2>1. ActOnPad
    BY <1>2 DEF Serve
  <2>2. /\ pressed_at' \in [HoldAct -> 0..Hold \cup {NULL}]
        /\ fired' \subseteq HoldAct
    BY <2>1, HoldsType DEF ActOnPad, KeysTypeOK
  <2>3. Edges \cup VolumeButton \subseteq Button
    BY <1>1 DEF Edges, VolumeButton
  <2>4. act' \subseteq Act
    <3>1. HoldAct \subseteq Act
      BY DEF HoldAct, Act, Trigger
    <3> QED BY <2>1, <3>1, DownType DEF ActOnPad
  <2>5. recent' \subseteq Button /\ prev' \subseteq Button
    BY <1>1, <2>1, <2>3 DEF ActOnPad, KeysTypeOK
  <2>6. core1' \in {"receive", "act", "save", "tell"}
    BY <2>1 DEF ActOnPad
  <2>7. testing' \in BOOLEAN
    BY <2>1 DEF ActOnPad
  <2>8. restart' \in {"off", "armed", "due", "erased", "closed"}
    BY <2>1 DEF ActOnPad, KeysTypeOK
  <2>9. evt' \subseteq Button /\ fresh' \subseteq Act /\ late' \subseteq Act
    BY DEF Serve, KeysTypeOK
  <2> QED BY <2>2, <2>4, <2>5, <2>6, <2>7, <2>8, <2>9 DEF Serve, KeysTypeOK, fingers, reports
<1>3. CASE ~s_connected
  BY <1>3 DEF Serve, KeysTypeOK, fingers, reports, outside
<1> QED BY <1>2, <1>3

LEMMA TickType == ASSUME KeysTypeOK, Tick PROVE KeysTypeOK'
<1>1. Failsafe + 1 \in Nat /\ Hold \in Nat
  BY ButtonsAssumption
<1>2. gp_age' \in 0..(Failsafe + 1) \cup {NULL}
  BY <1>1, OlderIs DEF Tick, KeysTypeOK
<1>3. pressed_at' \in [HoldAct -> 0..Hold \cup {NULL}]
  BY <1>1, OlderIs DEF Tick, KeysTypeOK
<1>4. held' \in [HoldAct -> 0..Hold]
  BY <1>1, OlderIs DEF Tick, KeysTypeOK
<1>5. told' \in 0..Hold
  BY <1>1, OlderIs DEF Tick, KeysTypeOK
<1>6. fresh' \subseteq Act
  BY DownType DEF Tick, KeysTypeOK
<1> QED BY <1>2, <1>3, <1>4, <1>5, <1>6 DEF Tick, KeysTypeOK, fingers

LEMMA StepKeys == KeysTypeOK /\ [Next]_vars => KeysTypeOK'
<1> SUFFICES ASSUME KeysTypeOK, [Next]_vars PROVE KeysTypeOK'
  OBVIOUS
<1> USE DEF fingers, reports, input, outside, history
<1>1. ASSUME NEW b \in player, Finger(b) PROVE KeysTypeOK'
  <2>1. presses' \in 0..Presses
    BY <1>1, ButtonsAssumption DEF Finger, KeysTypeOK
  <2>2. hands' \subseteq player' /\ fresh' \subseteq Act
    BY <1>1, DownType DEF Finger, KeysTypeOK
  <2> QED BY <1>1, <2>1, <2>2 DEF Finger, KeysTypeOK
<1>2. ASSUME NEW pad \in BOOLEAN, Ready(pad) PROVE KeysTypeOK'
  <2>1. s_gp_ready' \in BOOLEAN /\ s_bb_ready' \in BOOLEAN
    BY <1>2 DEF Ready, KeysTypeOK
  <2>2. queue' \in Sample /\ fresh' \subseteq Act /\ late' \subseteq Act
    BY <1>2, DownType, SampleIs DEF Ready, KeysTypeOK
  <2> QED BY <1>2, <2>1, <2>2 DEF Ready, KeysTypeOK
<1>3. CASE PadGone
  <2>1. queue' \in Sample /\ late' \subseteq Act
    BY <1>3, DownType, SampleIs DEF PadGone, KeysTypeOK
  <2> QED BY <1>3, <2>1 DEF PadGone, KeysTypeOK
<1>4. CASE BoardGone
  <2>1. queue' \in Sample
    BY <1>4, SampleIs DEF BoardGone, KeysTypeOK
  <2>2. s_bb_ready' \in BOOLEAN /\ x_prev' \subseteq {"X"}
    BY <1>4 DEF BoardGone, KeysTypeOK
  <2> QED BY <1>4, <2>1, <2>2 DEF BoardGone, KeysTypeOK
<1>5. CASE PadReport
  <2>1. hands \subseteq Button /\ 0 \in 0..(Failsafe + 1)
    BY Hands, ButtonsAssumption
  <2>2. act' \subseteq Act /\ fresh' \subseteq Act
    BY <1>5, DownType DEF PadReport, KeysTypeOK
  <2>3. queue' \in Sample
    BY <1>5, <2>1, SampleIs DEF PadReport
  <2> QED BY <1>5, <2>1, <2>2, <2>3 DEF PadReport, KeysTypeOK
<1>6. CASE BoardReport
  BY <1>6, NoButton DEF BoardReport, KeysTypeOK
<1>7. CASE PollNothing
  <2>1. queue' \in Sample
    BY <1>7, SampleIs DEF PollNothing
  <2>2. prev' \subseteq Button /\ fired' \subseteq HoldAct
    BY <1>7 DEF PollNothing, KeysTypeOK
  <2>3. pressed_at' \in [HoldAct -> 0..Hold \cup {NULL}]
    BY <1>7, ResetType DEF PollNothing, KeysTypeOK
  <2> QED BY <1>7, <2>1, <2>2, <2>3 DEF PollNothing, KeysTypeOK
<1>8. CASE Receive
  <2>1. queue' \in Sample /\ evt' \subseteq Button
    BY <1>8, SampleIs DEF Receive, KeysTypeOK
  <2> QED BY <1>8, <2>1 DEF Receive, KeysTypeOK
<1>9. CASE ChangeVolume
  BY <1>9 DEF ChangeVolume, KeysTypeOK
<1>10. CASE DebounceOver
  BY <1>10 DEF DebounceOver, KeysTypeOK
<1>11. CASE TestEnds
  BY <1>11 DEF TestEnds, KeysTypeOK
<1>12. CASE Wipe
  BY <1>12 DEF Wipe, KeysTypeOK
<1>13. CASE Reboot
  <2>1. fresh' \subseteq Act /\ told' \in 0..Hold
    BY <1>13, DownType, ButtonsAssumption DEF Reboot, Boot
  <2>2. queue' \in Sample /\ evt' \subseteq Button
    BY <1>13, SampleIs, NoButton DEF Reboot, Boot
  <2>3. pressed_at' \in [HoldAct -> 0..Hold \cup {NULL}]
    BY <1>13, ResetType DEF Reboot, Boot
  <2>4. gp_age' \in 0..(Failsafe + 1) \cup {NULL}
    BY <1>13 DEF Reboot, Boot
  <2> QED BY <1>13, <2>1, <2>2, <2>3, <2>4 DEF Reboot, Boot, KeysTypeOK
<1>14. CASE UNCHANGED vars
  BY <1>14 DEF vars, KeysTypeOK
<1> QED
  BY <1>1, <1>2, <1>3, <1>4, <1>5, <1>6, <1>7, <1>8, <1>9, <1>10, <1>11, <1>12,
     <1>13, <1>14, ServeType, TickType
  DEF Next

LEMMA StepStorage == StorageTypeOK /\ [Next]_vars => StorageTypeOK'
<1> SUFFICES ASSUME StorageTypeOK, [Next]_vars PROVE StorageTypeOK'
  OBVIOUS
<1>1. CASE Serve
  <2>1. CASE s_connected
    BY <1>1, <2>1, VolumeType DEF Serve, ActOnPad
  <2>2. CASE ~s_connected
    BY <1>1, <2>2, VolumeType DEF Serve
  <2> QED BY <2>1, <2>2
<1>2. CASE UNCHANGED storage
  BY <1>2, VolumeType
<1>3. CASE ChangeVolume \/ Wipe \/ Reboot
  BY <1>3, VolumeType DEF ChangeVolume, Wipe, Reboot
<1> QED
  BY <1>1, <1>2, <1>3
  DEF Next, Finger, Ready, PadGone, BoardGone, PadReport, BoardReport,
      PollNothing, Receive, Tick, DebounceOver, TestEnds, vars

\* For every hold time, failsafe time and set of players: core 1 and the reports
\* keep to the shapes of their variables, no counted age passes its end, and the
\* volume is one the module can play (my_platform.c:640-815, rccar_storage.c:30-88).
THEOREM ButtonsTyped == Spec => []TypeOK
<1> DEFINE Types == KeysTypeOK /\ StorageTypeOK
<1>1. Types => TypeOK
  BY DEF KeysTypeOK, TypeOK, Sample
<1>2. Init => Types
  BY InitType
<1>3. Types /\ [Next]_vars => Types'
  BY StepKeys, StepStorage
<1> QED BY <1>1, <1>2, <1>3, PTL DEF Spec

-----------------------------------------------------------------------------
(* A press is served once. *)

LEMMA Triggers ==
  /\ Act = {"gatling", "puff", "headlight", "test", "reset"}
  /\ HoldAct \subseteq Act /\ "puff" \notin HoldAct
  /\ Trigger["gatling"] = {"A"} /\ Trigger["puff"] = {"X"}
  /\ Trigger["headlight"] = {"SELECT"} /\ Trigger["test"] = {"L1", "R1"}
  /\ Trigger["reset"] = {"SELECT", "START"}
BY DEF Act, Trigger, HoldAct

LEMMA NothingDown == Down({}) = {}
BY Triggers DEF Down

LEMMA DownX == \A b : b \subseteq {"X"} => Down(b) \subseteq {"puff"}
BY Triggers DEF Down

\* The presses that core 1 serves.
Press == Act \ {"puff"}

\* Core 1 has seen the buttons of the act down and has nothing to do about it.
Served(a) == IF a \in HoldAct THEN a \in fired ELSE Trigger[a] \subseteq prev

\* An edge is a button that is down and was not.
LEMMA EdgeServed ==
  ASSUME NEW a \in Down(Edges \cap {"A", "SELECT"})
  PROVE  /\ a \in Press \ HoldAct /\ Trigger[a] \subseteq Pad
         /\ ~(Trigger[a] \subseteq prev)
<1>1. Edges \subseteq Pad \ prev
  BY DEF Edges
<1>2. a \in Act /\ Trigger[a] \subseteq {"A", "SELECT"} /\ Trigger[a] \subseteq Edges
  BY DEF Down
<1>3. a \in {"gatling", "headlight"}
  BY <1>2, Triggers
<1>4. a \in Press \ HoldAct
  BY <1>3 DEF Press, HoldAct, Act, Trigger
<1>5. \E b \in Trigger[a] : TRUE
  BY <1>3, Triggers
<1> QED BY <1>1, <1>2, <1>4, <1>5

\* What core 1 sets off is down, was not served and is served now; what is down
\* and not served now was not served before, and core 1 has set off nothing of it.
LEMMA ServedOnce ==
  ASSUME ActOnPad, NEW a \in Press
  PROVE  /\ a \in act' => Trigger[a] \subseteq Pad /\ ~Served(a) /\ Served(a)'
         /\ Trigger[a] \subseteq Pad /\ ~Served(a)' => ~Served(a) /\ a \notin act'
<1> DEFINE heard == (Edges \cup VolumeButton) \ recent
<1>1. act' = Down(heard \cap {"A", "SELECT"}) \cup {h \in HoldAct : Completed(h)}
  BY DEF ActOnPad
<1>2. heard \cap {"A", "SELECT"} \subseteq Edges \cap {"A", "SELECT"}
  BY DEF VolumeButton
<1>3. Down(heard \cap {"A", "SELECT"}) \subseteq Down(Edges \cap {"A", "SELECT"})
  BY <1>2 DEF Down
<1>4. prev' = Pad
  BY DEF ActOnPad
<1>5. fired' = {h \in HoldAct : Trigger[h] \subseteq Pad /\ (h \in fired \/ Completed(h))}
  BY DEF ActOnPad, FollowHolds
<1>6. CASE a \in HoldAct
  <2>1. a \notin Down(Edges \cap {"A", "SELECT"})
    BY <1>6, EdgeServed
  <2>2. a \in act' <=> Completed(a)
    BY <1>1, <1>3, <1>6, <2>1
  <2>3. Completed(a) => Trigger[a] \subseteq Pad /\ a \notin fired
    BY DEF Completed
  <2> QED BY <1>5, <1>6, <2>2, <2>3 DEF Served
<1>7. CASE a \notin HoldAct
  <2>1. a \in act' => a \in Down(Edges \cap {"A", "SELECT"})
    BY <1>1, <1>3, <1>7
  <2> QED BY <1>4, <1>7, <2>1, EdgeServed DEF Served
<1> QED BY <1>6, <1>7

LEMMA ServedActs ==
  ASSUME ActOnPad
  PROVE  act' \subseteq Press
<1> DEFINE heard == (Edges \cup VolumeButton) \ recent
<1>1. act' = Down(heard \cap {"A", "SELECT"}) \cup {h \in HoldAct : Completed(h)}
  BY DEF ActOnPad
<1>2. heard \cap {"A", "SELECT"} \subseteq Edges \cap {"A", "SELECT"}
  BY DEF VolumeButton
<1>3. Down(heard \cap {"A", "SELECT"}) \subseteq Down(Edges \cap {"A", "SELECT"})
  BY <1>2 DEF Down
<1>4. HoldAct \subseteq Press
  BY Triggers DEF Press
<1> QED BY <1>1, <1>3, <1>4, EdgeServed

LEMMA TriggersSome == \A a \in Act : ~(Trigger[a] \subseteq {})
BY Triggers

\* Where core 1 finds its next sample.
Samples ==
  /\ s_gp_ready => queue \in {NULL, {}, s_last_gp_evt}
  /\ ~s_connected => queue = NULL
  /\ ~s_gp_ready => gp_age = NULL
  /\ core1 # "act" => evt = {}
  /\ s_gp_ready /\ ~pad_live =>
       evt = {} /\ queue \in {NULL, {}} /\ Down(hands) \subseteq fresh

\* A press that may still act: of a pad that has gone, what it said last as well.
Due(a) == a \in fresh \/ (~s_gp_ready /\ a \in late)

\* A press on its way to core 1, in the last report, under the fingers, in the
\* sample it has taken or in one a pad has left behind, that is not served yet.
Unserved(a) ==
  /\ pad_live /\ Trigger[a] \subseteq s_last_gp_evt => Served(a) \/ a \in fresh
  /\ pad_live /\ Trigger[a] \subseteq hands =>
       Trigger[a] \subseteq s_last_gp_evt \/ a \in fresh
  /\ Trigger[a] \subseteq evt => Served(a) \/ Due(a)
  /\ ~s_gp_ready /\ queue # NULL /\ Trigger[a] \subseteq queue =>
       Due(a) \/ IF core1 = "act" THEN Trigger[a] \subseteq evt ELSE Served(a)

\* The same of X, which the btstack thread serves.
UnservedX == s_gp_ready /\ "X" \in hands \ x_prev => "puff" \in fresh

FreshInv == Samples /\ (\A a \in Press : Unserved(a)) /\ UnservedX

LEMMA DownIs == \A b, a : a \in Down(b) <=> a \in Act /\ Trigger[a] \subseteq b
BY DEF Down

LEMMA PressIs == Press \subseteq Act /\ "puff" \notin Press /\ "puff" \in Act
BY Triggers DEF Press

LEMMA InitFresh == Init => FreshInv
<1> SUFFICES ASSUME Init PROVE FreshInv
  OBVIOUS
<1>1. Samples
  BY DEF Init, Samples, s_connected
<1>2. ASSUME NEW a \in Press PROVE Unserved(a)
  BY PressIs, TriggersSome DEF Init, Unserved, pad_live
<1>3. UnservedX
  BY DEF Init, UnservedX
<1> QED BY <1>1, <1>2, <1>3 DEF FreshInv

LEMMA FingerFresh == ASSUME FreshInv, NEW b, Finger(b) PROVE FreshInv'
<1>1. /\ UNCHANGED <<s_gp_ready, s_bb_ready, s_last_gp_evt, gp_age, x_prev, queue,
                     core1, evt, prev, fired, late>>
      /\ fresh' = fresh \cup (Down(hands') \ Down(hands))
  BY DEF Finger, reports, input
<1>2. pad_live' = pad_live /\ \A a : Served(a)' = Served(a)
  BY <1>1, Zenon DEF pad_live, Served
<1>3. Samples'
  BY <1>1, <1>2 DEF FreshInv, Samples, s_connected
<1>4. ASSUME NEW a \in Press PROVE Unserved(a)'
  BY <1>1, <1>2, PressIs, DownIs DEF FreshInv, Unserved, Due
<1>5. UnservedX'
  <2>1. CASE "X" \in hands \/ "X" \notin hands'
    BY <1>1, <2>1 DEF FreshInv, UnservedX
  <2>2. CASE "X" \notin hands /\ "X" \in hands'
    <3>1. "puff" \in Down(hands') /\ "puff" \notin Down(hands)
      BY <2>2, Triggers, DownIs, PressIs
    <3> QED BY <1>1, <3>1 DEF UnservedX
  <2> QED BY <2>1, <2>2
<1> QED BY <1>3, <1>4, <1>5 DEF FreshInv

LEMMA ReadyFresh == ASSUME FreshInv, NEW pad \in BOOLEAN, Ready(pad) PROVE FreshInv'
<1>1. /\ UNCHANGED <<hands, s_last_gp_evt, gp_age, x_prev, core1, evt, prev, fired>>
      /\ core1 = "receive" /\ queue \in {NULL, {}}
      /\ queue' = IF s_connected THEN queue ELSE NULL
      /\ fresh' = IF pad THEN fresh \cup Down(hands) ELSE fresh
      /\ IF pad THEN ~s_gp_ready /\ s_gp_ready' = TRUE /\ UNCHANGED s_bb_ready
                ELSE ~s_bb_ready /\ s_bb_ready' = TRUE /\ UNCHANGED s_gp_ready
  BY DEF Ready, fingers, input
<1>2. \A a : Served(a)' = Served(a)
  BY <1>1, Zenon DEF Served
<1>3. evt = {} /\ evt' = {} /\ queue' \in {NULL, {}}
  BY <1>1 DEF FreshInv, Samples
<1>4. CASE pad
  <2>1. ~s_gp_ready /\ s_gp_ready' /\ gp_age' = NULL /\ ~pad_live'
    BY <1>1, <1>4 DEF FreshInv, Samples, pad_live
  <2>2. Samples'
    BY <1>1, <1>3, <1>4, <2>1 DEF Samples, s_connected
  <2>3. ASSUME NEW a \in Press PROVE Unserved(a)'
    BY <1>3, <2>1, PressIs, TriggersSome DEF Unserved
  <2>4. UnservedX'
    BY <1>1, <1>4, Triggers, DownIs, PressIs DEF UnservedX
  <2> QED BY <2>2, <2>3, <2>4 DEF FreshInv
<1>5. CASE ~pad
  <2>1. s_gp_ready' = s_gp_ready /\ fresh' = fresh /\ s_bb_ready'
    BY <1>1, <1>5
  <2>2. pad_live' = pad_live
    BY <1>1, <2>1, Zenon DEF pad_live
  <2>3. Samples'
    BY <1>1, <1>3, <1>5, <2>1, <2>2 DEF FreshInv, Samples, s_connected
  <2>4. ASSUME NEW a \in Press PROVE Unserved(a)'
    BY <1>1, <1>2, <1>3, <2>1, <2>2, PressIs, TriggersSome DEF FreshInv, Unserved, Due
  <2>5. UnservedX'
    BY <1>1, <2>1 DEF FreshInv, UnservedX
  <2> QED BY <2>3, <2>4, <2>5 DEF FreshInv
<1> QED BY <1>4, <1>5

LEMMA PadGoneFresh == ASSUME FreshInv, PadGone PROVE FreshInv'
<1>1. /\ UNCHANGED <<hands, s_bb_ready, core1, evt, prev, fired, fresh>>
      /\ s_gp_ready /\ ~s_gp_ready' /\ gp_age' = NULL
      /\ queue' = IF s_bb_ready THEN queue ELSE NULL
      /\ late' = Down(s_last_gp_evt)
  BY DEF PadGone, fingers, input
<1>2. \A a : Served(a)' = Served(a)
  BY <1>1, Zenon DEF Served
<1>3. ~pad_live'
  BY <1>1 DEF pad_live
<1>4. Samples'
  BY <1>1 DEF FreshInv, Samples, s_connected
<1>5. ASSUME NEW a \in Press PROVE Unserved(a)'
  <2>1. queue' # NULL /\ Trigger[a] \subseteq queue' => a \in late'
    BY <1>1, PressIs, TriggersSome, DownIs DEF FreshInv, Samples
  <2>2. Trigger[a] \subseteq evt' => Served(a)' \/ a \in fresh'
    BY <1>1, <1>2 DEF FreshInv, Unserved, Due
  <2> QED BY <1>1, <1>3, <2>1, <2>2 DEF Unserved, Due
<1>6. UnservedX'
  BY <1>1 DEF UnservedX
<1> QED BY <1>4, <1>5, <1>6 DEF FreshInv

LEMMA BoardGoneFresh == ASSUME FreshInv, BoardGone PROVE FreshInv'
<1>1. /\ UNCHANGED <<hands, s_gp_ready, s_last_gp_evt, gp_age, core1, evt, prev, fired,
                     fresh, late>>
      /\ ~s_bb_ready'
      /\ queue' = IF s_gp_ready THEN queue ELSE NULL
      /\ x_prev' = IF s_gp_ready THEN x_prev ELSE {}
  BY DEF BoardGone, fingers, input, history
<1>2. pad_live' = pad_live /\ \A a : Served(a)' = Served(a)
  BY <1>1, Zenon DEF pad_live, Served
<1>3. Samples'
  BY <1>1, <1>2 DEF FreshInv, Samples, s_connected
<1>4. ASSUME NEW a \in Press PROVE Unserved(a)'
  BY <1>1, <1>2 DEF FreshInv, Unserved, Due
<1>5. UnservedX'
  BY <1>1 DEF FreshInv, UnservedX
<1> QED BY <1>3, <1>4, <1>5 DEF FreshInv

LEMMA PadReportFresh == ASSUME FreshInv, PadReport PROVE FreshInv'
<1>1. /\ UNCHANGED <<hands, s_gp_ready, s_bb_ready, core1, evt, prev, fired>>
      /\ s_gp_ready /\ s_last_gp_evt' = hands /\ gp_age' = 0 /\ queue' = hands
      /\ x_prev' = hands \cap {"X"} /\ fresh' = fresh \ Down(x_prev' \ x_prev)
  BY DEF PadReport, fingers, input
<1>2. \A a : Served(a)' = Served(a)
  BY <1>1, Zenon DEF Served
<1>3. pad_live'
  BY <1>1, StorageAssumption, ButtonsAssumption DEF pad_live
<1>4. Samples'
  BY <1>1, <1>3 DEF FreshInv, Samples, s_connected
<1>5. \A a \in Press : a \in fresh => a \in fresh'
  BY <1>1, DownX, PressIs
<1>6. ASSUME NEW a \in Press PROVE Unserved(a)'
  <2>1. Trigger[a] \subseteq hands => Served(a) \/ a \in fresh
    <3>1. CASE pad_live
      BY <3>1 DEF FreshInv, Unserved
    <3>2. CASE ~pad_live
      BY <1>1, <3>2, PressIs, DownIs DEF FreshInv, Samples
    <3> QED BY <3>1, <3>2
  <2>2. Trigger[a] \subseteq evt => Served(a) \/ a \in fresh
    BY <1>1 DEF FreshInv, Unserved, Due
  <2> QED BY <1>1, <1>2, <1>5, <2>1, <2>2 DEF Unserved, Due
<1>7. UnservedX'
  BY <1>1 DEF UnservedX
<1> QED BY <1>4, <1>6, <1>7 DEF FreshInv

LEMMA BoardReportFresh == ASSUME FreshInv, BoardReport PROVE FreshInv'
<1>1. /\ UNCHANGED <<hands, s_gp_ready, s_bb_ready, s_last_gp_evt, gp_age, x_prev, core1,
                     evt, prev, fired, fresh, late>>
      /\ s_bb_ready /\ queue' = {}
  BY DEF BoardReport, fingers, input, history
<1>2. pad_live' = pad_live /\ \A a : Served(a)' = Served(a)
  BY <1>1, Zenon DEF pad_live, Served
<1>3. Samples'
  BY <1>1, <1>2 DEF FreshInv, Samples, s_connected
<1>4. ASSUME NEW a \in Press PROVE Unserved(a)'
  BY <1>1, <1>2, PressIs, TriggersSome DEF FreshInv, Unserved, Due
<1>5. UnservedX'
  BY <1>1 DEF FreshInv, UnservedX
<1> QED BY <1>3, <1>4, <1>5 DEF FreshInv

LEMMA PollFresh == ASSUME FreshInv, PollNothing PROVE FreshInv'
<1>1. /\ UNCHANGED <<hands, s_gp_ready, s_bb_ready, s_last_gp_evt, gp_age, x_prev, core1,
                     evt, fresh, late>>
      /\ core1 = "receive" /\ queue' = NULL
      /\ s_connected => UNCHANGED <<prev, fired>>
  BY DEF PollNothing, fingers, history
<1>2. pad_live' = pad_live
  BY <1>1, Zenon DEF pad_live
<1>3. evt = {}
  BY <1>1 DEF FreshInv, Samples
<1>4. Samples'
  BY <1>1, <1>2 DEF FreshInv, Samples, s_connected
<1>5. pad_live => \A a : Served(a)' = Served(a)
  <2>1. pad_live => s_connected
    BY DEF pad_live, s_connected
  <2>2. pad_live => prev' = prev /\ fired' = fired
    BY <1>1, <2>1
  <2>3. ASSUME prev' = prev, fired' = fired, NEW a PROVE Served(a)' = Served(a)
    BY <2>3, Zenon DEF Served
  <2> QED BY <2>2, <2>3, Zenon
<1>6. ASSUME NEW a \in Press PROVE Unserved(a)'
  <2>1. ~(Trigger[a] \subseteq evt')
    BY <1>1, <1>3, PressIs, TriggersSome
  <2>2. pad_live => Served(a)' = Served(a)
    BY <1>5
  <2> QED BY <1>1, <1>2, <2>1, <2>2, Zenon DEF FreshInv, Unserved
<1>7. UnservedX'
  BY <1>1 DEF FreshInv, UnservedX
<1> QED BY <1>4, <1>6, <1>7 DEF FreshInv

LEMMA ReceiveFresh == ASSUME FreshInv, Receive PROVE FreshInv'
<1>1. /\ UNCHANGED <<hands, s_gp_ready, s_bb_ready, s_last_gp_evt, gp_age, x_prev, prev,
                     fired, fresh, late>>
      /\ core1 = "receive" /\ core1' = "act" /\ queue # NULL
      /\ evt' = queue /\ queue' = NULL
  BY DEF Receive, fingers, history
<1>2. pad_live' = pad_live /\ \A a : Served(a)' = Served(a)
  BY <1>1, Zenon DEF pad_live, Served
<1>3. Samples'
  BY <1>1, <1>2 DEF FreshInv, Samples, s_connected
<1>4. ASSUME NEW a \in Press PROVE Unserved(a)'
  <2>1. Trigger[a] \subseteq queue => Served(a) \/ Due(a)
    <3>1. CASE ~s_gp_ready
      BY <1>1, <3>1 DEF FreshInv, Unserved, Due
    <3>2. CASE s_gp_ready /\ ~pad_live
      BY <1>1, <3>2, PressIs, TriggersSome DEF FreshInv, Samples
    <3>3. CASE pad_live
      <4>1. queue \in {{}, s_last_gp_evt}
        BY <1>1, <3>3 DEF FreshInv, Samples, pad_live
      <4> QED BY <3>3, <4>1, PressIs, TriggersSome DEF FreshInv, Unserved, Due
    <3> QED BY <3>1, <3>2, <3>3
  <2> QED BY <1>1, <1>2, <2>1 DEF FreshInv, Unserved, Due
<1>5. UnservedX'
  BY <1>1 DEF FreshInv, UnservedX
<1> QED BY <1>3, <1>4, <1>5 DEF FreshInv

LEMMA ServeFresh == ASSUME FreshInv, Serve PROVE FreshInv'
<1>1. /\ UNCHANGED <<hands, s_gp_ready, s_bb_ready, s_last_gp_evt, gp_age, x_prev, queue>>
      /\ core1 = "act" /\ core1' # "act" /\ evt' = {} /\ fresh' = fresh \ act'
      /\ late' = late \ act'
  BY DEF Serve, ActOnPad, fingers, reports
<1>2. pad_live' = pad_live
  BY <1>1, Zenon DEF pad_live
<1>3. CASE ~s_connected
  <2>1. UNCHANGED <<prev, fired>> /\ fresh' = fresh /\ late' = late /\ queue = NULL /\ ~s_gp_ready
    BY <1>1, <1>3 DEF Serve, FreshInv, Samples, s_connected
  <2>2. Samples'
    BY <1>1, <1>2, <2>1 DEF FreshInv, Samples, s_connected
  <2>3. ASSUME NEW a \in Press PROVE Unserved(a)'
    BY <1>1, <1>2, <2>1, PressIs, TriggersSome DEF Unserved, pad_live
  <2>4. UnservedX'
    BY <1>1, <2>1 DEF UnservedX
  <2> QED BY <2>2, <2>3, <2>4 DEF FreshInv
<1>4. CASE s_connected
  <2>1. ActOnPad
    BY <1>4 DEF Serve
  <2>2. act' \subseteq Press
    BY <2>1, ServedActs
  <2>3. \A a \in Press :
          /\ a \in act' => Trigger[a] \subseteq Pad /\ Served(a)'
          /\ Trigger[a] \subseteq Pad /\ ~Served(a)' => ~Served(a) /\ a \notin act'
    BY <2>1, ServedOnce
  <2>4. ~pad_live => Pad = evt
    BY DEF Pad
  <2>5. pad_live => Pad = s_last_gp_evt
    BY DEF Pad
  <2>6. CASE s_gp_ready /\ ~pad_live
    <3>1. evt = {} /\ queue \in {NULL, {}} /\ Down(hands) \subseteq fresh
      BY <2>6 DEF FreshInv, Samples
    <3>2. act' = {}
      BY <2>2, <2>3, <2>4, <2>6, <3>1, PressIs, TriggersSome
    <3>3. fresh' = fresh
      BY <1>1, <3>2
    <3>4. Samples'
      BY <1>1, <1>2, <3>1, <3>3 DEF FreshInv, Samples, s_connected
    <3>5. ASSUME NEW a \in Press PROVE Unserved(a)'
      BY <1>1, <1>2, <2>6, <3>1, PressIs, TriggersSome DEF Unserved
    <3>6. UnservedX'
      BY <1>1, <3>3 DEF FreshInv, UnservedX
    <3> QED BY <3>4, <3>5, <3>6 DEF FreshInv
  <2>7. CASE pad_live
    <3>1. Samples'
      BY <1>1, <1>2, <2>7 DEF FreshInv, Samples, s_connected
    <3>2. ASSUME NEW a \in Press PROVE Unserved(a)'
      <4>1. Trigger[a] \subseteq s_last_gp_evt => Served(a)' \/ a \in fresh'
        BY <1>1, <2>3, <2>5, <2>7 DEF FreshInv, Unserved, Due
      <4>2. Trigger[a] \subseteq hands => Trigger[a] \subseteq s_last_gp_evt \/ a \in fresh'
        BY <1>1, <2>3, <2>5, <2>7 DEF FreshInv, Unserved, Due
      <4>3. ~(Trigger[a] \subseteq evt')
        BY <1>1, PressIs, TriggersSome
      <4>4. s_gp_ready'
        BY <1>1, <2>7 DEF pad_live
      <4> QED BY <1>1, <1>2, <4>1, <4>2, <4>3, <4>4 DEF Unserved
    <3>3. UnservedX'
      BY <1>1, <2>2, PressIs DEF FreshInv, UnservedX
    <3> QED BY <3>1, <3>2, <3>3 DEF FreshInv
  <2>8. CASE ~s_gp_ready
    <3>1. ~pad_live
      BY <2>8 DEF pad_live
    <3>2. Samples'
      BY <1>1, <1>2, <2>8 DEF FreshInv, Samples, s_connected
    <3>3. ASSUME NEW a \in Press PROVE Unserved(a)'
      <4>1. queue # NULL /\ Trigger[a] \subseteq queue => Due(a)' \/ Served(a)'
        <5>1. CASE Trigger[a] \subseteq evt
          BY <1>1, <2>3, <2>4, <3>1, <5>1 DEF FreshInv, Unserved, Due
        <5>2. CASE ~(Trigger[a] \subseteq evt)
          BY <1>1, <2>3, <2>4, <2>8, <3>1, <5>2 DEF FreshInv, Unserved, Due
        <5> QED BY <5>1, <5>2
      <4>2. ~(Trigger[a] \subseteq evt')
        BY <1>1, PressIs, TriggersSome
      <4> QED BY <1>1, <1>2, <3>1, <4>1, <4>2 DEF Unserved
    <3>4. UnservedX'
      BY <1>1, <2>8 DEF UnservedX
    <3> QED BY <3>2, <3>3, <3>4 DEF FreshInv
  <2> QED BY <2>6, <2>7, <2>8 DEF pad_live
<1> QED BY <1>3, <1>4

LEMMA TickFresh == ASSUME KeysTypeOK, FreshInv, Tick PROVE FreshInv'
<1>1. /\ UNCHANGED <<hands, s_gp_ready, s_bb_ready, s_last_gp_evt, x_prev, queue, core1,
                     evt, prev, fired>>
      /\ core1 = "receive" /\ queue = NULL
      /\ gp_age' = Older(gp_age, Failsafe + 1)
      /\ fresh' = IF gp_age' = Failsafe + 1 THEN fresh \cup Down(hands) ELSE fresh
  BY DEF Tick, fingers
<1>2. evt = {}
  BY <1>1 DEF FreshInv, Samples
<1>3. \A a : Served(a)' = Served(a)
  BY <1>1, Zenon DEF Served
<1>4. /\ gp_age' = NULL <=> gp_age = NULL
      /\ gp_age' # NULL /\ gp_age' <= Failsafe => gp_age <= Failsafe
      /\ gp_age' # NULL /\ ~(gp_age' <= Failsafe) => gp_age' = Failsafe + 1
  <2>1. gp_age \in 0..(Failsafe + 1) \cup {NULL} /\ Failsafe \in Nat
    BY ButtonsAssumption DEF KeysTypeOK
  <2> QED BY <1>1, <2>1, StorageAssumption DEF Older
<1>5. pad_live' => pad_live
  BY <1>1, <1>4 DEF pad_live
<1>6. s_gp_ready /\ ~pad_live' => Down(hands) \subseteq fresh'
  <2>1. CASE gp_age' = Failsafe + 1
    BY <1>1, <2>1
  <2>2. CASE gp_age' # Failsafe + 1
    <3>1. s_gp_ready /\ ~pad_live' => gp_age = NULL
      BY <1>1, <1>4, <2>2 DEF pad_live
    <3>2. s_gp_ready /\ ~pad_live' => ~pad_live
      BY <3>1 DEF pad_live
    <3> QED BY <1>1, <2>2, <3>2 DEF FreshInv, Samples
  <2> QED BY <2>1, <2>2
<1>7. Samples'
  BY <1>1, <1>2, <1>4, <1>6 DEF FreshInv, Samples, s_connected
<1>8. ASSUME NEW a \in Press PROVE Unserved(a)'
  <2>1. ~(Trigger[a] \subseteq evt')
    BY <1>1, <1>2, PressIs, TriggersSome
  <2>2. a \in fresh => a \in fresh'
    BY <1>1
  <2> QED BY <1>1, <1>3, <1>5, <2>1, <2>2 DEF FreshInv, Unserved
<1>9. UnservedX'
  BY <1>1 DEF FreshInv, UnservedX
<1> QED BY <1>7, <1>8, <1>9 DEF FreshInv

LEMMA StepFresh == FreshInv /\ KeysTypeOK /\ [Next]_vars => FreshInv'
<1> SUFFICES ASSUME FreshInv, KeysTypeOK, [Next]_vars PROVE FreshInv'
  OBVIOUS
<1>1. ASSUME UNCHANGED <<hands, s_gp_ready, s_bb_ready, s_last_gp_evt, gp_age, x_prev,
                         queue, evt, prev, fired, fresh, late>>,
             core1' = core1 \/ {core1, core1'} \subseteq {"save", "tell", "receive"}
      PROVE  FreshInv'
  <2>1. pad_live' = pad_live /\ \A a : Served(a)' = Served(a)
    BY <1>1, Zenon DEF pad_live, Served
  <2>2. (core1' = "act") = (core1 = "act")
    BY <1>1
  <2>3. Samples'
    BY <1>1, <2>1, <2>2 DEF FreshInv, Samples, s_connected
  <2>4. ASSUME NEW a \in Press PROVE Unserved(a)'
    <3>1. Served(a)' = Served(a)
      BY <2>1
    <3> QED BY <1>1, <2>1, <2>2, <3>1, Zenon DEF FreshInv, Unserved, Due
  <2>5. UnservedX'
    BY <1>1 DEF FreshInv, UnservedX
  <2> QED BY <2>3, <2>4, <2>5 DEF FreshInv
<1>2. CASE ChangeVolume
  BY <1>1, <1>2 DEF ChangeVolume, fingers, reports, history
<1>3. CASE DebounceOver
  BY <1>1, <1>3 DEF DebounceOver, fingers, reports, history
<1>4. CASE TestEnds
  BY <1>1, <1>4 DEF TestEnds, fingers, reports, input, history
<1>5. CASE Wipe
  BY <1>1, <1>5 DEF Wipe, fingers, reports, input, history
<1>6. CASE UNCHANGED vars
  BY <1>1, <1>6 DEF vars, fingers, reports, input, history
<1>7. CASE Reboot
  <2>1. /\ s_gp_ready' = FALSE /\ s_bb_ready' = FALSE /\ queue' = NULL /\ evt' = {}
        /\ core1' = "receive" /\ gp_age' = NULL
    BY <1>7 DEF Reboot, Boot
  <2>2. Samples'
    BY <2>1 DEF Samples, s_connected
  <2>3. ASSUME NEW a \in Press PROVE Unserved(a)'
    BY <2>1, PressIs, TriggersSome DEF Unserved, pad_live
  <2>4. UnservedX'
    BY <2>1 DEF UnservedX
  <2> QED BY <2>2, <2>3, <2>4 DEF FreshInv
<1> QED
  BY <1>2, <1>3, <1>4, <1>5, <1>6, <1>7, FingerFresh, ReadyFresh, PadGoneFresh,
     BoardGoneFresh, PadReportFresh, BoardReportFresh, PollFresh, ReceiveFresh,
     ServeFresh, TickFresh
  DEF Next

\* Only core 1 and a report of the pad set something off.
LEMMA OthersQuiet ==
  ASSUME [Next]_vars
  PROVE  Serve \/ PadReport \/ act' = {} \/ UNCHANGED vars
BY DEF Next, Finger, Ready, PadGone, BoardGone, BoardReport, PollNothing, Receive,
       ChangeVolume, Tick, DebounceOver, TestEnds, Wipe, Reboot, Boot

ButtonsInv == KeysTypeOK /\ FreshInv

LEMMA InitButtons == Init => ButtonsInv
BY InitType, InitFresh DEF ButtonsInv

LEMMA StepButtons == ButtonsInv /\ [Next]_vars => ButtonsInv'
BY StepKeys, StepFresh DEF ButtonsInv

\* What is set off was pressed and not served.
LEMMA ActsFresh ==
  ASSUME ButtonsInv, [Next]_vars
  PROVE  act' \subseteq (IF s_gp_ready THEN fresh ELSE fresh \cup late) \/ UNCHANGED vars
<1> DEFINE Allowed == IF s_gp_ready THEN fresh ELSE fresh \cup late
<1>0. \A a : a \in Allowed <=> Due(a)
  BY DEF Due
<1> HIDE DEF Allowed
<1> SUFFICES act' \subseteq Allowed \/ UNCHANGED vars
  BY DEF Allowed
<1>1. CASE Serve
  <2>1. CASE s_connected
    <3>1. ActOnPad
      BY <1>1, <2>1 DEF Serve
    <3>2. ASSUME NEW a \in act' PROVE a \in Allowed
      <4>1. a \in Press /\ Trigger[a] \subseteq Pad /\ ~Served(a)
        BY <3>1, <3>2, ServedActs, ServedOnce
      <4>2. (Pad = s_last_gp_evt /\ pad_live) \/ Pad = evt
        BY DEF Pad
      <4>3. Unserved(a)
        BY <4>1 DEF ButtonsInv, FreshInv
      <4> QED BY <1>0, <4>1, <4>2, <4>3 DEF Unserved, Due
    <3> QED BY <3>2
  <2>2. CASE ~s_connected
    BY <1>1, <2>2 DEF Serve
  <2> QED BY <2>1, <2>2
<1>2. CASE PadReport
  <2>1. act' = Down(x_prev' \ x_prev) /\ x_prev' = hands \cap {"X"} /\ s_gp_ready
    BY <1>2 DEF PadReport
  <2>2. CASE "X" \in hands \ x_prev
    BY <1>0, <2>1, <2>2, DownX DEF Due, ButtonsInv, FreshInv, UnservedX
  <2>3. CASE "X" \notin hands \ x_prev
    <3>1. x_prev' \ x_prev = {}
      BY <2>1, <2>3
    <3> QED BY <2>1, <3>1, NothingDown
  <2> QED BY <2>2, <2>3
<1> QED BY <1>1, <1>2, OthersQuiet

\* While a pad is connected a press acts at most once, and so does a hold, whatever
\* the samples of a board do to the queue; of a pad that has gone, what its last
\* report said acts once more at most, and nothing else does.  For every hold
\* time, failsafe time and set of players (my_platform.c:675-701, 744-815, 1163).
THEOREM OnePressOneAct == Spec => PressActsOnce
<1>1. ButtonsInv /\ [Next]_vars =>
        [act' \subseteq IF s_gp_ready THEN fresh ELSE fresh \cup late]_vars
  BY ActsFresh
<1> QED BY <1>1, InitButtons, StepButtons, PTL DEF Spec, PressActsOnce

-----------------------------------------------------------------------------
(* A hold lasts. *)

\* What core 1 has made of the last sample is what the last report says.
Follows ==
  pad_live /\ core1 # "act" /\ queue = NULL =>
    \A h \in HoldAct : pressed_at[h] # NULL => Trigger[h] \subseteq s_last_gp_evt

\* A hold that core 1 counts has lasted as long, or as long as the pad has told.
Counted ==
  \A h \in HoldAct : pressed_at[h] # NULL => held[h] >= pressed_at[h] \/ held[h] >= told

HoldInv == Follows /\ Counted

LEMMA InitHold == Init => HoldInv
BY DEF Init, HoldInv, Follows, Counted, pad_live, Reset

LEMMA ServeHold == ASSUME ButtonsInv, HoldInv, Serve PROVE HoldInv'
<1>1. UNCHANGED <<hands, s_gp_ready, s_bb_ready, s_last_gp_evt, gp_age, x_prev, queue,
                  held, told>>
  BY DEF Serve, fingers, reports
<1>2. pad_live' = pad_live
  BY <1>1, Zenon DEF pad_live
<1>3. CASE s_connected
  <2>1. pressed_at' = [h \in HoldAct |->
          IF ~(Trigger[h] \subseteq Pad) THEN NULL
          ELSE IF pressed_at[h] = NULL THEN 0 ELSE pressed_at[h]]
    BY <1>3 DEF Serve, ActOnPad, FollowHolds
  <2>2. \A h \in HoldAct : pressed_at'[h] # NULL =>
          Trigger[h] \subseteq Pad /\ pressed_at'[h] \in {0, pressed_at[h]}
    BY <2>1
  <2>3. Follows'
    BY <1>1, <1>2, <2>2 DEF Follows, Pad
  <2>4. ASSUME NEW h \in HoldAct, pressed_at'[h] # NULL
        PROVE  held'[h] >= pressed_at'[h] \/ held'[h] >= told'
    <3>1. held[h] \in Nat
      BY ButtonsAssumption DEF ButtonsInv, KeysTypeOK
    <3>2. CASE pressed_at'[h] = 0
      BY <1>1, <3>1, <3>2
    <3>3. CASE pressed_at'[h] = pressed_at[h]
      BY <1>1, <2>4, <3>3 DEF HoldInv, Counted
    <3> QED BY <2>2, <2>4, <3>2, <3>3
  <2>5. Counted'
    BY <2>4 DEF Counted
  <2> QED BY <2>3, <2>5 DEF HoldInv
<1>4. CASE ~s_connected
  <2>1. pressed_at' = pressed_at /\ ~pad_live
    BY <1>4 DEF Serve, pad_live, s_connected
  <2> QED BY <1>1, <1>2, <2>1 DEF HoldInv, Follows, Counted
<1> QED BY <1>3, <1>4

LEMMA TickHold == ASSUME ButtonsInv, HoldInv, Tick PROVE HoldInv'
<1>1. /\ UNCHANGED <<hands, s_gp_ready, s_bb_ready, s_last_gp_evt, queue, core1>>
      /\ core1 = "receive" /\ queue = NULL
      /\ gp_age' = Older(gp_age, Failsafe + 1)
      /\ pressed_at' = [h \in HoldAct |-> Older(pressed_at[h], Hold)]
      /\ held' = [h \in HoldAct |->
                    IF Trigger[h] \subseteq hands THEN Older(held[h], Hold) ELSE 0]
      /\ told' = IF gp_age = 0 /\ s_last_gp_evt = hands THEN Older(told, Hold) ELSE 0
  BY DEF Tick, fingers
<1>2. /\ Hold \in Nat /\ Failsafe \in Nat /\ NULL \notin Nat
      /\ told \in 0..Hold /\ \A h \in HoldAct : held[h] \in 0..Hold
      /\ \A h \in HoldAct : pressed_at[h] \in 0..Hold \cup {NULL}
      /\ gp_age \in 0..(Failsafe + 1) \cup {NULL}
  BY ButtonsAssumption, StorageAssumption DEF ButtonsInv, KeysTypeOK
<1>3. pad_live' => pad_live
  <2>1. gp_age' # NULL /\ gp_age' <= Failsafe => gp_age # NULL /\ gp_age <= Failsafe
    BY <1>1, <1>2 DEF Older
  <2> QED BY <1>1, <2>1 DEF pad_live
<1>4. \A h \in HoldAct : pressed_at'[h] = NULL <=> pressed_at[h] = NULL
  BY <1>1, <1>2, OlderIs
<1>5. Follows'
  BY <1>1, <1>3, <1>4 DEF HoldInv, Follows
<1>6. ASSUME NEW h \in HoldAct, pressed_at'[h] # NULL
      PROVE  held'[h] >= pressed_at'[h] \/ held'[h] >= told'
  <2>1. held'[h] \in 0..Hold
    BY <1>1, <1>2, OlderIs
  <2>2. CASE told' = 0
    BY <1>2, <2>1, <2>2
  <2>3. CASE told' # 0
    <3>1. gp_age = 0 /\ s_last_gp_evt = hands /\ told' = Older(told, Hold)
      BY <1>1, <2>3
    <3>2. pad_live
      BY <1>2, <3>1 DEF ButtonsInv, FreshInv, Samples, pad_live
    <3>3. Trigger[h] \subseteq hands
      BY <1>1, <1>4, <1>6, <3>1, <3>2 DEF HoldInv, Follows
    <3>4. held'[h] = Older(held[h], Hold) /\ pressed_at'[h] = Older(pressed_at[h], Hold)
      BY <1>1, <3>3
    <3>5. pressed_at[h] \in 0..Hold /\ (held[h] >= pressed_at[h] \/ held[h] >= told)
      BY <1>2, <1>4, <1>6 DEF HoldInv, Counted
    <3> QED BY <1>2, <3>1, <3>4, <3>5 DEF Older
  <2> QED BY <2>2, <2>3
<1> QED BY <1>5, <1>6 DEF HoldInv, Counted

\* A step that leaves the counts alone and takes no report away from core 1.
LEMMA OtherHold ==
  ASSUME HoldInv, UNCHANGED <<held, told, pressed_at>>,
         pad_live' => pad_live /\ UNCHANGED s_last_gp_evt,
         core1' # "act" /\ queue' = NULL => core1 # "act" /\ queue = NULL
  PROVE  HoldInv'
BY DEF HoldInv, Follows, Counted

LEMMA StepHold == ButtonsInv /\ HoldInv /\ [Next]_vars => HoldInv'
<1> SUFFICES ASSUME ButtonsInv, HoldInv, [Next]_vars PROVE HoldInv'
  OBVIOUS
<1> USE DEF fingers, reports, input, history
<1>1. ASSUME NEW b \in player, Finger(b) PROVE HoldInv'
  <2>1. pad_live' = pad_live
    BY <1>1, Zenon DEF Finger, pad_live
  <2> QED BY <1>1, <2>1, OtherHold DEF Finger
<1>2. ASSUME NEW pad \in BOOLEAN, Ready(pad) PROVE HoldInv'
  <2>1. /\ UNCHANGED <<held, told, pressed_at, core1, s_last_gp_evt, gp_age>>
        /\ queue' = IF s_connected THEN queue ELSE NULL
        /\ s_gp_ready' => s_gp_ready \/ ~s_gp_ready
        /\ IF pad THEN ~s_gp_ready ELSE s_gp_ready' = s_gp_ready
    BY <1>2 DEF Ready
  <2>2. pad_live' => pad_live
    BY <2>1 DEF pad_live, ButtonsInv, FreshInv, Samples
  <2>3. ~s_connected => queue = NULL
    BY DEF ButtonsInv, FreshInv, Samples
  <2> QED BY <2>1, <2>2, <2>3, OtherHold
<1>3. CASE PadGone
  <2>1. ~pad_live' /\ UNCHANGED <<held, told, pressed_at>>
    BY <1>3 DEF PadGone, pad_live
  <2> QED BY <2>1 DEF HoldInv, Follows, Counted
<1>4. CASE BoardGone
  <2>1. pad_live' = pad_live
    BY <1>4, Zenon DEF BoardGone, pad_live
  <2>2. UNCHANGED <<held, told, pressed_at, core1, s_last_gp_evt, s_gp_ready>>
    BY <1>4 DEF BoardGone
  <2>3. CASE s_gp_ready
    <3>1. queue' = queue
      BY <1>4, <2>3 DEF BoardGone
    <3> QED BY <2>1, <2>2, <3>1, OtherHold
  <2>4. CASE ~s_gp_ready
    BY <2>1, <2>2, <2>4 DEF HoldInv, Follows, Counted, pad_live
  <2> QED BY <2>3, <2>4
<1>5. CASE PadReport
  <2>1. queue' # NULL /\ UNCHANGED <<held, told, pressed_at>>
    BY <1>5, Hands, ButtonsAssumption DEF PadReport, ButtonsInv
  <2> QED BY <2>1 DEF HoldInv, Follows, Counted
<1>6. CASE BoardReport
  <2>1. {} \in SUBSET Button
    BY NoButton
  <2>2. queue' # NULL /\ UNCHANGED <<held, told, pressed_at>>
    BY <1>6, <2>1, ButtonsAssumption DEF BoardReport
  <2> QED BY <2>2 DEF HoldInv, Follows, Counted
<1>7. CASE PollNothing
  <2>1. CASE s_connected
    <3>1. pad_live' = pad_live
      BY <1>7, Zenon DEF PollNothing, pad_live
    <3>2. UNCHANGED <<held, told, pressed_at, core1, s_last_gp_evt, queue>>
      BY <1>7, <2>1 DEF PollNothing
    <3> QED BY <3>1, <3>2, OtherHold
  <2>2. CASE ~s_connected
    <3>1. \A h \in HoldAct : pressed_at'[h] = NULL
      BY <1>7, <2>2 DEF PollNothing, Reset
    <3> QED BY <3>1 DEF HoldInv, Follows, Counted
  <2> QED BY <2>1, <2>2
<1>8. CASE Receive
  <2>1. core1' = "act" /\ UNCHANGED <<held, told, pressed_at>>
    BY <1>8 DEF Receive
  <2> QED BY <2>1 DEF HoldInv, Follows, Counted
<1>9. CASE ChangeVolume
  <2>1. pad_live' = pad_live
    BY <1>9, Zenon DEF ChangeVolume, pad_live
  <2> QED BY <1>9, <2>1, OtherHold DEF ChangeVolume
<1>10. CASE DebounceOver
  <2>1. pad_live' = pad_live
    BY <1>10, Zenon DEF DebounceOver, pad_live
  <2> QED BY <1>10, <2>1, OtherHold DEF DebounceOver
<1>11. CASE TestEnds
  <2>1. pad_live' = pad_live
    BY <1>11, Zenon DEF TestEnds, pad_live
  <2> QED BY <1>11, <2>1, OtherHold DEF TestEnds
<1>12. CASE Wipe
  <2>1. pad_live' = pad_live
    BY <1>12, Zenon DEF Wipe, pad_live
  <2> QED BY <1>12, <2>1, OtherHold DEF Wipe
<1>13. CASE Reboot
  <2>1. ~pad_live' /\ \A h \in HoldAct : pressed_at'[h] = NULL
    BY <1>13 DEF Reboot, Boot, Reset, pad_live
  <2> QED BY <2>1 DEF HoldInv, Follows, Counted
<1>14. CASE UNCHANGED vars
  <2>1. pad_live' = pad_live
    BY <1>14, Zenon DEF vars, pad_live
  <2> QED BY <1>14, <2>1, OtherHold DEF vars
<1> QED
  BY <1>1, <1>2, <1>3, <1>4, <1>5, <1>6, <1>7, <1>8, <1>9, <1>10, <1>11, <1>12,
     <1>13, <1>14, ServeHold, TickHold
  DEF Next

LEMMA HoldsLast ==
  ASSUME ButtonsInv, HoldInv, [Next]_vars
  PROVE  (\A h \in act' \cap HoldAct : told = Hold => held[h] = Hold) \/ UNCHANGED vars
<1>1. ASSUME Serve, NEW h \in act' \cap HoldAct, told = Hold PROVE held[h] = Hold
  <2>1. ActOnPad
    BY <1>1 DEF Serve
  <2>2. Completed(h)
    <3>1. h \notin Down(Edges \cap {"A", "SELECT"})
      BY <1>1, EdgeServed
    <3>2. (((Edges \cup VolumeButton) \ recent) \cap {"A", "SELECT"})
             \subseteq Edges \cap {"A", "SELECT"}
      BY DEF VolumeButton
    <3>3. h \notin Down(((Edges \cup VolumeButton) \ recent) \cap {"A", "SELECT"})
      BY <3>1, <3>2 DEF Down
    <3> QED BY <1>1, <2>1, <3>3 DEF ActOnPad
  <2>3. pressed_at[h] # NULL /\ pressed_at[h] >= Hold
    BY <2>2 DEF Completed
  <2>4. /\ Hold \in Nat /\ held[h] \in 0..Hold /\ pressed_at[h] \in 0..Hold
        /\ (held[h] >= pressed_at[h] \/ held[h] >= told)
    BY <1>1, <2>3, ButtonsAssumption DEF ButtonsInv, KeysTypeOK, HoldInv, Counted
  <2> QED BY <1>1, <2>3, <2>4
<1>2. CASE PadReport
  <2>1. act' \subseteq {"puff"}
    BY <1>2, DownX DEF PadReport
  <2> QED BY <2>1, Triggers
<1> QED BY <1>1, <1>2, OthersQuiet

\* While the pad tells of the buttons in time a hold sets off its act only after
\* the buttons were down for the whole time, for every hold time
\* (my_platform.c:687-701, 800-812).
THEOREM HoldsAreTimed == Spec => HoldsCount
<1> DEFINE IInv == ButtonsInv /\ HoldInv
           Lasts == \A h \in act' \cap HoldAct : told = Hold => held[h] = Hold
<1>1. Init => IInv
  BY InitButtons, InitHold
<1>2. IInv /\ [Next]_vars => IInv'
  BY StepButtons, StepHold
<1>3. IInv /\ [Next]_vars => [Lasts]_vars
  BY HoldsLast
<1> QED BY <1>1, <1>2, <1>3, PTL DEF Spec, HoldsCount
=============================================================================
