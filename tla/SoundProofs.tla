---------------------------- MODULE SoundProofs -----------------------------
(* Proofs about Link, and about Sound, which composes it with the sounds of a *)
(* connection; for every set of devices and every MaxDevices.                 *)
EXTENDS Sound, RegistryProofs, SequenceTheorems

USE DEF Real, Device

(* Link: the scan, the connect effect and the keep-alive. *)

\* The mailboxes name ready devices.
Mailboxes ==
  /\ effect_device \in ReadyDevices \cup {NULL}
  /\ keepalive_device \in ReadyDevices \cup {NULL}

IInv == Books /\ RegistryConsistent /\ Mailboxes /\ ScanPlanned

LEMMA InitIInv == Init => IInv
<1> SUFFICES ASSUME Init PROVE IInv
  OBVIOUS
<1>1. ReadyDevices = {}
  BY DEF Init, RegistryInit, ReadyDevices
<1>2. Books
  BY DEF Init, RegistryInit, Books
<1>3. RegistryConsistent
  BY <1>1, FS_EmptySet DEF Init, RegistryInit, RegistryConsistent
<1>4. Mailboxes /\ ScanPlanned
  BY DEF Init, Mailboxes, ScanPlanned
<1> QED BY <1>1, <1>2, <1>3, <1>4 DEF IInv

\* A connection that is being set up suspends the promise of a scan.
LEMMA ConnectStep ==
  ASSUME IInv, NEW d \in Device, OnDeviceConnected(d)
  PROVE  IInv'
<1>1. /\ LinkUp(d) /\ ClearReady(d)
      /\ UNCHANGED <<s_ready_count, s_bb_device, s_gp_device>>
      /\ UNCHANGED <<effect_device, keepalive_device>>
  BY DEF OnDeviceConnected, effect, keepalive
<1>2. ready' = ready /\ RegistryConsistent' /\ Books'
  BY <1>1, ConnectKeepsBooks DEF IInv
<1>3. Mailboxes'
  BY <1>1, <1>2 DEF IInv, Mailboxes, ReadyDevices
<1>4. CASE d \in Virtual
  <2>1. UNCHANGED scan
    BY <1>4, Zenon DEF OnDeviceConnected
  <2>2. UNCHANGED registry
    BY <1>1, <1>2 DEF registry
  <2>3. (Linked \cap Real)' = Linked \cap Real
    BY <1>1, <1>4, <2>2, VirtualKeepsBooks DEF IInv
  <2>4. InSetup' = InSetup /\ s_ready_count' = s_ready_count
    BY <1>1, <1>2, <2>3 DEF InSetup, ReadyDevices
  <2>5. ScanPlanned'
    BY <2>1, <2>4, Zenon DEF IInv, ScanPlanned, scan
  <2> QED BY <1>2, <1>3, <2>5 DEF IInv
<1>5. CASE d \notin Virtual
  <2>1. d \notin ReadyDevices
    BY <1>1 DEF IInv, RegistryConsistent, Linked, LinkUp
  <2>2. d \in InSetup'
    BY <1>1, <1>2, <1>5, <2>1 DEF IInv, Books, InSetup, Linked, LinkUp, ReadyDevices
  <2>3. ScanPlanned'
    BY <2>2 DEF ScanPlanned
  <2> QED BY <1>2, <1>3, <2>3 DEF IInv
<1> QED BY <1>4, <1>5

\* With room left, ScheduleScan leaves a scan due.
LEMMA ScheduleStep ==
  ASSUME ScheduleScan
  PROVE  ScanPlanned'
<1>1. scan_timer' = (scan_timer \/ s_ready_count' < MaxDevices)
  BY Zenon DEF ScheduleScan
<1> QED BY <1>1, Zenon DEF ScanPlanned

LEMMA ReadyStep ==
  ASSUME IInv, NEW d \in Device, OnDeviceReady(d)
  PROVE  IInv'
<1>1. /\ d \in Real /\ link[d] = "up" /\ ~ready[d] /\ Accept(d) /\ link' = link
      /\ ArmEffect(d) /\ StartKeepalive(d) /\ ScheduleScan
  BY Zenon DEF OnDeviceReady
<1>2. /\ ReadyDevices' = ReadyDevices \cup {d}
      /\ RegistryConsistent' /\ Books'
  BY <1>1, ReadyKeepsBooks DEF IInv
<1>3. effect_device' \in {effect_device, d} /\ keepalive_device' \in {keepalive_device, d}
  BY <1>1, Zenon DEF ArmEffect, StartKeepalive, effect, keepalive
<1>4. Mailboxes'
  BY <1>2, <1>3 DEF IInv, Mailboxes
<1>5. ScanPlanned'
  BY <1>1, ScheduleStep
<1> QED BY <1>2, <1>4, <1>5 DEF IInv

LEMMA DisconnectStep ==
  ASSUME IInv, NEW d \in Device, OnDeviceDisconnected(d)
  PROVE  IInv'
<1>1. LinkDown(d)
  BY Zenon DEF OnDeviceDisconnected
<1>2. CASE d \in Virtual
  <2>1. UNCHANGED <<registry, s_connected, scan, effect, keepalive>>
    BY <1>2, Zenon DEF OnDeviceDisconnected
  <2>2. (Linked \cap Real)' = Linked \cap Real /\ RegistryConsistent' /\ Books'
    BY <1>1, <1>2, <2>1, VirtualKeepsBooks DEF IInv
  <2>3. ReadyDevices' = ReadyDevices /\ s_ready_count' = s_ready_count
    BY <2>1 DEF registry, ReadyDevices
  <2>4. InSetup' = InSetup
    BY <2>2, <2>3 DEF InSetup
  <2>5. ScanPlanned'
    BY <2>1, <2>3, <2>4, Zenon DEF IInv, ScanPlanned, scan
  <2>6. Mailboxes'
    BY <2>1, <2>3 DEF IInv, Mailboxes, effect, keepalive
  <2> QED BY <2>2, <2>5, <2>6 DEF IInv
<1>3. CASE d \notin Virtual
  <2>1. Forget(d) /\ DropEffect(d) /\ DropKeepalive(d) /\ ScheduleScan
    BY <1>3, Zenon DEF OnDeviceDisconnected
  <2>2. /\ ReadyDevices' = ReadyDevices \ {d}
        /\ RegistryConsistent' /\ Books'
    BY <1>1, <2>1, ForgetKeepsBooks DEF IInv
  <2>3. /\ effect_device' = IF d = effect_device THEN NULL ELSE effect_device
        /\ keepalive_device' = IF d = keepalive_device THEN NULL ELSE keepalive_device
    BY <2>1, Zenon DEF DropEffect, DropKeepalive, effect, keepalive
  <2>4. Mailboxes'
    BY <2>2, <2>3 DEF IInv, Mailboxes
  <2>5. ScanPlanned'
    BY <2>1, ScheduleStep
  <2> QED BY <2>2, <2>4, <2>5 DEF IInv
<1> QED BY <1>2, <1>3

\* Timers and requests pass the promise of a scan on.
LEMMA TimerStep ==
  ASSUME IInv, Timer \/ Request \/ UNCHANGED vars
  PROVE  IInv'
<1>1. UNCHANGED <<link, registry, effect_device, keepalive_device>>
  BY Zenon DEF Timer, Request, ScanTimer, EffectTimer, KeepaliveTimer, ScanRequest,
     EffectRequest, KeepaliveRequest, vars, effect, keepalive
<1>2. /\ InSetup' = InSetup /\ ReadyDevices' = ReadyDevices
      /\ s_ready_count' = s_ready_count
  BY <1>1 DEF InSetup, Linked, ReadyDevices, registry
<1>3. Books' /\ RegistryConsistent' /\ Mailboxes'
  BY <1>1, <1>2
     DEF IInv, Books, RegistryConsistent, Mailboxes, registry, Linked
<1>4. ScanPlanned'
  <2>1. CASE ScanTimer
    BY <1>2, <2>1, Zenon DEF IInv, ScanPlanned, ScanTimer
  <2>2. CASE ScanRequest
    BY <1>2, <2>2, Zenon DEF ScanPlanned, ScanRequest
  <2>3. CASE EffectTimer \/ EffectRequest \/ KeepaliveTimer \/ KeepaliveRequest \/ UNCHANGED vars
    <3>1. UNCHANGED scan
      BY <2>3, Zenon DEF EffectTimer, EffectRequest, KeepaliveTimer, KeepaliveRequest, vars
    <3> QED BY <1>2, <3>1, Zenon DEF IInv, ScanPlanned, scan
  <2> QED BY <2>1, <2>2, <2>3, Zenon DEF Timer, Request
<1> QED BY <1>3, <1>4 DEF IInv

LEMMA StepIInv == IInv /\ [Next]_vars => IInv'
  BY ConnectStep, ReadyStep, DisconnectStep, TimerStep, Zenon DEF Next, Callback

\* With room for a controller and no connection being set up, a scan is running,
\* due or queued.
THEOREM NeverDeaf == Spec => []ScanPlanned
<1>1. IInv => ScanPlanned
  BY DEF IInv
<1> QED BY <1>1, InitIInv, StepIInv, PTL DEF Spec

\* No request runs for a device that is gone.
THEOREM MailboxesNeverStale == Spec => []MailboxesAlive
<1>1. IInv => MailboxesAlive
  BY DEF IInv, Mailboxes, MailboxesAlive
<1> QED BY <1>1, InitIInv, StepIInv, PTL DEF Spec

(* The keep-alive follows the pointer to the newest pad. *)

LEMMA KeepaliveStep ==
  ASSUME PadKeptAlive, [Next]_vars
  PROVE  PadKeptAlive'
<1> USE RegistryAssumption, LinkAssumption
<1>1. ASSUME NEW d \in Device, OnDeviceConnected(d) PROVE PadKeptAlive'
  <2>1. UNCHANGED <<s_gp_device, keepalive>>
    BY <1>1, Zenon DEF OnDeviceConnected
  <2> QED BY <2>1, Zenon DEF PadKeptAlive, keepalive
<1>2. ASSUME NEW d \in Device, OnDeviceReady(d) PROVE PadKeptAlive'
  <2>1. /\ d \in Pad \cup Board
        /\ s_gp_device' = IF d \in Board THEN s_gp_device ELSE d
    BY <1>2, Zenon DEF OnDeviceReady, Accept
  <2>2. CASE d \in Pad \ SelfAlive
    <3>1. keepalive_device' = d /\ keepalive_timer' = TRUE
      BY <1>2, <2>2, Zenon DEF OnDeviceReady, StartKeepalive
    <3>2. s_gp_device' = d
      BY <2>1, <2>2
    <3> QED BY <3>1, <3>2, Zenon DEF PadKeptAlive
  <2>3. CASE d \notin Pad \ SelfAlive
    <3>1. UNCHANGED keepalive
      BY <1>2, <2>3, Zenon DEF OnDeviceReady, StartKeepalive
    <3>2. s_gp_device' = s_gp_device \/ s_gp_device' \notin Pad \ SelfAlive
      BY <2>1, <2>3
    <3> QED BY <3>1, <3>2, Zenon DEF PadKeptAlive, keepalive
  <2> QED BY <2>2, <2>3
<1>3. ASSUME NEW d \in Device, OnDeviceDisconnected(d) PROVE PadKeptAlive'
  <2>1. CASE d \in Virtual
    <3>1. UNCHANGED <<registry, keepalive>>
      BY <1>3, <2>1, Zenon DEF OnDeviceDisconnected
    <3> QED BY <3>1, Zenon DEF PadKeptAlive, registry, keepalive
  <2>2. CASE d \notin Virtual
    <3>1. /\ s_gp_device' = IF d = s_gp_device THEN NULL ELSE s_gp_device
          /\ DropKeepalive(d)
      BY <1>3, <2>2, Zenon DEF OnDeviceDisconnected, Forget
    <3>2. CASE d = s_gp_device
      <4>1. s_gp_device' \notin Pad
        BY <3>1, <3>2
      <4> QED BY <4>1, Zenon DEF PadKeptAlive
    <3>3. CASE d # s_gp_device /\ d # keepalive_device
      BY <3>1, <3>3, Zenon DEF PadKeptAlive, DropKeepalive, keepalive
    <3>4. CASE d # s_gp_device /\ d = keepalive_device
      \* The newest pad is not the one in the mailbox: it keeps itself alive.
      BY <3>1, <3>4, Zenon DEF PadKeptAlive
    <3> QED BY <3>2, <3>3, <3>4
  <2> QED BY <2>1, <2>2
<1>4. CASE Timer \/ Request \/ UNCHANGED vars
  <2>1. UNCHANGED <<s_gp_device, keepalive_device, keepalive_timer>>
    BY <1>4, Zenon DEF Timer, Request, ScanTimer, EffectTimer, KeepaliveTimer,
       ScanRequest, EffectRequest, KeepaliveRequest, vars, registry, keepalive
  <2> QED BY <2>1, Zenon DEF PadKeptAlive
<1> QED BY <1>1, <1>2, <1>3, <1>4, Zenon DEF Next, Callback

\* The newest pad, if it needs keep-alive reports, is the one that gets them, for
\* any set of pads and boards (gamepad_keepalive_start and _stop).
THEOREM NewestPadKeptAlive == Spec => []PadKeptAlive
<1>1. Init => PadKeptAlive
  BY RegistryAssumption DEF Init, RegistryInit, PadKeptAlive, Real, Device
<1> QED BY <1>1, KeepaliveStep, PTL DEF Spec

-----------------------------------------------------------------------------

(***************************************************************************)
(* Every step of the composition is a step of Link or leaves Link alone, so *)
(* what is proved of Link holds in it.                                      *)
(***************************************************************************)
LEMMA StepIsLinkStep == ASSUME [SoundNext]_soundVars PROVE [Next]_vars
<1>1. ASSUME NEW d \in Device,
             DeviceConnected(d) \/ DeviceReady(d) \/ DeviceDisconnected(d)
      PROVE  [Next]_vars
  BY <1>1, Zenon DEF DeviceConnected, DeviceReady, DeviceDisconnected, Next, Callback
<1>2. CASE Statement
  <2>1. OnDeviceReady(device) \/ UNCHANGED vars
    BY <1>2, Zenon DEF Statement
  <2>2. OnDeviceReady(device) => device \in Device
    BY DEF OnDeviceReady
  <2> QED BY <2>1, <2>2, Zenon DEF Next, Callback
<1>3. CASE LinkRequest \/ LinkTimer
  BY <1>3, Zenon DEF LinkRequest, LinkTimer, Next
<1>4. CASE \/ ConnectSound \/ ConnectSoundArms \/ ConnectSoundPlay
           \/ ConnectSoundHeard \/ BgmExpires \/ BgmAgain
  BY <1>4, Zenon
  DEF ConnectSound, ConnectSoundArms, ConnectSoundPlay, ConnectSoundHeard, BgmExpires,
      BgmAgain
<1>5. CASE ActivityStops \/ ActivityLooks \/ ActivityStarts
  BY <1>5, Zenon DEF ActivityStops, ActivityLooks, ActivityStarts
<1>6. CASE UNCHANGED soundVars
  BY <1>6 DEF soundVars
<1> QED BY <1>1, <1>2, <1>3, <1>4, <1>5, <1>6, Zenon DEF SoundNext

\* The composition implements Link: splitting the callbacks of a device that is
\* ready or gone between the sound and the radio adds no behaviour to the radio
\* (my_platform.c:1028-1149).
THEOREM SoundImplementsLink == SoundSpec => Spec
<1>1. SoundInit => Init
  BY DEF SoundInit
<1> QED BY <1>1, StepIsLinkStep, PTL DEF SoundSpec, Spec

\* With room for a controller the car is never deaf, whatever the sounds do.
THEOREM SoundNeverDeaf == SoundSpec => []ScanPlanned
<1> QED BY SoundImplementsLink, NeverDeaf, PTL

-----------------------------------------------------------------------------
(* What is left of a callback, and what it promises there. *)

R1 == <<"start bgm">>
R2 == <<"stop bgm", "start bgm">>
R3 == <<"accept", "stop bgm", "start bgm">>
R4 == <<"start connect", "accept", "stop bgm", "start bgm">>
R5 == <<"stop play", "start connect", "accept", "stop bgm", "start bgm">>
R6 == <<"stop connect", "stop play", "start connect", "accept", "stop bgm", "start bgm">>
D3 == <<"stop play", "stop bgm", "start bgm">>
D4 == <<"stop connect", "stop play", "stop bgm", "start bgm">>

\* The provers take a tuple of strings for a sequence only when the strings are
\* given names.
LEMMA Rests ==
  /\ R1 # <<>> /\ Head(R1) = "start bgm" /\ Tail(R1) = <<>>
  /\ R2 # <<>> /\ Head(R2) = "stop bgm" /\ Tail(R2) = R1
  /\ R3 # <<>> /\ Head(R3) = "accept" /\ Tail(R3) = R2
  /\ R4 # <<>> /\ Head(R4) = "start connect" /\ Tail(R4) = R3
  /\ R5 # <<>> /\ Head(R5) = "stop play" /\ Tail(R5) = R4
  /\ R6 # <<>> /\ Head(R6) = "stop connect" /\ Tail(R6) = R5
  /\ D3 # <<>> /\ Head(D3) = "stop play" /\ Tail(D3) = R2
  /\ D4 # <<>> /\ Head(D4) = "stop connect" /\ Tail(D4) = D3
  /\ on_device_ready = R6
  /\ on_last_disconnected = D4
<1>1. PICK a, b, c, d, e, f :
        /\ a = "stop connect" /\ b = "stop play"
        /\ c = "start connect" /\ d = "accept"
        /\ e = "stop bgm" /\ f = "start bgm"
  OBVIOUS
<1> DEFINE S == {a, b, c, d, e, f}
<1>2. a \in S /\ b \in S /\ c \in S /\ d \in S /\ e \in S /\ f \in S
  OBVIOUS
<1> HIDE DEF S
<1>3. /\ R1 = <<f>>
      /\ R2 = <<e, f>>
      /\ R3 = <<d, e, f>>
      /\ R4 = <<c, d, e, f>>
      /\ R5 = <<b, c, d, e, f>>
      /\ R6 = <<a, b, c, d, e, f>>
      /\ D3 = <<b, e, f>>
      /\ D4 = <<a, b, e, f>>
  BY <1>1, Zenon DEF R1, R2, R3, R4, R5, R6, D3, D4
<1>4. <<f>> # <<>> /\ Head(<<f>>) = f /\ Tail(<<f>>) = <<>>
  BY <1>2
<1>5. <<e, f>> # <<>> /\ Head(<<e, f>>) = e /\ Tail(<<e, f>>) = <<f>>
  BY <1>2
<1>6. <<d, e, f>> # <<>> /\ Head(<<d, e, f>>) = d /\ Tail(<<d, e, f>>) = <<e, f>>
  BY <1>2
<1>7. <<c, d, e, f>> # <<>> /\ Head(<<c, d, e, f>>) = c /\ Tail(<<c, d, e, f>>) = <<d, e, f>>
  BY <1>2
<1>8. <<b, c, d, e, f>> # <<>> /\ Head(<<b, c, d, e, f>>) = b /\ Tail(<<b, c, d, e, f>>) = <<c, d, e, f>>
  BY <1>2
<1>9. <<a, b, c, d, e, f>> # <<>> /\ Head(<<a, b, c, d, e, f>>) = a /\ Tail(<<a, b, c, d, e, f>>) = <<b, c, d, e, f>>
  BY <1>2
<1>10. <<b, e, f>> # <<>> /\ Head(<<b, e, f>>) = b /\ Tail(<<b, e, f>>) = <<e, f>>
  BY <1>2
<1>11. <<a, b, e, f>> # <<>> /\ Head(<<a, b, e, f>>) = a /\ Tail(<<a, b, e, f>>) = <<b, e, f>>
  BY <1>2
<1>12. <<a, b>> \o <<c, d>> = <<a, b, c, d>>
  <2> DEFINE t == <<a, b>> \o <<c, d>>
  <2>1. <<a, b>> \in Seq(S) /\ <<c, d>> \in Seq(S)
    BY <1>2
  <2>2. t \in Seq(S) /\ Len(t) = 4 /\ \A i \in 1..4 : t[i] = <<a, b, c, d>>[i]
    BY <2>1
  <2>3. <<a, b, c, d>> \in Seq(S) /\ Len(<<a, b, c, d>>) = 4
    BY <1>2
  <2> QED BY <2>2, <2>3, SeqEqual
<1>13. <<a, b, c, d>> \o <<e, f>> = <<a, b, c, d, e, f>>
  <2> DEFINE t == <<a, b, c, d>> \o <<e, f>>
  <2>1. <<a, b, c, d>> \in Seq(S) /\ <<e, f>> \in Seq(S)
    BY <1>2
  <2>2. t \in Seq(S) /\ Len(t) = 6 /\ \A i \in 1..6 : t[i] = <<a, b, c, d, e, f>>[i]
    BY <2>1
  <2>3. <<a, b, c, d, e, f>> \in Seq(S) /\ Len(<<a, b, c, d, e, f>>) = 6
    BY <1>2
  <2> QED BY <2>2, <2>3, SeqEqual
<1>14. <<a, b>> \o <<e, f>> = <<a, b, e, f>>
  <2> DEFINE t == <<a, b>> \o <<e, f>>
  <2>1. <<a, b>> \in Seq(S) /\ <<e, f>> \in Seq(S)
    BY <1>2
  <2>2. t \in Seq(S) /\ Len(t) = 4 /\ \A i \in 1..4 : t[i] = <<a, b, e, f>>[i]
    BY <2>1
  <2>3. <<a, b, e, f>> \in Seq(S) /\ Len(<<a, b, e, f>>) = 4
    BY <1>2
  <2> QED BY <2>2, <2>3, SeqEqual
<1>15. on_device_ready = R6
  BY <1>1, <1>3, <1>12, <1>13, Zenon
  DEF on_device_ready, stop_connect_sound, connected_idle_bgm_reset
<1>16. on_last_disconnected = D4
  BY <1>1, <1>3, <1>14, Zenon
  DEF on_last_disconnected, stop_connect_sound, connected_idle_bgm_reset
<1> QED BY <1>1, <1>3, <1>4, <1>5, <1>6, <1>7, <1>8, <1>9, <1>10, <1>11, <1>15, <1>16, Zenon

Pending == ConnectPending \/ StopPending \/ PlayPending

\* The sound is in one place, on behalf of a connection that has not been heard.
Once ==
  /\ Pending => owed
  /\ ~(ConnectPending /\ StopPending)
  /\ ~(ConnectPending /\ PlayPending)
  /\ ~(StopPending /\ PlayPending)

\* The first timer is armed for such a connection even when a callback that was at
\* the UART has been overtaken: whatever that callback plays, it does not count.
Owing ==
  /\ owed => Pending
  /\ ConnectPending => owed
  /\ ~overtaken => Once

Planned == Owing /\ (owed => s_connected)

\* The strengthening: ConnectSoundPlanned speaks of the time between callbacks,
\* this of every statement.  After "stop play" only a callback that was overtaken
\* there can still be on its way.
Phase ==
  \/ todo \in {<<>>, R1, R2} /\ Planned
  \/ todo = R3 /\ Owing
  \/ todo = R4 /\ ~ConnectPending /\ (~overtaken => ~Pending)
  \/ todo = R5 /\ ~ConnectPending
  \/ todo = R6
  \/ todo = D3 /\ ~ConnectPending /\ ~owed /\ ~s_connected
  \/ todo = D4 /\ ~owed /\ ~s_connected

\* Only the first callback arms the second timer, so the second callback does not
\* run while its own timer is armed.
Alone == timer = "play" => ~connect_sound_play_timer

\* The count does not go up when a device goes, so neither does the flag.
Flag == s_ready_count \in Nat /\ (s_connected <=> s_ready_count > 0)

LEMMA FlagStep == ASSUME Flag, [Next]_vars PROVE Flag'
<1>1. ASSUME NEW d \in Device, OnDeviceConnected(d) PROVE Flag'
  BY <1>1 DEF OnDeviceConnected, Flag
<1>2. ASSUME NEW d \in Device, OnDeviceReady(d) PROVE Flag'
  BY <1>2 DEF OnDeviceReady, Accept, Flag
<1>3. ASSUME NEW d \in Device, OnDeviceDisconnected(d) PROVE Flag'
  <2>1. CASE d \in Virtual
    BY <1>3, <2>1 DEF OnDeviceDisconnected, Flag, registry
  <2>2. CASE d \notin Virtual
    <3>1. Forget(d) /\ s_connected' = (s_ready_count' > 0)
      BY <1>3, <2>2 DEF OnDeviceDisconnected
    <3>2. s_ready_count' \in Nat
      BY <3>1 DEF Forget, Flag
    <3> QED BY <3>1, <3>2 DEF Flag
  <2> QED BY <2>1, <2>2
<1>4. ASSUME Timer \/ Request \/ UNCHANGED vars PROVE Flag'
  BY <1>4 DEF Timer, ScanTimer, EffectTimer, KeepaliveTimer, Request, ScanRequest,
     EffectRequest, KeepaliveRequest, registry, vars, Flag
<1> QED BY <1>1, <1>2, <1>3, <1>4, Zenon DEF Next, Callback

SInv == Flag /\ Phase /\ Alone /\ MusicGoesOn

LEMMA InitSInv == SoundInit => SInv
<1> SUFFICES ASSUME SoundInit PROVE SInv
  OBVIOUS
<1>1. Flag
  BY DEF SoundInit, Init, RegistryInit, Flag
<1>2. ~Pending /\ Alone /\ MusicGoesOn
  BY Zenon
  DEF SoundInit, Init, RegistryInit, Pending, ConnectPending, StopPending, PlayPending,
      Alone, MusicGoesOn
<1>3. Phase
  BY <1>2, Zenon DEF SoundInit, Phase, Planned, Owing, Once, Pending
<1> QED BY <1>1, <1>2, <1>3 DEF SInv

\* What the three places of the connect sound are made of.
LEMMA SameSound ==
  ASSUME UNCHANGED <<connect_sound_timer, connect_sound_play_timer, timer>>
  PROVE  UNCHANGED <<ConnectPending, StopPending, PlayPending, Pending>> /\ Alone' = Alone
BY Zenon DEF ConnectPending, StopPending, PlayPending, Pending, Alone

\* A callback begins between two callbacks; only the disconnect handler of the
\* last device lowers s_connected, and it forgets what was owed.
LEMMA CallbackStep ==
  ASSUME SInv, NEW d \in Device,
         DeviceConnected(d) \/ DeviceReady(d) \/ DeviceDisconnected(d)
  PROVE  Phase' /\ Alone' /\ MusicGoesOn'
<1>1. UNCHANGED <<timers, timer, core1, overtaken>> /\ todo = <<>>
  BY Zenon DEF DeviceConnected, DeviceReady, DeviceDisconnected, sound, Idle
<1>2. UNCHANGED <<ConnectPending, StopPending, PlayPending, Pending>> /\ Alone'
  BY <1>1, SameSound, Zenon DEF timers, SInv
<1>3. Planned
  BY <1>1, Rests, Zenon DEF SInv, Phase
<1>4. CASE DeviceConnected(d)
  <2>1. UNCHANGED <<s_connected, sound>>
    BY <1>4, Zenon DEF DeviceConnected, OnDeviceConnected
  <2>2. Planned'
    BY <1>2, <1>3, <2>1, Zenon DEF Planned, Owing, Once, sound
  <2>3. MusicGoesOn'
    BY <2>1, Zenon DEF SInv, MusicGoesOn, sound, timers
  <2> QED BY <1>1, <1>2, <2>1, <2>2, <2>3, Zenon DEF Phase, sound
<1>5. CASE DeviceReady(d)
  <2>1. todo' = R6
    BY <1>5, Rests, Zenon DEF DeviceReady
  <2> QED BY <1>2, <2>1, Rests, Zenon DEF Phase, MusicGoesOn
<1>6. CASE DeviceDisconnected(d)
  <2>1. CASE d \in Virtual \/ s_connected'
    <3>1. UNCHANGED <<todo, owed>>
      BY <1>6, <2>1, Zenon DEF DeviceDisconnected
    <3>2. s_connected' \/ s_connected' = s_connected
      BY <1>6, <2>1, Zenon DEF DeviceDisconnected, OnDeviceDisconnected
    <3>3. Planned'
      BY <1>1, <1>2, <1>3, <3>1, <3>2, Zenon DEF Planned, Owing, Once
    <3>4. MusicGoesOn'
      <4>1. s_connected' => s_connected
        BY <1>6 DEF DeviceDisconnected, OnDeviceDisconnected, Forget, registry, SInv, Flag
      <4> QED BY <1>1, <3>1, <4>1, Zenon DEF SInv, MusicGoesOn, timers
    <3> QED BY <1>1, <1>2, <3>1, <3>3, <3>4, Zenon DEF Phase
  <2>2. CASE ~(d \in Virtual \/ s_connected')
    <3>1. todo' = D4 /\ owed' = FALSE
      BY <1>6, <2>2, Rests, Zenon DEF DeviceDisconnected
    <3> QED BY <1>2, <2>2, <3>1, Zenon DEF Phase, MusicGoesOn
  <2> QED BY <2>1, <2>2, Zenon
<1> QED BY <1>4, <1>5, <1>6, Zenon

\* One case for each thing that may be left of a callback.
LEMMA StatementStep == ASSUME SInv, Statement PROVE Phase' /\ Alone' /\ MusicGoesOn'
<1>1. /\ todo # <<>> /\ todo' = Tail(todo) /\ UNCHANGED <<timer, core1>>
      /\ connect_sound_timer' <=>
           \/ Head(todo) = "start connect"
           \/ connect_sound_timer /\ Head(todo) # "stop connect"
      /\ connect_sound_play_timer' <=>
           connect_sound_play_timer /\ Head(todo) # "stop play"
      /\ connected_idle_bgm_timer' <=>
           \/ Head(todo) = "start bgm" /\ s_connected
           \/ connected_idle_bgm_timer /\ Head(todo) # "stop bgm"
      /\ owed' <=> owed \/ Head(todo) = "start connect"
      /\ Head(todo) = "stop play" => (overtaken' <=> timer \in {"stop", "play"})
      /\ Head(todo) # "stop play" => UNCHANGED overtaken
      /\ Head(todo) # "accept" => UNCHANGED s_connected
      /\ Head(todo) = "accept" => s_connected' = TRUE
  BY Zenon DEF Statement, vars, OnDeviceReady
<1>2. /\ ConnectPending' <=> \/ Head(todo) = "start connect"
                             \/ ConnectPending /\ Head(todo) # "stop connect"
      /\ StopPending' <=> StopPending
      /\ PlayPending' <=> \/ connect_sound_play_timer /\ Head(todo) # "stop play"
                          \/ timer = "play"
  BY <1>1, Zenon DEF ConnectPending, StopPending, PlayPending
<1>3. Alone'
  BY <1>1, Zenon DEF SInv, Alone
<1>4. CASE todo \in {R1, R2} /\ Planned
  <2>1. Head(todo) \notin {"start connect", "stop connect", "stop play", "accept"}
    BY <1>4, Rests, Zenon
  <2>2. /\ ConnectPending' <=> ConnectPending
        /\ PlayPending' <=> PlayPending
        /\ owed' <=> owed
        /\ overtaken' = overtaken /\ s_connected' = s_connected
    BY <1>1, <1>2, <2>1, Zenon DEF PlayPending
  <2>3. Planned'
    BY <1>2, <1>4, <2>2, Zenon DEF Planned, Owing, Once, Pending
  <2>4. todo' \in {<<>>, R1}
    BY <1>1, <1>4, Rests, Zenon
  <2>5. MusicGoesOn'
    BY <1>1, <1>4, <2>1, Rests, Zenon DEF MusicGoesOn
  <2> QED BY <1>3, <2>3, <2>4, <2>5, Zenon DEF Phase
<1>5. CASE todo = R3 /\ Owing
  <2>1. Head(todo) = "accept" /\ todo' = R2
    BY <1>1, <1>5, Rests, Zenon
  <2>2. /\ ConnectPending' <=> ConnectPending
        /\ PlayPending' <=> PlayPending
        /\ owed' <=> owed
        /\ overtaken' = overtaken /\ s_connected' = TRUE
    BY <1>1, <1>2, <2>1, Zenon DEF PlayPending
  <2>3. Planned'
    BY <1>2, <1>5, <2>2, Zenon DEF Planned, Owing, Once, Pending
  <2> QED BY <1>3, <2>1, <2>3, Rests, Zenon DEF Phase, MusicGoesOn
<1>6. CASE todo = R4 /\ ~ConnectPending /\ (~overtaken => ~Pending)
  <2>1. Head(todo) = "start connect" /\ todo' = R3
    BY <1>1, <1>6, Rests, Zenon
  <2>2. ConnectPending' /\ owed' /\ overtaken' = overtaken
    BY <1>1, <1>2, <2>1, Zenon
  <2>3. PlayPending' <=> PlayPending
    BY <1>2, <2>1, Zenon DEF PlayPending
  <2>4. Owing'
    BY <1>2, <1>6, <2>2, <2>3, Zenon DEF Owing, Once, Pending
  <2> QED BY <1>3, <2>1, <2>4, Rests, Zenon DEF Phase, MusicGoesOn
<1>7. CASE todo = R5 /\ ~ConnectPending
  <2>1. Head(todo) = "stop play" /\ todo' = R4
    BY <1>1, <1>7, Rests, Zenon
  <2>2. ~ConnectPending'
    BY <1>2, <1>7, <2>1, Zenon
  <2>3. ~overtaken' => ~Pending'
    BY <1>1, <1>2, <2>1, <2>2, Zenon DEF Pending, StopPending
  <2> QED BY <1>3, <2>1, <2>2, <2>3, Rests, Zenon DEF Phase, MusicGoesOn
<1>8. CASE todo = R6
  <2>1. Head(todo) = "stop connect" /\ todo' = R5
    BY <1>1, <1>8, Rests, Zenon
  <2>2. ~ConnectPending'
    BY <1>2, <2>1, Zenon
  <2> QED BY <1>3, <2>1, <2>2, Rests, Zenon DEF Phase, MusicGoesOn
<1>9. CASE todo = D3 /\ ~ConnectPending /\ ~owed /\ ~s_connected
  <2>1. Head(todo) = "stop play" /\ todo' = R2
    BY <1>1, <1>9, Rests, Zenon
  <2>2. ~ConnectPending' /\ ~owed'
    BY <1>1, <1>2, <1>9, <2>1, Zenon
  <2>3. ~overtaken' => ~Pending'
    BY <1>1, <1>2, <2>1, <2>2, Zenon DEF Pending, StopPending
  <2>4. Planned'
    BY <2>2, <2>3, Zenon DEF Planned, Owing, Once, Pending
  <2> QED BY <1>3, <2>1, <2>4, Rests, Zenon DEF Phase, MusicGoesOn
<1>10. CASE todo = D4 /\ ~owed /\ ~s_connected
  <2>1. Head(todo) = "stop connect" /\ todo' = D3
    BY <1>1, <1>10, Rests, Zenon
  <2>2. ~ConnectPending'
    BY <1>2, <2>1, Zenon
  <2>3. ~owed'
    BY <1>1, <1>10, <2>1, Zenon
  <2>4. ~s_connected'
    <3>1. UNCHANGED s_connected
      BY <1>1, <2>1, Zenon
    <3> QED BY <1>10, <3>1, Zenon
  <2> QED BY <1>3, <2>1, <2>2, <2>3, <2>4, Zenon DEF Phase, MusicGoesOn
<1>11. Phase /\ todo # <<>>
  BY <1>1 DEF SInv
<1>12. \/ todo \in {R1, R2} /\ Planned
       \/ todo = R3 /\ Owing
       \/ todo = R4 /\ ~ConnectPending /\ (~overtaken => ~Pending)
       \/ todo = R5 /\ ~ConnectPending
       \/ todo = R6
       \/ todo = D3 /\ ~ConnectPending /\ ~owed /\ ~s_connected
       \/ todo = D4 /\ ~owed /\ ~s_connected
  BY <1>11, Zenon DEF Phase
<1> QED BY <1>4, <1>5, <1>6, <1>7, <1>8, <1>9, <1>10, <1>12, Zenon

\* A step of one of the two callbacks hands the sound on, and arms the first timer
\* for nobody.
LEMMA HandOver ==
  ASSUME SInv, UNCHANGED <<s_connected, todo>>,
         owed' => owed, ConnectPending' => ConnectPending,
         Owing => Owing',
         ~ConnectPending /\ (~overtaken => ~Pending) => (~overtaken' => ~Pending')
  PROVE  Phase'
<1>1. Planned => Planned'
  BY Zenon DEF Planned
<1>2. CASE todo \in {<<>>, R1, R2} /\ Planned
  BY <1>1, <1>2, Zenon DEF Phase
<1>3. CASE todo = R3 /\ Owing
  BY <1>3, Zenon DEF Phase
<1>4. CASE todo = R4 /\ ~ConnectPending /\ (~overtaken => ~Pending)
  BY <1>4, Zenon DEF Phase
<1>5. CASE \/ todo = R5 /\ ~ConnectPending
           \/ todo = R6
           \/ todo = D3 /\ ~ConnectPending /\ ~owed /\ ~s_connected
           \/ todo = D4 /\ ~owed /\ ~s_connected
  BY <1>5, Zenon DEF Phase
<1>6. Phase
  BY DEF SInv
<1> QED BY <1>2, <1>3, <1>4, <1>5, <1>6, Zenon DEF Phase

\* The timers of the connect sound hand over to each other.
LEMMA ConnectSoundStep ==
  ASSUME SInv,
         ConnectSound \/ ConnectSoundArms \/ ConnectSoundPlay \/ ConnectSoundHeard
  PROVE  Phase' /\ Alone' /\ MusicGoesOn'
<1>1. /\ UNCHANGED <<s_connected, connected_idle_bgm_timer, todo, core1>>
      /\ timer # "bgm"
  BY Zenon
  DEF ConnectSound, ConnectSoundArms, ConnectSoundPlay, ConnectSoundHeard, vars, timers
<1>2. MusicGoesOn'
  BY <1>1, Zenon DEF SInv, MusicGoesOn
<1>3. CASE ConnectSound
  <2>1. /\ ConnectPending /\ ~ConnectPending' /\ StopPending' /\ ~StopPending
        /\ PlayPending' <=> PlayPending
        /\ UNCHANGED <<owed, overtaken>> /\ Alone'
    BY <1>3, Zenon
    DEF ConnectSound, ConnectPending, StopPending, PlayPending, Alone
  <2>2. Owing => Owing'
    BY <2>1, Zenon DEF Owing, Once, Pending
  <2> QED BY <1>1, <1>2, <2>1, <2>2, HandOver, Zenon
<1>4. CASE ConnectSoundArms
  <2>1. /\ StopPending /\ ~StopPending' /\ PlayPending' /\ Alone'
        /\ UNCHANGED <<ConnectPending, owed, overtaken>>
    BY <1>4, Zenon
    DEF ConnectSoundArms, ConnectPending, StopPending, PlayPending, Alone
  <2>2. Owing => Owing'
    BY <2>1, Zenon DEF Owing, Once, Pending
  <2>3. Pending
    BY <2>1 DEF Pending
  <2> QED BY <1>1, <1>2, <2>1, <2>2, <2>3, HandOver, Zenon
<1>5. CASE ConnectSoundPlay
  <2>1. /\ PlayPending /\ PlayPending' /\ ~StopPending /\ ~StopPending' /\ Alone'
        /\ UNCHANGED <<ConnectPending, owed, overtaken>>
    BY <1>5, Zenon
    DEF ConnectSoundPlay, ConnectPending, StopPending, PlayPending, Alone
  <2>2. Owing => Owing'
    BY <2>1, Zenon DEF Owing, Once, Pending
  <2>3. Pending
    BY <2>1 DEF Pending
  <2> QED BY <1>1, <1>2, <2>1, <2>2, <2>3, HandOver, Zenon
<1>6. CASE ConnectSoundHeard
  <2>1. /\ ~StopPending' /\ ~PlayPending' /\ Alone'
        /\ UNCHANGED ConnectPending /\ (owed' <=> owed /\ ConnectPending)
    BY <1>6, Zenon
    DEF ConnectSoundHeard, ConnectPending, StopPending, PlayPending, SInv, Alone, timers
  <2>2. Owing => Owing'
    BY <2>1, Zenon DEF Owing, Once, Pending
  <2>3. ~ConnectPending => ~Pending'
    BY <2>1, Zenon DEF Pending
  <2> QED BY <1>1, <1>2, <2>1, <2>2, <2>3, HandOver, Zenon
<1> QED BY <1>3, <1>4, <1>5, <1>6, Zenon

\* Whoever takes the timer of the music away is about to start it again.
LEMMA MusicStep ==
  ASSUME SInv, BgmExpires \/ BgmAgain \/ ActivityStops \/ ActivityLooks \/ ActivityStarts
  PROVE  Phase' /\ Alone' /\ MusicGoesOn'
<1>1. UNCHANGED <<s_connected, connect_sound_timer, connect_sound_play_timer, todo, owed,
                  overtaken>>
  BY Zenon
  DEF BgmExpires, BgmAgain, ActivityStops, ActivityLooks, ActivityStarts, vars, timers
<1>2. (timer' = "stop" <=> timer = "stop") /\ (timer' = "play" <=> timer = "play")
  BY Zenon DEF BgmExpires, BgmAgain, ActivityStops, ActivityLooks, ActivityStarts
<1>3. /\ (ConnectPending' <=> ConnectPending) /\ (StopPending' <=> StopPending)
      /\ (PlayPending' <=> PlayPending) /\ Alone'
  BY <1>1, <1>2, Zenon DEF ConnectPending, StopPending, PlayPending, Alone, SInv
<1>4. Phase'
  <2>1. Owing => Owing'
    BY <1>1, <1>3, Zenon DEF Owing, Once, Pending
  <2>2. Pending' => Pending
    BY <1>3, Zenon DEF Pending
  <2> QED BY <1>1, <1>3, <2>1, <2>2, HandOver, Zenon
<1>5. MusicGoesOn'
  BY <1>1, Zenon
  DEF BgmExpires, BgmAgain, ActivityStops, ActivityLooks, ActivityStarts, SInv,
      MusicGoesOn, timers
<1> QED BY <1>3, <1>4, <1>5

LEMMA StepSInv == SInv /\ [SoundNext]_soundVars => SInv'
<1> SUFFICES ASSUME SInv, [SoundNext]_soundVars PROVE SInv'
  OBVIOUS
<1>1. Flag'
  BY StepIsLinkStep, FlagStep, Zenon DEF SInv
<1>2. ASSUME LinkRequest \/ LinkTimer \/ UNCHANGED soundVars
      PROVE  Phase' /\ Alone' /\ MusicGoesOn'
  <2>1. UNCHANGED <<s_connected, sound>>
    BY <1>2, Zenon
    DEF LinkRequest, LinkTimer, Timer, ScanTimer, EffectTimer, KeepaliveTimer, Request,
        ScanRequest, EffectRequest, KeepaliveRequest, soundVars, vars
  <2>2. UNCHANGED <<ConnectPending, StopPending, PlayPending, Pending>> /\ Alone'
    BY <2>1, SameSound, Zenon DEF sound, timers, SInv
  <2>3. Phase'
    <3>1. Owing => Owing'
      BY <2>1, <2>2, Zenon DEF Owing, Once, sound
    <3> QED BY <2>1, <2>2, <3>1, HandOver, Zenon DEF sound
  <2> QED BY <2>1, <2>2, <2>3, Zenon DEF SInv, MusicGoesOn, sound, timers
<1> QED
  BY <1>1, <1>2, CallbackStep, StatementStep, ConnectSoundStep, MusicStep, Zenon
  DEF SoundNext, SInv

\* For every set of controllers: the connect sound is on its way while a connection
\* has not been heard, and, unless a callback was overtaken at the UART, only then
\* and only once (my_platform.c:311-323, 1069-1073, 1119-1123).
THEOREM ConnectSoundAsPlanned == SoundSpec => []ConnectSoundPlanned
<1>1. SInv => ConnectSoundPlanned
  BY Rests, Zenon DEF SInv, Phase, Planned, Owing, Once, Pending, ConnectSoundPlanned
<1> QED BY <1>1, InitSInv, StepSInv, PTL DEF SoundSpec

\* For every set of controllers: the music of an idle driver never stops coming
\* (my_platform.c:265-292).
THEOREM MusicNeverLost == SoundSpec => []MusicGoesOn
<1>1. SInv => MusicGoesOn
  BY DEF SInv
<1> QED BY <1>1, InitSInv, StepSInv, PTL DEF SoundSpec

-----------------------------------------------------------------------------
(* Types. *)

\* Whatever is left of a callback, one statement later less of it is left.
LEMMA TailOfSuffix ==
  ASSUME NEW S, NEW f \in Seq(S), NEW t \in Suffixes(f), t # <<>>
  PROVE  Tail(t) \in Suffixes(f)
<1>1. PICK l \in 1..Len(f) : t = SubSeq(f, l, Len(f))
  BY DEF Suffixes
<1>2. /\ t \in Seq(S) /\ Len(t) = Len(f) - l + 1
      /\ \A i \in 1..Len(t) : t[i] = f[l + i - 1]
  BY <1>1
<1>3. PICK u : u = Tail(t)
  OBVIOUS
<1>4. /\ u \in Seq(S) /\ Len(u) = Len(f) - l
      /\ \A i \in 1..Len(u) : u[i] = t[i + 1]
  BY <1>2, <1>3
<1>5. CASE l = Len(f)
  <2>1. u = <<>>
    BY <1>4, <1>5, EmptySeq
  <2> QED BY <1>3, <2>1 DEF Suffixes
<1>6. CASE l # Len(f)
  <2>1. l + 1 \in 1..Len(f)
    BY <1>6
  <2>2. PICK v : v = SubSeq(f, l + 1, Len(f))
    OBVIOUS
  <2>3. /\ v \in Seq(S) /\ Len(v) = Len(f) - l
        /\ \A i \in 1..Len(v) : v[i] = f[l + 1 + i - 1]
    BY <2>1, <2>2
  <2>4. ASSUME NEW i \in 1..Len(u) PROVE u[i] = v[i]
    <3>1. i \in 1..Len(v) /\ i + 1 \in 1..Len(t) /\ l + 1 + i - 1 = l + (i + 1) - 1
      BY <1>2, <1>4, <2>3
    <3> QED BY <1>2, <1>4, <2>3, <2>4, <3>1
  <2>5. u = v
    BY <1>4, <2>3, <2>4, SeqEqual
  <2> QED BY <1>3, <2>1, <2>2, <2>5 DEF Suffixes
<1> QED BY <1>5, <1>6

\* A callback begins as a whole.
LEMMA WholeIsSuffix ==
  ASSUME NEW S, NEW f \in Seq(S), f # <<>>
  PROVE  f \in Suffixes(f)
<1>1. Len(f) \in 1..Len(f) \/ Len(f) = 0
  OBVIOUS
<1>2. 1 \in 1..Len(f)
  BY <1>1, EmptySeq
<1>3. f = SubSeq(f, 1, Len(f))
  OBVIOUS
<1> QED BY <1>2, <1>3 DEF Suffixes

LEMMA CallbacksAreSequences ==
  \E S : on_device_ready \in Seq(S) /\ on_last_disconnected \in Seq(S)
<1>1. PICK a, b, c, d, e, f :
        /\ a = "stop connect" /\ b = "stop play"
        /\ c = "start connect" /\ d = "accept"
        /\ e = "stop bgm" /\ f = "start bgm"
  OBVIOUS
<1>2. R6 = <<a, b, c, d, e, f>> /\ D4 = <<a, b, e, f>>
  BY <1>1, Zenon DEF R6, D4
<1>3. /\ <<a, b, c, d, e, f>> \in Seq({a, b, c, d, e, f})
      /\ <<a, b, e, f>> \in Seq({a, b, c, d, e, f})
  OBVIOUS
<1> QED BY <1>2, <1>3, Rests

\* What Link keeps beside the books.
RadioTypeOK ==
  /\ s_connected \in BOOLEAN
  /\ scanning \in BOOLEAN /\ scan_timer \in BOOLEAN /\ scan_request \in BOOLEAN
  /\ effect_device \in Device \cup {NULL}
  /\ effect_timer \in BOOLEAN /\ effect_request \in BOOLEAN
  /\ keepalive_device \in Pad \cup {NULL}
  /\ keepalive_timer \in BOOLEAN /\ keepalive_request \in BOOLEAN

LEMMA RadioStep == ASSUME Books, RadioTypeOK, [Next]_vars PROVE RadioTypeOK'
<1>1. ASSUME NEW d \in Device, OnDeviceConnected(d) PROVE RadioTypeOK'
  BY <1>1 DEF OnDeviceConnected, RadioTypeOK, scan, effect, keepalive
<1>2. ASSUME NEW d \in Device, OnDeviceReady(d) PROVE RadioTypeOK'
  <2>1. UNCHANGED scanning /\ scan_timer' \in BOOLEAN /\ scan_request' \in BOOLEAN
    BY <1>2 DEF OnDeviceReady, ScheduleScan, RadioTypeOK
  <2>2. /\ effect_device' \in Device \cup {NULL}
        /\ effect_timer' \in BOOLEAN /\ effect_request' \in BOOLEAN
    BY <1>2 DEF OnDeviceReady, ArmEffect, effect, RadioTypeOK
  <2>3. /\ keepalive_device' \in Pad \cup {NULL}
        /\ keepalive_timer' \in BOOLEAN /\ keepalive_request' \in BOOLEAN
    BY <1>2 DEF OnDeviceReady, StartKeepalive, keepalive, RadioTypeOK
  <2>4. s_connected' = TRUE
    BY <1>2 DEF OnDeviceReady
  <2> QED BY <2>1, <2>2, <2>3, <2>4 DEF RadioTypeOK
<1>3. ASSUME NEW d \in Device, OnDeviceDisconnected(d) PROVE RadioTypeOK'
  <2>1. CASE d \in Virtual
    BY <1>3, <2>1 DEF OnDeviceDisconnected, RadioTypeOK, scan, effect, keepalive
  <2>2. CASE d \notin Virtual
    <3>1. /\ DropEffect(d) /\ DropKeepalive(d)
          /\ s_connected' = (s_ready_count' > 0)
          /\ ScheduleScan
      BY <1>3, <2>2 DEF OnDeviceDisconnected
    <3>2. UNCHANGED scanning /\ scan_timer' \in BOOLEAN /\ scan_request' \in BOOLEAN
      BY <3>1 DEF ScheduleScan, RadioTypeOK
    <3>3. /\ effect_device' \in Device \cup {NULL}
          /\ effect_timer' \in BOOLEAN /\ effect_request' \in BOOLEAN
      BY <3>1 DEF DropEffect, effect, RadioTypeOK
    <3>4. /\ keepalive_device' \in Pad \cup {NULL}
          /\ keepalive_timer' \in BOOLEAN /\ keepalive_request' \in BOOLEAN
      BY <3>1 DEF DropKeepalive, keepalive, RadioTypeOK
    <3>5. s_connected' \in BOOLEAN
      BY <3>1
    <3> QED BY <3>2, <3>3, <3>4, <3>5 DEF RadioTypeOK
  <2> QED BY <2>1, <2>2
<1>4. ASSUME Timer \/ Request \/ UNCHANGED vars PROVE RadioTypeOK'
  <2>1. CASE ScanTimer \/ ScanRequest
    BY <2>1 DEF ScanTimer, ScanRequest, RadioTypeOK, effect, keepalive
  <2>2. CASE EffectTimer \/ EffectRequest
    BY <2>2 DEF EffectTimer, EffectRequest, RadioTypeOK, scan, keepalive
  <2>3. CASE KeepaliveTimer \/ KeepaliveRequest
    BY <2>3 DEF KeepaliveTimer, KeepaliveRequest, RadioTypeOK, scan, effect
  <2>4. CASE UNCHANGED vars
    BY <2>4 DEF vars, RadioTypeOK, scan, effect, keepalive
  <2> QED BY <1>4, <2>1, <2>2, <2>3, <2>4 DEF Timer, Request
<1> QED BY <1>1, <1>2, <1>3, <1>4, Zenon DEF Next, Callback

\* What may be left of a callback of the btstack thread.
Left == Suffixes(on_device_ready) \cup Suffixes(on_last_disconnected)

\* What Sound adds.
PlayTypeOK ==
  /\ connect_sound_timer \in BOOLEAN /\ connect_sound_play_timer \in BOOLEAN
  /\ connected_idle_bgm_timer \in BOOLEAN
  /\ todo \in Left
  /\ device \in Real \cup {NULL}
  /\ timer \in {"out", "stop", "play", "bgm"} /\ core1 \in {"out", "look", "start"}
  /\ owed \in BOOLEAN /\ overtaken \in BOOLEAN

LEMMA LeftIs ==
  /\ <<>> \in Left /\ on_device_ready \in Left /\ on_last_disconnected \in Left
  /\ \A t \in Left : t # <<>> => Tail(t) \in Left
<1>1. PICK S : on_device_ready \in Seq(S) /\ on_last_disconnected \in Seq(S)
  BY CallbacksAreSequences
<1>2. on_device_ready # <<>> /\ on_last_disconnected # <<>>
  BY Rests, Zenon
<1>3. on_device_ready \in Left /\ on_last_disconnected \in Left
  BY <1>1, <1>2, WholeIsSuffix DEF Left
<1>4. <<>> \in Left
  BY DEF Left, Suffixes
<1>5. ASSUME NEW t \in Left, t # <<>> PROVE Tail(t) \in Left
  BY <1>1, <1>5, TailOfSuffix DEF Left
<1> QED BY <1>3, <1>4, <1>5

LEMMA PlayStep == ASSUME RadioTypeOK, PlayTypeOK, [SoundNext]_soundVars PROVE PlayTypeOK'
<1> USE DEF sound, timers
<1>1. ASSUME NEW d \in Device, DeviceConnected(d) PROVE PlayTypeOK'
  BY <1>1 DEF DeviceConnected, PlayTypeOK
<1>2. ASSUME NEW d \in Device, DeviceReady(d) PROVE PlayTypeOK'
  <2>1. todo' \in Left /\ device' \in Real
    BY <1>2, LeftIs DEF DeviceReady
  <2> QED BY <1>2, <2>1 DEF DeviceReady, PlayTypeOK
<1>3. ASSUME NEW d \in Device, DeviceDisconnected(d) PROVE PlayTypeOK'
  <2>1. todo' \in Left /\ owed' \in BOOLEAN
    BY <1>3, LeftIs DEF DeviceDisconnected, PlayTypeOK
  <2> QED BY <1>3, <2>1 DEF DeviceDisconnected, PlayTypeOK
<1>4. CASE Statement
  <2>1. todo' \in Left
    BY <1>4, LeftIs DEF Statement, PlayTypeOK
  <2>2. device' \in Real \cup {NULL}
    BY <1>4 DEF Statement, PlayTypeOK
  <2>3. /\ connect_sound_timer' \in BOOLEAN /\ connect_sound_play_timer' \in BOOLEAN
        /\ connected_idle_bgm_timer' \in BOOLEAN
    BY <1>4 DEF Statement
  <2>4. UNCHANGED <<timer, core1>>
    BY <1>4 DEF Statement
  <2>5. owed' \in BOOLEAN
    BY <1>4 DEF Statement
  <2>6. CASE Head(todo) = "stop play"
    <3>1. overtaken' = (timer \in {"stop", "play"})
      BY <1>4, <2>6, Zenon DEF Statement
    <3> QED BY <2>1, <2>2, <2>3, <2>4, <2>5, <3>1 DEF PlayTypeOK
  <2>7. CASE Head(todo) # "stop play"
    <3>1. overtaken' = overtaken
      BY <1>4, <2>7, Zenon DEF Statement
    <3> QED BY <2>1, <2>2, <2>3, <2>4, <2>5, <3>1 DEF PlayTypeOK
  <2> QED BY <2>6, <2>7
<1>5. CASE LinkRequest \/ LinkTimer \/ UNCHANGED soundVars
  BY <1>5 DEF LinkRequest, LinkTimer, soundVars, PlayTypeOK
<1>6. CASE ConnectSound \/ ConnectSoundArms \/ ConnectSoundPlay \/ ConnectSoundHeard
  BY <1>6 DEF ConnectSound, ConnectSoundArms, ConnectSoundPlay, ConnectSoundHeard, PlayTypeOK
<1>7. CASE BgmExpires \/ BgmAgain
  BY <1>7 DEF BgmExpires, BgmAgain, PlayTypeOK, RadioTypeOK
<1>8. CASE ActivityStops \/ ActivityLooks \/ ActivityStarts
  BY <1>8 DEF ActivityStops, ActivityLooks, ActivityStarts, PlayTypeOK
<1> QED BY <1>1, <1>2, <1>3, <1>4, <1>5, <1>6, <1>7, <1>8 DEF SoundNext

\* For every set of controllers: what is left of a callback is always the end of one
\* of the two, and the mailboxes and pointers name devices of their kind
\* (my_platform.c:1028-1149).
THEOREM SoundTyped == SoundSpec => []SoundTypeOK
<1> DEFINE Types == IInv /\ RadioTypeOK /\ PlayTypeOK
<1>1. Types => SoundTypeOK
  BY DEF IInv, Books, RadioTypeOK, PlayTypeOK, Left, SoundTypeOK, TypeOK, RegistryTypeOK
<1>2. SoundInit => Types
  <2> SUFFICES ASSUME SoundInit PROVE Types
    OBVIOUS
  <2>1. IInv
    BY InitIInv DEF SoundInit
  <2>2. RadioTypeOK
    BY DEF SoundInit, Init, RegistryInit, RadioTypeOK
  <2>3. PlayTypeOK
    BY LeftIs DEF SoundInit, PlayTypeOK
  <2> QED BY <2>1, <2>2, <2>3
<1>3. Types /\ [SoundNext]_soundVars => Types'
  <2> SUFFICES ASSUME Types, [SoundNext]_soundVars PROVE Types'
    OBVIOUS
  <2>1. [Next]_vars
    BY StepIsLinkStep
  <2>2. IInv' /\ RadioTypeOK'
    BY <2>1, StepIInv, RadioStep DEF IInv
  <2>3. PlayTypeOK'
    BY PlayStep
  <2> QED BY <2>2, <2>3
<1> QED BY <1>1, <1>2, <1>3, PTL DEF SoundSpec
=============================================================================
