------------------------------ MODULE Storage ------------------------------
(***************************************************************************)
(* The volume and its byte in flash: components/rccar/rccar_storage.c, and  *)
(* the MP3 module that plays at the volume it was told last.  NVS writes    *)
(* one key atomically or fails; it keeps its content over a restart and a   *)
(* power cut.  Module Buttons calls these operations.                       *)
(***************************************************************************)
EXTENDS Integers

CONSTANTS
  VolumeMin, VolumeMax, VolumeDefault,
  NULL                 \* no byte under the key, no sample, no time

Volume == VolumeMin..VolumeMax

ASSUME StorageAssumption ==
  /\ VolumeMin \in Nat /\ VolumeMax \in Nat
  /\ VolumeDefault \in Volume
  /\ NULL \notin Nat

VARIABLES
  s_volume,
  s_handle,            \* the namespace is open
  nvs,                 \* external: the byte under "vol"
  audible,             \* external: the volume of the MP3 module
  refused              \* history: since the flash took a byte last, it has
                       \* refused or lost one

storage == <<s_volume, s_handle, nvs, audible, refused>>

\* A byte that another firmware has left there may be out of range.
StorageTypeOK ==
  /\ s_volume \in Volume /\ s_handle \in BOOLEAN
  /\ nvs \in Volume \cup {VolumeMax + 1, NULL}
  /\ audible \in Volume /\ refused \in BOOLEAN

\* Mutant: the range of a loaded byte is not asked.
LoadedUnchecked(byte) == IF byte = NULL THEN VolumeDefault ELSE byte

Loaded(byte) == IF byte \in Volume THEN byte ELSE VolumeDefault

\* rccar_storage_init and on_init_complete.  Flash or namespace may refuse to
\* open; a full partition, or one of a newer version, is erased first.
Load ==
  /\ \/ /\ s_handle' = TRUE
        /\ nvs' \in {nvs, NULL}
        /\ s_volume' = Loaded(nvs') /\ refused' = FALSE
     \/ /\ s_handle' = FALSE
        /\ UNCHANGED nvs
        /\ s_volume' = VolumeDefault /\ refused' = TRUE
  /\ audible' = s_volume'

\* rccar_storage_volume_set, first half: the copy in memory.
SetCopy(v) ==
  /\ s_volume' = v
  /\ UNCHANGED <<s_handle, nvs, audible, refused>>

\* Mutant: only a volume above the default is worth a write.
SaveLouder ==
  /\ IF s_handle /\ s_volume >= VolumeDefault
       THEN nvs' = s_volume /\ refused' = FALSE
       ELSE UNCHANGED nvs /\ refused' = ~s_handle
  /\ UNCHANGED <<s_volume, s_handle, audible>>

\* Second half: the byte, if the namespace is open and takes it.
Save ==
  /\ \/ s_handle /\ nvs' = s_volume /\ refused' = FALSE
     \/ UNCHANGED nvs /\ refused' = TRUE
  /\ UNCHANGED <<s_volume, s_handle, audible>>

\* rccar_dfplayer_set_volume, after the caller has set the volume.
Tell ==
  /\ audible' = s_volume
  /\ UNCHANGED <<s_volume, s_handle, nvs, refused>>

\* rccar_storage_erase_and_restart opens the namespace once more; when that
\* fails nothing is erased.
EraseAll ==
  /\ \/ nvs' = NULL /\ refused' = TRUE
     \/ UNCHANGED <<nvs, refused>>
  /\ UNCHANGED <<s_volume, s_handle, audible>>

CloseHandle ==
  /\ s_handle' = FALSE
  /\ UNCHANGED <<s_volume, nvs, audible, refused>>
=============================================================================
