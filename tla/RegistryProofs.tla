--------------------------- MODULE RegistryProofs ---------------------------
(* What the operations of Registry do to its books, for every set of devices. *)
EXTENDS Registry, FiniteSetTheorems, TLAPS

USE DEF Real, Device

\* The types the steps below rely on.
Books ==
  /\ link \in [Device -> {"down", "up"}]
  /\ ready \in [Device -> BOOLEAN]
  /\ s_ready_count \in Nat
  /\ s_bb_device \in Board \cup {NULL}
  /\ s_gp_device \in Pad \cup {NULL}

LEMMA ReadyFinite == IsFiniteSet(ReadyDevices)
<1>1. ReadyDevices \subseteq Device
  BY DEF ReadyDevices
<1> QED BY <1>1, RegistryAssumption, FS_Subset

\* A device that comes up was not ready: only linked devices are.
LEMMA ConnectKeepsBooks ==
  ASSUME Books, RegistryConsistent, NEW d \in Device, LinkUp(d), ClearReady(d),
         UNCHANGED <<s_ready_count, s_bb_device, s_gp_device>>
  PROVE  ready' = ready /\ RegistryConsistent' /\ Books'
<1> USE RegistryAssumption DEF Books
<1>1. ready' = ready
  BY DEF LinkUp, ClearReady, RegistryConsistent, ReadyDevices, Linked
<1>2. link' = [link EXCEPT ![d] = "up"]
  BY DEF LinkUp
<1> QED
  BY <1>1, <1>2 DEF RegistryConsistent, ReadyDevices, Linked

\* A device that becomes ready is counted once.
LEMMA ReadyKeepsBooks ==
  ASSUME Books, RegistryConsistent, NEW d \in Real, link[d] = "up", ~ready[d],
         Accept(d), link' = link
  PROVE  /\ ReadyDevices' = ReadyDevices \cup {d}
         /\ RegistryConsistent' /\ Books'
<1> USE RegistryAssumption DEF Books
<1>1. ReadyDevices' = ReadyDevices \cup {d} /\ d \notin ReadyDevices
  BY DEF Accept, ReadyDevices
<1>2. Cardinality(ReadyDevices') = Cardinality(ReadyDevices) + 1
  BY <1>1, ReadyFinite, FS_AddElement
<1>3. RegistryConsistent'
  BY <1>1, <1>2 DEF Accept, RegistryConsistent, Linked
<1>4. Books'
  BY DEF Accept
<1> QED BY <1>1, <1>3, <1>4

\* A device that goes is forgotten, and uncounted only if it was counted.
LEMMA ForgetKeepsBooks ==
  ASSUME Books, RegistryConsistent, NEW d \in Device, LinkDown(d), Forget(d)
  PROVE  /\ ReadyDevices' = ReadyDevices \ {d}
         /\ RegistryConsistent' /\ Books'
<1> USE RegistryAssumption DEF Books
<1>1. ReadyDevices' = ReadyDevices \ {d}
  BY DEF Forget, ReadyDevices
<1>2. Books'
  BY DEF Forget, LinkDown
<1>3. CASE d \in ReadyDevices
  <2>1. Cardinality(ReadyDevices') = Cardinality(ReadyDevices) - 1
    BY <1>1, <1>3, ReadyFinite, FS_RemoveElement
  <2>2. s_ready_count > 0
    BY <1>3, ReadyFinite, FS_EmptySet, FS_CardinalityType DEF RegistryConsistent
  <2>3. s_ready_count' = s_ready_count - 1
    BY <1>3, <2>2 DEF Forget, ReadyDevices
  <2>4. RegistryConsistent'
    BY <1>1, <2>1, <2>3 DEF LinkDown, Forget, RegistryConsistent, Linked
  <2> QED BY <1>1, <1>2, <2>4
<1>4. CASE d \notin ReadyDevices
  <2>1. s_ready_count' = s_ready_count
    BY <1>4 DEF Forget, ReadyDevices
  <2>2. ReadyDevices' = ReadyDevices
    BY <1>1, <1>4
  <2>3. RegistryConsistent'
    BY <1>4, <2>1, <2>2 DEF LinkDown, Forget, RegistryConsistent, Linked
  <2> QED BY <1>1, <1>2, <2>3
<1> QED BY <1>3, <1>4

\* A virtual child that comes or goes is in no book.
LEMMA VirtualKeepsBooks ==
  ASSUME Books, RegistryConsistent, NEW d \in Virtual, LinkUp(d) \/ LinkDown(d),
         UNCHANGED registry
  PROVE  /\ (Linked \cap Real)' = Linked \cap Real
         /\ RegistryConsistent' /\ Books'
  BY RegistryAssumption
     DEF Books, LinkUp, LinkDown, registry, RegistryConsistent, ReadyDevices, Linked
=============================================================================
