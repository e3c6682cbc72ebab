---------------------- MODULE SessionsDurabilityProofs ----------------------
(***************************************************************************)
(* Proofs about SessionsDurability for any keys, ids and clients.          *)
(***************************************************************************)
EXTENDS SessionsDurability, TLAPS

(* With nobody about to save a change, a Save that has had the file to itself *)
(* so far is about to write the map as it is.                                 *)
CopyInv == dirty = {} => \A c \in Saving \ overlapped : snap[c] = mem

DurableInv == DTypeOK /\ CopyInv /\ DurableWithoutOverlap

LEMMA MapUpdate ==
  ASSUME NEW map \in Maps, NEW k \in Keys, NEW v \in Ids \cup {NoId}
  PROVE  [map EXCEPT ![k] = v] \in Maps
BY DEF Maps

LEMMA DurableInit == DInit => DurableInv
<1> SUFFICES ASSUME DInit PROVE DurableInv
  OBVIOUS
<1>1. Saving = {}
  BY DEF DInit, Init, Saving
<1> QED
  BY <1>1, SessionsAssumption
  DEF DInit, Init, DurableInv, DTypeOK, TypeOK, CopyInv, DurableWithoutOverlap

(***************************************************************************)
(* Type correctness.                                                       *)
(***************************************************************************)
LEMMA DurableTypeStep == DTypeOK /\ [DNext]_dvars => DTypeOK'
<1> SUFFICES ASSUME DTypeOK, [DNext]_dvars PROVE DTypeOK'
  OBVIOUS
<1> USE DEF DTypeOK, TypeOK, Saving
<1>1. ASSUME NEW c \in Clients, DChange(c) PROVE DTypeOK'
  <2>1. mem' \in Maps /\ dirty' \subseteq Clients
    BY <1>1, MapUpdate DEF DChange, Delete, Set
  <2>2. UNCHANGED <<disk, snap, overlapped, suspect>>
    BY <1>1 DEF DChange, Delete, Set
  <2> QED
    BY <2>1, <2>2
<1>2. ASSUME NEW c \in Clients, DSaveCopy(c) PROVE DTypeOK'
  <2>1. snap' = [snap EXCEPT ![c] = mem] /\ mem # NoSave
    BY <1>2, SessionsAssumption DEF DSaveCopy, SaveCopy
  <2>2. overlapped' \subseteq Saving'
    BY <1>2, <2>1 DEF DSaveCopy
  <2> QED
    BY <1>2, <2>1, <2>2 DEF DSaveCopy, SaveCopy
<1>3. ASSUME NEW c \in Clients, DSaveWrite(c) PROVE DTypeOK'
  BY <1>3 DEF DSaveWrite, SaveWrite
<1>4. ASSUME NEW c \in Clients, DSaveFail(c) PROVE DTypeOK'
  BY <1>4 DEF DSaveFail, SaveFail
<1>5. CASE DRestart
  <2>1. Empty \in Maps
    BY DEF Empty, Maps
  <2> QED
    BY <1>5, <2>1 DEF DRestart, Load, Clear
<1>6. CASE UNCHANGED dvars
  BY <1>6 DEF dvars
<1> QED
  BY <1>1, <1>2, <1>3, <1>4, <1>5, <1>6 DEF DNext

(***************************************************************************)
(* Durability.                                                             *)
(***************************************************************************)
LEMMA DurableStep == DurableInv /\ [DNext]_dvars => DurableInv'
<1> SUFFICES ASSUME DurableInv, [DNext]_dvars PROVE DurableInv'
  OBVIOUS
<1>1. DTypeOK'
  BY DurableTypeStep DEF DurableInv
<1>2. CopyInv' /\ DurableWithoutOverlap'
  <2> USE DEF DurableInv, DTypeOK, TypeOK, CopyInv, DurableWithoutOverlap, AtRest, Saving
  \* Whoever has changed the map is about to save it.
  <2>1. ASSUME NEW c \in Clients, DChange(c) PROVE CopyInv' /\ DurableWithoutOverlap'
    <3>1. dirty' # {}
      BY <2>1 DEF DChange, Delete, Set
    <3> QED
      BY <3>1
  \* The new copy is the map; every older one is now an overlapped one.
  <2>2. ASSUME NEW c \in Clients, DSaveCopy(c) PROVE CopyInv' /\ DurableWithoutOverlap'
    <3>1. snap' = [snap EXCEPT ![c] = mem] /\ mem' = mem /\ mem # NoSave
      BY <2>2, SessionsAssumption DEF DSaveCopy, SaveCopy
    <3>2. c \in Saving'
      BY <3>1
    <3>3. \A d \in Saving' \ overlapped' : d = c
      BY <2>2, <3>1 DEF DSaveCopy
    <3> QED
      BY <3>1, <3>2, <3>3
  \* The last Save to finish writes the map, if it had the file to itself.
  <2>3. ASSUME NEW c \in Clients, DSaveWrite(c) PROVE CopyInv' /\ DurableWithoutOverlap'
    <3>1. CopyInv'
      BY <2>3 DEF DSaveWrite, SaveWrite
    <3>2. ASSUME AtRest', ~suspect' PROVE disk' = mem'
      <4>1. dirty = {} /\ c \in Saving \ overlapped
        BY <2>3, <3>2 DEF DSaveWrite, SaveWrite
      <4>2. snap[c] = mem
        BY <4>1
      <4> QED
        BY <2>3, <4>2 DEF DSaveWrite, SaveWrite
    <3> QED
      BY <3>1, <3>2
  <2>4. ASSUME NEW c \in Clients, DSaveFail(c) PROVE CopyInv' /\ DurableWithoutOverlap'
    BY <2>4 DEF DSaveFail, SaveFail
  <2>5. CASE DRestart
    <3>1. Saving' = {}
      BY <2>5 DEF DRestart, Load, Clear
    <3> QED
      BY <2>5, <3>1 DEF DRestart
  <2>6. CASE UNCHANGED dvars
    BY <2>6 DEF dvars
  <2> QED
    BY <2>1, <2>2, <2>3, <2>4, <2>5, <2>6 DEF DNext
<1> QED
  BY <1>1, <1>2 DEF DurableInv

\* The map, its file and the copies on their way to it stay maps from keys to ids.
THEOREM DurableTypeCorrect == DSpec => []DTypeOK
<1>1. DurableInv => DTypeOK
  BY DEF DurableInv
<1> QED
  BY <1>1, DurableInit, DurableStep, PTL DEF DSpec

\* With nobody between a change and the end of its Save, sessions.json holds the
\* map, unless the last Save to finish failed or overlapped another one.
THEOREM Durable == DSpec => []DurableWithoutOverlap
<1>1. DurableInv => DurableWithoutOverlap
  BY DEF DurableInv
<1> QED
  BY <1>1, DurableInit, DurableStep, PTL DEF DSpec
=============================================================================
