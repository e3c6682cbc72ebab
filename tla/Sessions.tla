------------------------------ MODULE Sessions ------------------------------
(***************************************************************************)
(* pkg/bridge/sessions.go: the map from session keys to the CLI's session  *)
(* ids, guarded by an RWMutex, and its copy in sessions.json.              *)
(*                                                                         *)
(* A client changes the map under the lock and then saves it.  Save copies *)
(* the map under the read lock but writes the file after releasing it, so  *)
(* other clients can change and save the map in between.  WriteFileAtomic  *)
(* replaces the whole file by a rename.                                    *)
(***************************************************************************)
EXTENDS Naturals

CONSTANTS
  Keys,      \* session keys
  Ids,       \* session ids the CLI hands out
  NoId,      \* the key is absent from the map
  Clients,   \* goroutines that change and save the map
  NoSave     \* the client is not inside Save

Maps == [Keys -> Ids \cup {NoId}]

ASSUME SessionsAssumption == NoId \notin Ids /\ NoSave \notin Maps

Empty == [k \in Keys |-> NoId]

VARIABLES
  mem,    \* Sessions.data
  disk,   \* the content of sessions.json
  dirty,  \* clients that changed the map and have not begun their Save
  snap    \* [Clients -> Maps \cup {NoSave}]: the copy each Save is about to write

vars == <<mem, disk, dirty, snap>>

TypeOK ==
  /\ mem \in Maps
  /\ disk \in Maps
  /\ dirty \subseteq Clients
  /\ snap \in [Clients -> Maps \cup {NoSave}]

\* The process starts with what Load finds in the file.
Init ==
  /\ disk \in Maps
  /\ mem = disk
  /\ dirty = {}
  /\ snap = [c \in Clients |-> NoSave]

Free(c) == c \notin dirty /\ snap[c] = NoSave

Get(k) == mem[k]

Set(c, k, id) ==
  /\ Free(c)
  /\ mem' = [mem EXCEPT ![k] = id]
  /\ dirty' = dirty \cup {c}
  /\ UNCHANGED <<disk, snap>>

\* Faulty variant: the key is removed from memory and never saved.
DeleteUnsaved(c, k) ==
  /\ Free(c)
  /\ mem' = [mem EXCEPT ![k] = NoId]
  /\ UNCHANGED <<disk, dirty, snap>>

Delete(c, k) ==
  /\ Free(c)
  /\ mem' = [mem EXCEPT ![k] = NoId]
  /\ dirty' = dirty \cup {c}
  /\ UNCHANGED <<disk, snap>>

\* Save, first half: MarshalIndent under the read lock.
SaveCopy(c) ==
  /\ c \in dirty
  /\ snap' = [snap EXCEPT ![c] = mem]
  /\ dirty' = dirty \ {c}
  /\ UNCHANGED <<mem, disk>>

\* Save, second half: WriteFileAtomic, or an error that leaves the file alone.
SaveWrite(c) ==
  /\ snap[c] # NoSave
  /\ disk' = snap[c]
  /\ snap' = [snap EXCEPT ![c] = NoSave]
  /\ UNCHANGED <<mem, dirty>>

\* Faulty variant: the file is written in place, and a failure leaves half of it.
SaveFailTorn(c) ==
  /\ snap[c] # NoSave
  /\ disk' = NoSave
  /\ snap' = [snap EXCEPT ![c] = NoSave]
  /\ UNCHANGED <<mem, dirty>>

SaveFail(c) ==
  /\ snap[c] # NoSave
  /\ snap' = [snap EXCEPT ![c] = NoSave]
  /\ UNCHANGED <<mem, disk, dirty>>

\* The process dies at any point and starts again: Load.
Load ==
  /\ mem' = disk
  /\ dirty' = {}
  /\ snap' = [c \in Clients |-> NoSave]
  /\ UNCHANGED disk

\* The same with a bootstrap file present: Clear, before any client runs.
\* Clear's own Save can fail too.
Clear ==
  /\ mem' = Empty
  /\ disk' \in {Empty, disk}
  /\ dirty' = {}
  /\ snap' = [c \in Clients |-> NoSave]

Next ==
  \/ \E c \in Clients :
       \/ \E k \in Keys : Delete(c, k) \/ \E id \in Ids : Set(c, k, id)
       \/ SaveCopy(c)
       \/ SaveWrite(c)
       \/ SaveFail(c)
  \/ Load
  \/ Clear

Spec == Init /\ [][Next]_vars
=============================================================================
