------------------------- MODULE SessionsDurability -------------------------
(***************************************************************************)
(* When does sessions.json hold the session map?  Two history variables    *)
(* are added to Sessions: which running Saves overlapped another Save, and *)
(* whether the last Save to finish is to be trusted.                       *)
(***************************************************************************)
EXTENDS Sessions

VARIABLES
  overlapped,  \* clients whose running Save overlapped another client's Save
  suspect      \* the last Save to finish overlapped another one, or failed

dvars == <<mem, disk, dirty, snap, overlapped, suspect>>

Saving == {c \in Clients : snap[c] # NoSave}

DTypeOK ==
  /\ TypeOK
  /\ overlapped \subseteq Saving
  /\ suspect \in BOOLEAN

DInit ==
  /\ Init
  /\ overlapped = {}
  /\ suspect = FALSE

DChange(c) ==
  /\ \E k \in Keys : Delete(c, k) \/ \E id \in Ids : Set(c, k, id)
  /\ UNCHANGED <<overlapped, suspect>>

DSaveCopy(c) ==
  /\ SaveCopy(c)
  /\ overlapped' = IF Saving = {} THEN overlapped ELSE overlapped \cup Saving \cup {c}
  /\ UNCHANGED suspect

DSaveWrite(c) ==
  /\ SaveWrite(c)
  /\ overlapped' = overlapped \ {c}
  /\ suspect' = (c \in overlapped)

DSaveFail(c) ==
  /\ SaveFail(c)
  /\ overlapped' = overlapped \ {c}
  /\ suspect' = TRUE

\* After a restart memory and file agree, unless Clear could not save.
DRestart ==
  /\ Load \/ Clear
  /\ overlapped' = {}
  /\ suspect' = (mem' # disk')

DNext ==
  \/ \E c \in Clients : DChange(c) \/ DSaveCopy(c) \/ DSaveWrite(c) \/ DSaveFail(c)
  \/ DRestart

DSpec == DInit /\ [][DNext]_dvars

-----------------------------------------------------------------------------
(* Properties *)

AtRest == dirty = {} /\ Saving = {}

\* "Save atomically persists the current session map to disk": with nobody
\* between a change and the end of its Save, the file holds the map, so a
\* crash now loses no session and brings back none that /clear removed --
\* provided the Save that finished last had the file to itself and succeeded.
DurableWithoutOverlap == AtRest /\ ~suspect => disk = mem
=============================================================================
