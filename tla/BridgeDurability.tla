-------------------------- MODULE BridgeDurability --------------------------
(***************************************************************************)
(* When does sessions.json hold what the handlers of BridgeLoop have       *)
(* stored?  The history variables of SessionsDurability are added to the   *)
(* bridge: each is a function of the step, so no behaviour is excluded.    *)
(***************************************************************************)
EXTENDS BridgeLoop

VARIABLES
  overlapped,  \* handlers whose running Save overlapped another handler's Save
  suspect      \* the last Save to finish overlapped another one, or failed

Durability == INSTANCE SessionsDurability WITH Clients <- Messages

Saving == {m \in Messages : snap[m] # NoSave}

HInit == Init /\ overlapped = {} /\ suspect = FALSE

\* What a step does to the Saves that are under way.
History ==
  LET begun == Saving' \ Saving
      ended == Saving \ Saving'
  IN /\ overlapped' = (IF begun = {} \/ Saving = {} THEN overlapped
                       ELSE overlapped \cup Saving \cup begun) \ ended
     /\ suspect' = IF ended = {} THEN suspect
                   ELSE \E m \in ended : m \in overlapped \/ disk' # snap[m]

HSpec == HInit /\ [][Next /\ History]_<<vars, overlapped, suspect>>

-----------------------------------------------------------------------------
(* Properties *)

\* Each handler uses the session store the way SessionsDurability describes: its
\* change under the lock, then one copy, then one write of that copy; and the
\* store's account of overlapping Saves fits every interleaving of handlers.
DurableStoreSpec == Durability!DSpec

\* "Save atomically persists the current session map to disk": when no handler is
\* between its change of a session and the end of its Save, the file holds the
\* map, provided that the last Save to finish overlapped no other and succeeded.
FileHoldsTheMap ==
  ~suspect /\ (\A m \in Messages : pc[m] \notin {"copying", "writing"}) => disk = mem
=============================================================================
