------------------------- MODULE MCBridgeDurability -------------------------
(* The handlers of BridgeLoop with the history of their Saves. *)
EXTENDS MCBridgeLoop, BridgeDurability

\* Two chat messages in different sessions and a third message of any kind; the
\* second session exists already, the first may be new; shutdown is left out.
MCRunningInit == HInit /\ kind[m1] = "chat" /\ kind[m3] = "chat" /\ disk[s2] = s2

MCRunningNext == Next /\ ~shutdown' /\ History

MCRunningSpec == MCRunningInit /\ [][MCRunningNext]_<<vars, overlapped, suspect>>
=============================================================================
