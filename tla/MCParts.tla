------------------------------ MODULE MCParts ------------------------------
(* The parts of AllParts, each on its own small instance. *)
EXTENDS AllParts, TLC

CONSTANTS k1, k2, i1, i2, c1, c2

MCKeys == {k1, k2}
MCIds == {i1, i2}
MCClients == {c1, c2}

\* The adapters, by their factory names; one has no sign of typing.
MCAdapters == {"telegram", "discord", "slack", "matrix", "line", "irc", "whatsapp"}
MCKinds == MCAdapters \cup {"whatsapp_native"}
MCHosts == MCAdapters \ {"whatsapp"}
=============================================================================
