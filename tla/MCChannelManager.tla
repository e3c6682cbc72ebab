-------------------------- MODULE MCChannelManager --------------------------
(* Two channels; one gets two messages, the first of two chunks, and always  *)
(* has a worker; the other may have failed to start.                         *)
EXTENDS ChannelManager, TLC

CONSTANTS ch1, ch2, cli, m1, m2, m3

MCNames == {ch1, ch2}
MCInternal == {cli}
MCMessages == {m1, m2, m3}
MCChannelOf == (m1 :> ch1) @@ (m2 :> ch1) @@ (m3 :> ch2)
MCChunks == (m1 :> 2) @@ (m2 :> 1) @@ (m3 :> 1)

\* Bound on the inputs: the messages of ch1 are published in one order.
MCOrder == m2 \in published' => m1 \in published

MCSpec == Init /\ ch1 \in workers /\ [][Next /\ MCOrder]_vars /\ Fairness
=============================================================================
