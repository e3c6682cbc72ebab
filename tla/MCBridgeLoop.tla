---------------------------- MODULE MCBridgeLoop ----------------------------
(* Handlers of BridgeLoop on small sets of messages.  What each message is    *)
(* (chat, /stop, /clear) is chosen in the initial state.                      *)
EXTENDS BridgeLoop, TLC

CONSTANTS m1, m2, m3, s1, s2

MCMessages == {m1, m2, m3}
MCKeys == {s1, s2}

\* Two messages of one session and one of another.
MCTwoSessions == (m1 :> s1) @@ (m2 :> s1) @@ (m3 :> s2)

\* Three messages of one session.
MCOneKey == {s1}
MCOneSession == [m \in MCMessages |-> s1]

\* Liveness: a chat message, a /stop and a third message of any kind, in a
\* session that is new.
MCLiveInit ==
  Init /\ kind[m1] = "chat" /\ kind[m2] = "stop" /\ \A s \in Keys : disk[s] = NoId

MCLiveSpec == MCLiveInit /\ [][Next]_vars /\ Fairness
=============================================================================
