---------------------------- MODULE MCMessageBus ----------------------------
(* Small instance of MessageBus: two goroutines publish inbound messages into *)
(* one loop, one publishes outbound messages to one dispatcher, and Close may *)
(* be called twice.                                                           *)
EXTENDS MessageBus

CONSTANTS p1, p2, p3, c1, c2, k1, k2

MCPublishers == {p1, p2, p3}
MCConsumers == {c1, c2}
MCClosers == {k1, k2}
MCDir ==
  [x \in MCPublishers \cup MCConsumers |->
            IF x \in {p1, p2, c1} THEN "inbound" ELSE "outbound"]

\* Bounds of the environment: of each kind one context is cancelled (the other
\* publishers and consumer are the ones that must go on without it), and of two
\* interchangeable Close calls k1 is the one that begins first.
MCEnvironment ==
  /\ cancelled' \subseteq {p1, c2}
  /\ closer'[k2] # "idle" => closer'[k1] # "idle"

MCSpec == Init /\ [][Next /\ MCEnvironment]_vars /\ Fairness
=============================================================================
