------------------------------ MODULE Handoff ------------------------------
(***************************************************************************)
(* What one direction of the message bus promises, without goroutines,     *)
(* contexts or select statements: a bounded first-in first-out buffer that *)
(* takes each message at most once, hands it to one consumer, and throws   *)
(* messages away only once the bus is closing.                             *)
(*                                                                         *)
(* MessageBus implements this module once per direction.                   *)
(***************************************************************************)
EXTENDS Naturals, Sequences

CONSTANTS
  Messages,   \* the messages that may ever be published in this direction
  Capacity    \* size of the Go channel (defaultBusBufferSize)

VARIABLES
  accepted,   \* messages whose publisher was told nil
  queue,      \* the buffered channel
  delivered,  \* messages handed to a consumer, in order
  dropped,    \* messages thrown away by Close, in order
  closing     \* Close has begun

vars == <<accepted, queue, delivered, dropped, closing>>

Init ==
  /\ accepted = {}
  /\ queue = <<>>
  /\ delivered = <<>>
  /\ dropped = <<>>
  /\ closing = FALSE

Accept(m) ==
  /\ m \notin accepted
  /\ Len(queue) < Capacity
  /\ accepted' = accepted \cup {m}
  /\ queue' = Append(queue, m)
  /\ UNCHANGED <<delivered, dropped, closing>>

Deliver ==
  /\ queue # <<>>
  /\ queue' = Tail(queue)
  /\ delivered' = Append(delivered, Head(queue))
  /\ UNCHANGED <<accepted, dropped, closing>>

Drop ==
  /\ closing
  /\ queue # <<>>
  /\ queue' = Tail(queue)
  /\ dropped' = Append(dropped, Head(queue))
  /\ UNCHANGED <<accepted, delivered, closing>>

BeginClose ==
  /\ ~closing
  /\ closing' = TRUE
  /\ UNCHANGED <<accepted, queue, delivered, dropped>>

Next ==
  \/ \E m \in Messages : Accept(m)
  \/ Deliver
  \/ Drop
  \/ BeginClose

Spec == Init /\ [][Next]_vars
============================================================================
