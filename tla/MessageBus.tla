----------------------------- MODULE MessageBus -----------------------------
(***************************************************************************)
(* pkg/bus/bus.go: two buffered Go channels (inbound, outbound) shared by  *)
(* publishers and consumers, a "closed" flag and a "done" channel.         *)
(*                                                                         *)
(* A publish call tests the flag and its context first and selects later;  *)
(* everything that happens between the two is an interleaving of this      *)
(* model.  A select with several ready cases takes any of them.            *)
(***************************************************************************)
EXTENDS Naturals, Sequences

CONSTANTS
  Publishers,   \* goroutines that publish, each its own messages in order
  Consumers,    \* goroutines that loop over Consume/Subscribe
  Closers,      \* goroutines that call Close
  Dir,          \* the direction each publisher and consumer works in
  Capacity,     \* defaultBusBufferSize
  MaxMsgs       \* bound: publish calls per publisher

Dirs == {"inbound", "outbound"}

ASSUME BusAssumption ==
  /\ Capacity \in Nat \ {0}
  /\ MaxMsgs \in Nat \ {0}
  /\ Dir \in [Publishers \cup Consumers -> Dirs]

\* The n-th message of publisher p.
Messages == Publishers \X (1 .. MaxMsgs)
MessagesOf(d) == {m \in Messages : Dir[m[1]] = d}

VARIABLES
  buf,        \* [Dirs -> Seq(Messages)]: the two Go channels
  closed,     \* the atomic flag
  done,       \* the done channel has been closed
  cancelled,  \* publishers and consumers whose context is cancelled
  status,     \* [Messages -> ...]: where each publish call stands
  consumer,   \* [Consumers -> {"looping", "stopped"}]
  closer,     \* [Closers -> ...]: where each Close call stands
  delivered,  \* [Dirs -> Seq(Messages)]: history of what consumers received
  dropped,    \* [Dirs -> Seq(Messages)]: history of what Close drained
  racing      \* history: messages being published at the moment Close began

vars == <<buf, closed, done, cancelled, status, consumer, closer,
          delivered, dropped, racing>>

TypeOK ==
  /\ buf \in [Dirs -> Seq(Messages)]
  /\ \A d \in Dirs : Len(buf[d]) <= Capacity
  /\ closed \in BOOLEAN
  /\ done \in BOOLEAN
  /\ cancelled \subseteq Publishers \cup Consumers
  /\ status \in [Messages -> {"unsent", "selecting", "accepted", "refused"}]
  /\ consumer \in [Consumers -> {"looping", "stopped"}]
  /\ closer \in [Closers -> {"idle", "won", "inbound", "outbound", "returned"}]
  /\ delivered \in [Dirs -> Seq(Messages)]
  /\ dropped \in [Dirs -> Seq(Messages)]
  /\ racing \subseteq Messages

Init ==
  /\ buf = [d \in Dirs |-> <<>>]
  /\ closed = FALSE
  /\ done = FALSE
  /\ cancelled = {}
  /\ status = [m \in Messages |-> "unsent"]
  /\ consumer = [c \in Consumers |-> "looping"]
  /\ closer = [k \in Closers |-> "idle"]
  /\ delivered = [d \in Dirs |-> <<>>]
  /\ dropped = [d \in Dirs |-> <<>>]
  /\ racing = {}

-----------------------------------------------------------------------------
(* Publishing *)

\* m is its publisher's next message and the publisher is not inside a call.
IsNext(m) ==
  /\ status[m] = "unsent"
  /\ \A i \in 1 .. (m[2] - 1) : status[<<m[1], i>>] \in {"accepted", "refused"}

\* Faulty variant: the call goes to the select without testing the flag.
PublishBeginUnchecked(m) ==
  /\ IsNext(m)
  /\ status' = [status EXCEPT ![m] = IF m[1] \in cancelled THEN "refused" ELSE "selecting"]
  /\ UNCHANGED <<buf, closed, done, cancelled, consumer, closer, delivered, dropped, racing>>

\* The early returns: the closed flag, then the context.
PublishBegin(m) ==
  /\ IsNext(m)
  /\ status' = [status EXCEPT ![m] =
                  IF closed \/ m[1] \in cancelled THEN "refused" ELSE "selecting"]
  /\ UNCHANGED <<buf, closed, done, cancelled, consumer, closer, delivered, dropped, racing>>

\* Faulty variant: a channel without a bound.
PublishSendUnbounded(m) ==
  LET d == Dir[m[1]] IN
  /\ status[m] = "selecting"
  /\ buf' = [buf EXCEPT ![d] = Append(@, m)]
  /\ status' = [status EXCEPT ![m] = "accepted"]
  /\ UNCHANGED <<closed, done, cancelled, consumer, closer, delivered, dropped, racing>>

\* case ch <- msg: return nil
PublishSend(m) ==
  LET d == Dir[m[1]] IN
  /\ status[m] = "selecting"
  /\ Len(buf[d]) < Capacity
  /\ buf' = [buf EXCEPT ![d] = Append(@, m)]
  /\ status' = [status EXCEPT ![m] = "accepted"]
  /\ UNCHANGED <<closed, done, cancelled, consumer, closer, delivered, dropped, racing>>

\* case <-done: return ErrBusClosed; case <-ctx.Done(): return ctx.Err()
PublishGiveUp(m) ==
  /\ status[m] = "selecting"
  /\ done \/ m[1] \in cancelled
  /\ status' = [status EXCEPT ![m] = "refused"]
  /\ UNCHANGED <<buf, closed, done, cancelled, consumer, closer, delivered, dropped, racing>>

Publish(m) == PublishBegin(m) \/ PublishSend(m) \/ PublishGiveUp(m)

PublishInbound  == \E m \in MessagesOf("inbound")  : Publish(m)
PublishOutbound == \E m \in MessagesOf("outbound") : Publish(m)

-----------------------------------------------------------------------------
(* Consuming: the two callers loop until the call reports not-ok. *)

Receive(c) ==
  LET d == Dir[c] IN
  /\ consumer[c] = "looping"
  /\ buf[d] # <<>>
  /\ delivered' = [delivered EXCEPT ![d] = Append(@, Head(buf[d]))]
  /\ buf' = [buf EXCEPT ![d] = Tail(@)]
  /\ UNCHANGED <<closed, done, cancelled, status, consumer, closer, dropped, racing>>

\* Faulty variant: the consumer selects on its context only.
StopConsumingIgnoringDone(c) ==
  /\ consumer[c] = "looping"
  /\ c \in cancelled
  /\ consumer' = [consumer EXCEPT ![c] = "stopped"]
  /\ UNCHANGED <<buf, closed, done, cancelled, status, closer, delivered, dropped, racing>>

StopConsuming(c) ==
  /\ consumer[c] = "looping"
  /\ done \/ c \in cancelled
  /\ consumer' = [consumer EXCEPT ![c] = "stopped"]
  /\ UNCHANGED <<buf, closed, done, cancelled, status, closer, delivered, dropped, racing>>

Consume(c) == Receive(c) \/ StopConsuming(c)

ConsumeInbound    == \E c \in Consumers : Dir[c] = "inbound"  /\ Consume(c)
SubscribeOutbound == \E c \in Consumers : Dir[c] = "outbound" /\ Consume(c)

-----------------------------------------------------------------------------
(* Closing *)

\* Faulty variant: a drain that runs before anyone closed the bus.
CloseSwapNoFlag(k) ==
  /\ closer[k] = "idle"
  /\ closer' = [closer EXCEPT ![k] = IF closed THEN "returned" ELSE "won"]
  /\ UNCHANGED <<buf, closed, done, cancelled, status, consumer, delivered, dropped, racing>>

\* closed.CompareAndSwap(false, true): the loser returns at once.
CloseSwap(k) ==
  /\ closer[k] = "idle"
  /\ closed' = TRUE
  /\ closer' = [closer EXCEPT ![k] = IF closed THEN "returned" ELSE "won"]
  /\ racing' = IF closed THEN racing ELSE {m \in Messages : status[m] = "selecting"}
  /\ UNCHANGED <<buf, done, cancelled, status, consumer, delivered, dropped>>

CloseDone(k) ==
  /\ closer[k] = "won"
  /\ done' = TRUE
  /\ closer' = [closer EXCEPT ![k] = "inbound"]
  /\ UNCHANGED <<buf, closed, cancelled, status, consumer, delivered, dropped, racing>>

\* One turn of the drain loop of direction d; default leaves the loop.
Drain(k, d, next) ==
  /\ closer[k] = d
  /\ IF buf[d] # <<>>
     THEN /\ dropped' = [dropped EXCEPT ![d] = Append(@, Head(buf[d]))]
          /\ buf' = [buf EXCEPT ![d] = Tail(@)]
          /\ UNCHANGED closer
     ELSE /\ closer' = [closer EXCEPT ![k] = next]
          /\ UNCHANGED <<buf, dropped>>
  /\ UNCHANGED <<closed, done, cancelled, status, consumer, delivered, racing>>

Close(k) ==
  \/ CloseSwap(k)
  \/ CloseDone(k)
  \/ Drain(k, "inbound", "outbound")
  \/ Drain(k, "outbound", "returned")

-----------------------------------------------------------------------------
\* A caller's context is cancelled.
Cancel(p) ==
  /\ p \notin cancelled
  /\ cancelled' = cancelled \cup {p}
  /\ UNCHANGED <<buf, closed, done, status, consumer, closer, delivered, dropped, racing>>

Next ==
  \/ PublishInbound
  \/ PublishOutbound
  \/ ConsumeInbound
  \/ SubscribeOutbound
  \/ \E k \in Closers : Close(k)
  \/ \E p \in Publishers \cup Consumers : Cancel(p)

Spec == Init /\ [][Next]_vars

\* The Go scheduler runs every goroutine that can run; nobody has to start a
\* publish call or a Close.
Fairness ==
  /\ \A m \in Messages : WF_vars(PublishSend(m) \/ PublishGiveUp(m))
  /\ \A c \in Consumers : WF_vars(Consume(c))
  /\ \A k \in Closers : WF_vars(closer[k] # "idle" /\ Close(k))

FairSpec == Spec /\ Fairness

-----------------------------------------------------------------------------
(* Properties *)

\* "Drain buffered channels so messages aren't silently lost": when the Close
\* that does the draining has returned, a message left in a channel (where
\* nobody will look any more, though its publisher was told nil) can only stem
\* from a publish call that was already past the flag when Close began.
StrandedOnlyIfRacing ==
  (closed /\ \A k \in Closers : closer[k] \in {"idle", "returned"}) =>
    \A d \in Dirs : \A i \in DOMAIN buf[d] : buf[d][i] \in racing

\* After Close has closed the done channel nobody stays blocked: every publish
\* call returns, every consumer loop ends, and Close itself returns.
Quiet ==
  /\ \A m \in Messages : status[m] # "selecting"
  /\ \A c \in Consumers : consumer[c] = "stopped"
  /\ \A k \in Closers : closer[k] \in {"idle", "returned"}

NobodyHangsAfterClose == done ~> Quiet

\* Each direction is the bounded first-in first-out hand-off of Handoff: order
\* kept, nothing twice, nothing thrown away before the bus is closing.
InboundHandoff == INSTANCE Handoff WITH
  Messages <- MessagesOf("inbound"),
  accepted <- {m \in MessagesOf("inbound") : status[m] = "accepted"},
  queue <- buf["inbound"],
  delivered <- delivered["inbound"],
  dropped <- dropped["inbound"],
  closing <- closed

OutboundHandoff == INSTANCE Handoff WITH
  Messages <- MessagesOf("outbound"),
  accepted <- {m \in MessagesOf("outbound") : status[m] = "accepted"},
  queue <- buf["outbound"],
  delivered <- delivered["outbound"],
  dropped <- dropped["outbound"],
  closing <- closed

BothDirectionsHandOff == InboundHandoff!Spec /\ OutboundHandoff!Spec
=============================================================================
