-------------------------- MODULE MessageBusProofs --------------------------
(***************************************************************************)
(* That the message bus keeps its types, that only a publisher that raced  *)
(* with Close can leave a message behind, and that each direction          *)
(* implements Handoff, for any publishers, consumers, callers of Close and *)
(* capacity.                                                               *)
(***************************************************************************)
EXTENDS MessageBus, SequenceTheorems, TLAPS

\* The drain loop of direction d is over.
Drained(d) ==
  /\ closed
  /\ \A k \in Closers :
       closer[k] \notin (IF d = "inbound" THEN {"won", "inbound"} ELSE {"won", "inbound", "outbound"})

\* Close begins with the flag; a publish call that selects after that is one of
\* those that were racing; and a drained direction holds nothing but their
\* messages, because it was empty when its loop ended.
CloseInv ==
  /\ \A k \in Closers : closer[k] # "idle" => closed
  /\ closed => \A m \in Messages : status[m] = "selecting" => m \in racing
  /\ \A d \in Dirs : Drained(d) => \A i \in 1 .. Len(buf[d]) : buf[d][i] \in racing

BusInv == TypeOK /\ CloseInv

-----------------------------------------------------------------------------
(* Queues *)

\* Appending keeps a queue a queue, and adds nothing but what is appended.
LEMMA AppendFacts ==
  ASSUME NEW S, NEW q \in Seq(S), NEW e \in S
  PROVE  /\ Append(q, e) \in Seq(S)
         /\ Len(q) \in Nat
         /\ Len(Append(q, e)) = Len(q) + 1
         /\ \A i \in 1 .. Len(Append(q, e)) :
              (i \in 1 .. Len(q) /\ Append(q, e)[i] = q[i]) \/ Append(q, e)[i] = e
  OBVIOUS

\* Taking the head keeps a queue a queue, and adds nothing.
LEMMA TailFacts ==
  ASSUME NEW S, NEW q \in Seq(S), q # <<>>
  PROVE  /\ Head(q) \in S /\ Tail(q) \in Seq(S)
         /\ Len(q) \in Nat /\ Len(Tail(q)) = Len(q) - 1
         /\ \A i \in 1 .. Len(Tail(q)) : i + 1 \in 1 .. Len(q) /\ Tail(q)[i] = q[i + 1]
  BY HeadTailProperties, LenProperties

-----------------------------------------------------------------------------
\* Initially the bus is open and empty.
LEMMA BusInit == Init => BusInv
<1> SUFFICES ASSUME Init PROVE BusInv
  OBVIOUS
<1>1. \A d \in Dirs : buf[d] = <<>> /\ Len(buf[d]) = 0
  BY DEF Init
<1>2. TypeOK
  <2>1. [d \in Dirs |-> <<>>] \in [Dirs -> Seq(Messages)]
    OBVIOUS
  <2>2. \A d \in Dirs : Len(buf[d]) <= Capacity
    BY <1>1, BusAssumption
  <2> QED
    BY <2>1, <2>2 DEF Init, TypeOK
<1>3. CloseInv
  BY <1>1 DEF Init, CloseInv, Drained
<1> QED
  BY <1>2, <1>3 DEF BusInv

\* A publish call changes its own status, and its direction's channel when it sends.
LEMMA PublishKeeps ==
  ASSUME BusInv, NEW m \in Messages, Publish(m)
  PROVE  BusInv'
<1> USE DEF BusInv
<1>d. Dir[m[1]] \in Dirs
  BY BusAssumption DEF Messages
<1>1. CASE PublishBegin(m)
  <2>1. TypeOK'
    BY <1>1 DEF PublishBegin, TypeOK
  <2>2. CloseInv'
    BY <1>1 DEF PublishBegin, CloseInv, Drained, TypeOK
  <2> QED
    BY <2>1, <2>2
<1>2. CASE PublishSend(m)
  <2> DEFINE d == Dir[m[1]]
  <2>1. buf[d] \in Seq(Messages) /\ buf'[d] = Append(buf[d], m)
    BY <1>d, <1>2 DEF PublishSend, TypeOK
  <2>2. \A e \in Dirs : e # d => buf'[e] = buf[e]
    BY <1>d, <1>2 DEF PublishSend, TypeOK
  <2>3. TypeOK'
    <3>1. buf' = [buf EXCEPT ![d] = Append(@, m)] /\ Len(buf[d]) < Capacity
      BY <1>2 DEF PublishSend
    <3>2. Append(buf[d], m) \in Seq(Messages) /\ Len(Append(buf[d], m)) = Len(buf[d]) + 1 /\ Len(buf[d]) \in Nat
      BY <2>1, AppendFacts
    <3>3. buf' \in [Dirs -> Seq(Messages)]
      BY <1>d, <3>1, <3>2 DEF TypeOK
    <3>4. \A e \in Dirs : Len(buf'[e]) <= Capacity
      BY <2>1, <2>2, <3>1, <3>2, BusAssumption DEF TypeOK
    <3> QED
      BY <1>2, <3>3, <3>4 DEF PublishSend, TypeOK
  <2>4. CloseInv'
    <3>1. ASSUME NEW e \in Dirs, Drained(e)' PROVE \A i \in 1 .. Len(buf'[e]) : buf'[e][i] \in racing
      <4>1. closed /\ Drained(e) /\ m \in racing
        BY <1>2, <3>1 DEF PublishSend, CloseInv, Drained
      <4> QED
        BY <2>1, <2>2, <4>1, AppendFacts DEF CloseInv
    <3> QED
      BY <1>2, <3>1 DEF PublishSend, CloseInv, TypeOK
  <2> QED
    BY <2>3, <2>4
<1>3. CASE PublishGiveUp(m)
  <2>1. TypeOK'
    BY <1>3 DEF PublishGiveUp, TypeOK
  <2>2. CloseInv'
    BY <1>3 DEF PublishGiveUp, CloseInv, Drained, TypeOK
  <2> QED
    BY <2>1, <2>2
<1> QED
  BY <1>1, <1>2, <1>3 DEF Publish

\* Whoever takes the head of a channel leaves the others of its messages.
LEMMA TakeKeeps ==
  ASSUME BusInv, NEW d \in Dirs, buf[d] # <<>>,
         buf' = [buf EXCEPT ![d] = Tail(@)],
         \/ delivered' = [delivered EXCEPT ![d] = Append(@, Head(buf[d]))] /\ dropped' = dropped
         \/ dropped' = [dropped EXCEPT ![d] = Append(@, Head(buf[d]))] /\ delivered' = delivered,
         UNCHANGED <<closed, done, cancelled, status, consumer, closer, racing>>
  PROVE  BusInv'
<1> USE DEF BusInv
<1>1. buf[d] \in Seq(Messages) /\ delivered[d] \in Seq(Messages) /\ dropped[d] \in Seq(Messages)
  BY DEF TypeOK
<1>2. Head(buf[d]) \in Messages /\ Tail(buf[d]) \in Seq(Messages) /\ Len(Tail(buf[d])) = Len(buf[d]) - 1 /\ Len(buf[d]) \in Nat
  BY <1>1, TailFacts
<1>3. \A i \in 1 .. Len(Tail(buf[d])) : i + 1 \in 1 .. Len(buf[d]) /\ Tail(buf[d])[i] = buf[d][i + 1]
  BY <1>1, TailFacts
<1>4. buf'[d] = Tail(buf[d]) /\ \A e \in Dirs : e # d => buf'[e] = buf[e]
  BY DEF TypeOK
<1>5. TypeOK'
  <2>1. buf' \in [Dirs -> Seq(Messages)]
    BY <1>2 DEF TypeOK
  <2>2. \A e \in Dirs : Len(buf'[e]) <= Capacity
    BY <1>2, <1>4, BusAssumption DEF TypeOK
  <2>3. Append(delivered[d], Head(buf[d])) \in Seq(Messages) /\ Append(dropped[d], Head(buf[d])) \in Seq(Messages)
    BY <1>1, <1>2, AppendFacts
  <2>4. delivered' \in [Dirs -> Seq(Messages)] /\ dropped' \in [Dirs -> Seq(Messages)]
    BY <2>3 DEF TypeOK
  <2> QED
    BY <2>1, <2>2, <2>4 DEF TypeOK
<1>6. CloseInv'
  <2>1. ASSUME NEW e \in Dirs, Drained(e)' PROVE \A i \in 1 .. Len(buf'[e]) : buf'[e][i] \in racing
    <3>1. Drained(e)
      BY <2>1 DEF Drained
    <3> QED
      BY <3>1, <1>3, <1>4 DEF CloseInv
  <2> QED
    BY <2>1 DEF CloseInv
<1> QED
  BY <1>5, <1>6

\* The steps of Close; a direction is empty when its drain loop ends.
LEMMA CloseKeeps ==
  ASSUME BusInv, NEW k \in Closers, Close(k)
  PROVE  BusInv'
<1> USE DEF BusInv
<1>1. CASE CloseSwap(k)
  <2>1. TypeOK'
    BY <1>1 DEF CloseSwap, TypeOK
  <2>2. CloseInv'
    BY <1>1 DEF CloseSwap, CloseInv, Drained, TypeOK
  <2> QED
    BY <2>1, <2>2
<1>2. CASE CloseDone(k)
  <2>1. TypeOK'
    BY <1>2 DEF CloseDone, TypeOK
  <2>2. CloseInv'
    BY <1>2 DEF CloseDone, CloseInv, Drained, TypeOK
  <2> QED
    BY <2>1, <2>2
<1>3. ASSUME NEW d \in Dirs, NEW next \in {"outbound", "returned"}, Drain(k, d, next),
             d = "inbound" <=> next = "outbound"
      PROVE  BusInv'
  <2>1. CASE buf[d] # <<>>
    BY <1>3, <2>1, TakeKeeps DEF Drain
  <2>2. CASE buf[d] = <<>>
    <3>1. TypeOK'
      BY <1>3, <2>2 DEF Drain, TypeOK
    <3>2. CloseInv'
      BY <1>3, <2>2 DEF Drain, CloseInv, Drained, TypeOK, Dirs
    <3> QED
      BY <3>1, <3>2
  <2> QED
    BY <2>1, <2>2
<1> QED
  BY <1>1, <1>2, <1>3 DEF Close, Dirs

\* Every step of the bus keeps the invariant.
LEMMA BusStep == BusInv /\ [Next]_vars => BusInv'
<1> SUFFICES ASSUME BusInv, [Next]_vars PROVE BusInv'
  OBVIOUS
<1>1. CASE PublishInbound \/ PublishOutbound
  BY <1>1, PublishKeeps DEF PublishInbound, PublishOutbound, MessagesOf
<1>2. ASSUME NEW c \in Consumers, Consume(c) PROVE BusInv'
  <2>1. CASE Receive(c)
    <3>1. Dir[c] \in Dirs
      BY BusAssumption
    <3>2. /\ buf[Dir[c]] # <<>> /\ buf' = [buf EXCEPT ![Dir[c]] = Tail(@)]
          /\ delivered' = [delivered EXCEPT ![Dir[c]] = Append(@, Head(buf[Dir[c]]))]
          /\ dropped' = dropped /\ UNCHANGED <<closed, done, cancelled, status, consumer, closer, racing>>
      BY <2>1 DEF Receive
    <3> QED
      BY <3>1, <3>2, TakeKeeps, Zenon
  <2>2. CASE StopConsuming(c)
    BY <2>2 DEF StopConsuming, BusInv, TypeOK, CloseInv, Drained
  <2> QED
    BY <1>2, <2>1, <2>2 DEF Consume
<1>3. ASSUME NEW k \in Closers, Close(k) PROVE BusInv'
  BY <1>3, CloseKeeps
<1>4. ASSUME NEW p \in Publishers \cup Consumers, Cancel(p) PROVE BusInv'
  BY <1>4 DEF Cancel, BusInv, TypeOK, CloseInv, Drained
<1>5. CASE UNCHANGED vars
  BY <1>5 DEF vars, BusInv, TypeOK, CloseInv, Drained
<1> QED
  BY <1>1, <1>2, <1>3, <1>4, <1>5 DEF Next, ConsumeInbound, SubscribeOutbound

\* The channels never hold more than their capacity, and what is in them was published.
THEOREM TypeCorrect == Spec => []TypeOK
<1>1. BusInv => TypeOK
  BY DEF BusInv
<1> QED
  BY <1>1, BusInit, BusStep, PTL DEF Spec

\* When Close has returned, a message left in a channel belongs to a publisher
\* that was past the closed flag when Close began.
THEOREM StrandedOnlyRacing == Spec => []StrandedOnlyIfRacing
<1>1. BusInv => StrandedOnlyIfRacing
  <2> SUFFICES ASSUME BusInv, closed, \A k \in Closers : closer[k] \in {"idle", "returned"},
                      NEW d \in Dirs, NEW i \in DOMAIN buf[d]
               PROVE  buf[d][i] \in racing
    BY DEF StrandedOnlyIfRacing
  <2>1. Drained(d)
    BY DEF Drained
  <2>2. i \in 1 .. Len(buf[d])
    BY LenProperties DEF BusInv, TypeOK
  <2> QED
    BY <2>1, <2>2 DEF BusInv, CloseInv
<1> QED
  BY <1>1, BusInit, BusStep, PTL DEF Spec

-----------------------------------------------------------------------------
(* The refinement of Handoff *)

\* The messages of a direction whose publisher was told nil.
Accepted(d) == {m \in MessagesOf(d) : status[m] = "accepted"}

\* What a step of the bus is for direction d: one of Handoff's steps, or none.
HandoffStep(d) ==
  \/ \E m \in MessagesOf(d) :
       /\ m \notin Accepted(d) /\ Len(buf[d]) < Capacity
       /\ Accepted(d)' = Accepted(d) \cup {m} /\ buf'[d] = Append(buf[d], m)
       /\ delivered'[d] = delivered[d] /\ dropped'[d] = dropped[d] /\ closed' = closed
  \/ /\ buf[d] # <<>> /\ buf'[d] = Tail(buf[d])
     /\ Accepted(d)' = Accepted(d) /\ closed' = closed
     /\ \/ delivered'[d] = Append(delivered[d], Head(buf[d])) /\ dropped'[d] = dropped[d]
        \/ closed /\ dropped'[d] = Append(dropped[d], Head(buf[d])) /\ delivered'[d] = delivered[d]
  \/ /\ Accepted(d)' = Accepted(d) /\ buf'[d] = buf[d]
     /\ delivered'[d] = delivered[d] /\ dropped'[d] = dropped[d]
     /\ closed' = closed \/ (~closed /\ closed')

\* A publish call is one message's hand-over in its own direction.
LEMMA PublishHandsOff ==
  ASSUME BusInv, NEW m \in Messages, Publish(m), NEW d \in Dirs
  PROVE  HandoffStep(d)
<1> USE DEF BusInv, TypeOK
<1>1. CASE PublishBegin(m) \/ PublishGiveUp(m)
  <2>1. Accepted(d)' = Accepted(d)
    BY <1>1 DEF PublishBegin, PublishGiveUp, IsNext, Accepted, MessagesOf
  <2> QED
    BY <1>1, <2>1 DEF PublishBegin, PublishGiveUp, HandoffStep
<1>2. CASE PublishSend(m) /\ Dir[m[1]] = d
  <2>1. m \in MessagesOf(d) /\ m \notin Accepted(d) /\ Accepted(d)' = Accepted(d) \cup {m}
    BY <1>2 DEF PublishSend, Accepted, MessagesOf
  <2>2. /\ Len(buf[d]) < Capacity /\ buf'[d] = Append(buf[d], m)
        /\ delivered'[d] = delivered[d] /\ dropped'[d] = dropped[d] /\ closed' = closed
    BY <1>2 DEF PublishSend
  <2> QED
    BY <2>1, <2>2 DEF HandoffStep
<1>3. CASE PublishSend(m) /\ Dir[m[1]] # d
  <2>1. Accepted(d)' = Accepted(d)
    BY <1>3 DEF PublishSend, Accepted, MessagesOf
  <2>2. Dir[m[1]] \in Dirs
    BY BusAssumption DEF Messages
  <2> QED
    BY <1>3, <2>1, <2>2 DEF PublishSend, HandoffStep
<1> QED
  BY <1>1, <1>2, <1>3 DEF Publish

\* So is every other step: a consumer delivers, Close begins or drops.
LEMMA StepHandsOff ==
  ASSUME BusInv, [Next]_vars, NEW d \in Dirs
  PROVE  HandoffStep(d)
<1> USE DEF BusInv, TypeOK
<1>1. CASE PublishInbound \/ PublishOutbound
  BY <1>1, PublishHandsOff DEF PublishInbound, PublishOutbound, MessagesOf
<1>2. ASSUME NEW c \in Consumers, Consume(c) PROVE HandoffStep(d)
  <2>1. Accepted(d)' = Accepted(d) /\ closed' = closed
    BY <1>2 DEF Consume, Receive, StopConsuming, Accepted
  <2>2. Dir[c] \in Dirs
    BY BusAssumption
  <2>3. CASE Receive(c) /\ Dir[c] = d
    BY <2>1, <2>3 DEF Receive, HandoffStep
  <2>4. CASE (Receive(c) /\ Dir[c] # d) \/ StopConsuming(c)
    BY <2>1, <2>2, <2>4 DEF Receive, StopConsuming, HandoffStep
  <2> QED
    BY <1>2, <2>3, <2>4 DEF Consume
<1>3. ASSUME NEW k \in Closers, Close(k) PROVE HandoffStep(d)
  <2>1. Accepted(d)' = Accepted(d)
    BY <1>3 DEF Close, CloseSwap, CloseDone, Drain, Accepted
  <2>2. CASE CloseSwap(k) \/ CloseDone(k)
    BY <2>1, <2>2 DEF CloseSwap, CloseDone, HandoffStep
  <2>3. ASSUME NEW e \in Dirs, NEW next, Drain(k, e, next) PROVE HandoffStep(d)
    <3>1. closed /\ closed' = closed
      BY <2>3 DEF Drain, CloseInv, Dirs
    <3>2. CASE buf[e] # <<>> /\ e = d
      BY <2>1, <2>3, <3>1, <3>2 DEF Drain, HandoffStep
    <3>3. CASE buf[e] = <<>> \/ e # d
      BY <2>1, <2>3, <3>1, <3>3 DEF Drain, HandoffStep
    <3> QED
      BY <3>2, <3>3
  <2> QED
    BY <1>3, <2>2, <2>3 DEF Close, Dirs
<1>4. CASE (\E p \in Publishers \cup Consumers : Cancel(p)) \/ UNCHANGED vars
  BY <1>4 DEF Cancel, vars, HandoffStep, Accepted
<1> QED
  BY <1>1, <1>2, <1>3, <1>4 DEF Next, ConsumeInbound, SubscribeOutbound

\* Each direction of the bus is a bounded first-in first-out buffer that takes a
\* message at most once, gives it to one consumer, and drops messages only once
\* Close has begun.
THEOREM BusHandsOff == Spec => BothDirectionsHandOff
<1>1. Init => InboundHandoff!Init /\ OutboundHandoff!Init
  BY DEF Init, InboundHandoff!Init, OutboundHandoff!Init, MessagesOf, Dirs
<1>2. BusInv /\ [Next]_vars => [InboundHandoff!Next]_(InboundHandoff!vars)
  <2> SUFFICES ASSUME BusInv, [Next]_vars PROVE [InboundHandoff!Next]_(InboundHandoff!vars)
    OBVIOUS
  <2>1. HandoffStep("inbound")
    BY StepHandsOff DEF Dirs
  <2> QED
    BY <2>1 DEF HandoffStep, Accepted, BusInv, TypeOK, InboundHandoff!Next, InboundHandoff!Accept,
       InboundHandoff!Deliver, InboundHandoff!Drop, InboundHandoff!BeginClose, InboundHandoff!vars
<1>3. BusInv /\ [Next]_vars => [OutboundHandoff!Next]_(OutboundHandoff!vars)
  <2> SUFFICES ASSUME BusInv, [Next]_vars PROVE [OutboundHandoff!Next]_(OutboundHandoff!vars)
    OBVIOUS
  <2>1. HandoffStep("outbound")
    BY StepHandsOff DEF Dirs
  <2> QED
    BY <2>1 DEF HandoffStep, Accepted, BusInv, TypeOK, OutboundHandoff!Next, OutboundHandoff!Accept,
       OutboundHandoff!Deliver, OutboundHandoff!Drop, OutboundHandoff!BeginClose, OutboundHandoff!vars
<1> QED
  BY <1>1, <1>2, <1>3, BusInit, BusStep, PTL
  DEF Spec, BothDirectionsHandOff, InboundHandoff!Spec, OutboundHandoff!Spec
=============================================================================
