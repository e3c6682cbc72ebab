------------------------ MODULE ChannelManagerProofs ------------------------
(***************************************************************************)
(* What holds of the outbound half of the channel manager for any channels *)
(* and messages, any queue sizes and any number of retries: its types, the *)
(* order in which a channel sees its messages, how often it sees a chunk,  *)
(* that nothing is lost while the manager runs, and that no channel is     *)
(* called after its Stop.                                                  *)
(***************************************************************************)
EXTENDS ChannelManager, FiniteSetTheorems, SequenceTheorems, TLAPS

-----------------------------------------------------------------------------
(* The invariant *)

Busy(n) == worker[n].at \in {"limiting", "sending", "backoff"}

\* What the dispatcher and the workers have in hand.
Hands ==
  /\ dispatcher.at \in {"routing", "enqueuing"} => dispatcher.msg \in Messages
  /\ dispatcher.at = "enqueuing" => ChannelOf[dispatcher.msg] \in workers
  /\ dispatcher.at = "subscribing" => dispatcher.msg = NoMessage
  /\ \A n \in Names :
       /\ Busy(n) => worker[n].msg \in Messages /\ worker[n].chunk \in 1 .. Chunks[worker[n].msg]
       /\ ~Busy(n) => worker[n].msg = NoMessage
       /\ worker[n].at = "limiting" => worker[n].attempt = 0
       /\ worker[n].at = "backoff" => worker[n].attempt < MaxRetries

TypeInv == TypeOK /\ Hands

OneToOne(s) == \A i, j \in DOMAIN s : s[i] = s[j] => i = j

\* The bus gives each message to the dispatcher once.
OnceInv ==
  /\ OneToOne(outbound) /\ OneToOne(taken)
  /\ Elements(outbound) \subseteq published /\ Elements(taken) \subseteq published
  /\ Elements(outbound) \cap Elements(taken) = {}

Before(a, b) == Position(a) < Position(b)

\* The messages that have gone to channel n.
Ours(n) == {m \in Elements(taken) : ChannelOf[m] = n}

\* Has the worker called Send for chunk c of m, or is it about to go on doing so?
UpTo(w, e) ==
  \/ Before(e.msg, w.msg)
  \/ e.msg = w.msg /\ e.chunk < w.chunk
  \/ e.msg = w.msg /\ e.chunk = w.chunk /\ w.at # "limiting"

\* A channel's messages stand in line: those it was called for, the one its worker
\* holds, and those in its queue.
LineInv ==
  \A n \in Names :
    /\ \A i \in DOMAIN queue[n] :
         /\ queue[n][i] \in Ours(n)
         /\ \A j \in DOMAIN queue[n] : i < j => Before(queue[n][i], queue[n][j])
         /\ Busy(n) => Before(worker[n].msg, queue[n][i])
         /\ \A k \in DOMAIN calls[n] : Before(calls[n][k].msg, queue[n][i])
    /\ \A k \in DOMAIN calls[n] :
         /\ calls[n][k].msg \in Ours(n)
         /\ Busy(n) => UpTo(worker[n], calls[n][k])
    /\ Busy(n) => worker[n].msg \in Ours(n)

\* The dispatcher holds the message it took last, and no channel has it yet.
LastInv ==
  dispatcher.at \in {"routing", "enqueuing"} =>
    /\ taken # <<>> /\ dispatcher.msg = taken[Len(taken)]
    /\ \A n \in Names :
         /\ dispatcher.msg \notin Elements(queue[n])
         /\ dispatcher.msg # worker[n].msg
         /\ \A k \in DOMAIN calls[n] : calls[n][k].msg # dispatcher.msg

\* The calls for the chunk that a worker is sending are the attempts it has made.
TriesInv ==
  \A n \in Names :
    worker[n].at \in {"sending", "backoff"} =>
      LET tries == CallsOf(worker[n].msg, worker[n].chunk) IN
      /\ Cardinality(tries) = worker[n].attempt + (IF worker[n].at = "backoff" THEN 1 ELSE 0)
      /\ \A i \in tries : calls[n][i].outcome = "retryable"

\* StopAll is over only when every worker is.
StopInv ==
  /\ stopper # "idle" => ctxDone
  /\ queuesClosed => stopper # "idle"
  /\ stopper \in {"stopping", "returned"} => \A n \in workers : worker[n].at = "done"
  /\ stopped # {} => stopper = "returned"

ManagerInv ==
  /\ TypeInv /\ OnceInv /\ LineInv /\ LastInv /\ SentInOrder
  /\ TriesInv /\ RetryDiscipline /\ StopInv /\ NothingLostWhileRunning

-----------------------------------------------------------------------------
(* Sequences *)

\* A set holds the elements of a sequence if it holds each of them.
LEMMA ElementsIn ==
  ASSUME NEW q, NEW T
  PROVE  /\ (\A i \in DOMAIN q : q[i] \in T) => \A x \in Elements(q) : x \in T
         /\ \A i \in DOMAIN q : q[i] \in Elements(q)
         /\ \A x \in Elements(q) : \E i \in DOMAIN q : q[i] = x
  BY Zenon DEF Elements

\* What Append does to a sequence and to its elements.
LEMMA AppendFacts ==
  ASSUME NEW S, NEW q \in Seq(S), NEW e \in S
  PROVE  /\ Append(q, e) \in Seq(S)
         /\ Len(q) \in Nat /\ DOMAIN q = 1 .. Len(q)
         /\ Len(Append(q, e)) = Len(q) + 1 /\ DOMAIN Append(q, e) = 1 .. Len(q) + 1
         /\ \A i \in 1 .. Len(q) : Append(q, e)[i] = q[i]
         /\ Append(q, e)[Len(q) + 1] = e
         /\ Elements(Append(q, e)) = Elements(q) \cup {e}
<1>1. /\ Append(q, e) \in Seq(S)
      /\ Len(q) \in Nat /\ DOMAIN q = 1 .. Len(q)
      /\ Len(Append(q, e)) = Len(q) + 1 /\ DOMAIN Append(q, e) = 1 .. Len(q) + 1
      /\ \A i \in 1 .. Len(q) : Append(q, e)[i] = q[i]
      /\ Append(q, e)[Len(q) + 1] = e
  OBVIOUS
<1>2. \A i \in 1 .. Len(q) + 1 : i \in 1 .. Len(q) \/ i = Len(q) + 1
  BY <1>1
<1>3. Len(q) + 1 \in 1 .. Len(q) + 1 /\ \A i \in 1 .. Len(q) : i \in 1 .. Len(q) + 1
  BY <1>1
<1>4. \A x \in Elements(Append(q, e)) : x \in Elements(q) \cup {e}
  <2>1. \A i \in DOMAIN Append(q, e) : Append(q, e)[i] \in Elements(q) \cup {e}
    BY <1>1, <1>2, ElementsIn
  <2> QED
    BY <2>1, ElementsIn
<1>5. \A x \in Elements(q) \cup {e} : x \in Elements(Append(q, e))
  BY <1>1, <1>3 DEF Elements
<1> QED
  BY <1>1, <1>4, <1>5

\* What Tail does.
LEMMA TailFacts ==
  ASSUME NEW S, NEW q \in Seq(S), q # <<>>
  PROVE  /\ Head(q) \in S /\ Tail(q) \in Seq(S)
         /\ Len(q) \in Nat \ {0} /\ DOMAIN q = 1 .. Len(q)
         /\ Head(q) = q[1]
         /\ Len(Tail(q)) = Len(q) - 1 /\ DOMAIN Tail(q) = 1 .. Len(q) - 1
         /\ \A i \in 1 .. Len(q) - 1 : i + 1 \in 1 .. Len(q) /\ Tail(q)[i] = q[i + 1]
         /\ Elements(q) = Elements(Tail(q)) \cup {Head(q)}
<1>1. /\ Head(q) \in S /\ Tail(q) \in Seq(S)
      /\ Len(q) \in Nat \ {0} /\ DOMAIN q = 1 .. Len(q)
      /\ Head(q) = q[1]
      /\ Len(Tail(q)) = Len(q) - 1 /\ DOMAIN Tail(q) = 1 .. Len(q) - 1
      /\ \A i \in 1 .. Len(q) - 1 : i + 1 \in 1 .. Len(q) /\ Tail(q)[i] = q[i + 1]
  BY HeadTailProperties, LenProperties, EmptySeq
<1>2. \A i \in 1 .. Len(q) : i = 1 \/ (i - 1 \in 1 .. Len(q) - 1 /\ q[i] = Tail(q)[i - 1])
  <2> SUFFICES ASSUME NEW i \in 1 .. Len(q), i # 1
               PROVE  i - 1 \in 1 .. Len(q) - 1 /\ q[i] = Tail(q)[i - 1]
    OBVIOUS
  <2>1. i - 1 \in 1 .. Len(q) - 1 /\ (i - 1) + 1 = i
    BY <1>1
  <2> QED
    BY <1>1, <2>1
<1>3. \A x \in Elements(q) : x \in Elements(Tail(q)) \cup {Head(q)}
  <2>1. \A i \in DOMAIN q : q[i] \in Elements(Tail(q)) \cup {Head(q)}
    BY <1>1, <1>2, ElementsIn
  <2> QED
    BY <2>1, ElementsIn
<1>4. \A x \in Elements(Tail(q)) \cup {Head(q)} : x \in Elements(q)
  <2>1. 1 \in 1 .. Len(q)
    BY <1>1
  <2> QED
    BY <1>1, <2>1 DEF Elements
<1> QED
  BY <1>1, <1>3, <1>4

\* The place of m in a sequence; Position is the place in taken.
Place(s, m) == CHOOSE i \in DOMAIN s : s[i] = m

LEMMA PositionIsPlace ==
  \A m : Position(m) = Place(taken, m) /\ Position(m)' = Place(taken', m)
  BY DEF Position, Place

\* A message that is in a sequence once has one place there.
LEMMA PlaceFacts ==
  ASSUME NEW S, NEW s \in Seq(S), OneToOne(s)
  PROVE  /\ \A m \in Elements(s) : Place(s, m) \in 1 .. Len(s) /\ s[Place(s, m)] = m
         /\ \A i \in 1 .. Len(s) : Place(s, s[i]) = i
<1>1. DOMAIN s = 1 .. Len(s)
  BY LenProperties
<1>2. ASSUME NEW m \in Elements(s)
      PROVE  Place(s, m) \in 1 .. Len(s) /\ s[Place(s, m)] = m
  <2>1. \E i \in DOMAIN s : s[i] = m
    BY ElementsIn
  <2> QED
    BY <1>1, <2>1 DEF Place
<1>3. ASSUME NEW i \in 1 .. Len(s) PROVE Place(s, s[i]) = i
  <2>1. s[i] \in Elements(s)
    BY <1>1, ElementsIn
  <2> QED
    BY <1>1, <1>2, <2>1 DEF OneToOne
<1> QED
  BY <1>2, <1>3

\* Of two taken messages one comes before the other, and that is an order.
LEMMA BeforeFacts ==
  ASSUME taken \in Seq(Messages), OneToOne(taken)
  PROVE  /\ \A a \in Elements(taken) : ~Before(a, a)
         /\ \A a, b, c \in Elements(taken) : Before(a, b) /\ Before(b, c) => Before(a, c)
<1>1. \A m \in Elements(taken) : Position(m) \in Int
  BY PositionIsPlace, PlaceFacts
<1> QED
  BY <1>1 DEF Before

-----------------------------------------------------------------------------
(* Types *)

\* A new manager holds nothing.
LEMMA TypeInit == Init => TypeInv
<1> SUFFICES ASSUME Init PROVE TypeInv
  OBVIOUS
<1> USE DEF Init, Bus!Init
<1>1. [n \in Names |-> <<>>] \in [Names -> Seq(Messages)] /\ [n \in Names |-> <<>>] \in [Names -> Seq(Call)]
  OBVIOUS
<1>2. \A n \in Names : Len(queue[n]) <= QueueSize
  BY ManagerAssumption
<1>3. worker \in [Names -> [at : {"selecting", "limiting", "sending", "backoff", "done"},
                            msg : Messages \cup {NoMessage}, chunk : Nat, attempt : 0 .. MaxRetries]]
  BY ManagerAssumption DEF Idle
<1>4. <<>> \in Seq(Messages)
  OBVIOUS
<1>5. dispatcher \in [at : {"subscribing", "routing", "enqueuing", "returned"},
                      msg : Messages \cup {NoMessage}]
  OBVIOUS
<1>6. queue \in [Names -> Seq(Messages)] /\ calls \in [Names -> Seq(Call)]
  BY <1>1
<1>7. TypeOK
  <2> SUFFICES /\ published \subseteq Messages
               /\ outbound = <<>> /\ taken = <<>> /\ drained = <<>>
               /\ busClosed \in BOOLEAN /\ workers \subseteq Names
               /\ queuesClosed \in BOOLEAN /\ ctxDone \in BOOLEAN /\ locked \in BOOLEAN
               /\ stopper = "idle" /\ stopped \subseteq Names /\ crashed \in BOOLEAN
    BY <1>2, <1>3, <1>4, <1>5, <1>6, Zenon DEF TypeOK
  <2> QED
    OBVIOUS
<1>8. Hands
  BY DEF Hands, Busy, Idle
<1> QED
  BY <1>7, <1>8 DEF TypeInv

\* The bus carries messages.
LEMMA BusTypes ==
  ASSUME TypeInv,
         \/ \E m \in Messages : PublishOutbound(m)
         \/ CloseBus
         \/ Subscribe
  PROVE  TypeInv'
<1> USE DEF TypeInv
<1>1. CASE \E m \in Messages : PublishOutbound(m)
  <2> PICK m \in Messages : PublishOutbound(m)
    BY <1>1
  <2>1. Append(outbound, m) \in Seq(Messages)
    BY DEF TypeOK
  <2>2. TypeOK'
    BY <2>1 DEF PublishOutbound, Bus!Accept, TypeOK, stopVars
  <2>3. Hands'
    BY DEF PublishOutbound, stopVars, Hands, Busy
  <2> QED
    BY <2>2, <2>3
<1>2. CASE CloseBus
  <2>1. TypeOK'
    <3>1. CASE Bus!BeginClose
      BY <1>2, <3>1 DEF CloseBus, Bus!BeginClose, TypeOK, stopVars
    <3>2. CASE Bus!Drop
      <4>1. Tail(outbound) \in Seq(Messages) /\ Append(drained, Head(outbound)) \in Seq(Messages)
        BY <3>2, TailFacts, AppendFacts DEF TypeOK, Bus!Drop
      <4> QED
        BY <1>2, <3>2, <4>1 DEF CloseBus, Bus!Drop, TypeOK, stopVars
    <3> QED
      BY <1>2, <3>1, <3>2 DEF CloseBus
  <2>2. Hands'
    BY <1>2 DEF CloseBus, stopVars, Hands, Busy
  <2> QED
    BY <2>1, <2>2
<1>3. CASE Subscribe
  <2>1. Head(outbound) \in Messages /\ Tail(outbound) \in Seq(Messages) /\ Append(taken, Head(outbound)) \in Seq(Messages)
    BY <1>3, TailFacts, AppendFacts DEF TypeOK, Subscribe, Bus!Deliver
  <2>2. TypeOK'
    BY <1>3, <2>1 DEF Subscribe, Bus!Deliver, TypeOK, stopVars
  <2>3. Hands'
    BY <1>3, <2>1 DEF Subscribe, stopVars, Hands, Busy
  <2> QED
    BY <2>2, <2>3
<1> QED
  BY <1>1, <1>2, <1>3

\* The dispatcher forwards messages to workers only.
LEMMA DispatchTypes ==
  ASSUME TypeInv, DispatcherReturns \/ Route \/ Enqueue \/ AbandonEnqueue \/ EnqueueClosed
  PROVE  TypeInv'
<1> USE DEF TypeInv
<1>1. CASE DispatcherReturns
  <2>1. TypeOK'
    BY <1>1 DEF DispatcherReturns, TypeOK, stopVars, busVars
  <2>2. Hands'
    BY <1>1 DEF DispatcherReturns, TypeOK, stopVars, Hands, Busy
  <2> QED
    BY <2>1, <2>2
<1>2. CASE Route
  <2>1. TypeOK'
    BY <1>2 DEF Route, TypeOK, stopVars, busVars
  <2>2. Hands'
    BY <1>2 DEF Route, TypeOK, stopVars, Hands, Busy
  <2> QED
    BY <2>1, <2>2
<1>3. CASE Enqueue
  <2> DEFINE n == ChannelOf[dispatcher.msg]
             q == Append(queue[n], dispatcher.msg)
  <2>1. n \in Names /\ dispatcher.msg \in Messages
    BY <1>3 DEF Enqueue, Hands, TypeOK
  <2>2. q \in Seq(Messages) /\ Len(q) = Len(queue[n]) + 1 /\ Len(queue[n]) \in Nat
    BY <2>1, AppendFacts DEF TypeOK
  <2>3. queue' = [queue EXCEPT ![n] = q] /\ Len(queue[n]) < QueueSize
    BY <1>3 DEF Enqueue
  <2> HIDE DEF n, q
  <2>4. queue' \in [Names -> Seq(Messages)] /\ \A k \in Names : Len(queue'[k]) <= QueueSize
    BY <2>1, <2>2, <2>3, ManagerAssumption DEF TypeOK
  <2>5. TypeOK'
    BY <1>3, <2>4 DEF Enqueue, TypeOK, stopVars, busVars
  <2>6. Hands'
    BY <1>3 DEF Enqueue, stopVars, Hands, Busy
  <2> QED
    BY <2>5, <2>6
<1>4. CASE AbandonEnqueue \/ EnqueueClosed
  <2>1. TypeOK'
    BY <1>4 DEF AbandonEnqueue, EnqueueClosed, TypeOK, stopVars, busVars
  <2>2. Hands'
    BY <1>4 DEF AbandonEnqueue, EnqueueClosed, TypeOK, stopVars, Hands, Busy
  <2> QED
    BY <2>1, <2>2
<1> QED
  BY <1>1, <1>2, <1>3, <1>4

\* StopAll and the cancellation change what only they own.
LEMMA StopTypes ==
  ASSUME TypeInv, CancelContext \/ StopAll
  PROVE  TypeInv'
<1>1. TypeOK'
  BY DEF TypeInv, CancelContext, StopAll, StopBegin, StopCloseQueues, StopWait, StopChannels,
         TypeOK, busVars
<1>2. Hands'
  BY DEF TypeInv, CancelContext, StopAll, StopBegin, StopCloseQueues, StopWait, StopChannels,
         Hands, Busy, busVars
<1> QED
  BY <1>1, <1>2 DEF TypeInv

\* What a worker may hold at its next step.
Holdable(w) ==
  /\ w \in [at : {"selecting", "limiting", "sending", "backoff", "done"},
            msg : Messages \cup {NoMessage}, chunk : Nat, attempt : 0 .. MaxRetries]
  /\ IF w.at \in {"limiting", "sending", "backoff"}
     THEN w.msg \in Messages /\ w.chunk \in 1 .. Chunks[w.msg] ELSE w.msg = NoMessage
  /\ w.at = "limiting" => w.attempt = 0
  /\ w.at = "backoff" => w.attempt < MaxRetries

\* A busy worker goes on to the next chunk of its message, or is idle again.
LEMMA NextChunkFacts ==
  ASSUME TypeInv, NEW n \in Names, Busy(n)
  PROVE  LET w == worker[n]
             v == NextChunk(w) IN
         /\ Holdable(w) /\ Holdable(v)
         /\ v.at \in {"limiting", "selecting"}
         /\ v.at = "limiting" => v.msg = w.msg /\ v.chunk = w.chunk + 1
         /\ v.at = "selecting" => w.chunk = Chunks[w.msg]
<1> DEFINE w == worker[n]
           v == NextChunk(w)
<1>1. Holdable(w) /\ w.at \in {"limiting", "sending", "backoff"}
  BY DEF TypeInv, TypeOK, Hands, Busy, Holdable
<1>2. Chunks[w.msg] \in Nat /\ w.chunk \in 1 .. Chunks[w.msg]
  BY <1>1, ManagerAssumption DEF Holdable
<1> HIDE DEF w
<1>3. CASE w.chunk < Chunks[w.msg]
  <2>1. v = [w EXCEPT !.at = "limiting", !.chunk = w.chunk + 1, !.attempt = 0]
    BY <1>3 DEF NextChunk
  <2>2. w \in [at : {"selecting", "limiting", "sending", "backoff", "done"},
               msg : Messages \cup {NoMessage}, chunk : Nat, attempt : 0 .. MaxRetries]
    BY <1>1 DEF Holdable
  <2>3. v.at = "limiting" /\ v.msg = w.msg /\ v.chunk = w.chunk + 1 /\ v.attempt = 0
    BY <2>1, <2>2
  <2>4. v \in [at : {"selecting", "limiting", "sending", "backoff", "done"},
               msg : Messages \cup {NoMessage}, chunk : Nat, attempt : 0 .. MaxRetries]
    <3>1. w.chunk + 1 \in Nat /\ 0 \in 0 .. MaxRetries
      BY <2>2, ManagerAssumption
    <3> HIDE DEF v
    <3>2. DOMAIN v = {"at", "msg", "chunk", "attempt"}
      BY <2>1, <2>2
    <3>3. v = [at |-> "limiting", msg |-> w.msg, chunk |-> w.chunk + 1, attempt |-> 0]
      BY <2>1, <2>2
    <3> QED
      BY <2>2, <3>1, <3>3
  <2>5. w.msg \in Messages /\ v.chunk \in 1 .. Chunks[v.msg]
    BY <1>1, <1>2, <1>3, <2>3 DEF Holdable
  <2> HIDE DEF v
  <2>6. Holdable(v)
    BY <2>3, <2>4, <2>5 DEF Holdable
  <2> QED
    BY <1>1, <2>3, <2>6 DEF w, v
<1>4. CASE ~(w.chunk < Chunks[w.msg])
  <2>1. v = Idle /\ w.chunk = Chunks[w.msg]
    BY <1>2, <1>4 DEF NextChunk
  <2>2. Holdable(Idle) /\ Idle.at = "selecting"
    BY ManagerAssumption DEF Holdable, Idle
  <2> HIDE DEF v
  <2> QED
    BY <1>1, <2>1, <2>2 DEF w, v
<1> QED
  BY <1>3, <1>4

\* A worker that goes on to hold what it may hold keeps the types of all workers.
LEMMA WorkerTypes ==
  ASSUME TypeInv, NEW n \in Names, NEW v, Holdable(v),
         worker' = [worker EXCEPT ![n] = v], UNCHANGED <<workers, dispatcher>>
  PROVE  /\ worker' \in [Names -> [at : {"selecting", "limiting", "sending", "backoff", "done"},
                                   msg : Messages \cup {NoMessage},
                                   chunk : Nat, attempt : 0 .. MaxRetries]]
         /\ Hands'
<1>1. worker'[n] = v /\ \A k \in Names : k # n => worker'[k] = worker[k]
  BY DEF TypeInv, TypeOK
<1>2. worker' \in [Names -> [at : {"selecting", "limiting", "sending", "backoff", "done"},
                             msg : Messages \cup {NoMessage},
                             chunk : Nat, attempt : 0 .. MaxRetries]]
  BY DEF TypeInv, TypeOK, Holdable
<1>3. Hands'
  BY <1>1 DEF TypeInv, Hands, Busy, Holdable
<1> QED
  BY <1>2, <1>3

\* What each step of a worker does with what it holds.
LEMMA WorkFacts ==
  ASSUME TypeInv, NEW n \in Names, Work(n)
  PROVE  /\ worker' = [worker EXCEPT ![n] = worker'[n]]
         /\ Holdable(worker[n]) /\ Holdable(worker'[n])
         /\ \/ Take(n) /\ worker'[n] = [at |-> "limiting", msg |-> Head(queue[n]), chunk |-> 1, attempt |-> 0]
            \/ WorkerReturns(n) /\ worker'[n].at = "done"
            \/ Limit(n) /\ ctxDone /\ worker'[n] = NextChunk(worker[n])
            \/ Limit(n) /\ ~ctxDone /\ worker'[n] = [worker[n] EXCEPT !.at = "sending"]
            \/ Send(n)
            \/ Backoff(n) /\ ctxDone /\ worker'[n] = NextChunk(worker[n])
            \/ Backoff(n) /\ worker'[n] = [worker[n] EXCEPT !.at = "sending", !.attempt = @ + 1]
<1> DEFINE w == worker[n]
<1>0. /\ DOMAIN worker = Names
      /\ w \in [at : {"selecting", "limiting", "sending", "backoff", "done"},
                msg : Messages \cup {NoMessage}, chunk : Nat, attempt : 0 .. MaxRetries]
      /\ Holdable(w) /\ w.attempt \in Nat /\ MaxRetries \in Nat
  BY ManagerAssumption DEF TypeInv, TypeOK, Hands, Busy, Holdable
<1>1. CASE Take(n)
  <2> DEFINE v == [at |-> "limiting", msg |-> Head(queue[n]), chunk |-> 1, attempt |-> 0]
  <2>1. worker' = [worker EXCEPT ![n] = v]
    BY <1>1 DEF Take
  <2>2. Head(queue[n]) \in Messages
    BY <1>1, TailFacts DEF Take, TypeInv, TypeOK
  <2>3. 1 \in 1 .. Chunks[Head(queue[n])]
    BY <2>2, ManagerAssumption
  <2>4. Holdable(v)
    BY <2>2, <2>3, <1>0 DEF Holdable
  <2> QED
    BY <1>0, <1>1, <2>1, <2>4
<1>2. CASE WorkerReturns(n)
  <2> DEFINE v == [w EXCEPT !.at = "done"]
  <2>1. worker' = [worker EXCEPT ![n] = v]
    BY <1>2 DEF WorkerReturns
  <2>2. Holdable(v) /\ v.at = "done"
    BY <1>0, <1>2 DEF Holdable, WorkerReturns
  <2> HIDE DEF v
  <2> QED
    BY <1>0, <1>2, <2>1, <2>2
<1>3. CASE Limit(n)
  <2>1. Busy(n) /\ w.at = "limiting"
    BY <1>3 DEF Limit, Busy
  <2>2. CASE ctxDone
    <3>1. worker' = [worker EXCEPT ![n] = NextChunk(w)]
      BY <1>3, <2>2 DEF Limit
    <3>2. Holdable(NextChunk(w))
      BY <2>1, NextChunkFacts
    <3> QED
      BY <1>0, <1>3, <2>2, <3>1, <3>2
  <2>3. CASE ~ctxDone
    <3> DEFINE v == [w EXCEPT !.at = "sending"]
    <3>1. worker' = [worker EXCEPT ![n] = v]
      BY <1>3, <2>3 DEF Limit
    <3>2. Holdable(v)
      BY <1>0, <2>1 DEF Holdable
    <3> QED
      BY <1>0, <1>3, <2>3, <3>1, <3>2
  <2> QED
    BY <2>2, <2>3
<1>4. CASE Send(n)
  <2>1. Busy(n) /\ w.at = "sending"
    BY <1>4 DEF Send, Busy
  <2>2. PICK outcome \in Outcomes :
          worker' = [worker EXCEPT ![n] =
                       IF outcome = "retryable" /\ w.attempt < MaxRetries
                       THEN [w EXCEPT !.at = "backoff"] ELSE NextChunk(w)]
    BY <1>4 DEF Send
  <2>3. CASE outcome = "retryable" /\ w.attempt < MaxRetries
    <3> DEFINE v == [w EXCEPT !.at = "backoff"]
    <3>1. worker' = [worker EXCEPT ![n] = v]
      BY <2>2, <2>3
    <3>2. Holdable(v)
      BY <1>0, <2>1, <2>3 DEF Holdable
    <3> QED
      BY <1>0, <1>4, <3>1, <3>2
  <2>4. CASE ~(outcome = "retryable" /\ w.attempt < MaxRetries)
    <3>1. worker' = [worker EXCEPT ![n] = NextChunk(w)]
      BY <2>2, <2>4
    <3>2. Holdable(NextChunk(w))
      BY <2>1, NextChunkFacts
    <3> QED
      BY <1>0, <1>4, <3>1, <3>2
  <2> QED
    BY <2>3, <2>4
<1>5. CASE Backoff(n)
  <2>1. Busy(n) /\ w.at = "backoff"
    BY <1>5 DEF Backoff, Busy
  <2>2. CASE worker' = [worker EXCEPT ![n].at = "sending", ![n].attempt = @ + 1]
    <3> DEFINE v == [w EXCEPT !.at = "sending", !.attempt = @ + 1]
    <3>1. worker' = [worker EXCEPT ![n] = v]
      BY <1>0, <2>2
    <3>2. w.attempt + 1 \in 0 .. MaxRetries
      BY <1>0, <2>1 DEF Holdable
    <3>3. v = [at |-> "sending", msg |-> w.msg, chunk |-> w.chunk, attempt |-> w.attempt + 1]
      <4> DEFINE u == [w EXCEPT !.at = "sending"]
      <4>1. u = [at |-> "sending", msg |-> w.msg, chunk |-> w.chunk, attempt |-> w.attempt]
        BY <1>0
      <4>2. v = [u EXCEPT !.attempt = u.attempt + 1]
        OBVIOUS
      <4> HIDE DEF u, v, w
      <4>3. u.attempt = w.attempt
        BY <4>1
      <4>4. [u EXCEPT !.attempt = u.attempt + 1]
              = [at |-> "sending", msg |-> w.msg, chunk |-> w.chunk, attempt |-> u.attempt + 1]
        BY <4>1
      <4> QED
        BY <4>2, <4>3, <4>4
    <3>4. Holdable([at |-> "sending", msg |-> w.msg, chunk |-> w.chunk, attempt |-> w.attempt + 1])
      BY <1>0, <2>1, <3>2 DEF Holdable
    <3>5. Holdable(v)
      BY <3>3, <3>4
    <3>6. worker'[n] = v
      BY <1>0, <3>1
    <3> QED
      BY <1>0, <1>5, <3>1, <3>5, <3>6
  <2>3. CASE ctxDone /\ worker' = [worker EXCEPT ![n] = NextChunk(@)]
    <3>1. worker' = [worker EXCEPT ![n] = NextChunk(w)]
      BY <2>3
    <3>2. Holdable(NextChunk(w))
      BY <2>1, NextChunkFacts
    <3> QED
      BY <1>0, <1>5, <2>3, <3>1, <3>2
  <2> QED
    BY <1>5, <2>2, <2>3 DEF Backoff
<1> QED
  BY <1>1, <1>2, <1>3, <1>4, <1>5 DEF Work

\* A worker takes messages out of its queue and adds to the history.
LEMMA WorkTypes ==
  ASSUME TypeInv, NEW n \in Names, Work(n)
  PROVE  TypeInv'
<1>1. UNCHANGED <<workers, dispatcher>>
  BY DEF Work, Take, WorkerReturns, Limit, Send, Backoff
<1>2. /\ worker' \in [Names -> [at : {"selecting", "limiting", "sending", "backoff", "done"},
                                msg : Messages \cup {NoMessage},
                                chunk : Nat, attempt : 0 .. MaxRetries]]
      /\ Hands'
  BY <1>1, WorkFacts, WorkerTypes
<1>3. queue' \in [Names -> Seq(Messages)] /\ \A k \in Names : Len(queue'[k]) <= QueueSize
  <2>1. CASE Take(n)
    <3>1. Tail(queue[n]) \in Seq(Messages) /\ Len(queue[n]) \in Nat /\ Len(Tail(queue[n])) = Len(queue[n]) - 1
      BY <2>1, TailFacts DEF Take, TypeInv, TypeOK
    <3>2. queue' = [queue EXCEPT ![n] = Tail(queue[n])]
      BY <2>1 DEF Take
    <3> QED
      BY <3>1, <3>2, ManagerAssumption DEF TypeInv, TypeOK
  <2>2. CASE ~Take(n)
    BY <2>2 DEF Work, WorkerReturns, Limit, Send, Backoff, TypeInv, TypeOK
  <2> QED
    BY <2>1, <2>2
<1>4. calls' \in [Names -> Seq(Call)]
  <2>1. CASE Send(n)
    <3>1. PICK outcome \in Outcomes :
            calls' = [calls EXCEPT ![n] =
                        Append(@, [msg |-> worker[n].msg, chunk |-> worker[n].chunk, outcome |-> outcome])]
      BY <2>1 DEF Send
    <3> DEFINE e == [msg |-> worker[n].msg, chunk |-> worker[n].chunk, outcome |-> outcome]
    <3>2. worker[n].msg \in Messages /\ worker[n].chunk \in Nat \ {0}
      BY <2>1, ManagerAssumption DEF Send, TypeInv, TypeOK, Hands, Busy
    <3>3. e \in Call
      BY <3>2 DEF Call
    <3> HIDE DEF e
    <3>4. Append(calls[n], e) \in Seq(Call)
      BY <3>3 DEF TypeInv, TypeOK
    <3> QED
      BY <3>1, <3>4 DEF TypeInv, TypeOK, e
  <2>2. CASE ~Send(n)
    BY <2>2 DEF Work, Take, WorkerReturns, Limit, Backoff, TypeInv, TypeOK
  <2> QED
    BY <2>1, <2>2
<1>5. UNCHANGED <<published, outbound, taken, drained, busClosed, workers, queuesClosed, ctxDone,
                  locked, stopper, stopped, dispatcher, crashed>>
  BY DEF Work, Take, WorkerReturns, Limit, Send, Backoff, busVars, stopVars
<1>6. TypeOK'
  BY <1>2, <1>3, <1>4, <1>5 DEF TypeInv, TypeOK
<1> QED
  BY <1>2, <1>6 DEF TypeInv

\* Every step keeps the types.
LEMMA TypeStep == TypeInv /\ [Next]_vars => TypeInv'
<1> SUFFICES ASSUME TypeInv, [Next]_vars PROVE TypeInv'
  OBVIOUS
<1>1. CASE UNCHANGED vars
  BY <1>1 DEF vars, TypeInv, TypeOK, Hands, Busy
<1>2. CASE Next
  BY <1>2, BusTypes, DispatchTypes, StopTypes, WorkTypes DEF Next, Dispatch
<1> QED
  BY <1>1, <1>2

\* The state of the manager has its type, and no queue outgrows its size: the
\* bound of makeWorker's channel holds whatever the dispatcher and workers do.
THEOREM TypeCorrect == Spec => []TypeOK
<1>1. Init => TypeInv
  BY TypeInit
<1>2. TypeInv /\ [Next]_vars => TypeInv'
  BY TypeStep
<1>3. TypeInv => TypeOK
  BY DEF TypeInv
<1> QED
  BY <1>1, <1>2, <1>3, PTL DEF Spec

-----------------------------------------------------------------------------
(* Each message once *)

\* What is not in a sequence can be appended, and the head be taken, without
\* anything being there twice.
LEMMA OneToOneFacts ==
  ASSUME NEW S, NEW q \in Seq(S), OneToOne(q)
  PROVE  /\ \A e \in S : e \notin Elements(q) => OneToOne(Append(q, e))
         /\ q # <<>> => OneToOne(Tail(q)) /\ Head(q) \notin Elements(Tail(q))
<1>1. ASSUME NEW e \in S, e \notin Elements(q) PROVE OneToOne(Append(q, e))
  <2>1. \A i \in 1 .. Len(q) + 1 : i \in 1 .. Len(q) \/ i = Len(q) + 1
    BY AppendFacts
  <2>2. \A i \in 1 .. Len(q) : q[i] # e
    BY <1>1, AppendFacts, ElementsIn
  <2> QED
    BY <2>1, <2>2, AppendFacts DEF OneToOne
<1>2. ASSUME q # <<>> PROVE OneToOne(Tail(q)) /\ Head(q) \notin Elements(Tail(q))
  <2>1. \A i, j \in 1 .. Len(q) - 1 : i + 1 = j + 1 => i = j
    BY <1>2, TailFacts
  <2>2. OneToOne(Tail(q))
    BY <1>2, <2>1, TailFacts DEF OneToOne
  <2>3. \A i \in 1 .. Len(q) - 1 : i + 1 # 1 /\ 1 \in 1 .. Len(q)
    BY <1>2, TailFacts
  <2>4. \A i \in DOMAIN Tail(q) : Tail(q)[i] # Head(q)
    BY <1>2, <2>3, TailFacts DEF OneToOne
  <2> QED
    BY <2>2, <2>4, ElementsIn
<1> QED
  BY <1>1, <1>2

\* Initially nothing is published.
LEMMA OnceInit == Init => OnceInv
  BY DEF Init, Bus!Init, OnceInv, OneToOne, Elements

\* Accept takes no message twice, and Deliver moves one.
LEMMA OnceStep ==
  ASSUME TypeInv, OnceInv, [Next]_vars
  PROVE  OnceInv'
<1>0. outbound \in Seq(Messages) /\ taken \in Seq(Messages)
  BY DEF TypeInv, TypeOK
<1>1. CASE UNCHANGED <<published, outbound, taken>>
  BY <1>1 DEF OnceInv, OneToOne, Elements
<1>2. ASSUME NEW m \in Messages, PublishOutbound(m) PROVE OnceInv'
  <2>1. /\ m \notin published /\ published' = published \cup {m}
        /\ outbound' = Append(outbound, m) /\ taken' = taken
    BY <1>2 DEF PublishOutbound, Bus!Accept
  <2>2. m \notin Elements(outbound) /\ m \notin Elements(taken)
    BY <2>1 DEF OnceInv
  <2>3. OneToOne(outbound') /\ Elements(outbound') = Elements(outbound) \cup {m}
    BY <1>0, <2>1, <2>2, OneToOneFacts, AppendFacts DEF OnceInv
  <2>4. OneToOne(taken') /\ Elements(taken') = Elements(taken)
    BY <2>1 DEF OnceInv, OneToOne, Elements
  <2> QED
    BY <2>1, <2>2, <2>3, <2>4 DEF OnceInv
<1>3. CASE Bus!Drop \/ Bus!Deliver
  <2> DEFINE h == Head(outbound)
  <2>0. outbound # <<>>
    BY <1>3 DEF Bus!Drop, Bus!Deliver
  <2>1. /\ published' = published /\ outbound' = Tail(outbound)
        /\ taken' = taken \/ taken' = Append(taken, h)
    BY <1>3 DEF Bus!Drop, Bus!Deliver
  <2>2. /\ OneToOne(outbound') /\ h \notin Elements(outbound')
        /\ Elements(outbound) = Elements(outbound') \cup {h} /\ h \in Messages
    BY <1>0, <2>0, <2>1, OneToOneFacts, TailFacts DEF OnceInv
  <2> HIDE DEF h
  <2>3. CASE taken' = taken
    <3>1. OneToOne(taken') /\ Elements(taken') = Elements(taken)
      BY <2>3 DEF OnceInv, OneToOne, Elements
    <3> QED
      BY <2>1, <2>2, <3>1 DEF OnceInv
  <2>4. CASE taken' = Append(taken, h)
    <3>1. h \notin Elements(taken) /\ h \in published
      BY <2>2 DEF OnceInv
    <3>2. OneToOne(taken') /\ Elements(taken') = Elements(taken) \cup {h}
      BY <1>0, <2>2, <2>4, <3>1, OneToOneFacts, AppendFacts DEF OnceInv
    <3> QED
      BY <2>1, <2>2, <3>1, <3>2 DEF OnceInv
  <2> QED
    BY <2>1, <2>3, <2>4
<1>4. CASE CloseBus
  BY <1>1, <1>3, <1>4 DEF CloseBus, Bus!BeginClose
<1>5. CASE Subscribe
  BY <1>3, <1>5 DEF Subscribe
<1>6. CASE CancelContext \/ StopAll \/ DispatcherReturns \/ Route \/ Enqueue \/ AbandonEnqueue
           \/ EnqueueClosed \/ \E n \in Names : Work(n)
  BY <1>1, <1>6 DEF CancelContext, StopAll, StopBegin, StopCloseQueues, StopWait, StopChannels,
     DispatcherReturns, Route, Enqueue, AbandonEnqueue, EnqueueClosed,
     Work, Take, WorkerReturns, Limit, Send, Backoff, busVars
<1> QED
  BY <1>1, <1>2, <1>4, <1>5, <1>6 DEF Next, Dispatch, vars

-----------------------------------------------------------------------------
(* Standing in line *)

\* Delivery puts a message after those taken before, whose positions stay.
LEMMA PositionsKept ==
  ASSUME taken \in Seq(Messages), OneToOne(taken), NEW m \in Messages,
         taken' = Append(taken, m), OneToOne(taken')
  PROVE  /\ \A a \in Elements(taken) : Position(a)' = Position(a)
         /\ Elements(taken)' = Elements(taken) \cup {m}
<1>1. /\ taken' \in Seq(Messages) /\ Len(taken) \in Nat /\ Len(taken') = Len(taken) + 1
      /\ \A i \in 1 .. Len(taken) : taken'[i] = taken[i]
      /\ Elements(taken') = Elements(taken) \cup {m}
  BY AppendFacts
<1>2. ASSUME NEW a \in Elements(taken) PROVE Position(a)' = Position(a)
  <2>1. Place(taken, a) \in 1 .. Len(taken) /\ taken[Place(taken, a)] = a
    BY PlaceFacts
  <2>2. Place(taken, a) \in 1 .. Len(taken') /\ taken'[Place(taken, a)] = a
    BY <1>1, <2>1
  <2>3. Place(taken', taken'[Place(taken, a)]) = Place(taken, a)
    BY <1>1, <2>2, PlaceFacts
  <2> QED
    BY <2>2, <2>3, PositionIsPlace
<1> QED
  BY <1>1, <1>2

\* A message is taken before another if it is and that is the last one.
LEMMA LastIsAfter ==
  ASSUME TypeInv, OnceInv, taken # <<>>, NEW a \in Elements(taken), a # taken[Len(taken)]
  PROVE  Before(a, taken[Len(taken)])
<1>1. taken \in Seq(Messages) /\ Len(taken) \in Nat \ {0} /\ OneToOne(taken)
  BY EmptySeq DEF TypeInv, TypeOK, OnceInv
<1>2. Position(taken[Len(taken)]) = Len(taken) /\ Position(a) \in 1 .. Len(taken) /\ taken[Position(a)] = a
  BY <1>1, PlaceFacts, PositionIsPlace
<1> QED
  BY <1>1, <1>2 DEF Before

\* Initially nobody stands in line.
LEMMA LineInit == Init => LineInv /\ LastInv /\ SentInOrder
  BY DEF Init, LineInv, LastInv, SentInOrder, Busy, Idle

\* The next message taken is in no channel's hands yet.
LEMMA SubscribeKeepsLine ==
  ASSUME TypeInv, OnceInv, LineInv, SentInOrder, OnceInv', Subscribe
  PROVE  LineInv' /\ LastInv' /\ SentInOrder'
<1> DEFINE h == Head(outbound)
<1>1. /\ outbound \in Seq(Messages) /\ outbound # <<>> /\ taken \in Seq(Messages)
      /\ taken' = Append(taken, h) /\ dispatcher' = [at |-> "routing", msg |-> h]
      /\ UNCHANGED <<queue, worker, calls>>
  BY DEF TypeInv, TypeOK, Subscribe, Bus!Deliver
<1>2. h \in Messages /\ h \in Elements(outbound) /\ h # NoMessage
  BY <1>1, TailFacts, ManagerAssumption
<1>3. h \notin Elements(taken)
  BY <1>2 DEF OnceInv
<1> HIDE DEF h
<1>4. /\ \A a \in Elements(taken) : Position(a)' = Position(a)
      /\ Elements(taken)' = Elements(taken) \cup {h}
  BY <1>1, <1>2, PositionsKept DEF OnceInv
<1>5. \A a, b \in Elements(taken) : Before(a, b) <=> Before(a, b)'
  BY <1>4 DEF Before
<1>6. \A n \in Names : \A a \in Ours(n) : a \in Elements(taken) /\ a \in Ours(n)'
  BY <1>4 DEF Ours
<1>7. ASSUME NEW n \in Names
      PROVE  /\ \A i \in DOMAIN queue[n] : queue[n][i] \in Ours(n)
             /\ \A k \in DOMAIN calls[n] : calls[n][k].msg \in Ours(n)
             /\ Busy(n) => worker[n].msg \in Ours(n)
             /\ Busy(n)' = Busy(n)
  BY <1>1 DEF LineInv, Busy
<1>8. LineInv'
  <2>1. ASSUME NEW n \in Names, NEW k \in DOMAIN calls[n], Busy(n)
        PROVE  UpTo(worker[n], calls[n][k])'
    <3>1. UpTo(worker[n], calls[n][k])
      BY <2>1 DEF LineInv
    <3>2. Before(calls[n][k].msg, worker[n].msg) => Before(calls[n][k].msg, worker[n].msg)'
      BY <1>1, <1>5, <1>6, <1>7, <2>1
    <3> QED
      BY <1>1, <3>1, <3>2 DEF UpTo
  <2>2. ASSUME NEW n \in Names, NEW i \in DOMAIN queue[n]
        PROVE  /\ queue[n][i] \in Ours(n)'
               /\ \A j \in DOMAIN queue[n] : i < j => Before(queue[n][i], queue[n][j])'
               /\ Busy(n) => Before(worker[n].msg, queue[n][i])'
               /\ \A k \in DOMAIN calls[n] : Before(calls[n][k].msg, queue[n][i])'
    <3>1. queue[n][i] \in Elements(taken)
      BY <1>6, <1>7
    <3>2. \A j \in DOMAIN queue[n] : i < j => Before(queue[n][i], queue[n][j])'
      BY <1>1, <1>5, <1>6, <1>7 DEF LineInv
    <3>3. Busy(n) => Before(worker[n].msg, queue[n][i])'
      BY <1>1, <1>5, <1>6, <1>7 DEF LineInv
    <3>4. \A k \in DOMAIN calls[n] : Before(calls[n][k].msg, queue[n][i])'
      BY <1>1, <1>5, <1>6, <1>7 DEF LineInv
    <3> QED
      BY <1>6, <1>7, <3>2, <3>3, <3>4
  <2> QED
    BY <1>1, <1>6, <1>7, <2>1, <2>2 DEF LineInv
<1>9. LastInv'
  <2>1. taken' # <<>> /\ h = taken'[Len(taken')]
    BY <1>1, <1>2, AppendFacts
  <2>2. \A n \in Names : h \notin Elements(queue[n]) /\ h # worker[n].msg
                         /\ \A k \in DOMAIN calls[n] : calls[n][k].msg # h
    <3> TAKE n \in Names
    <3>1. h \notin Elements(queue[n])
      BY <1>3, <1>6, <1>7, ElementsIn
    <3>2. h # worker[n].msg
      BY <1>2, <1>3, <1>6, <1>7 DEF TypeInv, Hands
    <3> QED
      BY <1>3, <1>6, <1>7, <3>1, <3>2
  <2>3. \A n \in Names : Elements(queue[n])' = Elements(queue[n])
    BY <1>1
  <2> QED
    BY <1>1, <2>1, <2>2, <2>3 DEF LastInv
<1>10. SentInOrder'
  <2> SUFFICES ASSUME NEW n \in Names, NEW i \in DOMAIN calls[n], NEW j \in DOMAIN calls[n], i < j
               PROVE  \/ Position(calls[n][i].msg)' < Position(calls[n][j].msg)'
                      \/ calls[n][i].msg = calls[n][j].msg /\ calls[n][i].chunk <= calls[n][j].chunk
    BY <1>1 DEF SentInOrder
  <2>1. /\ Position(calls[n][i].msg)' = Position(calls[n][i].msg)
        /\ Position(calls[n][j].msg)' = Position(calls[n][j].msg)
    BY <1>1, <1>4, <1>6, <1>7
  <2> QED
    BY <2>1 DEF SentInOrder
<1> QED
  BY <1>8, <1>9, <1>10

\* Steps that touch no channel, and give the dispatcher nothing, keep the line.
LEMMA OthersKeepLine ==
  ASSUME LineInv, LastInv, SentInOrder, UNCHANGED <<taken, queue, worker, calls>>,
         dispatcher'.at \in {"routing", "enqueuing"} =>
           dispatcher.at \in {"routing", "enqueuing"} /\ dispatcher'.msg = dispatcher.msg
  PROVE  LineInv' /\ LastInv' /\ SentInOrder'
<1>1. \A m : Position(m)' = Position(m)
  BY PositionIsPlace
<1>2. \A a, b : Before(a, b)' = Before(a, b)
  BY <1>1 DEF Before
<1>3. \A n \in Names : Ours(n)' = Ours(n) /\ Busy(n)' = Busy(n)
  BY DEF Ours, Busy, Elements
<1>4. \A n \in Names : \A k \in DOMAIN calls[n] : UpTo(worker[n], calls[n][k])' = UpTo(worker[n], calls[n][k])
  BY <1>2 DEF UpTo
<1>5. LineInv'
  BY <1>2, <1>3, <1>4 DEF LineInv
<1>6. LastInv'
  BY DEF LastInv, Elements
<1>7. SentInOrder'
  BY <1>1 DEF SentInOrder
<1> QED
  BY <1>5, <1>6, <1>7

\* The message the dispatcher holds goes to the end of its channel's line.
LEMMA EnqueueKeepsLine ==
  ASSUME TypeInv, OnceInv, LineInv, LastInv, SentInOrder, Enqueue
  PROVE  LineInv' /\ LastInv' /\ SentInOrder'
<1> DEFINE m == dispatcher.msg
           n == ChannelOf[m]
<1>1. /\ m \in Messages /\ n \in Names /\ dispatcher'.at = "subscribing"
      /\ UNCHANGED <<taken, worker, calls>>
      /\ queue' = [queue EXCEPT ![n] = Append(@, m)]
  BY DEF Enqueue, TypeInv, TypeOK, Hands, busVars
<1>2. /\ taken # <<>> /\ m = taken[Len(taken)]
      /\ \A c \in Names :
           /\ m \notin Elements(queue[c])
           /\ m # worker[c].msg
           /\ \A k \in DOMAIN calls[c] : calls[c][k].msg # m
  BY DEF LastInv, Enqueue
<1> HIDE DEF m
<1>3. m \in Elements(taken)
  <2>1. Len(taken) \in DOMAIN taken
    BY <1>2, EmptySeq, LenProperties DEF TypeInv, TypeOK
  <2> QED
    BY <1>2, <2>1, ElementsIn
<1>4. \A a \in Elements(taken) : a # m => Before(a, m)
  BY <1>2, LastIsAfter
<1>5. m \in Ours(n)
  BY <1>3 DEF Ours
<1>6. \A c \in Names : \A a \in Ours(c) : a \in Elements(taken)
  BY DEF Ours
<1> HIDE DEF n
<1>7. \A a, b : Before(a, b)' = Before(a, b) /\ Position(a)' = Position(a)
  <2>1. \A a : Position(a)' = Position(a)
    BY <1>1, PositionIsPlace
  <2> QED
    BY <2>1 DEF Before
<1>8. \A c \in Names : Ours(c)' = Ours(c) /\ Busy(c)' = Busy(c)
  BY <1>1 DEF Ours, Busy, Elements
<1>9. \A c \in Names : \A k \in DOMAIN calls[c] : UpTo(worker[c], calls[c][k])' = UpTo(worker[c], calls[c][k])
  BY <1>1, <1>7 DEF UpTo
<1>10. /\ \A c \in Names : c # n => queue'[c] = queue[c]
       /\ queue'[n] = Append(queue[n], m) /\ queue[n] \in Seq(Messages)
  BY <1>1 DEF TypeInv, TypeOK
<1>11. /\ Len(queue[n]) \in Nat /\ DOMAIN queue[n] = 1 .. Len(queue[n])
       /\ DOMAIN queue'[n] = 1 .. Len(queue[n]) + 1
       /\ \A i \in DOMAIN queue[n] : queue'[n][i] = queue[n][i]
       /\ queue'[n][Len(queue[n]) + 1] = m
  BY <1>1, <1>10, AppendFacts
<1>12. \A i \in DOMAIN queue'[n] : i \in DOMAIN queue[n] \/ (i = Len(queue[n]) + 1 /\ queue'[n][i] = m)
  BY <1>11
<1>13. \A i \in DOMAIN queue[n] : queue[n][i] \in Ours(n) /\ Before(queue[n][i], m)
  BY <1>1, <1>2, <1>4, <1>6, ElementsIn DEF LineInv
<1>14. ASSUME NEW i \in DOMAIN queue'[n]
       PROVE  /\ queue'[n][i] \in Ours(n)
              /\ \A j \in DOMAIN queue'[n] : i < j => Before(queue'[n][i], queue'[n][j])
              /\ Busy(n) => Before(worker[n].msg, queue'[n][i])
              /\ \A k \in DOMAIN calls[n] : Before(calls[n][k].msg, queue'[n][i])
  <2>1. CASE i \in DOMAIN queue[n]
    <3>1. \A j \in DOMAIN queue'[n] : i < j => Before(queue'[n][i], queue'[n][j])
      BY <1>1, <1>11, <1>12, <1>13, <2>1 DEF LineInv
    <3> QED
      BY <1>1, <1>11, <2>1, <3>1 DEF LineInv
  <2>2. CASE i = Len(queue[n]) + 1 /\ queue'[n][i] = m
    <3>1. \A j \in DOMAIN queue'[n] : ~(i < j)
      BY <1>11, <2>2
    <3>2. Busy(n) => Before(worker[n].msg, m)
      BY <1>1, <1>2, <1>4, <1>6 DEF LineInv
    <3>3. \A k \in DOMAIN calls[n] : Before(calls[n][k].msg, m)
      BY <1>1, <1>2, <1>4, <1>6 DEF LineInv
    <3> QED
      BY <1>5, <2>2, <3>1, <3>2, <3>3
  <2> QED
    BY <1>12, <2>1, <2>2
<1>15. LineInv'
  <2> SUFFICES ASSUME NEW c \in Names
               PROVE  /\ \A i \in DOMAIN queue'[c] :
                           /\ queue'[c][i] \in Ours(c)
                           /\ \A j \in DOMAIN queue'[c] : i < j => Before(queue'[c][i], queue'[c][j])
                           /\ Busy(c) => Before(worker[c].msg, queue'[c][i])
                           /\ \A k \in DOMAIN calls[c] : Before(calls[c][k].msg, queue'[c][i])
                      /\ \A k \in DOMAIN calls[c] :
                           /\ calls[c][k].msg \in Ours(c)
                           /\ Busy(c) => UpTo(worker[c], calls[c][k])
                      /\ Busy(c) => worker[c].msg \in Ours(c)
    BY <1>1, <1>7, <1>8, <1>9 DEF LineInv
  <2>1. CASE c = n
    BY <1>14, <2>1 DEF LineInv
  <2>2. CASE c # n
    BY <1>10, <2>2 DEF LineInv
  <2> QED
    BY <2>1, <2>2
<1>16. LastInv'
  BY <1>1 DEF LastInv
<1>17. SentInOrder'
  BY <1>1, <1>7 DEF SentInOrder
<1> QED
  BY <1>15, <1>16, <1>17

\* The head of the line becomes the message in the worker's hands.
LEMMA TakeKeepsLine ==
  ASSUME TypeInv, LineInv, LastInv, SentInOrder, NEW n \in Names, Take(n),
         worker'[n] = [at |-> "limiting", msg |-> Head(queue[n]), chunk |-> 1, attempt |-> 0]
  PROVE  LineInv' /\ LastInv' /\ SentInOrder'
<1> DEFINE q == queue[n]
           h == Head(q)
<1>1. /\ q \in Seq(Messages) /\ q # <<>> /\ ~Busy(n) /\ Busy(n)'
      /\ worker'[n].msg = h /\ worker'[n].at = "limiting"
      /\ UNCHANGED <<taken, calls, dispatcher>> /\ queue'[n] = Tail(q)
      /\ \A c \in Names : c # n => queue'[c] = queue[c] /\ worker'[c] = worker[c]
  BY DEF TypeInv, TypeOK, Take, Busy, busVars
<1>2. /\ Len(q) \in Nat \ {0} /\ DOMAIN q = 1 .. Len(q) /\ h = q[1] /\ 1 \in DOMAIN q
      /\ DOMAIN Tail(q) = 1 .. Len(q) - 1
      /\ \A i \in 1 .. Len(q) - 1 : i + 1 \in 1 .. Len(q) /\ Tail(q)[i] = q[i + 1]
      /\ Elements(q) = Elements(Tail(q)) \cup {h}
  BY <1>1, TailFacts
<1>3. \A a, b : Before(a, b)' = Before(a, b) /\ Position(a)' = Position(a)
  <2>1. \A a : Position(a)' = Position(a)
    BY <1>1, PositionIsPlace
  <2> QED
    BY <2>1 DEF Before
<1>4. \A c \in Names : Ours(c)' = Ours(c) /\ (c # n => Busy(c)' = Busy(c))
  BY <1>1 DEF Ours, Busy, Elements
<1>5. \A i \in DOMAIN q :
        /\ q[i] \in Ours(n)
        /\ \A j \in DOMAIN q : i < j => Before(q[i], q[j])
        /\ \A k \in DOMAIN calls[n] : Before(calls[n][k].msg, q[i])
  BY DEF LineInv
<1>6. \A c \in Names : \A k \in DOMAIN calls[c] :
        /\ calls[c][k].msg \in Ours(c)
        /\ Busy(c) => UpTo(worker[c], calls[c][k])
  BY DEF LineInv
<1> HIDE DEF h, q
<1>7. \A i \in DOMAIN Tail(q) :
        /\ Tail(q)[i] \in Ours(n)
        /\ \A j \in DOMAIN Tail(q) : i < j => Before(Tail(q)[i], Tail(q)[j])
        /\ Before(h, Tail(q)[i])
        /\ \A k \in DOMAIN calls[n] : Before(calls[n][k].msg, Tail(q)[i])
  <2> TAKE i \in DOMAIN Tail(q)
  <2>1. i \in Nat /\ i + 1 \in DOMAIN q /\ Tail(q)[i] = q[i + 1] /\ 1 < i + 1
    BY <1>2
  <2>2. ASSUME NEW j \in DOMAIN Tail(q), i < j PROVE Before(Tail(q)[i], Tail(q)[j])
    <3>1. j + 1 \in DOMAIN q /\ Tail(q)[j] = q[j + 1] /\ i + 1 < j + 1
      BY <1>2, <2>1, <2>2
    <3> QED
      BY <1>5, <2>1, <3>1
  <2> QED
    BY <1>2, <1>5, <2>1, <2>2
<1>8. h \in Ours(n) /\ \A k \in DOMAIN calls[n] : Before(calls[n][k].msg, h)
  BY <1>2, <1>5
<1>9. \A k \in DOMAIN calls[n] : UpTo(worker[n], calls[n][k])'
  <2> TAKE k \in DOMAIN calls[n]
  <2>1. Before(calls[n][k].msg, worker[n].msg)'
    BY <1>1, <1>3, <1>8
  <2> QED
    BY <1>1, <2>1 DEF UpTo
<1>10. \A c \in Names : c # n => \A k \in DOMAIN calls[c] : UpTo(worker[c], calls[c][k])' = UpTo(worker[c], calls[c][k])
  BY <1>1, <1>3 DEF UpTo
<1>11. LineInv'
  <2> SUFFICES ASSUME NEW c \in Names
               PROVE  /\ \A i \in DOMAIN queue'[c] :
                           /\ queue'[c][i] \in Ours(c)
                           /\ \A j \in DOMAIN queue'[c] : i < j => Before(queue'[c][i], queue'[c][j])
                           /\ Busy(c)' => Before(worker'[c].msg, queue'[c][i])
                           /\ \A k \in DOMAIN calls[c] : Before(calls[c][k].msg, queue'[c][i])
                      /\ \A k \in DOMAIN calls[c] :
                           /\ calls[c][k].msg \in Ours(c)
                           /\ Busy(c)' => UpTo(worker[c], calls[c][k])'
                      /\ Busy(c)' => worker'[c].msg \in Ours(c)
    BY <1>1, <1>3, <1>4 DEF LineInv
  <2>1. CASE c = n
    BY <1>1, <1>6, <1>7, <1>8, <1>9, <2>1
  <2>2. CASE c # n
    BY <1>1, <1>4, <1>10, <2>2 DEF LineInv
  <2> QED
    BY <2>1, <2>2
<1>12. LastInv'
  <2>1. \A c \in Names : \A x \in Elements(queue[c])' : x \in Elements(queue[c])
    <3> TAKE c \in Names
    <3>1. CASE c = n
      BY <1>1, <1>2, <3>1 DEF q
    <3>2. CASE c # n
      BY <1>1, <3>2
    <3> QED
      BY <3>1, <3>2
  <2>2. h \in Elements(queue[n])
    BY <1>2 DEF q
  <2>3. \A c \in Names : worker'[c].msg = worker[c].msg \/ worker'[c].msg \in Elements(queue[c])
    BY <1>1, <2>2
  <2> QED
    BY <1>1, <2>1, <2>3 DEF LastInv
<1>13. SentInOrder'
  BY <1>1, <1>3 DEF SentInOrder
<1> QED
  BY <1>11, <1>12, <1>13

\* Send adds one call to the history of its channel.
LEMMA SendFacts ==
  ASSUME TypeInv, NEW n \in Names, Send(n)
  PROVE  LET w == worker[n] IN
         /\ w.at = "sending" /\ w.msg \in Messages /\ w.chunk \in 1 .. Chunks[w.msg]
         /\ w.attempt \in 0 .. MaxRetries
         /\ \E outcome \in Outcomes :
              LET e == [msg |-> w.msg, chunk |-> w.chunk, outcome |-> outcome] IN
              /\ e \in Call
              /\ calls' = [calls EXCEPT ![n] = Append(calls[n], e)]
              /\ calls'[n] = Append(calls[n], e)
              /\ IF outcome = "retryable" /\ w.attempt < MaxRetries
                 THEN worker'[n] = [w EXCEPT !.at = "backoff"] ELSE worker'[n] = NextChunk(w)
<1> DEFINE w == worker[n]
<1>1. /\ w.at = "sending" /\ w.msg \in Messages /\ w.chunk \in 1 .. Chunks[w.msg]
      /\ w.attempt \in 0 .. MaxRetries /\ w.chunk \in Nat \ {0}
  <2>1. w.at = "sending" /\ w.msg \in Messages /\ w.chunk \in 1 .. Chunks[w.msg]
    BY DEF Send, TypeInv, TypeOK, Hands, Busy
  <2>2. Chunks[w.msg] \in Nat \ {0}
    BY <2>1, ManagerAssumption
  <2> QED
    BY <2>1, <2>2 DEF TypeInv, TypeOK
<1>2. PICK outcome \in Outcomes :
        /\ calls' = [calls EXCEPT ![n] =
                       Append(@, [msg |-> w.msg, chunk |-> w.chunk, outcome |-> outcome])]
        /\ worker' = [worker EXCEPT ![n] =
                        IF outcome = "retryable" /\ w.attempt < MaxRetries
                        THEN [w EXCEPT !.at = "backoff"] ELSE NextChunk(w)]
  BY DEF Send
<1> DEFINE e == [msg |-> w.msg, chunk |-> w.chunk, outcome |-> outcome]
           v == IF outcome = "retryable" /\ w.attempt < MaxRetries
                THEN [w EXCEPT !.at = "backoff"] ELSE NextChunk(w)
<1>3. e \in Call
  BY <1>1 DEF Call
<1>4. calls' = [calls EXCEPT ![n] = Append(calls[n], e)] /\ worker' = [worker EXCEPT ![n] = v]
  BY <1>2
<1>5. n \in DOMAIN calls /\ n \in DOMAIN worker
  BY DEF TypeInv, TypeOK
<1>6. calls'[n] = Append(calls[n], e) /\ worker'[n] = v
  <2> HIDE DEF e, v
  <2> QED
    BY <1>4, <1>5
<1>7. IF outcome = "retryable" /\ w.attempt < MaxRetries
      THEN worker'[n] = [w EXCEPT !.at = "backoff"] ELSE worker'[n] = NextChunk(w)
  BY <1>6
<1> QED
  BY <1>1, <1>3, <1>4, <1>6, <1>7

\* A worker that goes on does so with its message, at the same chunk or the next,
\* and what it adds to the history is a call for the chunk it is at.
LEMMA WorkGoesOn ==
  ASSUME TypeInv, NEW n \in Names, Work(n), ~Take(n)
  PROVE  LET w == worker[n] IN
         /\ UNCHANGED <<taken, queue, dispatcher, workers, ctxDone>>
         /\ \A c \in Names : c # n => worker'[c] = worker[c] /\ calls'[c] = calls[c]
         /\ Busy(n)' => /\ Busy(n)
                        /\ worker'[n].msg = w.msg
                        /\ \/ worker'[n].chunk = w.chunk /\ worker'[n].at # "limiting"
                           \/ worker'[n].chunk = w.chunk + 1
         /\ Holdable(w) /\ Holdable(worker'[n])
         /\ ~Send(n) => calls' = calls
<1> DEFINE w == worker[n]
<1>1. /\ UNCHANGED <<taken, queue, dispatcher, workers, ctxDone>>
      /\ \A c \in Names : c # n => calls'[c] = calls[c]
      /\ ~Send(n) => calls' = calls
  <2>1. UNCHANGED <<taken, queue, dispatcher, workers, ctxDone>> /\ (~Send(n) => calls' = calls)
    BY DEF Work, WorkerReturns, Limit, Send, Backoff, busVars, stopVars
  <2>2. ASSUME NEW c \in Names, c # n PROVE calls'[c] = calls[c]
    <3>1. CASE Send(n)
      BY <2>2, <3>1 DEF Send, TypeInv, TypeOK
    <3>2. CASE ~Send(n)
      BY <2>1, <3>2
    <3> QED
      BY <3>1, <3>2
  <2> QED
    BY <2>1, <2>2
<1>2. \A c \in Names : c # n => worker'[c] = worker[c]
  <2>1. worker' = [worker EXCEPT ![n] = worker'[n]]
    BY WorkFacts
  <2> QED
    BY <2>1 DEF TypeInv, TypeOK
<1>3. /\ Holdable(w) /\ Holdable(worker'[n])
      /\ \/ WorkerReturns(n) /\ worker'[n].at = "done"
         \/ Limit(n) /\ worker'[n] = NextChunk(w)
         \/ Limit(n) /\ worker'[n] = [w EXCEPT !.at = "sending"]
         \/ Send(n)
         \/ Backoff(n) /\ worker'[n] = NextChunk(w)
         \/ Backoff(n) /\ worker'[n] = [w EXCEPT !.at = "sending", !.attempt = @ + 1]
  BY WorkFacts
<1>4. w \in [at : {"selecting", "limiting", "sending", "backoff", "done"},
             msg : Messages \cup {NoMessage}, chunk : Nat, attempt : 0 .. MaxRetries]
  BY <1>3 DEF Holdable
<1> DEFINE G == Busy(n)' => /\ Busy(n)
                            /\ worker'[n].msg = w.msg
                            /\ \/ worker'[n].chunk = w.chunk /\ worker'[n].at # "limiting"
                               \/ worker'[n].chunk = w.chunk + 1
<1>5. G
  <2>1. CASE WorkerReturns(n) /\ worker'[n].at = "done"
    BY <2>1 DEF Busy
  <2>2. CASE Busy(n) /\ worker'[n] = NextChunk(w)
    <3>1. /\ NextChunk(w).at \in {"limiting", "selecting"}
          /\ NextChunk(w).at = "limiting" => NextChunk(w).msg = w.msg /\ NextChunk(w).chunk = w.chunk + 1
      BY <2>2, NextChunkFacts
    <3> QED
      BY <2>2, <3>1 DEF Busy
  <2>3. CASE Busy(n) /\ (worker'[n] = [w EXCEPT !.at = "sending"] \/ worker'[n] = [w EXCEPT !.at = "backoff"])
    BY <1>4, <2>3 DEF Busy
  <2>4. CASE Busy(n) /\ worker'[n] = [w EXCEPT !.at = "sending", !.attempt = @ + 1]
    <3>1. worker'[n].at = "sending" /\ worker'[n].msg = w.msg /\ worker'[n].chunk = w.chunk
      BY <1>4, <2>4
    <3> QED
      BY <2>4, <3>1
  <2>5. Limit(n) \/ Send(n) \/ Backoff(n) => Busy(n)
    BY DEF Limit, Send, Backoff, Busy
  <2>6. Send(n) => worker'[n] = [w EXCEPT !.at = "backoff"] \/ worker'[n] = NextChunk(w)
    BY SendFacts
  <2> HIDE DEF G
  <2> QED
    BY <1>3, <2>1, <2>2, <2>3, <2>4, <2>5, <2>6
<1> QED
  BY <1>1, <1>2, <1>3, <1>5

\* Going on keeps the line: what the worker has called for stays behind it.
LEMMA WorkKeepsLine ==
  ASSUME TypeInv, OnceInv, LineInv, LastInv, SentInOrder, NEW n \in Names, Work(n), ~Take(n)
  PROVE  LineInv' /\ LastInv' /\ SentInOrder'
<1> DEFINE w == worker[n]
<1>1. /\ UNCHANGED <<taken, queue, dispatcher>>
      /\ \A c \in Names : c # n => worker'[c] = worker[c] /\ calls'[c] = calls[c]
      /\ Busy(n)' => /\ Busy(n)
                     /\ worker'[n].msg = w.msg
                     /\ \/ worker'[n].chunk = w.chunk /\ worker'[n].at # "limiting"
                        \/ worker'[n].chunk = w.chunk + 1
      /\ Holdable(w) /\ Holdable(worker'[n])
      /\ ~Send(n) => calls' = calls
  BY WorkGoesOn
<1>2. \A a, b : Before(a, b)' = Before(a, b) /\ Position(a)' = Position(a)
  <2>1. \A a : Position(a)' = Position(a)
    BY <1>1, PositionIsPlace
  <2> QED
    BY <2>1 DEF Before
<1>3. \A c \in Names : Ours(c)' = Ours(c) /\ (c # n => Busy(c)' = Busy(c))
  BY <1>1 DEF Ours, Busy, Elements
\* A call of channel n is an old one or one for the chunk the worker is at.
<1>4. /\ calls[n] \in Seq(Call) /\ DOMAIN calls[n] = 1 .. Len(calls[n]) /\ Len(calls[n]) \in Nat
      /\ \A k \in DOMAIN calls'[n] :
           \/ k \in DOMAIN calls[n] /\ calls'[n][k] = calls[n][k]
           \/ /\ Send(n) /\ k = Len(calls[n]) + 1
              /\ calls'[n][k].msg = w.msg /\ calls'[n][k].chunk = w.chunk
  <2>1. calls[n] \in Seq(Call) /\ DOMAIN calls[n] = 1 .. Len(calls[n]) /\ Len(calls[n]) \in Nat
    BY LenProperties DEF TypeInv, TypeOK
  <2>2. CASE Send(n)
    <3>1. PICK outcome \in Outcomes :
            /\ [msg |-> w.msg, chunk |-> w.chunk, outcome |-> outcome] \in Call
            /\ calls'[n] = Append(calls[n], [msg |-> w.msg, chunk |-> w.chunk, outcome |-> outcome])
      BY <2>2, SendFacts
    <3> DEFINE e == [msg |-> w.msg, chunk |-> w.chunk, outcome |-> outcome]
    <3>2. e.msg = w.msg /\ e.chunk = w.chunk /\ e \in Call /\ calls'[n] = Append(calls[n], e)
      BY <3>1
    <3> HIDE DEF e
    <3>3. /\ DOMAIN calls'[n] = 1 .. Len(calls[n]) + 1 /\ calls'[n][Len(calls[n]) + 1] = e
          /\ \A i \in 1 .. Len(calls[n]) : calls'[n][i] = calls[n][i]
      BY <2>1, <3>2, AppendFacts
    <3>4. \A k \in 1 .. Len(calls[n]) + 1 : k \in 1 .. Len(calls[n]) \/ k = Len(calls[n]) + 1
      BY <2>1
    <3> QED
      BY <2>1, <2>2, <3>2, <3>3, <3>4
  <2>3. CASE ~Send(n)
    BY <1>1, <2>1, <2>3
  <2> QED
    BY <2>1, <2>2, <2>3
<1>5. Send(n) => Busy(n) /\ w.at = "sending"
  BY DEF Send, Busy
<1>6. /\ Busy(n) => w.msg \in Ours(n) /\ w.msg \in Messages /\ w.chunk \in Nat
      /\ \A k \in DOMAIN calls[n] : calls[n][k].msg \in Ours(n) /\ calls[n][k].chunk \in Nat
  <2>1. Busy(n) => w.msg \in Ours(n)
    BY DEF LineInv
  <2>2. w.chunk \in Nat /\ (Busy(n) => w.msg \in Messages)
    BY <1>1 DEF Holdable, Busy
  <2>3. \A k \in DOMAIN calls[n] : calls[n][k].msg \in Ours(n)
    BY DEF LineInv
  <2>4. \A k \in DOMAIN calls[n] : calls[n][k] \in Call
    BY <1>4
  <2>5. \A k \in DOMAIN calls[n] : calls[n][k].chunk \in Nat
    BY <2>4 DEF Call
  <2> QED
    BY <2>1, <2>2, <2>3, <2>5
<1>7. \A k \in DOMAIN calls'[n] : Busy(n)' => UpTo(worker[n], calls[n][k])'
  <2> SUFFICES ASSUME NEW k \in DOMAIN calls'[n], Busy(n)' PROVE UpTo(worker[n], calls[n][k])'
    OBVIOUS
  <2>1. CASE k \in DOMAIN calls[n] /\ calls'[n][k] = calls[n][k]
    <3>1. UpTo(w, calls[n][k]) /\ calls[n][k].chunk \in Nat /\ w.chunk \in Nat
      BY <1>1, <1>6, <2>1 DEF LineInv
    <3> QED
      BY <1>1, <1>2, <2>1, <3>1 DEF UpTo
  <2>2. CASE calls'[n][k].msg = w.msg /\ calls'[n][k].chunk = w.chunk
    BY <1>1, <1>6, <2>2 DEF UpTo
  <2> QED
    BY <1>4, <2>1, <2>2
<1>8. \A c \in Names : c # n => \A k \in DOMAIN calls[c] : UpTo(worker[c], calls[c][k])' = UpTo(worker[c], calls[c][k])
  BY <1>1, <1>2 DEF UpTo
<1>9. LineInv'
  <2> SUFFICES ASSUME NEW c \in Names
               PROVE  /\ \A i \in DOMAIN queue[c] :
                           /\ queue[c][i] \in Ours(c)
                           /\ \A j \in DOMAIN queue[c] : i < j => Before(queue[c][i], queue[c][j])
                           /\ Busy(c)' => Before(worker'[c].msg, queue[c][i])
                           /\ \A k \in DOMAIN calls'[c] : Before(calls'[c][k].msg, queue[c][i])
                      /\ \A k \in DOMAIN calls'[c] :
                           /\ calls'[c][k].msg \in Ours(c)
                           /\ Busy(c)' => UpTo(worker[c], calls[c][k])'
                      /\ Busy(c)' => worker'[c].msg \in Ours(c)
    BY <1>1, <1>2, <1>3 DEF LineInv
  <2>1. CASE c = n
    <3>1. \A k \in DOMAIN calls'[n] : calls'[n][k].msg \in Ours(n)
      BY <1>4, <1>5, <1>6
    <3>2. \A i \in DOMAIN queue[n] : \A k \in DOMAIN calls'[n] : Before(calls'[n][k].msg, queue[n][i])
      BY <1>4, <1>5 DEF LineInv
    <3> QED
      BY <1>1, <1>6, <1>7, <2>1, <3>1, <3>2 DEF LineInv
  <2>2. CASE c # n
    BY <1>1, <1>3, <1>8, <2>2 DEF LineInv
  <2> QED
    BY <2>1, <2>2
<1>10. LastInv'
  <2> SUFFICES ASSUME dispatcher.at \in {"routing", "enqueuing"}
               PROVE  /\ taken # <<>> /\ dispatcher.msg = taken[Len(taken)]
                      /\ \A c \in Names :
                           /\ dispatcher.msg \notin Elements(queue[c])
                           /\ dispatcher.msg # worker'[c].msg
                           /\ \A k \in DOMAIN calls'[c] : calls'[c][k].msg # dispatcher.msg
    BY <1>1 DEF LastInv, Elements
  <2>1. /\ dispatcher.msg \in Messages /\ dispatcher.msg # NoMessage
        /\ \A c \in Names :
             /\ dispatcher.msg \notin Elements(queue[c])
             /\ dispatcher.msg # worker[c].msg
             /\ \A k \in DOMAIN calls[c] : calls[c][k].msg # dispatcher.msg
    BY ManagerAssumption DEF LastInv, TypeInv, Hands
  <2>2. worker'[n].msg = w.msg \/ worker'[n].msg = NoMessage
    BY <1>1 DEF Holdable, Busy
  <2>3. \A k \in DOMAIN calls'[n] : calls'[n][k].msg # dispatcher.msg
    BY <1>4, <2>1
  <2> QED
    BY <1>1, <2>1, <2>2, <2>3 DEF LastInv
<1>11. SentInOrder'
  <2> SUFFICES ASSUME NEW i \in DOMAIN calls'[n], NEW j \in DOMAIN calls'[n], i < j
               PROVE  \/ Before(calls'[n][i].msg, calls'[n][j].msg)
                      \/ calls'[n][i].msg = calls'[n][j].msg /\ calls'[n][i].chunk <= calls'[n][j].chunk
    BY <1>1, <1>2 DEF SentInOrder, Before
  <2>1. CASE j \in DOMAIN calls[n] /\ calls'[n][j] = calls[n][j]
    <3>1. i \in DOMAIN calls[n] /\ calls'[n][i] = calls[n][i]
      BY <1>4, <2>1
    <3> QED
      BY <2>1, <3>1 DEF SentInOrder, Before
  <2>2. CASE /\ Send(n) /\ j = Len(calls[n]) + 1
             /\ calls'[n][j].msg = w.msg /\ calls'[n][j].chunk = w.chunk
    <3>1. i \in DOMAIN calls[n] /\ calls'[n][i] = calls[n][i]
      BY <1>4, <2>2
    <3>2. UpTo(w, calls[n][i]) /\ calls[n][i].chunk \in Nat /\ w.chunk \in Nat
      BY <1>5, <1>6, <2>2, <3>1 DEF LineInv
    <3> QED
      BY <2>2, <3>1, <3>2 DEF UpTo
  <2> QED
    BY <1>4, <2>1, <2>2
<1> QED
  BY <1>9, <1>10, <1>11

\* Every step keeps the line.
LEMMA LineStep ==
  ASSUME TypeInv, OnceInv, LineInv, LastInv, SentInOrder, OnceInv', [Next]_vars
  PROVE  LineInv' /\ LastInv' /\ SentInOrder'
<1>1. CASE UNCHANGED vars \/ CancelContext \/ StopAll \/ CloseBus \/ \E m \in Messages : PublishOutbound(m)
  <2>1. UNCHANGED <<taken, queue, worker, calls, dispatcher>>
    BY <1>1 DEF vars, CancelContext, StopAll, StopBegin, StopCloseQueues, StopWait, StopChannels,
       CloseBus, PublishOutbound, Bus!Drop, Bus!BeginClose, Bus!Accept, busVars, stopVars
  <2> QED
    BY <2>1, OthersKeepLine
<1>2. CASE DispatcherReturns \/ Route \/ AbandonEnqueue \/ EnqueueClosed
  <2>1. UNCHANGED <<taken, queue, worker, calls>>
    BY <1>2 DEF DispatcherReturns, Route, AbandonEnqueue, EnqueueClosed, busVars
  <2>2. dispatcher'.at \in {"routing", "enqueuing"} =>
          dispatcher.at \in {"routing", "enqueuing"} /\ dispatcher'.msg = dispatcher.msg
    BY <1>2 DEF DispatcherReturns, Route, AbandonEnqueue, EnqueueClosed, TypeInv, TypeOK
  <2> QED
    BY <2>1, <2>2, OthersKeepLine
<1>3. CASE Subscribe
  BY <1>3, SubscribeKeepsLine
<1>4. CASE Enqueue
  BY <1>4, EnqueueKeepsLine
<1>5. ASSUME NEW n \in Names, Work(n) PROVE LineInv' /\ LastInv' /\ SentInOrder'
  <2>1. CASE Take(n)
    <3>1. worker'[n] = [at |-> "limiting", msg |-> Head(queue[n]), chunk |-> 1, attempt |-> 0]
      BY <2>1 DEF Take, TypeInv, TypeOK
    <3> QED
      BY <2>1, <3>1, TakeKeepsLine
  <2>2. CASE ~Take(n)
    BY <1>5, <2>2, WorkKeepsLine
  <2> QED
    BY <2>1, <2>2
<1> QED
  BY <1>1, <1>2, <1>3, <1>4, <1>5 DEF Next, Dispatch

-----------------------------------------------------------------------------
(* Attempts *)

\* The calls for a chunk can be counted.
LEMMA CallsFinite ==
  ASSUME TypeInv
  PROVE  \A m, c : /\ IsFiniteSet(CallsOf(m, c)) /\ Cardinality(CallsOf(m, c)) \in Nat
                   /\ ChannelOf[m] \in Names => CallsOf(m, c) \subseteq DOMAIN calls[ChannelOf[m]]
<1> TAKE m, c
<1> DEFINE n == ChannelOf[m]
<1>1. CASE n \in Names
  <2>1. calls[n] \in Seq(Call)
    BY <1>1 DEF TypeInv, TypeOK
  <2>2. DOMAIN calls[n] = 1 .. Len(calls[n]) /\ Len(calls[n]) \in Nat
    BY <2>1, LenProperties
  <2>3. CallsOf(m, c) \subseteq 1 .. Len(calls[n]) /\ IsFiniteSet(1 .. Len(calls[n]))
    BY <1>1, <2>2, FS_Interval DEF CallsOf
  <2> QED
    BY <2>2, <2>3, FS_Subset, FS_CardinalityType
<1>2. CASE n \notin Names
  <2>1. CallsOf(m, c) = {}
    BY <1>2 DEF CallsOf
  <2> QED
    BY <1>2, <2>1, FS_EmptySet
<1> QED
  BY <1>1, <1>2

\* What Send does to the calls for each chunk: one more for the chunk that is sent.
LEMMA SendCounts ==
  ASSUME TypeInv, LineInv, NEW n \in Names, Send(n)
  PROVE  LET w == worker[n]
             k == Len(calls[n]) + 1 IN
         /\ ChannelOf[w.msg] = n /\ k \in Nat /\ k \notin DOMAIN calls[n]
         /\ \A i \in DOMAIN calls[n] : i < k
         /\ \A m, c : \A i \in CallsOf(m, c) : calls'[ChannelOf[m]][i] = calls[ChannelOf[m]][i]
         /\ \A m, c : ~(m = w.msg /\ c = w.chunk) => CallsOf(m, c)' = CallsOf(m, c)
         /\ \A m, c : m = w.msg /\ c = w.chunk => CallsOf(m, c)' = CallsOf(m, c) \cup {k}
<1> DEFINE w == worker[n]
           k == Len(calls[n]) + 1
<1>1. ChannelOf[w.msg] = n
  <2>1. w.msg \in Ours(n)
    BY DEF LineInv, Send, Busy
  <2> QED
    BY <2>1 DEF Ours
<1>2. PICK outcome \in Outcomes :
        /\ [msg |-> w.msg, chunk |-> w.chunk, outcome |-> outcome] \in Call
        /\ calls' = [calls EXCEPT ![n] = Append(calls[n], [msg |-> w.msg, chunk |-> w.chunk, outcome |-> outcome])]
        /\ calls'[n] = Append(calls[n], [msg |-> w.msg, chunk |-> w.chunk, outcome |-> outcome])
  BY SendFacts
<1> DEFINE e == [msg |-> w.msg, chunk |-> w.chunk, outcome |-> outcome]
<1>3. e.msg = w.msg /\ e.chunk = w.chunk /\ e \in Call /\ calls'[n] = Append(calls[n], e)
  BY <1>2
<1> HIDE DEF e
<1>4. /\ calls[n] \in Seq(Call) /\ Len(calls[n]) \in Nat
      /\ DOMAIN calls[n] = 1 .. Len(calls[n])
      /\ DOMAIN calls'[n] = 1 .. Len(calls[n]) + 1 /\ calls'[n][k] = e
      /\ \A i \in 1 .. Len(calls[n]) : calls'[n][i] = calls[n][i]
  BY <1>3, AppendFacts DEF TypeInv, TypeOK
<1>5. \A d \in Names : d # n => calls'[d] = calls[d]
  BY <1>2 DEF TypeInv, TypeOK
<1>6. /\ k \in Nat /\ k \notin DOMAIN calls[n] /\ (\A i \in DOMAIN calls[n] : i < k)
      /\ \A i : i \in DOMAIN calls'[n] <=> i \in DOMAIN calls[n] \/ i = k
  BY <1>4
<1> HIDE DEF k, w
<1>7. ASSUME NEW m, NEW c
      PROVE  \A i \in CallsOf(m, c) : calls'[ChannelOf[m]][i] = calls[ChannelOf[m]][i]
  BY <1>4, <1>5 DEF CallsOf
<1>8. ASSUME NEW m, NEW c, ChannelOf[m] # n PROVE CallsOf(m, c)' = CallsOf(m, c)
  BY <1>5, <1>8 DEF CallsOf
<1>9. ASSUME NEW m, NEW c, ChannelOf[m] = n
      PROVE  /\ CallsOf(m, c) = {i \in DOMAIN calls[n] : calls[n][i].msg = m /\ calls[n][i].chunk = c}
             /\ CallsOf(m, c)' = {i \in DOMAIN calls'[n] : calls'[n][i].msg = m /\ calls'[n][i].chunk = c}
  BY <1>9 DEF CallsOf
<1>10. ASSUME NEW m, NEW c, ~(m = w.msg /\ c = w.chunk) PROVE CallsOf(m, c)' = CallsOf(m, c)
  <2>1. CASE ChannelOf[m] = n
    <3>1. \A i : (i \in DOMAIN calls'[n] /\ calls'[n][i].msg = m /\ calls'[n][i].chunk = c)
                   <=> (i \in DOMAIN calls[n] /\ calls[n][i].msg = m /\ calls[n][i].chunk = c)
      BY <1>3, <1>4, <1>6, <1>10
    <3>2. {i \in DOMAIN calls'[n] : calls'[n][i].msg = m /\ calls'[n][i].chunk = c}
            = {i \in DOMAIN calls[n] : calls[n][i].msg = m /\ calls[n][i].chunk = c}
      BY <3>1
    <3> QED
      BY <2>1, <3>2, Zenon DEF CallsOf
  <2> QED
    BY <1>8, <2>1
<1>11. CallsOf(w.msg, w.chunk) \cup {k}
         = {i \in DOMAIN calls'[n] : calls'[n][i].msg = w.msg /\ calls'[n][i].chunk = w.chunk}
  BY <1>1, <1>3, <1>4, <1>6, <1>9
<1>12. ASSUME NEW m, NEW c, m = w.msg, c = w.chunk PROVE CallsOf(m, c)' = CallsOf(m, c) \cup {k}
  BY <1>1, <1>9, <1>11, <1>12
<1> QED
  BY <1>1, <1>6, <1>7, <1>10, <1>12 DEF k, w

\* Initially there are no calls.
LEMMA TriesInit == Init => TriesInv /\ RetryDiscipline
<1> SUFFICES ASSUME Init PROVE TriesInv /\ RetryDiscipline
  OBVIOUS
<1>1. \A m, c : CallsOf(m, c) = {}
  BY DEF Init, CallsOf
<1>2. \A m, c : Cardinality(CallsOf(m, c)) = 0
  BY <1>1, FS_EmptySet
<1>3. TriesInv
  BY DEF Init, TriesInv, Idle
<1>4. RetryDiscipline
  BY <1>1, <1>2, ManagerAssumption DEF RetryDiscipline
<1> QED
  BY <1>3, <1>4

\* The calls for the chunk being sent are the attempts made, before a Send.
LEMMA SendAttempts ==
  ASSUME TypeInv, LineInv, TriesInv, NEW n \in Names, Send(n)
  PROVE  LET w == worker[n]
             tries == CallsOf(w.msg, w.chunk) IN
         /\ w.attempt \in Nat /\ w.attempt <= MaxRetries
         /\ Cardinality(tries) = w.attempt
         /\ Cardinality(tries \cup {Len(calls[n]) + 1}) = w.attempt + 1
         /\ \A i \in tries : calls[n][i].outcome = "retryable"
<1> DEFINE w == worker[n]
           k == Len(calls[n]) + 1
           tries == CallsOf(w.msg, w.chunk)
<1>1. w.at = "sending" /\ w.attempt \in 0 .. MaxRetries
  BY SendFacts
<1>2. Cardinality(tries) = w.attempt /\ \A i \in tries : calls[n][i].outcome = "retryable"
  BY <1>1, ManagerAssumption DEF TriesInv
<1>3. IsFiniteSet(tries) /\ k \notin tries
  BY CallsFinite, SendCounts
<1>4. Cardinality(tries \cup {k}) = w.attempt + 1
  BY <1>2, <1>3, FS_AddElement
<1> QED
  BY <1>1, <1>2, <1>4, ManagerAssumption

\* A worker counts its attempts, and a chunk gets no more than it may.
LEMMA TriesStep ==
  ASSUME TypeInv, OnceInv, LineInv, TriesInv, RetryDiscipline, [Next]_vars
  PROVE  TriesInv' /\ RetryDiscipline'
<1>1. ASSUME calls' = calls
      PROVE  /\ \A m, c : CallsOf(m, c)' = CallsOf(m, c)
             /\ RetryDiscipline'
  <2>1. \A m, c : CallsOf(m, c)' = CallsOf(m, c)
    BY <1>1 DEF CallsOf
  <2> QED
    BY <1>1, <2>1 DEF RetryDiscipline
<1>2. CASE UNCHANGED <<worker, calls>>
  BY <1>1, <1>2 DEF TriesInv
<1>3. ASSUME NEW n \in Names, Work(n) PROVE TriesInv' /\ RetryDiscipline'
  <2> DEFINE w == worker[n]
             v == worker'[n]
  <2>1. \A d \in Names : d # n => worker'[d] = worker[d] /\ calls'[d] = calls[d]
    <3>1. CASE Take(n)
      BY <3>1 DEF Take, TypeInv, TypeOK
    <3> QED
      BY <1>3, <3>1, WorkGoesOn
  <2>2. Holdable(w) /\ w.attempt \in Nat
    <3>1. Holdable(w)
      BY <1>3, WorkFacts
    <3> QED
      BY <3>1, ManagerAssumption DEF Holdable
  <2>3. CASE calls' = calls /\ v.at \notin {"sending", "backoff"}
    BY <1>1, <2>1, <2>3 DEF TriesInv
  <2>4. ASSUME Busy(n), v = NextChunk(w) PROVE v.at \notin {"sending", "backoff"}
    BY <2>4, NextChunkFacts
  <2>5. CASE Limit(n) /\ v = [w EXCEPT !.at = "sending"]
    <3>1. w.at = "limiting" /\ Busy(n) /\ w.attempt = 0 /\ calls' = calls
      BY <2>2, <2>5 DEF Limit, Busy, Holdable
    <3>2. v.at = "sending" /\ v.msg = w.msg /\ v.chunk = w.chunk /\ v.attempt = 0
      BY <2>2, <2>5, <3>1 DEF Holdable
    <3>3. CallsOf(w.msg, w.chunk) = {}
      <4> SUFFICES ASSUME NEW i \in CallsOf(w.msg, w.chunk) PROVE FALSE
        OBVIOUS
      <4>1. w.msg \in Elements(taken) /\ ChannelOf[w.msg] = n
        BY <3>1 DEF LineInv, Ours
      <4>2. i \in DOMAIN calls[n] /\ calls[n][i].msg = w.msg /\ calls[n][i].chunk = w.chunk
        BY <4>1 DEF CallsOf
      <4>3. UpTo(w, calls[n][i])
        BY <3>1, <4>2 DEF LineInv
      <4>4. ~Before(w.msg, w.msg)
        BY <4>1, BeforeFacts DEF TypeInv, TypeOK, OnceInv
      <4>5. w.chunk \in Nat
        BY <2>2 DEF Holdable
      <4> QED
        BY <3>1, <4>2, <4>3, <4>4, <4>5 DEF UpTo
    <3>4. CallsOf(w.msg, w.chunk)' = {}
      <4>1. \A m, c : m = w.msg /\ c = w.chunk => CallsOf(m, c)' = {}
        BY <1>1, <3>1, <3>3
      <4> QED
        BY <3>2, <4>1
    <3> QED
      BY <1>1, <2>1, <3>1, <3>2, <3>4, FS_EmptySet DEF TriesInv
  <2>6. CASE Backoff(n) /\ v = [w EXCEPT !.at = "sending", !.attempt = @ + 1]
    <3>1. w.at = "backoff" /\ calls' = calls
      BY <2>6 DEF Backoff
    <3>2. v.at = "sending" /\ v.msg = w.msg /\ v.chunk = w.chunk /\ v.attempt = w.attempt + 1
      BY <2>2, <2>6 DEF Holdable
    <3>3. /\ Cardinality(CallsOf(w.msg, w.chunk)) = w.attempt + 1
          /\ \A i \in CallsOf(w.msg, w.chunk) : calls[n][i].outcome = "retryable"
      BY <3>1 DEF TriesInv
    <3> QED
      BY <1>1, <2>1, <2>2, <3>1, <3>2, <3>3 DEF TriesInv
  <2>7. CASE Send(n)
    <3> DEFINE k == Len(calls[n]) + 1
               tries == CallsOf(w.msg, w.chunk)
    <3>1. /\ ChannelOf[w.msg] = n /\ k \in Nat /\ k \notin DOMAIN calls[n]
          /\ \A i \in DOMAIN calls[n] : i < k
          /\ \A m, c : \A i \in CallsOf(m, c) : calls'[ChannelOf[m]][i] = calls[ChannelOf[m]][i]
          /\ \A m, c : ~(m = w.msg /\ c = w.chunk) => CallsOf(m, c)' = CallsOf(m, c)
          /\ \A m, c : m = w.msg /\ c = w.chunk => CallsOf(m, c)' = CallsOf(m, c) \cup {k}
      BY <2>7, SendCounts
    <3>2. /\ w.attempt <= MaxRetries /\ MaxRetries \in Nat
          /\ Cardinality(tries \cup {k}) = w.attempt + 1
          /\ \A i \in tries : calls[n][i].outcome = "retryable"
      BY <2>7, SendAttempts, ManagerAssumption
    <3>3. tries \subseteq DOMAIN calls[n]
      BY <3>1, CallsFinite
    <3>4. PICK outcome \in Outcomes :
            LET e == [msg |-> w.msg, chunk |-> w.chunk, outcome |-> outcome] IN
            /\ e \in Call /\ calls'[n] = Append(calls[n], e)
            /\ IF outcome = "retryable" /\ w.attempt < MaxRetries
               THEN v = [w EXCEPT !.at = "backoff"] ELSE v = NextChunk(w)
      BY <2>7, SendFacts
    <3>5. calls'[n][k].outcome = outcome
      <4> DEFINE e == [msg |-> w.msg, chunk |-> w.chunk, outcome |-> outcome]
      <4>1. e \in Call /\ calls'[n] = Append(calls[n], e) /\ e.outcome = outcome
        BY <3>4
      <4> HIDE DEF e
      <4>2. calls'[n][k] = e
        BY <4>1, AppendFacts DEF TypeInv, TypeOK
      <4> QED
        BY <4>1, <4>2
    <3> HIDE DEF k
    <3>6. \A d \in Names : d # n /\ worker[d].at \in {"sending", "backoff"} =>
             worker[d].msg # w.msg /\ ChannelOf[worker[d].msg] = d
      BY <3>1 DEF LineInv, Busy, Ours
    <3>7. ASSUME NEW d \in Names, d # n, worker[d].at \in {"sending", "backoff"}
          PROVE  /\ CallsOf(worker[d].msg, worker[d].chunk)' = CallsOf(worker[d].msg, worker[d].chunk)
                 /\ worker'[d] = worker[d] /\ calls'[d] = calls[d]
      <4>1. \A m, c : m = worker[d].msg /\ c = worker[d].chunk => CallsOf(m, c)' = CallsOf(m, c)
        BY <3>1, <3>6, <3>7
      <4> QED
        BY <2>1, <3>7, <4>1
    <3>8. ASSUME v.at \in {"sending", "backoff"}
          PROVE  /\ v = [w EXCEPT !.at = "backoff"] /\ outcome = "retryable"
                 /\ v.at = "backoff" /\ v.msg = w.msg /\ v.chunk = w.chunk /\ v.attempt = w.attempt
      <4>1. Busy(n)
        BY <2>7 DEF Send, Busy
      <4>2. v = [w EXCEPT !.at = "backoff"] /\ outcome = "retryable"
        BY <2>4, <3>4, <3>8, <4>1
      <4> QED
        BY <2>2, <4>2 DEF Holdable
    <3>9. ASSUME v.at \in {"sending", "backoff"}
          PROVE  /\ Cardinality(CallsOf(worker[n].msg, worker[n].chunk)') = w.attempt + 1
                 /\ \A i \in CallsOf(worker[n].msg, worker[n].chunk)' : calls'[n][i].outcome = "retryable"
      <4>1. \A m, c : m = w.msg /\ c = w.chunk => CallsOf(m, c)' = tries \cup {k}
        BY <3>1
      <4>2. CallsOf(worker[n].msg, worker[n].chunk)' = tries \cup {k}
        BY <3>8, <3>9, <4>1
      <4> QED
        BY <3>1, <3>2, <3>5, <3>8, <3>9, <4>2
    <3>10. TriesInv'
      <4> SUFFICES ASSUME NEW d \in Names, worker'[d].at \in {"sending", "backoff"}
                   PROVE  /\ Cardinality(CallsOf(worker[d].msg, worker[d].chunk)')
                               = worker'[d].attempt + (IF worker'[d].at = "backoff" THEN 1 ELSE 0)
                          /\ \A i \in CallsOf(worker[d].msg, worker[d].chunk)' : calls'[d][i].outcome = "retryable"
        BY DEF TriesInv
      <4>1. CASE d = n
        BY <3>8, <3>9, <4>1
      <4>2. CASE d # n
        BY <2>1, <3>7, <4>2 DEF TriesInv
      <4> QED
        BY <4>1, <4>2
    <3>11. RetryDiscipline'
      <4> SUFFICES ASSUME NEW m \in Messages, NEW c \in 1 .. Chunks[m]
                   PROVE  /\ Cardinality(CallsOf(m, c)') <= MaxRetries + 1
                          /\ \A i, j \in CallsOf(m, c)' : i < j => calls'[ChannelOf[m]][i].outcome = "retryable"
        BY DEF RetryDiscipline
      <4>1. CASE ~(m = w.msg /\ c = w.chunk)
        BY <3>1, <4>1 DEF RetryDiscipline
      <4>2. CASE m = w.msg /\ c = w.chunk
        <5>1. CallsOf(m, c)' = tries \cup {k} /\ tries = CallsOf(m, c)
          BY <3>1, <4>2
        <5>2. \A i, j \in tries \cup {k} : i < j => i \in tries
          <6>1. DOMAIN calls[n] \subseteq Nat
            BY LenProperties DEF TypeInv, TypeOK
          <6> QED
            BY <3>1, <3>3, <6>1
        <5>3. \A i \in tries : calls'[n][i].outcome = "retryable"
          BY <3>1, <3>2, <4>2, <5>1
        <5> QED
          BY <2>2, <3>1, <3>2, <4>2, <5>1, <5>2, <5>3
      <4> QED
        BY <4>1, <4>2
    <3> QED
      BY <3>10, <3>11
  <2>8. CASE Take(n) \/ WorkerReturns(n)
    <3>1. v.at \notin {"sending", "backoff"} /\ calls' = calls
      BY <2>8 DEF Take, WorkerReturns, TypeInv, TypeOK
    <3> QED
      BY <1>1, <2>3, <3>1
  <2>9. CASE (Limit(n) \/ Backoff(n)) /\ v = NextChunk(w)
    BY <1>1, <2>3, <2>4, <2>9 DEF Limit, Backoff, Busy
  <2> QED
    BY <1>3, <2>5, <2>6, <2>7, <2>8, <2>9, WorkFacts
<1>4. CASE ~\E n \in Names : Work(n)
  <2>1. UNCHANGED <<worker, calls>>
    BY <1>4 DEF Next, vars, Dispatch, CancelContext, StopAll, StopBegin, StopCloseQueues, StopWait,
       StopChannels, CloseBus, PublishOutbound, Subscribe, DispatcherReturns, Route, Enqueue,
       AbandonEnqueue, EnqueueClosed
  <2> QED
    BY <1>2, <2>1
<1> QED
  BY <1>3, <1>4

-----------------------------------------------------------------------------
(* Stopping *)

\* Initially nobody stops.
LEMMA StopInit == Init => StopInv
  BY DEF Init, StopInv

\* A worker that is done takes no step, and StopAll waits until all are.
LEMMA StopStep ==
  ASSUME TypeInv, StopInv, [Next]_vars
  PROVE  StopInv'
<1>1. CASE UNCHANGED vars
  BY <1>1 DEF vars, StopInv
<1>2. ASSUME NEW n \in Names, Work(n) PROVE StopInv'
  <2>1. UNCHANGED <<stopper, ctxDone, queuesClosed, stopped, workers>>
    BY <1>2 DEF Work, Take, WorkerReturns, Limit, Send, Backoff, stopVars
  <2>2. n \in workers /\ worker[n].at # "done"
    BY <1>2 DEF Work, Take, WorkerReturns, Limit, Send, Backoff
  <2>3. stopper \notin {"stopping", "returned"}
    BY <2>2 DEF StopInv
  <2> QED
    BY <2>1, <2>3 DEF StopInv
<1>3. CASE CancelContext
  BY <1>3 DEF CancelContext, StopInv
<1>4. CASE StopAll
  BY <1>4 DEF StopAll, StopBegin, StopCloseQueues, StopWait, StopChannels, StopInv
<1>5. CASE CloseBus \/ Dispatch \/ \E m \in Messages : PublishOutbound(m)
  BY <1>5 DEF CloseBus, Dispatch, PublishOutbound, Subscribe, DispatcherReturns, Route, Enqueue,
     AbandonEnqueue, EnqueueClosed, stopVars, StopInv
<1> QED
  BY <1>1, <1>2, <1>3, <1>4, <1>5 DEF Next

-----------------------------------------------------------------------------
(* No loss *)

\* Settled chunks stay settled when no call is added ...
LEMMA SettledSame ==
  ASSUME calls' = calls
  PROVE  \A m, c : Settled(m, c)' = Settled(m, c)
<1>1. \A m, c : CallsOf(m, c)' = CallsOf(m, c)
  BY DEF CallsOf
<1> QED
  BY <1>1 DEF Settled

\* ... and when one is: the chunk that is sent was not settled, and it is when the
\* worker does not wait to send it again.
LEMMA SettledSend ==
  ASSUME TypeInv, LineInv, TriesInv, NEW n \in Names, Send(n)
  PROVE  LET w == worker[n] IN
         /\ \A m, c : Settled(m, c) => Settled(m, c)'
         /\ \A m, c : m = w.msg /\ c = w.chunk => worker'[n] = [w EXCEPT !.at = "backoff"] \/ Settled(m, c)'
         /\ worker'[n] = [w EXCEPT !.at = "backoff"] \/ worker'[n] = NextChunk(w)
<1> DEFINE w == worker[n]
           k == Len(calls[n]) + 1
           tries == CallsOf(w.msg, w.chunk)
<1>1. /\ ChannelOf[w.msg] = n /\ k \in Nat /\ k \notin DOMAIN calls[n]
      /\ \A m, c : \A i \in CallsOf(m, c) : calls'[ChannelOf[m]][i] = calls[ChannelOf[m]][i]
      /\ \A m, c : ~(m = w.msg /\ c = w.chunk) => CallsOf(m, c)' = CallsOf(m, c)
      /\ \A m, c : m = w.msg /\ c = w.chunk => CallsOf(m, c)' = CallsOf(m, c) \cup {k}
  BY SendCounts
<1>2. /\ w.attempt \in Nat /\ w.attempt <= MaxRetries /\ MaxRetries \in Nat
      /\ Cardinality(tries) = w.attempt
      /\ Cardinality(tries \cup {k}) = w.attempt + 1
      /\ \A i \in tries : calls[n][i].outcome = "retryable"
  BY SendAttempts, ManagerAssumption
<1>3. PICK outcome \in Outcomes :
        LET e == [msg |-> w.msg, chunk |-> w.chunk, outcome |-> outcome] IN
        /\ e \in Call /\ calls'[n] = Append(calls[n], e)
        /\ IF outcome = "retryable" /\ w.attempt < MaxRetries
           THEN worker'[n] = [w EXCEPT !.at = "backoff"] ELSE worker'[n] = NextChunk(w)
  BY SendFacts
<1>4. calls'[n][k].outcome = outcome
  <2> DEFINE e == [msg |-> w.msg, chunk |-> w.chunk, outcome |-> outcome]
  <2>1. e \in Call /\ calls'[n] = Append(calls[n], e) /\ e.outcome = outcome
    BY <1>3
  <2> HIDE DEF e
  <2>2. calls'[n][k] = e
    BY <2>1, AppendFacts DEF TypeInv, TypeOK
  <2> QED
    BY <2>1, <2>2
<1> HIDE DEF k
<1>5. ASSUME NEW m, NEW c, Settled(m, c) PROVE Settled(m, c)'
  <2>1. CASE m = w.msg /\ c = w.chunk
    <3>1. CallsOf(m, c) = tries
      BY <2>1
    <3>2. \E i \in tries : calls[n][i].outcome # "retryable"
      BY <1>1, <1>2, <1>5, <2>1, <3>1 DEF Settled
    <3> QED
      BY <1>2, <3>2
  <2>2. CASE ~(m = w.msg /\ c = w.chunk)
    BY <1>1, <1>5, <2>2 DEF Settled
  <2> QED
    BY <2>1, <2>2
<1>6. ASSUME NEW m, NEW c, m = w.msg, c = w.chunk, worker'[n] # [w EXCEPT !.at = "backoff"]
      PROVE  Settled(m, c)'
  <2>1. CallsOf(m, c)' = tries \cup {k} /\ ChannelOf[m] = n
    BY <1>1, <1>6
  <2>2. CASE outcome # "retryable"
    BY <1>4, <2>1, <2>2 DEF Settled
  <2>3. CASE w.attempt = MaxRetries
    BY <1>2, <2>1, <2>3 DEF Settled
  <2> QED
    BY <1>2, <1>3, <1>6, <2>2, <2>3
<1> QED
  BY <1>3, <1>5, <1>6

\* Where a message for a channel with a worker is.
Kept(m) ==
  LET n == ChannelOf[m] IN
  \/ dispatcher.msg = m
  \/ m \in Elements(queue[n])
  \/ worker[n].msg = m /\ \A c \in 1 .. worker[n].chunk - 1 : Settled(m, c)
  \/ \A c \in 1 .. Chunks[m] : Settled(m, c)

\* While the context is not done, a busy worker leaves a message settled behind.
LEMMA WorkKeepsAll ==
  ASSUME TypeInv, LineInv, TriesInv, StopInv, ~ctxDone, NEW n \in Names, Work(n),
         NEW m \in Messages, ChannelOf[m] \in Names, Kept(m)
  PROVE  Kept(m)'
<1> DEFINE w == worker[n]
           v == worker'[n]
<1>1. Holdable(w) /\ Holdable(v)
  BY WorkFacts
<1>2. m # NoMessage /\ DOMAIN worker = Names /\ DOMAIN queue = Names
  BY ManagerAssumption DEF TypeInv, TypeOK
<1>3. dispatcher' = dispatcher
  BY DEF Work, Take, WorkerReturns, Limit, Send, Backoff
<1>4. CASE Take(n)
  <2>1. /\ ~Busy(n) /\ w.msg = NoMessage /\ calls' = calls /\ v.msg = Head(queue[n]) /\ v.chunk = 1
        /\ queue'[n] = Tail(queue[n]) /\ queue[n] \in Seq(Messages) /\ queue[n] # <<>>
        /\ \A d \in Names : d # n => worker'[d] = worker[d] /\ queue'[d] = queue[d]
    BY <1>1, <1>4 DEF Take, Busy, TypeInv, TypeOK, Holdable
  <2>2. Elements(queue[n]) = Elements(queue'[n]) \cup {v.msg}
    BY <2>1, TailFacts
  <2>3. \A a, c : Settled(a, c)' = Settled(a, c)
    BY <2>1, SettledSame
  <2>4. CASE ChannelOf[m] = n
    <3>1. \A c \in 1 .. v.chunk - 1 : FALSE
      BY <2>1
    <3>2. Elements(queue[n])' = Elements(queue'[n])
      OBVIOUS
    <3> QED
      BY <1>2, <1>3, <2>1, <2>2, <2>3, <2>4, <3>1, <3>2 DEF Kept
  <2>5. CASE ChannelOf[m] # n
    <3>1. Elements(queue[ChannelOf[m]])' = Elements(queue[ChannelOf[m]])
      BY <2>1, <2>5
    <3> QED
      BY <1>3, <2>1, <2>3, <2>5, <3>1 DEF Kept
  <2> QED
    BY <2>4, <2>5
<1>5. CASE ~Take(n)
  <2>1. /\ queue' = queue /\ (~Send(n) => calls' = calls)
        /\ \A d \in Names : d # n => worker'[d] = worker[d]
    BY <1>5, WorkGoesOn
  <2>2. \A a, c : Settled(a, c) => Settled(a, c)'
    BY <2>1, SettledSame, SettledSend
  <2>3. CASE ChannelOf[m] # n \/ w.msg # m
    BY <1>3, <2>1, <2>2, <2>3 DEF Kept
  <2>4. CASE ChannelOf[m] = n /\ w.msg = m
    <3>1. Busy(n)
      BY <1>1, <1>2, <2>4 DEF Holdable, Busy
    <3>2. w.chunk \in 1 .. Chunks[m] /\ Chunks[m] \in Nat
      BY <1>1, <2>4, <3>1, ManagerAssumption DEF Holdable, Busy
    <3>3. CASE v.msg = m /\ v.chunk = w.chunk
      BY <1>3, <2>1, <2>2, <2>4, <3>3 DEF Kept
    <3>4. CASE Send(n) /\ v = NextChunk(w) /\ v # [w EXCEPT !.at = "backoff"]
      <4>1. \A c : c = w.chunk => Settled(m, c)'
        BY <2>4, <3>4, SettledSend
      <4>2. /\ v.at \in {"limiting", "selecting"}
            /\ v.at = "limiting" => v.msg = m /\ v.chunk = w.chunk + 1
            /\ v.at = "selecting" => w.chunk = Chunks[m]
        BY <2>4, <3>1, <3>4, NextChunkFacts
      <4>3. \A c \in 1 .. w.chunk : c = w.chunk \/ c \in 1 .. w.chunk - 1
        BY <3>2
      <4>4. ASSUME \A c \in 1 .. w.chunk - 1 : Settled(m, c) PROVE Kept(m)'
        <5>1. \A c \in 1 .. w.chunk : Settled(m, c)'
          BY <2>2, <4>1, <4>3, <4>4
        <5>2. CASE v.at = "limiting"
          <6>1. v.chunk - 1 = w.chunk
            BY <3>2, <4>2, <5>2
          <6> QED
            BY <2>4, <4>2, <5>1, <5>2, <6>1 DEF Kept
        <5>3. CASE v.at = "selecting"
          BY <4>2, <5>1, <5>3 DEF Kept
        <5> QED
          BY <4>2, <5>2, <5>3
      <4> QED
        BY <1>3, <2>1, <2>2, <2>4, <4>4 DEF Kept
    <3>5. Holdable(w) /\ w.at \in {"limiting", "sending", "backoff"}
      BY <1>1, <3>1 DEF Busy
    <3>6. CASE v = [w EXCEPT !.at = "sending"] \/ v = [w EXCEPT !.at = "backoff"]
               \/ v = [w EXCEPT !.at = "sending", !.attempt = @ + 1]
      BY <2>4, <3>3, <3>5, <3>6 DEF Holdable
    <3>7. ~WorkerReturns(n)
      BY <3>1 DEF WorkerReturns, Busy
    <3>8. Send(n) => v = [w EXCEPT !.at = "backoff"] \/ v = NextChunk(w)
      BY SettledSend
    <3> QED
      BY <1>5, <3>4, <3>6, <3>7, <3>8, WorkFacts
  <2> QED
    BY <2>3, <2>4
<1> QED
  BY <1>4, <1>5

\* Initially nothing was taken.
LEMMA KeptInit == Init => NothingLostWhileRunning
  BY DEF Init, Bus!Init, NothingLostWhileRunning, Elements

\* Every step keeps track of every message.
LEMMA KeptStep ==
  ASSUME TypeInv, OnceInv, LineInv, TriesInv, StopInv, NothingLostWhileRunning,
         TypeInv', [Next]_vars
  PROVE  NothingLostWhileRunning'
<1> SUFFICES ASSUME ~ctxDone', NEW m \in Elements(taken)', ChannelOf[m] \in workers'
             PROVE  Kept(m)'
  BY DEF NothingLostWhileRunning, Kept
<1> DEFINE n == ChannelOf[m]
<1>1. ~ctxDone /\ workers' = workers /\ n \in Names
  BY DEF Next, vars, Dispatch, CancelContext, StopAll, StopBegin, StopCloseQueues, StopWait,
     StopChannels, CloseBus, PublishOutbound, Subscribe, DispatcherReturns, Route, Enqueue,
     AbandonEnqueue, EnqueueClosed, Work, Take, WorkerReturns, Limit, Send, Backoff, stopVars,
     TypeInv, TypeOK
<1>2. m \in Messages
  <2>1. taken' \in Seq(Messages)
    BY DEF TypeInv, TypeOK
  <2>2. DOMAIN taken' = 1 .. Len(taken') /\ \A i \in DOMAIN taken' : taken'[i] \in Messages
    BY <2>1, LenProperties, ElementOfSeq
  <2>3. \A x \in Elements(taken') : x \in Messages
    BY <2>2, ElementsIn
  <2> QED
    BY <2>3
<1>3. ASSUME taken' = taken PROVE Kept(m)
  <2>1. m \in Elements(taken)
    BY <1>3
  <2> QED
    BY <1>1, <2>1 DEF NothingLostWhileRunning, Kept
<1>4. ASSUME UNCHANGED <<taken, queue, worker, calls>>,
             dispatcher'.msg = dispatcher.msg \/ dispatcher.msg # m
      PROVE  Kept(m)'
  <2>1. \A a, c : Settled(a, c)' = Settled(a, c)
    BY <1>4, SettledSame
  <2>2. Elements(queue[n])' = Elements(queue[n]) /\ Kept(m)
    BY <1>3, <1>4
  <2> QED
    BY <1>4, <2>1, <2>2 DEF Kept
<1>5. CASE UNCHANGED vars \/ CancelContext \/ StopAll \/ CloseBus \/ \E a \in Messages : PublishOutbound(a)
  <2>1. UNCHANGED <<taken, queue, worker, calls, dispatcher>>
    BY <1>5 DEF vars, CancelContext, StopAll, StopBegin, StopCloseQueues, StopWait, StopChannels,
       CloseBus, PublishOutbound, Bus!Drop, Bus!BeginClose, Bus!Accept, busVars, stopVars
  <2> QED
    BY <1>4, <2>1
<1>6. CASE DispatcherReturns \/ AbandonEnqueue \/ EnqueueClosed
  <2>1. UNCHANGED <<taken, queue, worker, calls>> /\ dispatcher'.msg = dispatcher.msg
    BY <1>6 DEF DispatcherReturns, AbandonEnqueue, EnqueueClosed, busVars, TypeInv, TypeOK
  <2> QED
    BY <1>4, <2>1
<1>7. CASE Route
  <2>1. UNCHANGED <<taken, queue, worker, calls>>
    BY <1>7 DEF Route, busVars
  <2>2. dispatcher'.msg = dispatcher.msg \/ dispatcher.msg # m
    BY <1>1, <1>7 DEF Route, TypeInv, TypeOK
  <2> QED
    BY <1>4, <2>1, <2>2
<1>8. CASE Subscribe
  <2>1. /\ outbound \in Seq(Messages) /\ outbound # <<>> /\ taken \in Seq(Messages)
        /\ taken' = Append(taken, Head(outbound)) /\ dispatcher'.msg = Head(outbound)
        /\ dispatcher.msg = NoMessage /\ UNCHANGED <<queue, worker, calls>>
    BY <1>8 DEF Subscribe, Bus!Deliver, TypeInv, TypeOK, Hands
  <2>2. Head(outbound) \in Messages
    BY <2>1, TailFacts
  <2>3. m \in Elements(taken) \/ m = Head(outbound)
    BY <2>1, <2>2, AppendFacts
  <2>4. CASE m = Head(outbound)
    BY <2>1, <2>4 DEF Kept
  <2>5. CASE m \in Elements(taken)
    <3>1. Kept(m) /\ dispatcher.msg # m
      BY <1>1, <1>2, <2>1, <2>5, ManagerAssumption DEF NothingLostWhileRunning, Kept
    <3>2. \A a, c : Settled(a, c)' = Settled(a, c)
      BY <2>1, SettledSame
    <3>3. Elements(queue[n])' = Elements(queue[n])
      BY <2>1
    <3> QED
      BY <2>1, <3>1, <3>2, <3>3 DEF Kept
  <2> QED
    BY <2>3, <2>4, <2>5
<1>9. CASE Enqueue
  <2> DEFINE a == dispatcher.msg
             d == ChannelOf[a]
  <2>1. /\ a \in Messages /\ d \in Names /\ queue[d] \in Seq(Messages)
        /\ queue' = [queue EXCEPT ![d] = Append(queue[d], a)]
        /\ UNCHANGED <<taken, worker, calls>>
    BY <1>9 DEF Enqueue, TypeInv, TypeOK, Hands, busVars
  <2>2. queue'[d] = Append(queue[d], a) /\ \A e \in Names : e # d => queue'[e] = queue[e]
    BY <2>1 DEF TypeInv, TypeOK
  <2>3. Elements(queue'[d]) = Elements(queue[d]) \cup {a}
    BY <2>1, <2>2, AppendFacts
  <2>4. \A b, c : Settled(b, c)' = Settled(b, c)
    BY <2>1, SettledSame
  <2>5. a = m \/ m \in Elements(queue[n]) => m \in Elements(queue'[n])
    BY <1>1, <2>2, <2>3
  <2>6. Kept(m)
    BY <1>3, <2>1
  <2> QED
    BY <2>1, <2>4, <2>5, <2>6 DEF Kept
<1>10. ASSUME NEW k \in Names, Work(k) PROVE Kept(m)'
  <2>1. taken' = taken
    BY <1>10 DEF Work, Take, WorkerReturns, Limit, Send, Backoff, busVars
  <2> QED
    BY <1>1, <1>2, <1>3, <1>10, <2>1, WorkKeepsAll
<1> QED
  BY <1>5, <1>6, <1>7, <1>8, <1>9, <1>10 DEF Next, Dispatch

-----------------------------------------------------------------------------
(* Theorems *)

\* The invariant holds of the initial state and is kept by every step.
LEMMA ManagerInit == Init => ManagerInv
  BY TypeInit, OnceInit, LineInit, TriesInit, StopInit, KeptInit DEF ManagerInv

LEMMA ManagerStep == ManagerInv /\ [Next]_vars => ManagerInv'
<1> SUFFICES ASSUME ManagerInv, [Next]_vars PROVE ManagerInv'
  OBVIOUS
<1> USE DEF ManagerInv
<1>1. TypeInv'
  BY TypeStep
<1>2. OnceInv'
  BY OnceStep
<1>3. LineInv' /\ LastInv' /\ SentInOrder'
  BY <1>2, LineStep
<1>4. TriesInv' /\ RetryDiscipline'
  BY TriesStep
<1>5. StopInv'
  BY StopStep
<1>6. NothingLostWhileRunning'
  BY <1>1, KeptStep
<1> QED
  BY <1>1, <1>2, <1>3, <1>4, <1>5, <1>6

\* sendWithRetry calls a channel for a chunk at most 1 + maxRetries times, and
\* not again after a success or a permanent error.
THEOREM RetriesDisciplined == Spec => []RetryDiscipline
<1>1. ManagerInv => RetryDiscipline
  BY DEF ManagerInv
<1> QED
  BY <1>1, ManagerInit, ManagerStep, PTL DEF Spec

\* A channel is called for its messages in the order in which the dispatcher took
\* them off the bus, and for the chunks of one in theirs, retries included.
THEOREM OrderKept == Spec => []SentInOrder
<1>1. ManagerInv => SentInOrder
  BY DEF ManagerInv
<1> QED
  BY <1>1, ManagerInit, ManagerStep, PTL DEF Spec

\* dispatchLoop and runWorker lose no message of a channel with a worker while
\* the context is not done: full queues and failing channels only delay it.
THEOREM NothingLost == Spec => []NothingLostWhileRunning
<1>1. ManagerInv => NothingLostWhileRunning
  BY DEF ManagerInv
<1> QED
  BY <1>1, ManagerInit, ManagerStep, PTL DEF Spec

\* StopAll stops a channel when no worker can call it any more.
THEOREM NoSendAfterStopped == Spec => NoSendAfterStop
<1>1. ManagerInv /\ [Next]_vars => [\A n \in Names : calls'[n] # calls[n] => n \notin stopped]_vars
  <2> SUFFICES ASSUME ManagerInv, Next, NEW n \in Names, calls'[n] # calls[n], n \in stopped
               PROVE  FALSE
    OBVIOUS
  <2>1. \A k \in Names : worker[k].at = "done" \/ k \notin workers
    BY DEF ManagerInv, StopInv
  <2>2. calls' = calls
    BY <2>1 DEF Next, Dispatch, CancelContext, StopAll, StopBegin, StopCloseQueues, StopWait,
       StopChannels, CloseBus, PublishOutbound, Subscribe, DispatcherReturns, Route, Enqueue,
       AbandonEnqueue, EnqueueClosed, Work, Take, WorkerReturns, Limit, Send, Backoff
  <2> QED
    BY <2>2
<1> QED
  BY <1>1, ManagerInit, ManagerStep, PTL DEF Spec, NoSendAfterStop

\* The manager, its handlers and the shutdown use the bus as Handoff says: what
\* MessageBus is proved to implement is all they rely on.
THEOREM ManagerUsesBus == Spec => Bus!Spec
<1>1. Init => Bus!Init
  BY DEF Init
<1>2. [Next]_vars => [Bus!Next]_(Bus!vars)
  BY DEF Next, vars, Bus!vars, Bus!Next, Dispatch, CancelContext, StopAll, StopBegin, StopCloseQueues,
     StopWait, StopChannels, CloseBus, PublishOutbound, Subscribe, DispatcherReturns, Route, Enqueue,
     AbandonEnqueue, EnqueueClosed, Work, Take, WorkerReturns, Limit, Send, Backoff, busVars
<1> QED
  BY <1>1, <1>2, PTL DEF Spec, Bus!Spec
=============================================================================
