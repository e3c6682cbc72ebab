--------------------------- MODULE ChannelManager ---------------------------
(***************************************************************************)
(* The outbound half of pkg/channels/manager.go: the dispatcher takes      *)
(* messages off the bus and puts them into the queue of their channel's    *)
(* worker; each worker sends its messages chunk by chunk, with a rate      *)
(* limiter and retries; StopAll takes everything down.                     *)
(*                                                                         *)
(* The bus is the abstract Handoff that MessageBus implements.             *)
(***************************************************************************)
EXTENDS Naturals, Sequences, FiniteSets

CONSTANTS
  Names,        \* configured channels
  Messages,     \* outbound messages
  ChannelOf,    \* [Messages -> Names or some other name]: OutboundMessage.Channel
  Chunks,       \* [Messages -> how many pieces SplitMessage makes of it]
  BusCapacity,  \* defaultBusBufferSize
  QueueSize,    \* defaultChannelQueueSize
  MaxRetries,   \* maxRetries
  Internal,     \* names of internal channels (pkg/constants)
  NoMessage     \* the process holds no message

ASSUME ManagerAssumption ==
  /\ BusCapacity \in Nat \ {0}
  /\ QueueSize \in Nat \ {0}
  /\ MaxRetries \in Nat
  /\ Chunks \in [Messages -> Nat \ {0}]
  /\ DOMAIN ChannelOf = Messages
  /\ Names \cap Internal = {}
  /\ NoMessage \notin Messages

VARIABLES
  published, outbound, taken, drained, busClosed,  \* the bus (see Handoff)
  workers,      \* Manager.workers: channels that started and have a worker
  queue,        \* [Names -> Seq(Messages)]: channelWorker.queue
  queuesClosed, \* StopAll has closed every queue
  ctxDone,      \* dispatchCtx is cancelled
  locked,       \* StopAll holds Manager.mu
  stopper,      \* where StopAll stands
  stopped,      \* channels whose Stop has been called
  dispatcher,   \* [at, msg]: where dispatchLoop stands
  worker,       \* [Names -> [at, msg, chunk, attempt]]: where runWorker stands
  calls,        \* [Names -> Seq]: history of the calls of Channel.Send
  crashed       \* a goroutine has panicked and the process is gone

busVars == <<published, outbound, taken, drained, busClosed>>
stopVars == <<queuesClosed, ctxDone, locked, stopper, stopped>>
vars == <<published, outbound, taken, drained, busClosed, workers, queue,
          queuesClosed, ctxDone, locked, stopper, stopped, dispatcher, worker, calls, crashed>>

Bus == INSTANCE Handoff WITH
  Capacity <- BusCapacity, accepted <- published, queue <- outbound,
  delivered <- taken, dropped <- drained, closing <- busClosed

Outcomes == {"ok", "permanent", "retryable"}
Call == [msg : Messages, chunk : Nat \ {0}, outcome : Outcomes]

TypeOK ==
  /\ published \subseteq Messages
  /\ outbound \in Seq(Messages) /\ taken \in Seq(Messages) /\ drained \in Seq(Messages)
  /\ busClosed \in BOOLEAN
  /\ workers \subseteq Names
  /\ queue \in [Names -> Seq(Messages)]
  /\ \A n \in Names : Len(queue[n]) <= QueueSize
  /\ queuesClosed \in BOOLEAN /\ ctxDone \in BOOLEAN /\ locked \in BOOLEAN
  /\ stopper \in {"idle", "closing", "waiting", "stopping", "returned"}
  /\ stopped \subseteq Names
  /\ dispatcher \in [at : {"subscribing", "routing", "enqueuing", "returned"},
                     msg : Messages \cup {NoMessage}]
  /\ worker \in [Names -> [at : {"selecting", "limiting", "sending", "backoff", "done"},
                           msg : Messages \cup {NoMessage},
                           chunk : Nat, attempt : 0 .. MaxRetries]]
  /\ calls \in [Names -> Seq(Call)]
  /\ crashed \in BOOLEAN

Idle == [at |-> "selecting", msg |-> NoMessage, chunk |-> 0, attempt |-> 0]

\* After StartAll: a channel whose Start failed stays registered, without a
\* worker; the dispatcher runs.
Init ==
  /\ Bus!Init
  /\ workers \in SUBSET Names
  /\ queue = [n \in Names |-> <<>>]
  /\ queuesClosed = FALSE
  /\ ctxDone = FALSE
  /\ locked = FALSE
  /\ stopper = "idle"
  /\ stopped = {}
  /\ dispatcher = [at |-> "subscribing", msg |-> NoMessage]
  /\ worker = [n \in Names |-> Idle]
  /\ calls = [n \in Names |-> <<>>]
  /\ crashed = FALSE

-----------------------------------------------------------------------------
(* The rest of the program *)

\* Handlers publish outbound messages; a call that tested the bus's flag in
\* time gets its message in even while Close is under way.
PublishOutbound(m) ==
  /\ Bus!Accept(m)
  /\ UNCHANGED <<workers, queue, stopVars, dispatcher, worker, calls, crashed>>

\* The gateway cancels the context all goroutines descend from ...
CancelContext ==
  /\ ~ctxDone
  /\ ctxDone' = TRUE
  /\ UNCHANGED <<busVars, workers, queue, queuesClosed, locked, stopper, stopped,
                 dispatcher, worker, calls, crashed>>

\* ... and closes the bus, which drains it before StopAll is called.
CloseBus ==
  /\ ctxDone
  /\ stopper = "idle"
  /\ Bus!BeginClose \/ Bus!Drop
  /\ UNCHANGED <<workers, queue, stopVars, dispatcher, worker, calls, crashed>>

-----------------------------------------------------------------------------
(* dispatchLoop *)

Subscribe ==
  /\ dispatcher.at = "subscribing"
  /\ Bus!Deliver
  /\ dispatcher' = [at |-> "routing", msg |-> Head(outbound)]
  /\ UNCHANGED <<workers, queue, stopVars, worker, calls, crashed>>

\* SubscribeOutbound reports not-ok.
DispatcherReturns ==
  /\ dispatcher.at = "subscribing"
  /\ ctxDone \/ busClosed
  /\ dispatcher' = [dispatcher EXCEPT !.at = "returned"]
  /\ UNCHANGED <<busVars, workers, queue, stopVars, worker, calls, crashed>>

\* Faulty variant: a message that cannot be routed ends the loop.
RouteOrReturn ==
  /\ dispatcher.at = "routing"
  /\ locked => ChannelOf[dispatcher.msg] \in Internal
  /\ dispatcher' = IF ChannelOf[dispatcher.msg] \in workers
                   THEN [dispatcher EXCEPT !.at = "enqueuing"]
                   ELSE [at |-> "returned", msg |-> NoMessage]
  /\ UNCHANGED <<busVars, workers, queue, stopVars, worker, calls, crashed>>

\* The look-up, under the read lock except for internal channels.  Internal and
\* unknown channels, and channels without a worker, are skipped.
Route ==
  /\ dispatcher.at = "routing"
  /\ locked => ChannelOf[dispatcher.msg] \in Internal
  /\ dispatcher' = IF ChannelOf[dispatcher.msg] \in workers
                   THEN [dispatcher EXCEPT !.at = "enqueuing"]
                   ELSE [at |-> "subscribing", msg |-> NoMessage]
  /\ UNCHANGED <<busVars, workers, queue, stopVars, worker, calls, crashed>>

\* Faulty variant: a queue without a bound.
EnqueueUnbounded ==
  LET n == ChannelOf[dispatcher.msg] IN
  /\ dispatcher.at = "enqueuing"
  /\ ~queuesClosed
  /\ queue' = [queue EXCEPT ![n] = Append(@, dispatcher.msg)]
  /\ dispatcher' = [at |-> "subscribing", msg |-> NoMessage]
  /\ UNCHANGED <<busVars, workers, stopVars, worker, calls, crashed>>

\* Faulty variant: a full queue drops the message instead of blocking.
EnqueueOrDrop ==
  LET n == ChannelOf[dispatcher.msg] IN
  /\ dispatcher.at = "enqueuing"
  /\ ~queuesClosed
  /\ queue' = IF Len(queue[n]) < QueueSize
              THEN [queue EXCEPT ![n] = Append(@, dispatcher.msg)] ELSE queue
  /\ dispatcher' = [at |-> "subscribing", msg |-> NoMessage]
  /\ UNCHANGED <<busVars, workers, stopVars, worker, calls, crashed>>

\* case w.queue <- msg
Enqueue ==
  LET n == ChannelOf[dispatcher.msg] IN
  /\ dispatcher.at = "enqueuing"
  /\ ~queuesClosed
  /\ Len(queue[n]) < QueueSize
  /\ queue' = [queue EXCEPT ![n] = Append(@, dispatcher.msg)]
  /\ dispatcher' = [at |-> "subscribing", msg |-> NoMessage]
  /\ UNCHANGED <<busVars, workers, stopVars, worker, calls, crashed>>

\* case <-ctx.Done()
AbandonEnqueue ==
  /\ dispatcher.at = "enqueuing"
  /\ ctxDone
  /\ dispatcher' = [dispatcher EXCEPT !.at = "returned"]
  /\ UNCHANGED <<busVars, workers, queue, stopVars, worker, calls, crashed>>

\* The same select with the queue closed meanwhile: a send on a closed channel
\* is ready, and panics if it is chosen.
EnqueueClosed ==
  /\ dispatcher.at = "enqueuing"
  /\ queuesClosed
  /\ crashed' = TRUE
  /\ UNCHANGED <<busVars, workers, queue, stopVars, dispatcher, worker, calls>>

Dispatch == Subscribe \/ DispatcherReturns \/ Route \/ Enqueue \/ AbandonEnqueue \/ EnqueueClosed

-----------------------------------------------------------------------------
(* runWorker and sendWithRetry *)

\* The next chunk of the message, or the next turn of the worker's loop.
NextChunk(w) ==
  IF w.chunk < Chunks[w.msg]
  THEN [w EXCEPT !.at = "limiting", !.chunk = @ + 1, !.attempt = 0]
  ELSE Idle

Take(n) ==
  /\ worker[n].at = "selecting"
  /\ queue[n] # <<>>
  /\ worker' = [worker EXCEPT ![n] =
                  [at |-> "limiting", msg |-> Head(queue[n]), chunk |-> 1, attempt |-> 0]]
  /\ queue' = [queue EXCEPT ![n] = Tail(@)]
  /\ UNCHANGED <<busVars, workers, stopVars, dispatcher, calls, crashed>>

\* The queue is closed and empty, or the context is done -- whatever is queued.
WorkerReturns(n) ==
  /\ worker[n].at = "selecting"
  /\ ctxDone \/ (queuesClosed /\ queue[n] = <<>>)
  /\ worker' = [worker EXCEPT ![n].at = "done"]
  /\ UNCHANGED <<busVars, workers, queue, stopVars, dispatcher, calls, crashed>>

\* limiter.Wait fails on a cancelled context and the chunk is given up;
\* otherwise preSend (which touches typing and reactions only) and the attempts.
Limit(n) ==
  /\ worker[n].at = "limiting"
  /\ worker' = [worker EXCEPT ![n] =
                  IF ctxDone THEN NextChunk(@) ELSE [@ EXCEPT !.at = "sending"]]
  /\ UNCHANGED <<busVars, workers, queue, stopVars, dispatcher, calls, crashed>>

\* Faulty variant: a permanent error is retried like any other.
SendRetryingAll(n) ==
  LET w == worker[n] IN
  /\ w.at = "sending"
  /\ \E outcome \in Outcomes :
       /\ calls' = [calls EXCEPT ![n] =
                      Append(@, [msg |-> w.msg, chunk |-> w.chunk, outcome |-> outcome])]
       /\ worker' = [worker EXCEPT ![n] =
                       IF outcome # "ok" /\ w.attempt < MaxRetries
                       THEN [w EXCEPT !.at = "backoff"] ELSE NextChunk(w)]
  /\ UNCHANGED <<busVars, workers, queue, stopVars, dispatcher, crashed>>

\* One call of Channel.Send.
Send(n) ==
  LET w == worker[n] IN
  /\ w.at = "sending"
  /\ \E outcome \in Outcomes :
       /\ calls' = [calls EXCEPT ![n] =
                      Append(@, [msg |-> w.msg, chunk |-> w.chunk, outcome |-> outcome])]
       /\ worker' = [worker EXCEPT ![n] =
                       IF outcome = "retryable" /\ w.attempt < MaxRetries
                       THEN [w EXCEPT !.at = "backoff"] ELSE NextChunk(w)]
  /\ UNCHANGED <<busVars, workers, queue, stopVars, dispatcher, crashed>>

\* Faulty variant: a message that must wait goes back to the end of the queue.
BackoffRequeued(n) ==
  /\ worker[n].at = "backoff"
  /\ ~queuesClosed
  /\ Len(queue[n]) < QueueSize
  /\ queue' = [queue EXCEPT ![n] = Append(@, worker[n].msg)]
  /\ worker' = [worker EXCEPT ![n] = Idle]
  /\ UNCHANGED <<busVars, workers, stopVars, dispatcher, calls, crashed>>

\* The delay before the next attempt, or the context ends it.
Backoff(n) ==
  /\ worker[n].at = "backoff"
  /\ \/ worker' = [worker EXCEPT ![n].at = "sending", ![n].attempt = @ + 1]
     \/ ctxDone /\ worker' = [worker EXCEPT ![n] = NextChunk(@)]
  /\ UNCHANGED <<busVars, workers, queue, stopVars, dispatcher, calls, crashed>>

Work(n) ==
  /\ n \in workers
  /\ Take(n) \/ WorkerReturns(n) \/ Limit(n) \/ Send(n) \/ Backoff(n)

-----------------------------------------------------------------------------
(* StopAll: under the write lock from its first line to its last. *)

StopBegin ==
  /\ stopper = "idle"
  /\ busClosed
  /\ locked' = TRUE
  /\ ctxDone' = TRUE
  /\ stopper' = "closing"
  /\ UNCHANGED <<busVars, workers, queue, queuesClosed, stopped, dispatcher, worker,
                 calls, crashed>>

StopCloseQueues ==
  /\ stopper = "closing"
  /\ queuesClosed' = TRUE
  /\ stopper' = "waiting"
  /\ UNCHANGED <<busVars, workers, queue, ctxDone, locked, stopped, dispatcher, worker,
                 calls, crashed>>

\* Faulty variant: the channels are stopped without waiting for the workers.
StopWaitNot ==
  /\ stopper = "waiting"
  /\ stopper' = "stopping"
  /\ UNCHANGED <<busVars, workers, queue, queuesClosed, ctxDone, locked, stopped,
                 dispatcher, worker, calls, crashed>>

\* Faulty variant: StopAll also waits for workers of channels that never started.
StopWaitForEveryChannel ==
  /\ stopper = "waiting"
  /\ \A n \in Names : worker[n].at = "done"
  /\ stopper' = "stopping"
  /\ UNCHANGED <<busVars, workers, queue, queuesClosed, ctxDone, locked, stopped,
                 dispatcher, worker, calls, crashed>>

\* <-w.done for every worker
StopWait ==
  /\ stopper = "waiting"
  /\ \A n \in workers : worker[n].at = "done"
  /\ stopper' = "stopping"
  /\ UNCHANGED <<busVars, workers, queue, queuesClosed, ctxDone, locked, stopped,
                 dispatcher, worker, calls, crashed>>

StopChannels ==
  /\ stopper = "stopping"
  /\ stopped' = Names
  /\ locked' = FALSE
  /\ stopper' = "returned"
  /\ UNCHANGED <<busVars, workers, queue, queuesClosed, ctxDone, dispatcher, worker,
                 calls, crashed>>

StopAll == StopBegin \/ StopCloseQueues \/ StopWait \/ StopChannels

-----------------------------------------------------------------------------
Next ==
  /\ ~crashed
  /\ \/ \E m \in Messages : PublishOutbound(m)
     \/ CancelContext
     \/ CloseBus
     \/ Dispatch
     \/ \E n \in Names : Work(n)
     \/ StopAll

Spec == Init /\ [][Next]_vars

\* Goroutines run, timers fire, Channel.Send returns; StopAll, once called,
\* goes on.  Nobody has to publish, cancel or call StopAll.
Fairness ==
  /\ WF_vars(~crashed /\ Dispatch)
  /\ \A n \in Names : WF_vars(~crashed /\ Work(n))
  /\ WF_vars(~crashed /\ stopper # "idle" /\ StopAll)

FairSpec == Spec /\ Fairness

-----------------------------------------------------------------------------
(* Properties *)

\* Where the calls for chunk c of m are in the history of its channel.
CallsOf(m, c) ==
  LET n == ChannelOf[m]
  IN  {i \in IF n \in Names THEN DOMAIN calls[n] ELSE {} :
         calls[n][i].msg = m /\ calls[n][i].chunk = c}

\* No more attempts are due for this chunk.
Settled(m, c) ==
  \/ \E i \in CallsOf(m, c) : calls[ChannelOf[m]][i].outcome # "retryable"
  \/ Cardinality(CallsOf(m, c)) = MaxRetries + 1

\* sendWithRetry: a chunk is sent at most 1 + maxRetries times, and never again
\* after a success or after a permanent error -- whatever the interleaving, the
\* user sees each chunk at most once from a channel that reports truthfully.
RetryDiscipline ==
  \A m \in Messages : \A c \in 1 .. Chunks[m] :
    /\ Cardinality(CallsOf(m, c)) <= MaxRetries + 1
    /\ \A i, j \in CallsOf(m, c) : i < j => calls[ChannelOf[m]][i].outcome = "retryable"

Position(m) == CHOOSE i \in DOMAIN taken : taken[i] = m

\* A channel sees its messages in the order they left the bus and the chunks of
\* a message in order; retries of one chunk never let a later one overtake it.
SentInOrder ==
  \A n \in Names : \A i, j \in DOMAIN calls[n] :
    i < j => LET a == calls[n][i]
                 b == calls[n][j]
             IN  \/ Position(a.msg) < Position(b.msg)
                 \/ a.msg = b.msg /\ a.chunk <= b.chunk

Elements(s) == {s[i] : i \in DOMAIN s}

\* While the manager runs, a message taken off the bus for a channel with a
\* worker is in the dispatcher's hand, queued, in the worker's hand, or every
\* chunk of it has been sent or has used up its attempts: a full queue or a
\* failing channel delays messages and never loses one.
NothingLostWhileRunning ==
  ~ctxDone =>
    \A m \in Elements(taken) :
      LET n == ChannelOf[m] IN
      n \in workers =>
        \/ dispatcher.msg = m
        \/ m \in Elements(queue[n])
        \/ worker[n].msg = m /\ \A c \in 1 .. worker[n].chunk - 1 : Settled(m, c)
        \/ \A c \in 1 .. Chunks[m] : Settled(m, c)

\* StopAll waits for the workers before it stops the channels: no worker calls
\* Send on a channel whose Stop has been called.
NoSendAfterStop == [][\A n \in Names : calls'[n] # calls[n] => n \notin stopped]_vars

\* One failing channel does not starve the others: every message for a channel
\* with a worker is finally settled, unless the program is stopping.
EveryMessageSettled ==
  \A m \in Messages :
    (ChannelOf[m] \in workers /\ m \in published)
      ~> (ctxDone \/ \A c \in 1 .. Chunks[m] : Settled(m, c))

\* StopAll holds the lock while it waits for workers and never deadlocks on it.
StopAllReturns == (stopper = "closing") ~> (stopper = "returned" \/ crashed)

\* "Close all worker queues and wait for them to drain": when StopAll has
\* returned, every message a worker's queue held has been given to its channel.
QueuesDrainedOnStop ==
  stopper = "returned" => \A n \in workers : queue[n] = <<>>
=============================================================================
