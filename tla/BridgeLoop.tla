----------------------------- MODULE BridgeLoop -----------------------------
(***************************************************************************)
(* pkg/bridge/loop.go: one goroutine per inbound message.  A chat message  *)
(* runs the CLI for its session unless the session already has a run in    *)
(* flight; /stop cancels that run; /clear forgets the session.             *)
(*                                                                         *)
(* Shared state: the sync.Maps inFlight and cancelFlights, the session     *)
(* store (module Sessions), the history file, the last-channel state.      *)
(* A message stands for its handler goroutine, and also for the session id *)
(* a fresh CLI run for it would create; a session key stands for the id    *)
(* the session had when the program started.                               *)
(***************************************************************************)
EXTENDS Naturals, Sequences

CONSTANTS
  Messages,    \* inbound messages, one handler each
  Keys,        \* session keys
  SessionOf,   \* [Messages -> Keys]: InboundMessage.SessionKey
  NoId,        \* no session id
  NoHandler,   \* no entry in cancelFlights
  NoSave       \* the handler is not inside Sessions.Save

Ids == Messages \cup Keys
Kinds == {"chat", "stop", "clear"}

ASSUME BridgeAssumption ==
  /\ SessionOf \in [Messages -> Keys]
  /\ Messages \cap Keys = {}
  /\ NoId \notin Ids
  /\ NoHandler \notin Messages
  /\ NoSave \notin [Keys -> Ids \cup {NoId}]

VARIABLES
  kind,           \* [Messages -> Kinds]: what the text of each message is
  running,        \* Run is still in its loop
  shutdown,       \* the context given to Run is cancelled
  pc,             \* [Messages -> Places]: where each handler stands
  inFlight,       \* Loop.inFlight: session keys with a run in flight
  cancelFlights,  \* Loop.cancelFlights: [Keys -> the handler whose cancel it is]
  cancelled,      \* handlers whose invokeCtx /stop has cancelled
  target,         \* [Messages -> ...]: the cancel function a /stop has loaded
  resumed,        \* [Messages -> ...]: existingID, read before the run
  typing,         \* handlers whose typing indicator is on
  reply,          \* [Messages -> Replies]: what each handler has published
  history,        \* lines of messages.jsonl: <<handler, role>>
  lastChannel,    \* state.Manager: session of the last answered message
  mem, disk, dirty, snap   \* the session store

loopVars == <<kind, running, shutdown>>
flightVars == <<inFlight, cancelFlights, cancelled>>
storeVars == <<mem, disk, dirty, snap>>
vars == <<kind, running, shutdown, pc, inFlight, cancelFlights, cancelled, target,
          resumed, typing, reply, history, lastChannel, mem, disk, dirty, snap>>

Store == INSTANCE Sessions WITH Ids <- Ids, Clients <- Messages

\* The part of handleMessage in which the handler owns its session's slot ...
HeldPlaces == {"admitted", "registered", "invoking", "failed", "answered",
               "recordingUser", "recordingAssistant", "persisting", "copying",
               "writing", "noting", "unwinding", "releasing"}
\* ... and the part in which /stop can find it.
StoppablePlaces == HeldPlaces \ {"admitted", "releasing"}

Places == HeldPlaces \cup {"inbound", "spawned", "busy", "cancelling",
                           "stopped", "nothing", "cleared", "clearFailed", "done"}

Replies == {"none", "lost", "busy", "error", "text", "empty",
            "stopped", "nothing", "cleared", "clearFailed"}

TypeOK ==
  /\ kind \in [Messages -> Kinds]
  /\ running \in BOOLEAN
  /\ shutdown \in BOOLEAN
  /\ pc \in [Messages -> Places]
  /\ inFlight \subseteq Keys
  /\ cancelFlights \in [Keys -> Messages \cup {NoHandler}]
  /\ cancelled \subseteq Messages
  /\ target \in [Messages -> Messages \cup {NoHandler}]
  /\ resumed \in [Messages -> Ids \cup {NoId}]
  /\ typing \subseteq Messages
  /\ reply \in [Messages -> Replies]
  /\ history \in Seq(Messages \X {"user", "assistant"})
  /\ lastChannel \in Keys \cup {NoId}
  /\ mem \in [Keys -> Ids \cup {NoId}]
  /\ disk \in [Keys -> Ids \cup {NoId}]
  /\ dirty \subseteq Messages
  /\ snap \in [Messages -> [Keys -> Ids \cup {NoId}] \cup {NoSave}]

Init ==
  /\ kind \in [Messages -> Kinds]
  /\ running = TRUE
  /\ shutdown = FALSE
  /\ pc = [m \in Messages |-> "inbound"]
  /\ inFlight = {}
  /\ cancelFlights = [s \in Keys |-> NoHandler]
  /\ cancelled = {}
  /\ target = [m \in Messages |-> NoHandler]
  /\ resumed = [m \in Messages |-> NoId]
  /\ typing = {}
  /\ reply = [m \in Messages |-> "none"]
  /\ history = <<>>
  /\ lastChannel = NoId
  /\ disk \in {f \in [Keys -> Keys \cup {NoId}] : \A s \in Keys : f[s] \in {s, NoId}}
  /\ mem = disk
  /\ dirty = {}
  /\ snap = [m \in Messages |-> NoSave]

-----------------------------------------------------------------------------
Goto(m, from, to) == pc[m] = from /\ pc' = [pc EXCEPT ![m] = to]

\* bus.PublishOutbound: it cannot fail before shutdown; afterwards the message
\* gets through only if the call had passed its context test in time.
Publish(m, r) ==
  \E outcome \in IF shutdown THEN {"lost", r} ELSE {r} :
    reply' = [reply EXCEPT ![m] = outcome]

(* Run *)

Spawn(m) ==
  /\ running
  /\ Goto(m, "inbound", "spawned")
  /\ UNCHANGED <<loopVars, flightVars, target, resumed, typing, reply, history,
                 lastChannel, storeVars>>

\* ConsumeInbound reports not-ok once the context is done.
RunReturns ==
  /\ running
  /\ shutdown
  /\ running' = FALSE
  /\ UNCHANGED <<kind, shutdown, pc, flightVars, target, resumed, typing, reply,
                 history, lastChannel, storeVars>>

\* The gateway cancels the context of Run and of every handler.
Shutdown ==
  /\ ~shutdown
  /\ shutdown' = TRUE
  /\ UNCHANGED <<kind, running, pc, flightVars, target, resumed, typing, reply,
                 history, lastChannel, storeVars>>

-----------------------------------------------------------------------------
(* Chat messages: admission *)

\* Faulty variant: no test whether the session has a run in flight.
AdmitUnchecked(m) ==
  /\ kind[m] = "chat"
  /\ Goto(m, "spawned", "admitted")
  /\ inFlight' = inFlight \cup {SessionOf[m]}
  /\ UNCHANGED <<loopVars, cancelFlights, cancelled, target, resumed, typing, reply,
                 history, lastChannel, storeVars>>

\* inFlight.LoadOrStore
Admit(m) ==
  /\ kind[m] = "chat"
  /\ Goto(m, "spawned", IF SessionOf[m] \in inFlight THEN "busy" ELSE "admitted")
  /\ inFlight' = inFlight \cup {SessionOf[m]}
  /\ UNCHANGED <<loopVars, cancelFlights, cancelled, target, resumed, typing, reply,
                 history, lastChannel, storeVars>>

ReplyBusy(m) ==
  /\ Goto(m, "busy", "done")
  /\ Publish(m, "busy")
  /\ UNCHANGED <<loopVars, flightVars, target, resumed, typing, history,
                 lastChannel, storeVars>>

\* cancelFlights.Store
RegisterCancel(m) ==
  /\ Goto(m, "admitted", "registered")
  /\ cancelFlights' = [cancelFlights EXCEPT ![SessionOf[m]] = m]
  /\ UNCHANGED <<loopVars, inFlight, cancelled, target, resumed, typing, reply,
                 history, lastChannel, storeVars>>

\* StartTyping, then sessions.Get
StartInvoke(m) ==
  /\ Goto(m, "registered", "invoking")
  /\ typing' = typing \cup {m}
  /\ resumed' = [resumed EXCEPT ![m] = Store!Get(SessionOf[m])]
  /\ UNCHANGED <<loopVars, flightVars, target, reply, history, lastChannel, storeVars>>

-----------------------------------------------------------------------------
(* Chat messages: the run of the CLI and what follows *)

\* provider.Invoke returns.  It may report a cancelled context only if the
\* context is cancelled; a cancelled run may still succeed or fail otherwise.
\* Typing stops in every case before anything is published.
InvokeReturnsCancelled(m) ==
  /\ m \in cancelled \/ shutdown
  /\ Goto(m, "invoking", "unwinding")
  /\ UNCHANGED reply

InvokeReturnsError(m) ==
  /\ Goto(m, "invoking", "failed")
  /\ UNCHANGED reply

InvokeReturnsText(m) ==
  /\ Goto(m, "invoking", "answered")
  /\ UNCHANGED reply

\* ParseOutput leaves neither text nor files: nothing is published.
InvokeReturnsEmpty(m) ==
  /\ Goto(m, "invoking", "persisting")
  /\ reply' = [reply EXCEPT ![m] = "empty"]

InvokeOutcome(m) ==
  \/ InvokeReturnsCancelled(m)
  \/ InvokeReturnsError(m)
  \/ InvokeReturnsText(m)
  \/ InvokeReturnsEmpty(m)

\* Faulty variant: the session's slot is given up as soon as the run is over.
InvokeReturnsSlotFreed(m) ==
  /\ InvokeOutcome(m)
  /\ typing' = typing \ {m}
  /\ inFlight' = inFlight \ {SessionOf[m]}
  /\ UNCHANGED <<loopVars, cancelFlights, cancelled, target, resumed, history,
                 lastChannel, storeVars>>

InvokeReturns(m) ==
  /\ InvokeOutcome(m)
  /\ typing' = typing \ {m}
  /\ UNCHANGED <<loopVars, flightVars, target, resumed, history, lastChannel, storeVars>>

\* Faulty variant: the error is logged and the user hears nothing.
ReplyErrorLogged(m) ==
  /\ Goto(m, "failed", "unwinding")
  /\ UNCHANGED <<loopVars, flightVars, target, resumed, typing, reply, history,
                 lastChannel, storeVars>>

ReplyError(m) ==
  /\ Goto(m, "failed", "unwinding")
  /\ Publish(m, "error")
  /\ UNCHANGED <<loopVars, flightVars, target, resumed, typing, history,
                 lastChannel, storeVars>>

ReplyText(m) ==
  /\ Goto(m, "answered", "recordingUser")
  /\ Publish(m, "text")
  /\ UNCHANGED <<loopVars, flightVars, target, resumed, typing, history,
                 lastChannel, storeVars>>

\* AppendHistory: one write per line, best effort.  Nothing is recorded when the
\* file cannot be opened or when the reply consists of files only.
RecordUser(m) ==
  /\ \/ /\ Goto(m, "recordingUser", "recordingAssistant")
        /\ history' = Append(history, <<m, "user">>)
     \/ Goto(m, "recordingUser", "persisting") /\ UNCHANGED history
  /\ UNCHANGED <<loopVars, flightVars, target, resumed, typing, reply, lastChannel, storeVars>>

RecordAssistant(m) ==
  /\ Goto(m, "recordingAssistant", "persisting")
  /\ history' \in {history, Append(history, <<m, "assistant">>)}
  /\ UNCHANGED <<loopVars, flightVars, target, resumed, typing, reply, lastChannel, storeVars>>

\* sessions.Set with the id of a new CLI session or of the resumed one; a
\* result without an id leaves the store alone.
SetSession(m) ==
  /\ \/ /\ Goto(m, "persisting", "copying")
        /\ \E id \in {m, resumed[m]} \ {NoId} : Store!Set(m, SessionOf[m], id)
     \/ Goto(m, "persisting", "noting") /\ UNCHANGED storeVars
  /\ UNCHANGED <<loopVars, flightVars, target, resumed, typing, reply, history, lastChannel>>

\* sessions.Save, for a chat message and for /clear
SaveCopy(m) ==
  /\ Goto(m, "copying", "writing")
  /\ Store!SaveCopy(m)
  /\ UNCHANGED <<loopVars, flightVars, target, resumed, typing, reply, history, lastChannel>>

\* Faulty variant: the file gets the map of the moment of writing, unlocked.
SaveWriteUnlocked(m) ==
  /\ Goto(m, "writing", IF kind[m] = "chat" THEN "noting" ELSE "cleared")
  /\ disk' = mem
  /\ snap' = [snap EXCEPT ![m] = NoSave]
  /\ UNCHANGED <<loopVars, flightVars, target, resumed, typing, reply, history,
                 lastChannel, mem, dirty>>

SaveWrite(m) ==
  /\ \/ /\ Goto(m, "writing", IF kind[m] = "chat" THEN "noting" ELSE "cleared")
        /\ Store!SaveWrite(m)
     \/ /\ Goto(m, "writing", IF kind[m] = "chat" THEN "noting" ELSE "clearFailed")
        /\ Store!SaveFail(m)
  /\ UNCHANGED <<loopVars, flightVars, target, resumed, typing, reply, history, lastChannel>>

\* stateManager.SetLastChannel
NoteLastChannel(m) ==
  /\ Goto(m, "noting", "unwinding")
  /\ lastChannel' = SessionOf[m]
  /\ UNCHANGED <<loopVars, flightVars, target, resumed, typing, reply, history, storeVars>>

\* Faulty variant: the deferred calls in the opposite order.
UnwindSlotFirst(m) ==
  /\ \/ /\ Goto(m, "unwinding", "releasing")
        /\ inFlight' = inFlight \ {SessionOf[m]}
        /\ UNCHANGED cancelFlights
     \/ /\ Goto(m, "releasing", "done")
        /\ cancelFlights' = [cancelFlights EXCEPT ![SessionOf[m]] = NoHandler]
        /\ UNCHANGED inFlight
  /\ UNCHANGED <<loopVars, cancelled, target, resumed, typing, reply, history,
                 lastChannel, storeVars>>

\* Faulty variant: inFlight.Delete is not deferred and an early return skips it.
UnwindSlotKept(m) ==
  /\ \/ /\ Goto(m, "unwinding", "releasing")
        /\ cancelFlights' = [cancelFlights EXCEPT ![SessionOf[m]] = NoHandler]
     \/ Goto(m, "releasing", "done") /\ UNCHANGED cancelFlights
  /\ UNCHANGED <<loopVars, inFlight, cancelled, target, resumed, typing, reply,
                 history, lastChannel, storeVars>>

\* The deferred calls, last registered first: cancelFlights.Delete (with
\* invokeCancel), then inFlight.Delete.  Typing is already off.
Unwind(m) ==
  /\ \/ /\ Goto(m, "unwinding", "releasing")
        /\ cancelFlights' = [cancelFlights EXCEPT ![SessionOf[m]] = NoHandler]
        /\ UNCHANGED inFlight
     \/ /\ Goto(m, "releasing", "done")
        /\ inFlight' = inFlight \ {SessionOf[m]}
        /\ UNCHANGED cancelFlights
  /\ UNCHANGED <<loopVars, cancelled, target, resumed, typing, reply, history,
                 lastChannel, storeVars>>

-----------------------------------------------------------------------------
(* Commands run before the in-flight test. *)

\* Faulty variant: the result of Load is used without its ok.
StopLoadUnchecked(m) ==
  /\ kind[m] = "stop"
  /\ Goto(m, "spawned", "cancelling")
  /\ target' = [target EXCEPT ![m] = cancelFlights[SessionOf[m]]]
  /\ UNCHANGED <<loopVars, flightVars, resumed, typing, reply, history,
                 lastChannel, storeVars>>

\* Faulty variant: a command waits for the session's run like a chat message
\* that is queued behind it.
StopLoadSerialized(m) ==
  /\ SessionOf[m] \notin inFlight
  /\ kind[m] = "stop"
  /\ Goto(m, "spawned", "nothing")
  /\ UNCHANGED <<loopVars, flightVars, target, resumed, typing, reply, history,
                 lastChannel, storeVars>>

\* CancelSession: cancelFlights.Load
StopLoad(m) ==
  LET holder == cancelFlights[SessionOf[m]] IN
  /\ kind[m] = "stop"
  /\ Goto(m, "spawned", IF holder = NoHandler THEN "nothing" ELSE "cancelling")
  /\ target' = [target EXCEPT ![m] = holder]
  /\ UNCHANGED <<loopVars, flightVars, resumed, typing, reply, history,
                 lastChannel, storeVars>>

\* Calling the loaded cancel function, which may by now belong to a handler
\* that is done.
StopCancel(m) ==
  /\ Goto(m, "cancelling", "stopped")
  /\ cancelled' = cancelled \cup {target[m]}
  /\ UNCHANGED <<loopVars, inFlight, cancelFlights, target, resumed, typing, reply,
                 history, lastChannel, storeVars>>

\* ClearHistory: sessions.Delete; the Save follows as SaveCopy and SaveWrite.
ClearSession(m) ==
  /\ kind[m] = "clear"
  /\ Goto(m, "spawned", "copying")
  /\ Store!Delete(m, SessionOf[m])
  /\ UNCHANGED <<loopVars, flightVars, target, resumed, typing, reply, history, lastChannel>>

ReplyCommand(m) ==
  /\ pc[m] \in {"stopped", "nothing", "cleared", "clearFailed"}
  /\ Publish(m, pc[m])
  /\ pc' = [pc EXCEPT ![m] = "done"]
  /\ UNCHANGED <<loopVars, flightVars, target, resumed, typing, history,
                 lastChannel, storeVars>>

-----------------------------------------------------------------------------
\* Every step of the handler of m that does not wait for the CLI.
HandlerStep(m) ==
  \/ Admit(m) \/ ReplyBusy(m) \/ RegisterCancel(m) \/ StartInvoke(m)
  \/ ReplyError(m) \/ ReplyText(m) \/ RecordUser(m) \/ RecordAssistant(m)
  \/ SetSession(m) \/ SaveCopy(m) \/ SaveWrite(m) \/ NoteLastChannel(m)
  \/ Unwind(m)
  \/ StopLoad(m) \/ StopCancel(m) \/ ClearSession(m) \/ ReplyCommand(m)

Next ==
  \/ \E m \in Messages : Spawn(m) \/ HandlerStep(m) \/ InvokeReturns(m)
  \/ RunReturns
  \/ Shutdown

Spec == Init /\ [][Next]_vars

\* Goroutines run; the CLI need never return on its own, but it is killed when
\* its context is cancelled.
Fairness ==
  \A m \in Messages :
    /\ WF_vars(HandlerStep(m))
    /\ WF_vars((m \in cancelled \/ shutdown) /\ InvokeReturns(m))

FairSpec == Spec /\ Fairness

-----------------------------------------------------------------------------
(* Properties *)

Holds(m) == kind[m] = "chat" /\ pc[m] \in HeldPlaces
Stoppable(m) == kind[m] = "chat" /\ pc[m] \in StoppablePlaces

\* handleMessage, "Dedup in-flight requests per session": of all goroutines that
\* race for a session only one is between the test and its deferred Delete.
OneRunPerSession ==
  \A m, n \in Messages :
    m # n /\ SessionOf[m] = SessionOf[n] => ~(Holds(m) /\ Holds(n))

\* The slot of a session is taken exactly as long as a handler holds it: no exit
\* path of handleMessage leaves a session "still working" for ever.
SlotsHaveOwners ==
  \A s \in Keys : s \in inFlight <=> \E m \in Messages : Holds(m) /\ SessionOf[m] = s

\* While a run can be stopped, the session's entry in cancelFlights is that
\* run's cancel function and nobody else's: the Delete deferred by an earlier
\* handler of the session never removes the entry of a later one, and no entry
\* outlives its handler.
StopReachesTheRun ==
  \A s \in Keys :
    /\ \A m \in Messages : Stoppable(m) /\ SessionOf[m] = s => cancelFlights[s] = m
    /\ cancelFlights[s] # NoHandler
         => Stoppable(cancelFlights[s]) /\ SessionOf[cancelFlights[s]] = s

\* From sessions.Get to sessions.Set of one handler the session's id can only
\* be removed by /clear, never replaced: no conversation is forked by a second
\* handler that stores its own id in between.
OnlyClearMovesTheSession ==
  \A m \in Messages :
    pc[m] \in {"invoking", "answered", "recordingUser", "recordingAssistant"}
      => mem[SessionOf[m]] \in {resumed[m], NoId}

\* "Silently discard context cancellation -- user already received Stopped":
\* a chat message that ends with neither an answer, an error, a busy notice nor
\* an empty CLI result was the target of a /stop, or the program is stopping.
SilentOnlyIfStopped ==
  \A m \in Messages :
    kind[m] = "chat" /\ pc[m] = "done" /\ reply[m] = "none"
      => shutdown \/ \E t \in Messages : target[t] = m /\ pc[t] \in {"stopped", "done"}

\* Each handler uses the session store the way Sessions describes: its change
\* under the lock, then one copy, then one write of that copy.
StoreSpec == Store!Spec

\* A run that /stop has cancelled ends and gives its session back, so the next
\* message of the session is served -- even if the CLI would never return.
StopFreesTheSession ==
  \A m \in Messages :
    m \in cancelled ~>
      /\ pc[m] = "done"
      /\ cancelFlights[SessionOf[m]] # m
      /\ SessionOf[m] \in inFlight
           => \E n \in Messages \ {m} : Holds(n) /\ SessionOf[n] = SessionOf[m]

\* Commands get "an immediate reply": /stop and /clear finish while a run of
\* their session hangs in the CLI for ever.
CommandsAlwaysFinish ==
  \A m \in Messages :
    (kind[m] # "chat" /\ pc[m] = "spawned") ~> (pc[m] = "done" /\ reply[m] # "none")

\* "Chat history cleared!": a run that resumed the session before /clear does
\* not put a session id back that /clear has removed.
ClearedStaysCleared ==
  [][\A m \in Messages :
       SetSession(m) /\ resumed[m] # NoId /\ mem[SessionOf[m]] = NoId
         => mem'[SessionOf[m]] = NoId]_vars
=============================================================================
