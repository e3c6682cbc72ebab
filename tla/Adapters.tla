------------------------------ MODULE Adapters ------------------------------
(***************************************************************************)
(* The life of the channel adapters but whatsapp_native (which has a       *)
(* module of its own): Start, the goroutines it leaves behind, and Stop.   *)
(* Start may fail after it has begun, and StopAll then calls Stop all the  *)
(* same.  What ends a goroutine differs: the adapter's context, which is   *)
(* derived from the gateway's, or only a call of Stop.  The goroutines of  *)
(* the client libraries are external; one adapter at a time is modelled.   *)
(***************************************************************************)
EXTENDS Naturals

CONSTANTS
  Names,     \* the adapters, by their factory names
  ReadLimit  \* gorilla/websocket panics at this many reads on a failed connection

VARIABLES
  name,     \* the adapter
  life,     \* "new", "running", "failed", "stopping" or "stopped"
  gateway,  \* the gateway's context is not cancelled
  ctx,      \* the adapter's own: "none", "open" or "cancelled"
  session,  \* the connection: "none", "open", "lost" or "closed"
  serving,  \* LINE: the shared HTTP server accepts webhook calls
  task,     \* where each goroutine is: "none" until it starts, "ended", or its place
  reads,    \* WhatsApp: failed reads on the connection
  panicked  \* a goroutine's panic ended the process

ASSUME AdaptersAssumption == ReadLimit \in Nat \ {0}

adapterVars == <<name, life, gateway, ctx, session, serving, task, reads, panicked>>

Tasks == {"updates", "handler", "register", "events", "eventLoop", "socket", "sync",
          "janitor", "loop", "listen"}
Places == {"none", "waiting", "working", "calling", "reading", "ended"}

AdaptersTypeOK ==
  /\ name \in Names
  /\ life \in {"new", "running", "failed", "stopping", "stopped"}
  /\ {gateway, serving, panicked} \subseteq BOOLEAN
  /\ ctx \in {"none", "open", "cancelled"}
  /\ session \in {"none", "open", "lost", "closed"}
  /\ task \in [Tasks -> Places]
  /\ reads \in 0 .. ReadLimit

AdaptersInit ==
  /\ name \in Names
  /\ life = "new" /\ gateway = TRUE /\ ctx = "none" /\ session = "none"
  /\ serving = FALSE
  /\ task = [t \in Tasks |-> "none"]
  /\ reads = 0 /\ panicked = FALSE

Done == ctx = "cancelled" \/ ~gateway

-----------------------------------------------------------------------------
(* Start *)

Launch(ts, place) == task' = [t \in Tasks |-> IF t \in ts THEN place ELSE task[t]]

Starts(n, s, ts) ==
  /\ name = n /\ life = "new" /\ life' = "running"
  /\ ctx' = "open" /\ session' = s
  /\ Launch(ts, "waiting")
  /\ serving' = (n = "line")
  /\ UNCHANGED <<name, gateway, reads, panicked>>

\* A Start that fails cancels its context, or leaves it open.
Fails(n, c, ts) ==
  /\ name = n /\ life = "new" /\ life' = "failed"
  /\ ctx' = c
  /\ Launch(ts, "waiting")
  /\ UNCHANGED <<name, gateway, session, serving, reads, panicked>>

\* Long polling may have begun when the bot handler cannot be made.
TelegramStart ==
  \/ Starts("telegram", "none", {"updates", "handler", "register"})
  \/ \E ts \in {{}, {"updates"}} : Fails("telegram", "cancelled", ts)

DiscordStart ==
  Starts("discord", "open", {"socket", "events"}) \/ Fails("discord", "open", {})

SlackStart ==
  Starts("slack", "none", {"eventLoop", "socket"}) \/ Fails("slack", "open", {})

MatrixStart == Starts("matrix", "none", {"sync", "janitor"})

\* A bot profile that cannot be fetched is only logged.
LineStart == Starts("line", "none", {})

IrcStart == Starts("irc", "open", {"loop"}) \/ Fails("irc", "open", {})

WhatsAppStart == Starts("whatsapp", "open", {"listen"}) \/ Fails("whatsapp", "cancelled", {})

AdapterStart ==
  \/ TelegramStart \/ DiscordStart \/ SlackStart \/ MatrixStart
  \/ LineStart \/ IrcStart \/ WhatsAppStart

-----------------------------------------------------------------------------
(* The goroutines *)

Goes(t, from, to) ==
  /\ task[t] = from /\ task' = [task EXCEPT ![t] = to]
  /\ UNCHANGED <<name, life, gateway, ctx, session, serving, reads, panicked>>

\* The goroutines that end with the context.
BoundToContext == {"updates", "eventLoop", "sync", "janitor"} \cup (IF name = "slack" THEN {"socket"} ELSE {})

ContextEnds(t) == t \in BoundToContext /\ Done /\ Goes(t, "waiting", "ended")

\* Slack's loop handles an event of the socket and selects again.
EventLoop ==
  \/ task["socket"] # "ended" /\ Goes("eventLoop", "waiting", "working")
  \/ Goes("eventLoop", "working", "waiting")

\* A client library gives up on an error: it is logged, and IsRunning stays true.
GivesUp == ~Done /\ (Goes("sync", "waiting", "ended") \/ Goes("handler", "waiting", "ended")
                      \/ (name = "slack" /\ Goes("socket", "waiting", "ended")))

\* th.BotHandler ends with the updates, or when Stop ends it.
BotHandlerEnds ==
  (task["updates"] = "ended" \/ life = "stopped") /\ Goes("handler", "waiting", "ended")

\* startCommandRegistration: tried until it succeeds or the context ends.
CommandRegistration ==
  \/ Goes("register", "waiting", "calling") \/ Goes("register", "calling", "ended")
  \/ Goes("register", "calling", "working") \/ Goes("register", "working", "calling")

RegistrationCancelled == Done /\ Goes("register", "working", "ended")

\* The IRC and Discord libraries reconnect until they are told to close.
SessionEnds ==
  session = "closed" /\ (Goes("loop", "waiting", "ended") \/ Goes("socket", "waiting", "ended"))

\* discordgo runs the handler of an event in a goroutine, which Close does not wait for.
DiscordEvent ==
  /\ name = "discord"
  /\ \/ session = "open" /\ Goes("events", "waiting", "working")
     \/ Goes("events", "working", "waiting")
     \/ session = "closed" /\ Goes("events", "waiting", "ended")

\* webhookHandler answers 200 and handles the events in goroutines.
WebhookHandler == serving /\ (Goes("events", "none", "working") \/ Goes("events", "ended", "working"))

ProcessEvent == name = "line" /\ Goes("events", "working", "ended")

\* The bridge of WhatsApp goes away, and nothing dials again.
SessionLost ==
  /\ name = "whatsapp" /\ session = "open" /\ session' = "lost"
  /\ UNCHANGED <<name, life, gateway, ctx, serving, task, reads, panicked>>

\* listen: the context is only looked at between two reads, a read ends with a
\* message or an error, and each error is followed by a pause.
Listen ==
  \/ Done /\ Goes("listen", "waiting", "ended")
  \/ ~Done /\ Goes("listen", "waiting", "calling")
  \/ session # "closed" /\ Goes("listen", "calling", "reading")
  \/ session = "closed" /\ Goes("listen", "calling", "working")
  \/ Goes("listen", "working", "waiting")

ListenMessage == session = "open" /\ Goes("listen", "reading", "waiting")

ListenError ==
  /\ session # "open" /\ reads + 1 < ReadLimit /\ reads' = reads + 1
  /\ task["listen"] = "reading" /\ task' = [task EXCEPT !["listen"] = "working"]
  /\ UNCHANGED <<name, life, gateway, ctx, session, serving, panicked>>

ListenPanics ==
  /\ session # "open" /\ reads + 1 = ReadLimit /\ reads' = ReadLimit
  /\ task["listen"] = "reading" /\ panicked' = TRUE
  /\ task' = [t \in Tasks |-> "ended"]
  /\ UNCHANGED <<name, life, gateway, ctx, session, serving>>

-----------------------------------------------------------------------------
(* The gateway's shutdown, and Stop *)

Alive == UNCHANGED <<name, task, reads, panicked>> /\ ~panicked

GatewayCancels ==
  /\ gateway /\ gateway' = FALSE
  /\ UNCHANGED <<life, ctx, session, serving>> /\ Alive

\* StopAll shuts the HTTP server down first; an adapter that failed is stopped too.
StopAll ==
  /\ ~gateway /\ life \in {"running", "failed"} /\ life' = "stopping"
  /\ serving' = FALSE
  /\ UNCHANGED <<gateway, ctx, session>> /\ Alive

Stops(ns, s) ==
  /\ name \in ns /\ life = "stopping" /\ life' = "stopped"
  /\ ctx' = "cancelled" /\ session' = s
  /\ UNCHANGED <<gateway, serving>> /\ Alive

\* The bot handler is stopped, the context and the registration are cancelled.
TelegramStop == Stops({"telegram"}, "none")

DiscordStop == Stops({"discord"}, "closed")

SlackStop == Stops({"slack"}, "none")

MatrixStop == Stops({"matrix"}, "none")

LineStop == Stops({"line"}, "none")

\* Quit, if there is a connection.
IrcStop == Stops({"irc"}, IF session = "none" THEN "none" ELSE "closed")

\* Faulty variant: the context is cancelled and the connection left open.
WhatsAppStopCancelOnly == Stops({"whatsapp"}, session)

WhatsAppStop == Stops({"whatsapp"}, IF session = "none" THEN "none" ELSE "closed")

AdapterStop ==
  \/ TelegramStop \/ DiscordStop \/ SlackStop \/ MatrixStop
  \/ LineStop \/ IrcStop \/ WhatsAppStop

Progress ==
  \/ EventLoop \/ GivesUp \/ BotHandlerEnds \/ SessionEnds \/ DiscordEvent \/ ProcessEvent
  \/ CommandRegistration \/ Listen \/ ListenError \/ ListenPanics

AdaptersNext ==
  \/ AdapterStart \/ AdapterStop \/ StopAll \/ GatewayCancels
  \/ \E t \in Tasks : ContextEnds(t)
  \/ Progress \/ RegistrationCancelled \/ WebhookHandler \/ SessionLost \/ ListenMessage

\* Goroutines run, and a select whose context is cancelled takes it at last.
AdaptersFairness ==
  /\ WF_adapterVars(Progress) /\ WF_adapterVars(\E t \in Tasks : ContextEnds(t))
  /\ SF_adapterVars(RegistrationCancelled)

AdaptersSpec == AdaptersInit /\ [][AdaptersNext]_adapterVars /\ AdaptersFairness

-----------------------------------------------------------------------------
(* Properties *)

\* Every goroutine of an adapter ends after Stop, whichever step of Start failed
\* and whatever it was doing: waiting for an event, in the pause before the next
\* try to register commands, or blocked in a read that no context ends.
ReceiversEnd == life = "stopped" ~> \A t \in Tasks : task[t] \in {"none", "ended"}
=============================================================================
