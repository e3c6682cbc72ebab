------------------------------- MODULE Typing -------------------------------
(***************************************************************************)
(* The signs that somebody is at work on a chat: the typing loops of the   *)
(* adapters and Slack's reaction, and who is to end them.  Two parties     *)
(* start one per message: BaseChannel.HandleMessage, which gives the stop  *)
(* function to the manager's registry -- one entry per chat --, and the    *)
(* bridge, which keeps its own.  The manager calls the recorded stop       *)
(* before it sends to the chat, its janitor five minutes after it was      *)
(* recorded.  One chat of one platform is modelled (host).                 *)
(*                                                                         *)
(* The gateway shuts down in two steps: it cancels the context of          *)
(* adapters, workers and janitor, then StopAll waits for the workers and   *)
(* stops the adapter.                                                      *)
(***************************************************************************)
CONSTANTS
  Msgs,   \* the messages of the chat
  Hosts,  \* the adapters, by their factory names
  NoSign  \* no loop

VARIABLES
  host,         \* the adapter
  alive,        \* the gateway's context, and so every context below it, is not cancelled
  running,      \* the adapter was not stopped
  on,           \* the signs that are shown: running loops, a reaction
  current,      \* Discord, Matrix: the chat's entry in typingStop or typingSessions
  typingStops,  \* the chat's entry in the manager's registry
  aged,         \* that entry is older than typingStopTTL
  seen,         \* the entry the janitor found too old and is about to remove
  handler,      \* what became of each message
  replies,      \* the chat has a message on its way out
  sending,      \* the worker has passed the limiter and is about to call preSend
  overwritten,  \* signs whose registry entry was replaced by another one
  swept         \* signs whose registry entry the janitor removed for another's age

Signs == Msgs \X {"base", "bridge"}
Base(m) == <<m, "base">>
Bridge(m) == <<m, "bridge">>

ASSUME TypingAssumption == NoSign \notin Signs

loopVars == <<alive, running, on, current>>
registryVars == <<typingStops, aged, overwritten, swept>>
replyVars == <<replies, sending>>
typingVars == <<host, alive, running, on, current, typingStops, aged, seen, handler, replies,
                sending, overwritten, swept>>

TypingTypeOK ==
  /\ host \in Hosts
  /\ {alive, running, aged, replies, sending} \subseteq BOOLEAN
  /\ ~running => ~alive /\ ~sending
  /\ on \subseteq Signs
  /\ {current, typingStops, seen} \subseteq Signs \cup {NoSign}
  /\ aged => typingStops # NoSign
  /\ handler \in [Msgs -> {"new", "started", "unrecorded", "published", "handling", "done"}]
  /\ overwritten \cup swept \subseteq Signs

TypingInit ==
  /\ host \in Hosts
  /\ alive = TRUE /\ running = TRUE /\ on = {} /\ current = NoSign
  /\ typingStops = NoSign /\ aged = FALSE /\ seen = NoSign
  /\ handler = [m \in Msgs |-> "new"] /\ replies = FALSE /\ sending = FALSE
  /\ overwritten = {} /\ swept = {}

-----------------------------------------------------------------------------
(* StartTyping and its stop function *)

\* A goroutine of its own for each call, ended by its own cancel function.
TelegramStartTyping(s) == host = "telegram" /\ on' = on \cup {s} /\ UNCHANGED current

LineStartTyping(s) == host = "line" /\ on' = on \cup {s} /\ UNCHANGED current

\* One loop per chat: the one before is stopped and replaced.
DiscordStartTyping(s) ==
  host = "discord" /\ on' = (on \ {current}) \cup {s} /\ current' = s

\* The same, but nothing is started once the adapter was stopped.
MatrixStartTyping(s) ==
  /\ host = "matrix"
  /\ IF running THEN on' = (on \ {current}) \cup {s} /\ current' = s ELSE UNCHANGED <<on, current>>

\* A tag is sent, there is no loop.
IrcStartTyping(s) == host = "irc" /\ UNCHANGED <<on, current>>

\* Slack shows a reaction instead, to the message itself.
SlackReactToMessage(s) ==
  host = "slack" /\ s[2] = "base" /\ on' = on \cup {s} /\ UNCHANGED current

StartTyping(s) ==
  /\ \/ TelegramStartTyping(s) \/ LineStartTyping(s) \/ DiscordStartTyping(s)
     \/ MatrixStartTyping(s) \/ IrcStartTyping(s) \/ SlackReactToMessage(s)
  /\ UNCHANGED <<alive, running>>

\* Discord: whatever loop the chat has now is stopped.
DiscordStopTyping == on' = on \ {current} /\ current' = NoSign

\* Matrix: the session is stopped and leaves the table if it is still there.
MatrixStopTyping(s) ==
  on' = on \ {s} /\ current' = IF current = s THEN NoSign ELSE current

\* A stop function is called; NoSign stands for a function that does nothing.
CallStop(s) ==
  /\ IF s = NoSign THEN UNCHANGED <<on, current>>
     ELSE IF host = "discord" THEN DiscordStopTyping
     ELSE IF host = "matrix" THEN MatrixStopTyping(s)
     ELSE on' = on \ {s} /\ UNCHANGED current
  /\ UNCHANGED <<alive, running>>

\* Every loop but the reaction ends when the adapter's context does.
LoopDone(s) ==
  /\ s \in on /\ ~alive /\ host # "slack"
  /\ on' = on \ {s}
  /\ UNCHANGED <<host, alive, running, current, seen, handler, replyVars>> /\ UNCHANGED registryVars

\* Discord's loop gives up after five minutes and leaves its entry behind.
DiscordLoopTimeout(s) ==
  /\ s \in on /\ host = "discord"
  /\ on' = on \ {s}
  /\ UNCHANGED <<host, alive, running, current, seen, handler, replyVars>> /\ UNCHANGED registryVars

\* The gateway shuts down, with a worker possibly in the middle of a message.
ContextCancelled ==
  /\ alive /\ alive' = FALSE
  /\ UNCHANGED <<host, running, on, current, seen, handler, replyVars>> /\ UNCHANGED registryVars

\* Stop of the adapter, when the workers are done: Discord and Matrix also end the
\* loops of their tables.
StopAdapter ==
  /\ ~alive /\ ~sending
  /\ running /\ running' = FALSE
  /\ on' = on \ {current} /\ current' = NoSign
  /\ UNCHANGED <<host, alive, seen, handler, replyVars>> /\ UNCHANGED registryVars

-----------------------------------------------------------------------------
(* HandleMessage, the bridge and the manager *)

Move(m, from, to) == handler[m] = from /\ handler' = [handler EXCEPT ![m] = to]

\* A start that fails (LINE's API, a malformed chat id) records nothing.
\* Matrix, IRC and Slack handle one event after another.
BaseStart(m) ==
  /\ host \in {"matrix", "irc", "slack"} => \A n \in Msgs : handler[n] # "started"
  /\ \/ Move(m, "new", "started") /\ StartTyping(Base(m))
     \/ host = "line" /\ Move(m, "new", "unrecorded") /\ UNCHANGED loopVars
  /\ UNCHANGED <<host, seen, replyVars>> /\ UNCHANGED registryVars

\* RecordTypingStop: the entry of an earlier message is replaced.
RecordTypingStop(m) ==
  /\ Move(m, "started", "published")
  /\ typingStops' = Base(m) /\ aged' = FALSE
  /\ overwritten' = IF typingStops = NoSign THEN overwritten ELSE overwritten \cup {typingStops}
  /\ UNCHANGED <<host, seen, replyVars, swept>> /\ UNCHANGED loopVars

PublishUnrecorded(m) ==
  /\ Move(m, "unrecorded", "published")
  /\ UNCHANGED <<host, seen, replyVars>> /\ UNCHANGED loopVars /\ UNCHANGED registryVars

\* The bridge runs one invocation per chat and starts a sign of its own.
BridgeStart(m) ==
  /\ \A n \in Msgs : handler[n] # "handling"
  /\ Move(m, "published", "handling")
  /\ IF host = "slack" THEN UNCHANGED loopVars ELSE StartTyping(Bridge(m))
  /\ UNCHANGED <<host, seen, replyVars>> /\ UNCHANGED registryVars

\* A command, or a message that finds the chat busy, is answered at once.
BridgeBusy(m) ==
  /\ Move(m, "published", "done") /\ replies' = TRUE
  /\ UNCHANGED <<host, seen, sending>> /\ UNCHANGED loopVars /\ UNCHANGED registryVars

\* Faulty variant: a return before the deferred stop.
BridgeFinishEarly(m) ==
  /\ Move(m, "handling", "done")
  /\ replies' \in {replies, TRUE}
  /\ UNCHANGED <<host, seen, sending>> /\ UNCHANGED loopVars /\ UNCHANGED registryVars

\* The invocation is over; an invocation that /stop ended says nothing.
BridgeFinish(m) ==
  /\ Move(m, "handling", "done")
  /\ IF host = "slack" THEN UNCHANGED loopVars ELSE CallStop(Bridge(m))
  /\ replies' \in {replies, TRUE}
  /\ UNCHANGED <<host, seen, sending>> /\ UNCHANGED registryVars

\* The limiter lets the chat's message pass; on a cancelled context it returns an
\* error and the message is given up before preSend.
TakeReply ==
  /\ alive
  /\ replies /\ replies' = FALSE
  /\ ~sending /\ sending' = TRUE
  /\ UNCHANGED <<host, seen, handler>> /\ UNCHANGED loopVars /\ UNCHANGED registryVars

\* preSend: the recorded stop is taken out and called before a message is sent.
PreSend ==
  /\ sending /\ sending' = FALSE
  /\ CallStop(typingStops)
  /\ typingStops' = NoSign /\ aged' = FALSE
  /\ UNCHANGED <<host, seen, handler, replies, overwritten, swept>>

Age ==
  /\ typingStops # NoSign /\ ~aged /\ aged' = TRUE
  /\ UNCHANGED <<host, typingStops, seen, handler, replyVars, overwritten, swept>>
  /\ UNCHANGED loopVars

\* The janitor, which ends with the context, finds an old entry ...
JanitorSees ==
  /\ alive
  /\ aged /\ seen = NoSign /\ seen' = typingStops
  /\ UNCHANGED <<host, handler, replyVars>> /\ UNCHANGED loopVars /\ UNCHANGED registryVars

\* ... then removes whatever entry the chat has, and calls the stop it found.  Nobody
\* waits for a janitor that is here when the context is cancelled.
JanitorRemoves ==
  /\ seen # NoSign /\ seen' = NoSign
  /\ IF typingStops = NoSign THEN UNCHANGED loopVars ELSE CallStop(seen)
  /\ typingStops' = NoSign /\ aged' = FALSE
  /\ swept' = IF typingStops \in {seen, NoSign} THEN swept ELSE swept \cup {typingStops}
  /\ UNCHANGED <<host, handler, replyVars, overwritten>>

Finishing(m) == RecordTypingStop(m) \/ PublishUnrecorded(m) \/ BridgeFinish(m)
Beginning(m) == BridgeStart(m) \/ BridgeBusy(m)
LoopEnds == \E s \in Signs : LoopDone(s) \/ DiscordLoopTimeout(s)
Janitor == Age \/ JanitorSees \/ JanitorRemoves
Worker == TakeReply \/ PreSend

TypingNext ==
  \/ \E m \in Msgs : BaseStart(m) \/ Finishing(m) \/ Beginning(m)
  \/ LoopEnds \/ Worker \/ Janitor \/ ContextCancelled \/ StopAdapter

\* A loop sees its channels or its timer, what a handler or a worker has begun it
\* ends.  The bridge takes up messages, the worker replies and the janitor entries
\* only while the context is not cancelled.  That messages arrive, and that the
\* gateway shuts down, is left open.
TypingFairness ==
  /\ WF_typingVars(LoopEnds) /\ WF_typingVars(PreSend)
  /\ WF_typingVars(TakeReply) /\ WF_typingVars(alive /\ Janitor)
  /\ \A m \in Msgs : WF_typingVars(Finishing(m)) /\ WF_typingVars(alive /\ Beginning(m))

TypingSpec == TypingInit /\ [][TypingNext]_typingVars /\ TypingFairness

-----------------------------------------------------------------------------
(* Properties *)

\* Only a message that is sent, or the janitor, takes a reaction of Slack back: what
\* the shutdown finds stays.
LeftAtShutdown == host = "slack" /\ ~alive

\* The sign's stop function was lost from the registry, on a platform where nothing
\* else ends it.
StopLost(s) == host # "discord" /\ (s \in swept \/ (host # "matrix" /\ s \in overwritten))

\* A sign that was started is taken down again: by the reply, by the bridge, by
\* the janitor when there is no reply, or with the adapter's context.  Excepted are
\* the signs whose stop was lost and the reactions that are on at shutdown.
Orphaned(s) == StopLost(s) \/ LeftAtShutdown
SignsEnd == \A s \in Signs : s \in on ~> s \notin on \/ Orphaned(s)
=============================================================================
