------------------------------ MODULE Heartbeat ------------------------------
(***************************************************************************)
(* The heartbeat (pkg/heartbeat/service.go) and the last-channel state it  *)
(* answers to (pkg/state/state.go).  The gateway makes two state managers  *)
(* over one file: the bridge sets the last channel of its own after every  *)
(* exchange, the heartbeat service reads the other one.  A beat may take   *)
(* longer than the interval of a beat: the first one comes from a timer,   *)
(* the others from the ticker's goroutine.  The process may crash, and it  *)
(* starts again from the file.                                             *)
(***************************************************************************)
CONSTANTS
  Chats,     \* values of LastChannel, as "platform:chatID"
  Internal,  \* the chats of internal platforms
  NoChat,    \* no last channel
  Handlers   \* the bridge's handlers that set the last channel

ASSUME HeartbeatAssumption == NoChat \notin Chats

VARIABLES
  program,    \* the gateway: "down", "up", "closing" (the bus is closed), or "stopped"
  stateFile,  \* the chat in state/state.json, NoChat when there is no such file
  oldFile,    \* the chat in state.json of an earlier version
  last,       \* LastChannel in the bridge's manager
  beatLast,   \* LastChannel in the heartbeat's manager
  exchange,   \* the chat each handler has answered and not yet set
  setting,    \* the handler that holds the lock of the bridge's manager
  beat,       \* the first beat and the ticker's: "timer" (the first is due), "none", "invoking", "answered"
  told,       \* history: the chat of the last SetLastChannel that succeeded
  startup,    \* history: what told was when the program started
  sent        \* history: the latest beat that was published

heartbeatVars == <<program, stateFile, oldFile, last, beatLast, exchange, setting, beat,
                   told, startup, sent>>
beatVars == <<beatLast, beat, startup, sent>>
stateVars == <<stateFile, oldFile, last, exchange, setting, told>>

Beats == {"first", "tick"}
Values == Chats \cup {NoChat}
Unsent == [to |-> NoChat, startup |-> NoChat, last |-> NoChat]

HeartbeatTypeOK ==
  /\ program \in {"down", "up", "closing", "stopped"}
  /\ {stateFile, oldFile, last, beatLast, told, startup} \subseteq Values
  /\ exchange \in [Handlers -> Values]
  /\ setting \subseteq Handlers
  /\ beat \in [Beats -> {"timer", "none", "invoking", "answered"}]
  /\ sent \in [to : Values, startup : Values, last : Values]

HeartbeatInit ==
  /\ program = "down"
  /\ stateFile \in Values /\ oldFile \in Values
  /\ last = NoChat /\ beatLast = NoChat
  /\ exchange = [h \in Handlers |-> NoChat] /\ setting = {}
  /\ beat = [b \in Beats |-> "none"]
  /\ told = (IF stateFile = NoChat THEN oldFile ELSE stateFile)
  /\ startup = NoChat /\ sent = Unsent

-----------------------------------------------------------------------------
(* The state managers *)

\* Faulty variant: the file of the earlier version is preferred.
NewManagerOldFirst(value) ==
  /\ value = IF oldFile # NoChat THEN oldFile ELSE stateFile
  /\ UNCHANGED stateFile

\* The value is loaded, or migrated from the old place; the save may fail.
NewManager(value) ==
  /\ value = IF stateFile # NoChat THEN stateFile ELSE oldFile
  /\ stateFile' \in {stateFile, value}

\* gatewayCmd makes both managers before anything else runs; a file that cannot
\* be read leaves a manager without a value.
Start ==
  /\ program = "down" /\ program' = "up"
  /\ \E value \in Values :
       NewManager(value) /\ last' \in {value, NoChat} /\ beatLast' \in {value, NoChat}
  /\ startup' = told
  /\ beat' = [beat EXCEPT !["first"] = "timer"]
  /\ UNCHANGED <<oldFile, exchange, setting, told, sent>>

\* A handler of the bridge ends its exchange with a chat.
Answer(h, c) ==
  /\ program \in {"up", "closing", "stopped"} /\ exchange[h] = NoChat
  /\ exchange' = [exchange EXCEPT ![h] = c]
  /\ UNCHANGED <<program, stateFile, oldFile, last, setting, told>> /\ UNCHANGED beatVars

\* SetLastChannel, under the manager's lock ...
SetLastChannel(h) ==
  /\ exchange[h] # NoChat /\ setting = {}
  /\ setting' = {h} /\ last' = exchange[h]
  /\ UNCHANGED <<program, stateFile, oldFile, exchange, told>> /\ UNCHANGED beatVars

\* ... which it keeps until saveAtomic has replaced the file or failed.
SaveAtomic(h) ==
  /\ h \in setting /\ setting' = {}
  /\ \/ stateFile' = last /\ told' = exchange[h]
     \/ UNCHANGED <<stateFile, told>>
  /\ exchange' = [exchange EXCEPT ![h] = NoChat]
  /\ UNCHANGED <<program, oldFile, last>> /\ UNCHANGED beatVars

-----------------------------------------------------------------------------
(* The heartbeat service *)

\* executeHeartbeat: nothing is done after Stop; an empty HEARTBEAT.md ends it.
ExecuteHeartbeat(b) ==
  /\ beat[b] = IF b = "first" THEN "timer" ELSE "none"
  /\ program # "down"
  /\ \/ program \in {"up", "closing"} /\ beat' = [beat EXCEPT ![b] = "invoking"]
     \/ b = "first" /\ beat' = [beat EXCEPT ![b] = "none"]
  /\ UNCHANGED <<program, beatLast, startup, sent>> /\ UNCHANGED stateVars

\* The AI says something, or HEARTBEAT_OK, or the call fails.
HandlerReturns(b) ==
  /\ beat[b] = "invoking"
  /\ \E r \in {"answered", "none"} : beat' = [beat EXCEPT ![b] = r]
  /\ UNCHANGED <<program, beatLast, startup, sent>> /\ UNCHANGED stateVars

\* sendResponse: to the last channel its own manager knows, if it has one that
\* is not internal; a bus that is closed or stays full loses the message.
SendResponse(b) ==
  /\ beat[b] = "answered" /\ beat' = [beat EXCEPT ![b] = "none"]
  /\ \/ /\ beatLast \in Chats \ Internal /\ program = "up"
        /\ sent' = [to |-> beatLast, startup |-> startup, last |-> last]
     \/ UNCHANGED sent
  /\ UNCHANGED <<program, beatLast, startup>> /\ UNCHANGED stateVars

\* The shutdown: the bus is closed, then the service is stopped.
Close ==
  /\ program = "up" /\ program' = "closing"
  /\ UNCHANGED beatVars /\ UNCHANGED stateVars

Stop ==
  /\ program = "closing" /\ program' = "stopped"
  /\ UNCHANGED beatVars /\ UNCHANGED stateVars

\* The process ends, by itself or by a crash.
Exit ==
  /\ program # "down" /\ program' = "down"
  /\ last' = NoChat /\ beatLast' = NoChat /\ startup' = NoChat /\ sent' = Unsent
  /\ exchange' = [h \in Handlers |-> NoChat] /\ setting' = {}
  /\ beat' = [b \in Beats |-> "none"]
  /\ UNCHANGED <<stateFile, oldFile, told>>

HeartbeatNext ==
  \/ Start \/ Close \/ Stop \/ Exit
  \/ \E h \in Handlers : SetLastChannel(h) \/ SaveAtomic(h) \/ \E c \in Chats : Answer(h, c)
  \/ \E b \in Beats : ExecuteHeartbeat(b) \/ HandlerReturns(b) \/ SendResponse(b)

HeartbeatSpec == HeartbeatInit /\ [][HeartbeatNext]_heartbeatVars

-----------------------------------------------------------------------------
(* Properties *)

\* A heartbeat goes to the chat whose exchange was the last to be recorded before
\* the program started, whatever crashes, failed saves, concurrent handlers and
\* the migration of an old file did to the state in between.
BeatsGoToStartupChannel == sent # Unsent => sent.to = sent.startup

\* "sendResponse sends the heartbeat response to the last channel": to the last
\* channel that was used.
BeatsGoToLastChannel == sent # Unsent /\ sent.last \notin Internal => sent.to = sent.last
=============================================================================
