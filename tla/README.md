# A TLA+ model of ectoclaw

ectoclaw connects chat networks (Telegram, Discord, Slack, Matrix, IRC, LINE,
WhatsApp) with a coding-agent command line program (`claude` or `codex`). This
directory holds TLA+ modules of the parts of it that run concurrently, the TLC
configurations that check them on small instances, and proofs of their safety
properties for instances of any size. Paths below are relative to the
repository (`src/` here).

## 1. Inventory

| Component | State | Operations | Interacts with |
|---|---|---|---|
| message bus, `pkg/bus` | two buffered Go channels, closed flag, done channel | PublishInbound/Outbound, ConsumeInbound, SubscribeOutbound, Close | channels publish inbound, the bridge consumes; bridge, cron and heartbeat publish outbound, the channel manager consumes; the gateway closes it |
| bridge loop, `pkg/bridge/loop.go` | `inFlight`, `cancelFlights` (sync.Maps), one goroutine per message | Run, handleMessage, the Runtime functions of /stop and /clear | bus, session store, provider, history file, last-channel state |
| session store, `pkg/bridge/sessions.go` | map under an RWMutex, `sessions.json` | Get, Set, Delete, Clear, Save, Load | bridge; the gateway loads it, and clears it when a bootstrap file exists |
| channel manager, `pkg/channels/manager.go` | channels, one worker with a queue each, typing/reaction registry | StartAll, StopAll, dispatchLoop, runWorker, sendWithRetry, preSend, TTL janitor | bus, channels |
| channels, `pkg/channels/*` (eight adapters over `BaseChannel`) | connection and its goroutines, typing loops, reply tokens, pending reactions, room kinds | Start, Stop, Send, SendMedia, StartTyping, the platform's event handler, HandleMessage | a platform's client library calls the handler; the adapter publishes on the bus; the manager calls Start, Stop, Send and the stop functions of typing |
| providers, `pkg/providers` | per call: subprocess, idle timer, two reader goroutines | Invoke (retry loop around runOnce) | bridge, cron, heartbeat |
| cron service, `pkg/cron` | job list under a mutex, `jobs.json`, a ticking goroutine | Start, Stop, checkJobs, executeJobByID, Add/Remove/Enable/Update | provider, bus; the `ectoclaw cron` commands work on the same file from other processes |
| heartbeat, `pkg/heartbeat` | ticker, its own last-channel state | Start, Stop, executeHeartbeat | provider, bus, last-channel state |
| last-channel state, `pkg/state` | one value under a mutex, `state.json` | SetLastChannel, GetLastChannel | bridge writes, heartbeat reads (another instance) |
| media store, `pkg/media` | references, scopes, files, a cleaning goroutine | Store, ResolveWithMeta, CleanExpired, Start, Stop | adapters store downloads, the bridge stores files of the workspace; the bridge and the adapters resolve references and open the files |
| gateway, `cmd/ectoclaw/internal/gateway` | start and stop order of all of these | gatewayCmd | everything |
| skills, upgrade, onboard, service ... commands | files and HTTP | one-shot operator commands | none at run time |

What is hard in it: goroutines of one session racing through a test and a
registration; `/stop` and `/clear` arriving in the middle of a run; values read
before a run of minutes and written back after it; saves that copy under a lock
and write after it; select statements with several ready cases; deferred calls
whose order matters; a shutdown that overtakes everything; timeouts that race
with answers; subprocesses that hang, die, or refuse to resume.

What makes each component correct, in a sentence: the bus hands each message to
one reader, in order, and lets nobody hang after Close; the bridge runs one CLI
per session, keeps `/stop` pointed at that run, and frees the session whatever
happens; the session file is the session map; the manager keeps order, bounds
retries, loses nothing while it runs and stops in order; a provider call ends,
never resumes what was refused, and returns whole answers; the cron service
forgets no recurring job and runs a one-time job at most once; an adapter
publishes what deserves an answer, in order, and nothing else; its Send reports
as sent what arrived; its goroutines end after Stop; a lost connection comes
back; no sign of typing stays behind; the media store deletes no file in use; the
heartbeat goes to the chat that was recorded last.

## 2. Modules

| Module | Models | Checked by |
|---|---|---|
| `Handoff` | what one direction of the bus promises | refined by `MessageBus`; used as the bus by `ChannelManager` |
| `MessageBus` | `pkg/bus/bus.go` | `MCMessageBus` |
| `MessageBusProofs` | TLAPS proofs about `MessageBus` | tlapm |
| `Sessions`, `SessionsDurability` | `pkg/bridge/sessions.go`, and two history variables that say when the file can be trusted | `MCParts`; refined by `BridgeLoop` and `BridgeDurability` |
| `SessionsDurabilityProofs` | TLAPS proofs about `SessionsDurability` | tlapm |
| `BridgeLoop` | `pkg/bridge/loop.go`, `history.go`, /stop and /clear | `MCBridgeLoop` (two cfgs), `MCBridgeDurability` |
| `BridgeDurability` | the handlers of `BridgeLoop` with the two history variables of `SessionsDurability` | `MCBridgeDurability` |
| `BridgeLoopProofs` | TLAPS proofs about `BridgeLoop` and `BridgeDurability` | tlapm |
| `ChannelManager` | outbound half of `pkg/channels/manager.go` | `MCChannelManager` (two cfgs) |
| `ChannelManagerProofs` | TLAPS proofs about `ChannelManager` | tlapm |
| `CronService` | `pkg/cron/service.go` and the `ectoclaw cron` commands | `MCCronService` (two cfgs) |
| `CronServiceProofs` | TLAPS proofs about `CronService` | tlapm |
| `ProviderRetry` | `retry.go`, `idle.go`, `runOnce` of both providers | `MCProviderRetry` (two cfgs) |
| `ProviderRetryProofs` | TLAPS proofs about `ProviderRetry` | tlapm |
| `Inbound` | the message handlers of the eight adapters, Matrix' room kinds, the decisions of `BaseChannel` | `MCParts` |
| `MediaStore` | `pkg/media/store.go` and its readers | `MCParts` |
| `Typing` | typing loops and Slack's reaction, the manager's registry with preSend and janitor, the bridge's own sign | `MCParts` |
| `Delivery` | Send and SendMedia of the eight adapters, call by call | `MCParts` |
| `AdapterPathProofs` | TLAPS proofs about `Inbound` and `Delivery` | tlapm |
| `WhatsAppNative` | the life of `pkg/channels/whatsapp_native`: Start, Stop, QR goroutine, reconnection | `MCParts` |
| `Adapters` | the life of the other seven adapters: Start, their goroutines, Stop | `MCParts` |
| `Heartbeat` | `pkg/heartbeat/service.go` and `pkg/state/state.go` | `MCParts` (two cfgs) |
| `AllParts` | the session store and the seven modules above that `MCParts` checks, side by side | `MCParts` (two cfgs) |
| `PartsProofs` | TLAPS proofs about `MediaStore`, `Typing`, `WhatsAppNative`, `Adapters`, `Heartbeat` and `AllParts` | tlapm |

`AllParts` is the sum of eight systems that share no state here, and so is its
state space: an initial state names one of the parts (`part`), its variables
move, and those of the others keep one initial value. It extends the parts, so that
their assumptions are evaluated, and is itself proved about; `MCParts` only adds
values for the constants. The bridge, the bus, the manager and the provider, whose
states do interact, have runs of their own.

Operators named "Faulty variant" are plausible mistakes in the code (a dropped
test, a swapped order). No specification uses them; each shows that some
property would notice the mistake.

### MessageBus and Handoff

A publish call is two steps, as in the code: `PublishBegin` is the test of the
closed flag and of the context, `PublishSend`/`PublishGiveUp` the select.
`CloseSwap`, `CloseDone` and `Drain` are the compare-and-swap, the close of the
done channel and the two drain loops. Contexts are cancelled by the environment.
`BothDirectionsHandOff` states that each direction implements `Handoff`.

The code's own comment claims that draining keeps messages from being silently
lost. What holds is `StrandedOnlyIfRacing`: a message left behind after Close
belongs to a publisher that was already past the flag when Close began. It was
told `nil` all the same.

### Sessions, SessionsDurability

`Save` is `SaveCopy` (marshal under the read lock) and `SaveWrite` (atomic
rename after the lock is released) or `SaveFail`. `Load` and `Clear` are the
restart after a crash at any point, without and with a bootstrap file. Two
overlapping saves can leave the older copy in the file;
`DurableWithoutOverlap` says that this is the only way for file and map to
differ at rest: if the save that finished last succeeded and overlapped no other,
the file is the map.

### BridgeLoop

A message is its handler goroutine. `pc` follows `handleMessage` from access to
access of shared state: `Admit` (inFlight.LoadOrStore), `RegisterCancel`
(cancelFlights.Store), `StartInvoke` (typing, sessions.Get, the start of the
run), `InvokeReturns` (four outcomes), the replies, `RecordUser` and
`RecordAssistant` (the two writes of AppendHistory), `SetSession`, `SaveCopy`,
`SaveWrite`, `NoteLastChannel`, and `Unwind` (the two deferred deletes). `/stop`
is `StopLoad` and `StopCancel`, since the cancel function is called after the
map has been read; `/clear` is `ClearSession` and the same save steps. The store
variables are those of `Sessions`, used through INSTANCE; `StoreSpec` says that
the handlers follow its protocol. The provider is any outcome at any time.

`BridgeDurability` adds what `SessionsDurability` adds to `Sessions`: which of the
running Saves overlapped another handler's (`overlapped`), and whether the Save that
finished last can be trusted (`suspect`). Both are functions of the step
(`History`), so no behaviour of the bridge is excluded or added. `DurableStoreSpec`
says that this is an implementation of `SessionsDurability` with messages for
clients, and includes `StoreSpec`; `FileHoldsTheMap` says what a reader of
`sessions.json` may rely on, in terms of where the handlers are.

### ChannelManager

`Subscribe`, `Route`, `Enqueue` (or `AbandonEnqueue`, or the panic
`EnqueueClosed`) are one turn of `dispatchLoop`; `Take`, `Limit`, `Send`,
`Backoff` one of `runWorker` with `sendWithRetry`; `StopBegin` to `StopChannels`
are `StopAll`, with its lock held from first to last. The bus is `Handoff`. A
message is a channel and a number of chunks. `crashed` is the panic of a send on
a closed queue, which the code does not exclude: the dispatcher may be in its
select when `StopAll` closes the queue.

### ProviderRetry

One `Invoke`: the subprocess (`PrintLine`, `CloseOutput`, `Exit`, `Kill`), the
reader with its timer (`Forward`, `IdleFires`, `Drain`, `ReaderEnds`), `runOnce`
(`Start`, `Parse`, `Check`, the four `Wait...` outcomes) and the decision of
`invokeWithRetry` (`RetryIdle`, `RetryExpired`). The provider, claude or codex,
is chosen initially; they differ in how output is parsed and errors are read.
`ScanFails` is the scanner's error: a line that is `TooLong` ends the scan like an
end of file, with the subprocess perhaps still at work. Its exit is as free as
before, so a subprocess that blocks on the unread pipe is among the behaviours.

### CronService

One gateway and any number of `ectoclaw cron` commands share `jobs.json`, without
a lock. `Start` loads the file, computes the next runs of enabled jobs and saves;
`Tick` is `checkJobs`, `Execute` and `Finish` the two halves of `executeJobByID`
around the handler, `Exit` the end of the process at any point. A command is
`ReadFile` and one of `AddJob`, `RemoveJob`, `EnableJob` (also disable) or
`NoChange`. Every save may fail. `next` says of NextRunAtMS only whether it is nil,
ahead or reached; its value in the file is not modelled because nobody acts on it
(`Start` recomputes it, commands print it). Once the process has loaded the file,
nothing but its own executions changes the gateway's list: UpdateJob and the
in-process use of AddJob, RemoveJob and EnableJob have no caller.

### Inbound

The platform's events of one chat arrive in a fixed order (`Receive`); Telegram,
Discord and LINE handle each in a goroutine, the others one after another
(`Serial`). A handler is one action, from its first check to its call of
`HandleMessage` (two for Telegram, whose unlocked write to `chatIDs` lies in
between, `TelegramMapRace`); then it is `held` until `HandleMessage` publishes it
or finds the bus closed. An event is what the checks tell apart: who sent it,
whether it is stale, in a group or not, mentioned, prefixed or plain, whether the
text holds more than that, and its file. The checks are the code's, in the code's
order: own message, stale event, allow-list, `ShouldRespondInGroup`, downloads,
emptiness. `Cleared` says which forms of address are gone when an adapter looks
whether any text is left; LINE looks before the trigger removes a prefix, so a
bare prefix is published there as an empty text. Matrix asks the server whether a
room is a group (`IsGroupRoom`), caches the answer, and reads a failed query as
"direct"; meanwhile members come and go. `misread` remembers the events whose
kind came from a failed query or an entry older than such a change.

`DecisionsAgree` compares all this with one declarative predicate, `Wanted`, that
knows of no order. It also says what is not the same everywhere: Slack does not
count a mention in a message event, because a second event brings it; the
WhatsApp adapters answer everything that is said in a group; Telegram and the
WhatsApp bridge pass on a message without text; Matrix and LINE download before
they look at the sender.

### MediaStore

`StoreStat`/`StoreInsert` are `Store` before and under the lock;
`CleanCollect`/`CleanDelete` the two phases of `CleanExpired`, the second without
the lock; `Resolve`/`PersistInboundFile` a reader, which opens the file some time
after it has looked up the reference. `shared` remembers the paths that were
stored while another reference to them was in use: a file of the workspace that
the AI mentions twice. Only those may vanish under a live reference.

### Typing

One chat of one platform. `BaseStart` and `RecordTypingStop` are what
`HandleMessage` does before it publishes; `BridgeStart` and `BridgeFinish` the
sign the bridge starts of its own and its deferred stop; `PreSend`, `JanitorSees`
and `JanitorRemoves` the registry. `StartTyping` is what each adapter does: a loop
per call (Telegram, LINE), a loop per chat that replaces the last (Discord,
Matrix), a tag (IRC), a reaction (Slack). `overwritten` and `swept` are the stop
functions that were lost: replaced by a later message's, or removed by the
janitor for the age of an earlier one.

The shutdown is `ContextCancelled`, then `StopAdapter`. The gateway's context is
the parent of those of adapters, workers and janitor: once it is cancelled no worker
passes the limiter (`TakeReply`) and no tick of the janitor begins (`JanitorSees`).
`StopAll` waits for the workers, so one that is past the limiter still does its
`PreSend`; it does not wait for the janitor, which may still do the `JanitorRemoves`
it was about to do. Loops end with the context; Slack's reaction knows none.

### Delivery

One outbound message. `Send` of each adapter determines the calls of the
platform's API it is going to make and what each carries; a call arrives, fails,
or arrives and is reported as failed; a call whose file cannot be opened is not
made (`PartSkipped`). After an error the manager calls `Send`
again for all of it. `token` is LINE's reply token, `plain` Telegram's second try
without HTML, `overdue` a Discord post that outlives the timeout of its Send.

### WhatsAppNative

Each critical section of `reconnectMu` is a step; so are `Connect`, the back-off
and the steps of Stop, which hold no lock. `wg` is the WaitGroup as the code
counts it, and `StopIsFinal` compares it with the goroutines that exist. Events
of the library come at any time, also after Stop.

### Adapters

`Starts` and `Fails` are the ways Start can end, with the goroutines each leaves
behind; the goroutines move between waiting, working, a pause and a blocking
read. `BoundToContext` names those that a context ends; the others end only
because Stop closes something, a session, a connection, the bot handler.

### Heartbeat

Two state managers over one file, loaded at `Start` of the program: handlers of
the bridge set the last channel in one of them (`SetLastChannel` and
`SaveAtomic`, under its lock), beats read the other (`SendResponse`). The program
may crash at any point. `told` and `startup` are history variables: the chat
whose exchange was recorded last, and what that was when the program started.

## 3. Runs

| Run | Instance | Result |
|---|---|---|
| `bus` | 3 publishers of 1 message (2 inbound, 1 outbound), a consumer per direction, 2 Close calls, capacity 1; the contexts of one inbound publisher and of the outbound consumer may be cancelled | holds, about 78,000 states |
| `bridge` | 2 sessions with a chat message each, and a message of any kind in the first; the second session is in the file; no shutdown; with the history of Saves | holds, about 2.5 million states |
| `bridge_live` | one new session: a chat message, a /stop, a message of any kind; shutdown at any point | holds, about 240,000 states |
| `clear` | 3 messages of one session | `ClearedStaysCleared` fails |
| `manager` | 2 channels and an internal one, 3 messages, one of them of 2 chunks, queues and bus of 1, one retry; one channel always starts | holds, about 610,000 states |
| `drain` | the same | `QueuesDrainedOnStop` fails |
| `retry` | 2 attempts, 2 lines per subprocess | holds, about 190,000 states |
| `cron` | a recurring or invalid job, a one-time job deleted or disabled after its run, one command process that may run any number of commands | holds, about 37,000 states |
| `cron_commands` | the same | `AddedJobsStay` fails |
| `stopped` | the same as `retry` | `StoppedRunsAreSilent` fails |
| `parts` | eight parts, see below | holds, about 170,000 states |
| `heartbeat` | the heartbeat part | `BeatsGoToLastChannel` fails |

The parts of `parts`, with their distinct states:

| Part | Instance | Properties | States |
|---|---|---|---|
| sessions | 2 clients, 2 keys, 2 ids | `DurableWithoutOverlap` | 6,800 |
| inbound | each of 8 adapters and 3 triggers, any first event and a plain second one | `DecisionsAgree`, `PublishedInOrder` | 45,000 |
| media | 2 references, 2 paths | `FilesMatchReferences` | 4,200 |
| typing | each of 6 adapters with a sign of some kind (IRC's is only a tag), 2 messages, shutdown at any point | `SignsEnd` | 18,000 |
| delivery | each of 8 adapters, up to 2 media parts, 2 retries | `ReportedMeansDelivered` | 7,500 |
| native | 3 lost connections | `StopIsFinal`, `LostConnectionsReturn` | 1,100 |
| adapters | each of 7 adapters; the websocket library panics at the third failed read instead of the thousandth | `ReceiversEnd` | 230 |
| heartbeat | 2 chats, none of an internal platform, 2 handlers, either or both state files | `BeatsGoToStartupChannel` | 87,000 |

`PartsTypeOK` is the conjunction of the parts' type invariants.

Why these bounds are enough. A channel of capacity 1 is full after one message
and empty after one receive, so every blocking case occurs; two publishers in one
direction compete for the place. A Close that loses the compare-and-swap needs a
second call. Overlapping saves need two clients, a stale value a second id. In
the bridge, every race of the code is between two handlers of one session or a
command and a handler: two messages of one session and a third that makes a
later run or a second session are the least that show it. Fair runs use one
session, where the handlers compete most. A queue of 1 and two channels show
one channel blocking another; two chunks and one retry show overtaking. Two idle
attempts and one expiry are all that `invokeWithRetry` can combine. In the cron
service two jobs can be due together, one can be executing while the other
waits, and the command's copy can be older than any number of gateway saves and
restarts; jobs meet only in the list of due ids and in the saved file.

Of inbound events only two can overtake one another, and the second may be plain
because every check looks at one event alone; what an event can disturb for the
next is the Matrix cache, which the second one reads. Two references show a path
stored twice; two messages of a chat show an entry that is overwritten and one
that is swept for another's age. Two retries repeat a Send whose first part has
arrived; two parts show one that is missing before one that is not. Three lost
connections are one that starts the goroutine, one that is ignored, and one for
the next goroutine. Two handlers compete for the lock of the state manager, and
two chats tell the last channel from the one before.

`CHECK_DEADLOCK FALSE` is set everywhere: each system stops when its messages
are handled or the program has shut down.

### Disagreements between code and text

* `clear`: `/clear` answers "Chat history cleared!" (`pkg/commands/cmd_clear.go:17`),
  but a run in flight stores the session id it resumed when it ends
  (`pkg/bridge/loop.go:256`), and the next message continues the old conversation.
* `drain`: "Close all worker queues and wait for them to drain"
  (`pkg/channels/manager.go:332`), but the workers' context has been cancelled four
  lines earlier and their select may take that case with messages queued.
* `stopped`: "Silently discard context cancellation" (`pkg/bridge/loop.go:177`),
  but a CLI killed by /stop in a fresh session comes back as "signal: killed",
  which is no context.Canceled, and the user reads an error after "Stopped.".
* `heartbeat`: "sendResponse sends the heartbeat response to the last channel"
  (`pkg/heartbeat/service.go:215`), but the service has a state manager of its own
  that is loaded once (`pkg/heartbeat/service.go:54`): it answers to the last
  channel of the previous run of the program, and to nobody in the first run.
* `cron_commands`: "Added job" (`cmd/ectoclaw/internal/cron/add.go:45`), but a
  running gateway never reads `jobs.json` again and rewrites it on every tick
  (`pkg/cron/service.go:165`): the job is not scheduled and is gone a second later.
  The cron skill (`workspace/skills/cron/SKILL.md`) tells the agent, which the
  gateway runs, to manage its jobs this way.

The properties of `parts` hold because they name the exceptions they need. These
are worth a look, too:

* `Orphaned` in `Typing`: the channels' README promises that a typing stop function
  or reaction undo is called after five minutes at the latest
  (`pkg/channels/README.md:1034`). That is not so for a function that
  `RecordTypingStop` or `RecordReactionUndo` has overwritten, nor for one that the
  janitor removed in place of an older one. On Telegram and LINE such a loop runs
  until the adapter's context ends; on Slack the reaction stays. So does every
  reaction of Slack that is on when the gateway's context is cancelled: workers and
  janitor have gone when the adapter is stopped, and its `Stop` undoes none
  (`LeftAtShutdown`).
* `StuckBehindLongLine` in `ProviderRetry`: the limit of 4 MB per line is there to
  keep "ErrTooLong from causing a deadlock (the subprocess blocks writing to its
  stdout pipe while cmd.Wait() blocks waiting for the subprocess to exit)"
  (`pkg/providers/idle.go:16`). A longer line still does that: the scan ends
  (`pkg/providers/idle.go:59`), the idle timer is stopped with it, and `cmd.Wait`
  waits until /stop or a shutdown. `InvokeReturns` excepts this and nothing else.
* `NotMade` in `Delivery`: Telegram drops a short text together with the attachment
  it was to be the caption of, when that file is gone; LINE drops the attachments
  of a message whose text could be sent as a reply; IRC does not look at the
  library's error. All three report success.
* `ignored` in `WhatsAppNative`: a connection that is lost after `Connect`
  succeeded and before the goroutine has reset `reconnecting` is not dialled again.
* `misread` in `Inbound`: a Matrix message may be judged by the members the room
  had some minutes ago, or as a direct message when the query fails.
* `GivesUp` and `SessionLost` in `Adapters`: when a client library gives up
  (Telegram's handler, Slack's socket, Matrix' sync) or the WhatsApp bridge goes
  away, nothing starts it again, and `IsRunning` stays true. After a thousand failed
  reads the websocket library panics.

## 4. Fairness

Weak fairness, but for two steps named below, of steps the Go scheduler or a
timer must finally take.
Nobody is obliged to send a message, call Close or StopAll, cancel a context or
type /stop. In `BridgeLoop` the CLI may run for ever unless it is cancelled
(exec.CommandContext kills it). In `ChannelManager` `Channel.Send` returns and
back-off timers fire; the dispatcher's and each worker's next step is fair as a
whole, so a select with several ready cases may always take the same one. In
`ProviderRetry` the reader's goroutine is fair, the idle timer fires if the
reader stays open, a kill arrives, and a CLI that has closed its output exits.
Two assumptions in this the code does not enforce: `cmd.Wait` has no timeout, and a
kill closes the pipe only if no grandchild has inherited it. That a CLI exits whose
output is no longer read is not assumed.
In `CronService` time passes and the service's one goroutine goes on: the ticker
ticks and handlers return, which run under a context of ten minutes.

In `Typing` a handler, a worker or an invocation ends what it has begun, and a
loop sees its stop channel, its context or its timer. Only while the gateway's
context is not cancelled does the bridge take up messages, a worker replies, and the
janitor tick every ten seconds; after it nothing of this is assumed. Nothing makes a
message arrive, the gateway shut down, or an invocation answer rather than end
silently. The janitor's three steps are fair as a whole: an entry that ages is seen
and removed, which the ticker does without anybody's help. In `WhatsAppNative` the goroutine
that reconnects runs, events are handed over, and `Connect` returns; strong
fairness says that a Connect which is tried again and again succeeds at last,
without which "reconnects" could not be stated. In `Adapters` goroutines run; a
select whose context is cancelled takes that case at last (weak fairness of
`ContextEnds`), and the pause between two tries to register Telegram's commands is
left through the cancelled context if it is entered again and again: the strong
fairness of `RegistrationCancelled` stands for Go's choosing among ready cases at
random, and for a timer that is not ready when the context is. `Inbound`,
`MediaStore`, `Delivery`, `Heartbeat` and `Sessions` have safety properties only.

## 5. Proofs

`BridgeLoopProofs` proves for any sets of messages and sessions:

* `TypeCorrect`: `Spec => []TypeOK`.
* `MutualExclusion`: `Spec => []OneRunPerSession`.
* `SlotsOwned`: `Spec => []SlotsHaveOwners`.
* `StopFindsRun`: `Spec => []StopReachesTheRun`.
* `SessionNotForked`: `Spec => []OnlyClearMovesTheSession`.
* `SilenceExplained`: `Spec => []SilentOnlyIfStopped`.
* `BridgeUsesStore`: `Spec => StoreSpec`, the refinement of `Sessions`.
* `BridgeIsDurableStore`: `HSpec => DurableStoreSpec`, the refinement of
  `SessionsDurability`.
* `BridgeFileHolds`: `HSpec => []FileHoldsTheMap`.

Of the three about one run at a time none is inductive alone. That a second
handler is not admitted follows from the first one's slot being taken, that is from `SlotsHaveOwners`;
that the release of one handler does not free the slot of another follows from
`OneRunPerSession`; and the same pair is what makes the deferred
`cancelFlights.Delete`, which works by key, remove its own entry. The inductive
invariant is their conjunction with the type invariant and `PlaceInv`, which says
at which program counters a handler can be by the kind of its message: without it
the proof would have to consider a /stop that releases a slot. Every action is a
step of the proof, and each disturbs at most one conjunct.

`OnlyClearMovesTheSession` is inductive with these: a handler that would store
another id between the Get and the Set of a first one holds the slot of the same
session, which `OneRunPerSession` forbids. `SilenceInv` follows the exits of
`handleMessage` backwards: behind every one but the early return for a cancelled
context something was published (`RepliedPlaces`), and a cancelled context was
cancelled by a /stop that has gone past `StopCancel` and keeps its target
(`StoppedBy`). For the refinement each action is one step of the store or leaves
its variables alone (`StoreStep`). That the history fits, too, needs `SaveInv`: a
handler is about to save, or saving, exactly where `handleMessage` and
`ClearHistory` do so, so that the Saves which begin or end in a step are those of
the handler that moved (`HistoryStep`). `BridgeFileHolds` then rests on `FileInv`:
with nobody about to save, a Save that has had the file to itself is about to write
the map as it is. This is the invariant of `SessionsDurabilityProofs`, shown again:
tlapm cannot cite a theorem of a module that is instantiated. `FileHoldsTheMap` and
the invariants were checked by TLC before they were proved; the run `bridge` keeps
the refinement. The proofs rest on `BridgeAssumption` alone.

`ChannelManagerProofs` proves for any messages, channels, chunks, retries and
capacities:

* `TypeCorrect`: `Spec => []TypeOK`.
* `RetriesDisciplined`: `Spec => []RetryDiscipline`.
* `OrderKept`: `Spec => []SentInOrder`.
* `NothingLost`: `Spec => []NothingLostWhileRunning`.
* `NoSendAfterStopped`: `Spec => NoSendAfterStop`.
* `ManagerUsesBus`: `Spec => Bus!Spec`, the refinement of `Handoff`.

The order of the calls follows from where messages are. `OnceInv`: the bus gives
each message to the dispatcher once. `LastInv`: what the dispatcher holds is what
left the bus last, and no channel has it yet. `LineInv`: the messages of a channel
stand in line, those it was called for, then the one its worker holds, then its
queue, all by their position on the bus. A call is appended for the worker's chunk, which
nothing recorded so far comes after. The bound on retries needs `TriesInv`, the
calls recorded for the chunk in hand are the attempts counted, and `LineInv`, there
is no call for a later chunk. `StopInv` orders `StopAll`: a channel is stopped
when its worker is done. The first five are consequences of one inductive
invariant, `ManagerInv`; the refinement needs only the types. The proofs rest on the
assumption of `ChannelManager`, `ManagerAssumption`.

`AdapterPathProofs` proves for any number of events, media parts and retries:

* `OrderKept`: `InboundSpec => []PublishedInOrder`.
* `Decisions`: `InboundSpec => DecisionsAgree`.
* `DeliveryReported`: `DeliverySpec => []ReportedMeansDelivered`.

That a handler decides rightly is a case distinction over the eight adapters, each
a lemma: the code's order of checks against the predicate `Wanted`. Only Matrix
needs an invariant for it (`CacheInv`): a cached room kind is wrong exactly when
`moved` says that the members have changed since. Order needs `SerialInv`: an adapter
that handles one event at a time holds at most one, whose number is above all that
were published, and the events not yet seen are the last ones.

A Send is followed by its plan. `Planned`: no two calls carry the same item, and a
call is one item, Telegram's caption or Discord's post (`Shape`); a lemma for each
way of sending shows it of the calls that `Send` makes. `OwedInv`: what is
to be delivered has arrived or is in a call still to come; only a part that cannot
be opened is skipped, and with it at most the caption that `NotMade` names.
`CountInv` bounds the copies of an item that have arrived, those that are overdue,
and those this Send may still deliver (`Left`, `Again`) by the attempts.
The proofs rest on `InboundAssumption` (events are numbered) and
`DeliveryAssumption`.

`CronServiceProofs` proves for any jobs, schedules and commands:

* `TypeCorrect`: `Spec => []TypeOK`.
* `RunsAtMostOnce`: `Spec => []AtMostOnce`.
* `RecurringAccounted`: `Spec => []NextRunAccounted`.

`AtMostOnce` counts runs over the life of the file, so the state after a crash
says nothing about it. The invariant that does (`OnceInv`) rests on the clock: a
one-time job is due only after its time and before its run, and once its time
has gone by neither a restart nor a list written back by a command gives it a
next run again. `NextRunAccounted` is inductive with `TypeOK`; only that no job
is executing when the next one is taken depends on `CronAssumption`.

`SessionsDurabilityProofs` proves for any keys, ids and clients:

* `DurableTypeCorrect`: `DSpec => []DTypeOK`.
* `Durable`: `DSpec => []DurableWithoutOverlap`.

The invariant adds `CopyInv`: once nobody is about to save a change, a Save that
has had the file to itself is about to write the map as it is. Only then is what
the last Save writes known.

`PartsProofs` is about five of the parts, one by one, and then about all eight side
by side. Of the media store, for any references and paths:

* `FilesKept`: `MediaSpec => []FilesMatchReferences`.

Whether a file may vanish under a reference depends on what the cleaner has
collected, and that on the references that shared the path when they were
stored. `FilesInv` adds this (`DeletionsAreOwned`): a path about to be deleted is
not in use unless it is shared, two references in use have two paths unless
they share one, and a reader's reference is in the store or expired.

Of `WhatsAppNative`, however often the connection is lost:

* `StopFinal`: `NativeSpec => []StopIsFinal`.

`FinalInv` says where the flags stand at each step of Start and Stop (`Ordered`,
`BeforeStart`): `reconnecting` is set exactly while the goroutine is in its
loop; once Stop has begun, `stopping` is set and the event handler adds nothing
any more; once it has cancelled and disconnected, only a Connect that was under
way can link the client again. `wg = Goroutines` is inductive with these.

Of the heartbeat, for any chats and handlers:

* `BeatsKeptToStartup`: `HeartbeatSpec => []BeatsGoToStartupChannel`.

`BeatInv` joins two halves: the files always answer for the exchange that was
recorded last (`Recorded`), because the handler that holds the lock has put its
own chat into the value that is saved (`Locked`); and the heartbeat's manager
keeps the value it was started with (`LoadedOnce`).

Of `Typing`, for any messages of the chat and each adapter:

* `SignsAreOwned`: `TypingSpec => []SignsOwned`.

`SignsEnd` is a liveness property; this is the safety it rests on. A sign that is on
has an owner who takes it down, or it is `Orphaned`. While the context is open, the
owner is who holds its stop (`Held`): the handler about to record it, the registry,
or the bridge for its deferred call; orphans are the signs whose stop was overwritten
or swept on a platform where nothing else ends them. Once the context is cancelled,
it is the loop itself that sees it; orphans are Slack's reactions. So no order of
handlers, preSend, janitor and shutdown loses a sign in another way. The inductive
form is `SignsHeld`: a stop that was not lost is held, context or not, as nobody
drops one at shutdown. It is not inductive by itself: on Discord and
Matrix a new loop replaces the old one (`OneLoop`), so a stop that is overwritten
there is that of a loop which has ended; on Matrix this needs that two handlers are
never both about to record (`MatrixReplaces`), since events are handled one by one;
and the registry holds only stops that `HandleMessage` has recorded (`Registered`).

Of `Adapters`, for any bound of failed reads:

* `LeftoversAreTold`: `AdaptersSpec => []LeftoversEnd`.

This is what `ReceiversEnd` rests on: whatever step of Start had failed and whatever
the goroutines were doing, one that still runs after Stop has a cancelled context, a
closed connection, a stopped handler or no more input. `LifeInv` adds which
goroutines an adapter can have, that those of Discord, IRC and the WhatsApp bridge run
only behind a connection (`Connected`), so that Stop has something to close, and that
only LINE serves a webhook, and only until Stop.

Of `AllParts`:

* `PartsTypeCorrect`: `PartsSpec => []PartsTypeOK`.
* `PartsSafe`: `PartsSpec =>` each safety property of the parts, always.

A step of `AllParts` is for every part one of its own or none (`EachSteps`), so the
inductive invariant is the conjunction of the parts' invariants (`PartsInv`). This ties
the theorems about single parts to the very specification that the run `parts` explores.

The assumptions on constants are those of the modules, and TLC evaluates them on the
run. Four say only that a value which stands for "none" is none of the real ones
(`SessionsAssumption`; `HeartbeatAssumption`, where the code uses the empty string;
`TypingAssumption`, nil; part of `BridgeAssumption`, nil and absent entries); the
others say that a bound is a natural number (`AdaptersAssumption`: the websocket
library's 1000 failed reads; `WhatsAppNativeAssumption`: how many connections are lost).

`MessageBusProofs` proves for any publishers, consumers, callers of `Close` and
capacity:

* `TypeCorrect`: `Spec => []TypeOK`.
* `StrandedOnlyRacing`: `Spec => []StrandedOnlyIfRacing`.
* `BusHandsOff`: `Spec => BothDirectionsHandOff`, the refinement of `Handoff` by
  each direction.

The state after `Close` says nothing about how a message got into a channel, so
`CloseInv` follows the drain loops: once a direction's loop is over (`Drained`)
every message in its channel is from a racing publisher, because the channel was
empty when the loop ended and only publishers that were past the flag can still
select. For the refinement every step of the bus is shown to be, for each
direction, one of the steps `HandoffStep` lists; that a drop happens only after
`Close` began is again `CloseInv`. The proofs rest on `BusAssumption`.

`ProviderRetryProofs` proves for any number of retries and any length of output:

* `TypeCorrect`: `Spec => []TypeOK`.
* `RefusedStaysRefused`: `Spec => []NeverResumesRefused`.
* `AnswersAreWhole`: `Spec => []AnswerIsWhole`.
* `AttemptsDoNotOverlap`: `Spec => NoOverlappingAttempts`.

A refused id could come back through the partial id that a timeout carries
forward. It does not, because each subprocess works in the id it resumed or in
one that no earlier subprocess knew (`KnownIds`), and everything it prints, in
the pipe, in `lineCh` and parsed, is about that id or none (`CurrentAttempt`).
`Attempts` counts the subprocesses against the retries granted, which bounds the
ids; `NothingRuns` says that outside of `runOnce` the subprocess is dead and the
reader gone, which is what `NoOverlappingAttempts` and `AnswerIsWhole` rest on;
`ReadToItsEnd`, that a scan which the timer did not end has come to the end of the
output or to a line that was too long.
The proofs rest on `RetryAssumption`.

Model-checked only: liveness, which is out of the prover's reach (`NobodyHangsAfterClose`,
`StopFreesTheSession`, `CommandsAlwaysFinish`, `EveryMessageSettled`, `StopAllReturns`,
`InvokeReturns`, `ScheduledJobsRun`, `SignsEnd`, `LostConnectionsReturn`,
`ReceiversEnd`), and the properties of the runs that end in a violation, which do not
hold. Every other property of a passing run is a theorem.

## 6. Not modelled

Listed with reasons in `PROJECT.json`. Whole components: the operator's one-shot
commands, skills (the search cache has no caller in the program), the health
server's read-only endpoints, configuration, logging, and string and file
utilities: no state that two parties change, or no run-time part at all.

Inside the modelled parts:

* parsing and formatting: Markdown, mentions and entities, how a text is cut
  into chunks, command lines, signatures of webhooks;
* what client libraries do inside: their goroutines appear where Start leaves
  them behind and where an event is handed over;
* the bridge: /switch, which writes `cfg.Bridge.Model` without a lock;
* providers: the idle timeout switched off; a grandchild of the CLI that keeps its
  output open after the kill, so that the drain goes on waiting;
* the cron service: that `NewCronService` ignores an error of `loadStore`
  (`pkg/cron/service.go:78`): the gateway's `Start` meets it again and returns it, but
  a command goes on with an empty list (every file of the model can be read);
* functions that nobody calls: `SendToChannel`, `RegisterChannel` and
  `UnregisterChannel` of the manager, `ReleaseAll` of the media store, `UpdateJob`
  of the cron service;
* Matrix: invitations; the bound of its cache shows only as an entry that may
  leave at any time;
* LINE: quote tokens, which decorate a message and decide nothing.

## 7. State of the plan

Done: `MessageBus`, `Sessions`, `BridgeLoop`, `ChannelManager`, `ProviderRetry`,
`CronService`, then `Inbound`, `MediaStore`, `Typing`, `Delivery`,
`WhatsAppNative`, `Adapters`, `Heartbeat`; their composition in `AllParts`, the
durability of the session store carried over to the bridge in `BridgeDurability`; and
proofs of every safety property of a passing run, of every refinement, and of the
safety behind `SignsEnd` and `ReceiversEnd`.

Left: the composition of `Typing` with the manager's queue, so that a sign ends with
the reply it announces and not with an earlier one.
