------------------------------ MODULE Inbound ------------------------------
(***************************************************************************)
(* From a platform event to the bus: the message handlers of the channel   *)
(* adapters (pkg/channels/<adapter>) and BaseChannel.HandleMessage.  Each   *)
(* adapter repeats the same checks -- own message, stale event, allow-list, *)
(* group trigger, emptiness -- in an order of its own, and downloads and    *)
(* notes things in between.  Telegram, Discord and LINE run a handler per   *)
(* event in a goroutine; the others handle one event after another.         *)
(* One platform is served at a time (kind); texts, names and files are      *)
(* reduced to what the checks tell apart.                                   *)
(***************************************************************************)
EXTENDS Naturals, Sequences

CONSTANTS
  Posts,  \* the events of one chat, 1..n, in the order the platform sends them
  Kinds   \* the adapters, by their factory names

ASSUME InboundAssumption == Posts \subseteq Nat

VARIABLES
  kind,     \* the adapter
  trigger,  \* its group_trigger configuration
  post,     \* what each event is (see Arrivals)
  stage,    \* how far the handler of each event is
  effects,  \* what the handler did besides publishing
  busOpen,  \* the bus still accepts messages
  out,      \* the events published, in order
  crowd,    \* Matrix: the room has more than two members
  cached,   \* Matrix: the room's entry in roomKindCache
  moved,    \* Matrix: the members changed since that entry was made
  misread   \* Matrix: events whose room kind came from a failed query or such an entry

matrixVars == <<crowd, cached, moved, misread>>
inboundVars == <<kind, trigger, post, stage, effects, busOpen, out, crowd, cached, moved, misread>>

\* The adapters whose library calls the handler for one event at a time.
Serial == {"slack", "matrix", "irc", "whatsapp", "whatsapp_native"}

\* The adapters that are handed the bot's own messages and skip them.
SeesItself == {"discord", "slack", "matrix", "irc"}

Plain == [from |-> "allowed", fresh |-> TRUE, group |-> FALSE, address |-> "plain",
          words |-> TRUE, file |-> "none", via |-> "message"]

\* The events an adapter can be handed: words says that the text holds more
\* than a mention or a prefix, which a text can consist of; a broken file cannot be downloaded; Slack also
\* delivers a mention as an event of its own, and slash commands.
Arrivals(k) ==
  {m \in [from : {"self", "rejected", "allowed"}, fresh : BOOLEAN, group : BOOLEAN,
          address : {"mentioned", "prefixed", "plain"}, words : BOOLEAN,
          file : {"none", "ok", "broken"}, via : {"message", "app_mention", "slash"}] :
     /\ m.from = "self" => k \in SeesItself
     /\ ~m.fresh => k \in {"matrix", "line", "slack"}
     /\ m.group => k # "matrix"
     /\ m.via # "message" => k = "slack"
     /\ m.via # "message" => m.fresh /\ m.file = "none"
     /\ m.via = "app_mention" => m.group /\ m.address = "mentioned"
     /\ m.file # "none" => k \notin {"irc", "whatsapp_native"}
     /\ k = "line" /\ m.file # "none" => ~m.words /\ m.address = "plain"}

InboundTypeOK ==
  /\ kind \in Kinds
  /\ trigger \in {"mention_only", "prefixes", "all"}
  /\ \A p \in Posts : post[p] \in Arrivals(kind)
  /\ stage \in [Posts -> {"sent", "noting", "held", "dropped", "lost", "published"}]
  /\ effects \in [Posts -> SUBSET {"note", "fetch"}]
  /\ busOpen \in BOOLEAN
  /\ out \in Seq(Posts)
  /\ \A p \in Posts : stage[p] = "published" <=> \E i \in DOMAIN out : out[i] = p
  /\ crowd \in BOOLEAN /\ moved \in BOOLEAN
  /\ cached \in {"none", "direct", "group"}
  /\ misread \subseteq Posts

InboundInit ==
  /\ kind \in Kinds
  /\ trigger \in {"mention_only", "prefixes", "all"}
  /\ \E first \in Arrivals(kind) : post = [p \in Posts |-> IF p = 1 THEN first ELSE Plain]
  /\ stage = [p \in Posts |-> "sent"]
  /\ effects = [p \in Posts |-> {}]
  /\ busOpen = TRUE
  /\ out = <<>>
  /\ crowd \in (IF kind = "matrix" THEN BOOLEAN ELSE {FALSE})
  /\ cached = "none" /\ moved = FALSE /\ misread = {}

-----------------------------------------------------------------------------
(* The checks *)

Own(p) == post[p].from = "self"

IsAllowedSender(p) == post[p].from = "allowed"

ShouldRespondInGroup(p, mentioned) ==
  \/ mentioned
  \/ trigger = "prefixes" /\ post[p].address = "prefixed"
  \/ trigger = "all"

IsBotMentioned(p) == post[p].address = "mentioned"

\* The group trigger as most adapters apply it.
Responds(p) == post[p].group => ShouldRespondInGroup(p, IsBotMentioned(p))

\* The attachments of an event, downloaded to a temporary file.
Fetch(p) == IF post[p].file = "none" THEN {} ELSE {"fetch"}

\* The forms of address an adapter has removed from the text when it tests
\* whether anything is left: LINE tests before the trigger removes a prefix.
Cleared(group) ==
  {a \in {"mentioned"} :
     kind \in {"discord", "slack", "matrix"} \/ (group /\ kind \in {"irc", "line"})}
  \cup {a \in {"prefixed"} : group /\ trigger = "prefixes" /\ kind # "line"}

\* A bare mention or prefix counts as text as long as it is not removed.
TextLeft(p, cleared) == post[p].words \/ post[p].address \in {"mentioned", "prefixed"} \ cleared

\* No text, and no file that could be fetched to stand for it.
BlankUnlessFetched(p) == ~TextLeft(p, Cleared(post[p].group)) /\ post[p].file # "ok"

\* No text and no file: a file that could not be fetched leaves a marker.
BlankUnlessAttached(p, cleared) == ~TextLeft(p, cleared) /\ post[p].file = "none"

-----------------------------------------------------------------------------
(* The handlers *)

\* Faulty variant: every event gets a goroutine of its own.
ReceiveInGoroutine(p, k) ==
  /\ kind = k
  /\ stage[p] = "sent"
  /\ \A q \in Posts : q < p => stage[q] # "sent"

\* The library calls the adapter's handler for the next event.
Receive(p, k) ==
  /\ kind = k
  /\ stage[p] = "sent"
  /\ \A q \in Posts : q < p => stage[q] # "sent"
  /\ k \in Serial => \A q \in Posts : stage[q] # "held"

Reach(p, s, fx) ==
  /\ stage' = [stage EXCEPT ![p] = s]
  /\ effects' = [effects EXCEPT ![p] = @ \cup fx]
  /\ UNCHANGED <<kind, trigger, post, busOpen, out>>

\* Telegram: the allow-list first, then the unlocked write to chatIDs.
TelegramHandle(p) ==
  /\ Receive(p, "telegram")
  /\ Reach(p, IF IsAllowedSender(p) THEN "noting" ELSE "dropped", {})
  /\ UNCHANGED matrixVars

\* The downloads come before the group trigger; an empty text is replaced by
\* "[empty message]".
TelegramFilter(p) ==
  /\ stage[p] = "noting"
  /\ Reach(p, IF Responds(p) THEN "held" ELSE "dropped", {"note"} \cup Fetch(p))
  /\ UNCHANGED matrixVars

\* Two handlers in the map write: the Go runtime may notice and end the process.
TelegramMapRace ==
  /\ \E p, q \in Posts : p # q /\ stage[p] = "noting" /\ stage[q] = "noting"
  /\ stage' = [p \in Posts |-> IF stage[p] = "published" THEN "published" ELSE "lost"]
  /\ busOpen' = FALSE
  /\ UNCHANGED <<kind, trigger, post, effects, out>>
  /\ UNCHANGED matrixVars

DiscordHandle(p) ==
  /\ Receive(p, "discord")
  /\ IF Own(p) \/ ~IsAllowedSender(p) \/ ~Responds(p) THEN Reach(p, "dropped", {})
     ELSE Reach(p, IF BlankUnlessAttached(p, Cleared(post[p].group)) THEN "dropped" ELSE "held", Fetch(p))
  /\ UNCHANGED matrixVars

\* Slack: a mention does not count here, handleAppMention sees it.
SlackMessage(p) ==
  /\ Receive(p, "slack")
  /\ post[p].via = "message"
  /\ IF Own(p) \/ ~post[p].fresh \/ ~IsAllowedSender(p) THEN Reach(p, "dropped", {})
     ELSE IF post[p].group /\ ~ShouldRespondInGroup(p, FALSE) THEN Reach(p, "dropped", {"note"})
     ELSE Reach(p, IF BlankUnlessFetched(p) THEN "dropped" ELSE "held", {"note"} \cup Fetch(p))
  /\ UNCHANGED matrixVars

\* Faulty variant: the allow-list is left to BaseChannel.HandleMessage.
SlackAppMentionUnchecked(p) ==
  /\ Receive(p, "slack")
  /\ post[p].via = "app_mention"
  /\ IF Own(p) THEN Reach(p, "dropped", {})
     ELSE Reach(p, IF post[p].words THEN "held" ELSE "dropped", {"note"})
  /\ UNCHANGED matrixVars

SlackAppMention(p) ==
  /\ Receive(p, "slack")
  /\ post[p].via = "app_mention"
  /\ IF Own(p) \/ ~IsAllowedSender(p) THEN Reach(p, "dropped", {})
     ELSE Reach(p, IF post[p].words THEN "held" ELSE "dropped", {"note"})
  /\ UNCHANGED matrixVars

\* An empty command is published as "help".
SlackSlashCommand(p) ==
  /\ Receive(p, "slack")
  /\ post[p].via = "slash"
  /\ Reach(p, IF IsAllowedSender(p) THEN "held" ELSE "dropped", {})
  /\ UNCHANGED matrixVars

\* LINE: the tokens are noted and the content is fetched before any check of
\* the sender; a file message is only named.
LineEvent(p) ==
  /\ Receive(p, "line")
  /\ IF ~post[p].fresh THEN Reach(p, "dropped", {})
     ELSE Reach(p, IF BlankUnlessFetched(p) \/ ~Responds(p) \/ ~IsAllowedSender(p)
                   THEN "dropped" ELSE "held", {"note"} \cup Fetch(p))
  /\ UNCHANGED matrixVars

IrcPrivmsg(p) ==
  /\ Receive(p, "irc")
  /\ Reach(p, IF \/ Own(p) \/ ~IsAllowedSender(p) \/ ~Responds(p)
                 \/ ~TextLeft(p, Cleared(post[p].group))
              THEN "dropped" ELSE "held", {})
  /\ UNCHANGED matrixVars

\* The WhatsApp adapters answer everything that is said in a group.
WhatsAppIncoming(p) ==
  /\ Receive(p, "whatsapp")
  /\ Reach(p, IF IsAllowedSender(p) THEN "held" ELSE "dropped", {})
  /\ UNCHANGED matrixVars

WhatsAppNativeIncoming(p) ==
  /\ Receive(p, "whatsapp_native")
  /\ Reach(p, IF TextLeft(p, {}) /\ IsAllowedSender(p) THEN "held" ELSE "dropped", {})
  /\ UNCHANGED matrixVars

-----------------------------------------------------------------------------
(* Matrix asks the server whether a room is a group and caches the answer *)

RoomKind == IF crowd THEN "group" ELSE "direct"

\* roomKindCache.set, after a query that succeeded.
Remember == cached' = RoomKind /\ moved' = FALSE

\* A failed query is not cached.
RememberNothing == UNCHANGED <<cached, moved>>

\* isGroupRoom: the cached kind, else the server's answer, else "direct".
IsGroupRoom(p, group) ==
  \/ /\ cached # "none"
     /\ group = (cached = "group")
     /\ misread' = IF moved THEN misread \cup {p} ELSE misread
     /\ UNCHANGED <<cached, moved>>
  \/ cached = "none" /\ group = crowd /\ Remember /\ UNCHANGED misread
  \/ cached = "none" /\ ~group /\ RememberNothing /\ misread' = misread \cup {p}

\* The media is downloaded before the allow-list is consulted, and the text is
\* tested once more when the mention or the prefix is gone.
MatrixHandle(p) ==
  /\ Receive(p, "matrix")
  /\ \/ /\ Own(p) \/ ~post[p].fresh
        /\ Reach(p, "dropped", {}) /\ UNCHANGED matrixVars
     \/ /\ ~Own(p) /\ post[p].fresh
        /\ BlankUnlessAttached(p, {}) \/ ~IsAllowedSender(p)
        /\ Reach(p, "dropped", Fetch(p)) /\ UNCHANGED matrixVars
     \/ /\ post[p].fresh /\ ~BlankUnlessAttached(p, {}) /\ IsAllowedSender(p)
        /\ \E group \in BOOLEAN :
             /\ IsGroupRoom(p, group)
             /\ Reach(p, IF \/ group /\ ~ShouldRespondInGroup(p, IsBotMentioned(p))
                            \/ BlankUnlessAttached(p, Cleared(group))
                         THEN "dropped" ELSE "held", Fetch(p))
        /\ UNCHANGED crowd

\* The entry expires (get or the janitor removes it) or another room evicts it.
MatrixForget ==
  /\ kind = "matrix" /\ cached # "none"
  /\ cached' = "none" /\ moved' = FALSE
  /\ UNCHANGED <<kind, trigger, post, stage, effects, busOpen, out, crowd, misread>>

\* Somebody joins or leaves the room.
MembersChange ==
  /\ kind = "matrix"
  /\ crowd' = ~crowd
  /\ moved' = (cached # "none" /\ ~moved)
  /\ UNCHANGED <<kind, trigger, post, stage, effects, busOpen, out, cached, misread>>

-----------------------------------------------------------------------------
(* BaseChannel.HandleMessage *)

\* The allow-list once more, then the bus; what a closed bus refuses is logged.
HandleMessage(p) ==
  /\ stage[p] = "held"
  /\ stage' = [stage EXCEPT ![p] =
       IF ~IsAllowedSender(p) THEN "dropped" ELSE IF busOpen THEN "published" ELSE "lost"]
  /\ out' = IF IsAllowedSender(p) /\ busOpen THEN Append(out, p) ELSE out
  /\ UNCHANGED <<kind, trigger, post, effects, busOpen>>
  /\ UNCHANGED matrixVars

CloseBus ==
  /\ busOpen /\ busOpen' = FALSE
  /\ UNCHANGED <<kind, trigger, post, stage, effects, out>>
  /\ UNCHANGED matrixVars

Handle(p) ==
  \/ TelegramHandle(p) \/ TelegramFilter(p) \/ DiscordHandle(p)
  \/ SlackMessage(p) \/ SlackAppMention(p) \/ SlackSlashCommand(p)
  \/ MatrixHandle(p) \/ LineEvent(p) \/ IrcPrivmsg(p)
  \/ WhatsAppIncoming(p) \/ WhatsAppNativeIncoming(p)

InboundNext ==
  \/ \E p \in Posts : Handle(p) \/ HandleMessage(p)
  \/ TelegramMapRace \/ MatrixForget \/ MembersChange \/ CloseBus

InboundSpec == InboundInit /\ [][InboundNext]_inboundVars

-----------------------------------------------------------------------------
(* Properties *)

InGroup(p) == IF kind = "matrix" THEN crowd ELSE post[p].group

\* Is there something to answer?  Telegram, the WhatsApp bridge and slash
\* commands pass on an event without words.
Substance(p) ==
  \/ TextLeft(p, IF kind = "whatsapp_native" THEN {} ELSE Cleared(InGroup(p)))
  \/ kind \in {"telegram", "whatsapp"} \/ post[p].via = "slash"
  \/ kind \in {"discord", "matrix"} /\ post[p].file # "none"
  \/ kind \in {"slack", "line"} /\ post[p].via = "message" /\ post[p].file = "ok"

\* Should a message that was said in a group be answered?
Addressed(p) ==
  \/ kind \in {"whatsapp", "whatsapp_native"} \/ post[p].via # "message"
  \/ trigger = "all"
  \/ post[p].address = "mentioned" /\ kind # "slack"
  \/ post[p].address = "prefixed" /\ trigger = "prefixes"

Wanted(p) ==
  /\ post[p].from = "allowed" /\ post[p].fresh
  /\ Substance(p)
  /\ InGroup(p) => Addressed(p)

\* Whatever the order in which an adapter makes its checks, it publishes the
\* messages that deserve an answer and no others; on Matrix a failed query or a
\* cached room kind may mislead the decision about one message, and only about
\* the message it was used for.  And "check allowlist first to avoid downloading
\* attachments for rejected users": where the adapter says so, a sender that is
\* not allowed leaves no file and no entry behind.
DecisionsAgree ==
  [][\A p \in Posts :
       /\ stage'[p] # stage[p] /\ stage'[p] \in {"held", "dropped"} =>
            (stage'[p] = "held" <=> Wanted(p)) \/ p \in misread'
       /\ effects'[p] # effects[p] /\ kind \in {"telegram", "discord", "slack"} =>
            IsAllowedSender(p)]_inboundVars

\* An adapter that handles one event at a time publishes them in the order of
\* the platform, so the bridge answers the messages of a chat in that order.
PublishedInOrder ==
  kind \in Serial => \A i, j \in DOMAIN out : i < j => out[i] < out[j]
=============================================================================
