------------------------- MODULE AdapterPathProofs -------------------------
(***************************************************************************)
(* The way of a message in and out through the channel adapters: that the  *)
(* adapters which handle one event at a time publish them in order, that   *)
(* all of them answer the messages that deserve it and no others, and that *)
(* a message reported as sent arrived, for any number of events, media     *)
(* parts and retries.                                                      *)
(***************************************************************************)
EXTENDS Inbound, Delivery, SequenceTheorems, TLAPS

-----------------------------------------------------------------------------
(* Messages in *)

\* Whoever waits to publish is allowed to, and only Telegram notes anything first.
AllowedInv ==
  \A p \in Posts :
    /\ stage[p] \in {"noting", "held"} => IsAllowedSender(p)
    /\ stage[p] = "noting" => kind = "telegram"

\* An adapter that handles one event at a time holds at most one, and has seen
\* all events before it and none after it.
SerialInv ==
  kind \in Serial =>
    /\ \A p, q \in Posts : stage[p] = "held" /\ stage[q] = "held" => p = q
    /\ \A p, q \in Posts : stage[p] = "sent" /\ p < q => stage[q] = "sent"
    /\ \A p \in Posts : stage[p] = "held" => \A i \in DOMAIN out : out[i] < p
    /\ \A i \in DOMAIN out : stage[out[i]] # "sent"

\* Matrix: a cached kind is wrong exactly when the members have changed since.
CacheInv == cached # "none" => (moved <=> cached # RoomKind)

InboundInv == InboundTypeOK /\ AllowedInv /\ CacheInv /\ SerialInv /\ PublishedInOrder

\* The handler of an adapter takes one event, and ends it or goes on with it.
Handled(p, s) ==
  /\ stage[p] \in {"sent", "noting"} /\ s \in {"noting", "held", "dropped"}
  /\ stage' = [stage EXCEPT ![p] = s]
  /\ UNCHANGED <<kind, trigger, post, busOpen, out, crowd>>
  /\ s \in {"noting", "held"} => IsAllowedSender(p)
  /\ stage[p] = "noting" \/ s = "noting" => kind = "telegram"
  /\ stage[p] = "sent" =>
       /\ \A q \in Posts : q < p => stage[q] # "sent"
       /\ kind \in Serial => \A q \in Posts : stage[q] # "held"

\* Initially nothing was received.
LEMMA InboundInitKeeps == InboundInit => InboundInv
<1> SUFFICES ASSUME InboundInit PROVE InboundInv
  OBVIOUS
<1>1. InboundTypeOK
  <2>1. \A k : Plain \in Arrivals(k)
    BY DEF Plain, Arrivals
  <2>2. \A p \in Posts : post[p] \in Arrivals(kind)
    BY <2>1 DEF InboundInit
  <2> QED
    <3>1. stage \in [Posts -> {"sent", "noting", "held", "dropped", "lost", "published"}]
          /\ \A p \in Posts : stage[p] # "published"
      BY DEF InboundInit
    <3>2. effects \in [Posts -> SUBSET {"note", "fetch"}]
      BY DEF InboundInit
    <3>3. out \in Seq(Posts) /\ DOMAIN out = {}
      BY DEF InboundInit
    <3>4. crowd \in BOOLEAN
      BY DEF InboundInit
    <3> QED
      BY <2>2, <3>1, <3>2, <3>3, <3>4 DEF InboundInit, InboundTypeOK
<1>2. AllowedInv /\ CacheInv /\ SerialInv /\ PublishedInOrder
  BY DEF InboundInit, AllowedInv, CacheInv, SerialInv, PublishedInOrder
<1> QED
  BY <1>1, <1>2 DEF InboundInv

\* The decision a handler has made about p, as DecisionsAgree judges it.
Agrees(p) ==
  /\ stage'[p] # stage[p] /\ stage'[p] \in {"held", "dropped"} =>
       (stage'[p] = "held" <=> Wanted(p)) \/ p \in misread'
  /\ effects'[p] # effects[p] /\ kind \in {"telegram", "discord", "slack"} => IsAllowedSender(p)

\* What else a handler may change: what it did, and on Matrix what it remembers.
HandledTypes ==
  /\ effects' \in [Posts -> SUBSET {"note", "fetch"}]
  /\ moved' \in BOOLEAN /\ cached' \in {"none", "direct", "group"} /\ misread' \subseteq Posts

\* What a handler does, whatever it decides.
Decides(p) ==
  /\ \E s : Handled(p, s)
  /\ \A q \in Posts : q # p => stage'[q] = stage[q] /\ effects'[q] = effects[q]
  /\ Agrees(p)
  /\ HandledTypes

\* The event in hand is one the adapter can be handed.
LEMMA PostFacts ==
  ASSUME InboundInv, NEW p \in Posts
  PROVE  /\ post[p] \in Arrivals(kind)
         /\ stage[p] \in {"sent", "noting", "held", "dropped", "lost", "published"}
         /\ DOMAIN stage = Posts /\ DOMAIN effects = Posts
         /\ effects[p] \in SUBSET {"note", "fetch"}
         /\ moved \in BOOLEAN /\ cached \in {"none", "direct", "group"} /\ misread \subseteq Posts
  BY DEF InboundInv, InboundTypeOK

\* What the adapters' libraries hand over.
LEMMA ArrivalFacts ==
  ASSUME InboundInv, NEW p \in Posts
  PROVE  LET m == post[p] IN
         /\ m.from \in {"self", "rejected", "allowed"} /\ m.fresh \in BOOLEAN /\ m.group \in BOOLEAN
         /\ m.address \in {"mentioned", "prefixed", "plain"} /\ m.words \in BOOLEAN
         /\ m.file \in {"none", "ok", "broken"} /\ m.via \in {"message", "app_mention", "slash"}
         /\ m.from = "self" => kind \in SeesItself
         /\ ~m.fresh => kind \in {"matrix", "line", "slack"}
         /\ m.group => kind # "matrix"
         /\ m.via # "message" => kind = "slack" /\ m.fresh /\ m.file = "none"
         /\ m.via = "app_mention" => m.group /\ m.address = "mentioned"
         /\ m.file # "none" => kind \notin {"irc", "whatsapp_native"}
         /\ kind = "line" /\ m.file # "none" => ~m.words /\ m.address = "plain"
  BY PostFacts DEF Arrivals

\* Reach as a step of one event.
LEMMA ReachFacts ==
  ASSUME InboundInv, NEW p \in Posts, NEW s, NEW fx \in SUBSET {"note", "fetch"}, Reach(p, s, fx)
  PROVE  /\ stage' = [stage EXCEPT ![p] = s] /\ stage'[p] = s
         /\ effects' \in [Posts -> SUBSET {"note", "fetch"}] /\ effects'[p] = effects[p] \cup fx
         /\ \A q \in Posts : q # p => stage'[q] = stage[q] /\ effects'[q] = effects[q]
         /\ UNCHANGED <<kind, trigger, post, busOpen, out>>
  BY DEF InboundInv, InboundTypeOK, Reach

\* What a handler that receives p must show of its decision.
LEMMA ReceiveDecides ==
  ASSUME InboundInv, NEW p \in Posts, NEW k, Receive(p, k),
         NEW s \in {"noting", "held", "dropped"}, NEW fx \in SUBSET {"note", "fetch"},
         Reach(p, s, fx), UNCHANGED crowd,
         moved' \in BOOLEAN, cached' \in {"none", "direct", "group"}, misread' \subseteq Posts,
         s # "dropped" => IsAllowedSender(p),
         s = "noting" => k = "telegram",
         s # "noting" => (s = "held" <=> Wanted(p)) \/ p \in misread',
         fx # {} /\ k \in {"telegram", "discord", "slack"} => IsAllowedSender(p)
  PROVE  Decides(p)
<1>1. /\ stage' = [stage EXCEPT ![p] = s] /\ stage'[p] = s
      /\ effects' \in [Posts -> SUBSET {"note", "fetch"}] /\ effects'[p] = effects[p] \cup fx
      /\ \A q \in Posts : q # p => stage'[q] = stage[q] /\ effects'[q] = effects[q]
      /\ UNCHANGED <<kind, trigger, post, busOpen, out>>
  BY ReachFacts
<1>2. /\ kind = k /\ stage[p] = "sent"
      /\ \A q \in Posts : q < p => stage[q] # "sent"
      /\ k \in Serial => \A q \in Posts : stage[q] # "held"
  BY DEF Receive
<1>3. Handled(p, s)
  BY <1>1, <1>2 DEF Handled
<1>4. Agrees(p)
  BY <1>1, <1>2 DEF Agrees
<1> QED
  BY <1>1, <1>3, <1>4 DEF Decides, HandledTypes

LEMMA FetchType == \A p : Fetch(p) \in SUBSET {"note", "fetch"} /\ {"note"} \cup Fetch(p) \in SUBSET {"note", "fetch"}
  BY DEF Fetch

\* The adapters that decide in one step and leave Matrix's variables alone.
LEMMA HandlersDecide ==
  ASSUME InboundInv, NEW p \in Posts,
         \/ TelegramHandle(p) \/ DiscordHandle(p) \/ SlackMessage(p) \/ SlackAppMention(p)
         \/ SlackSlashCommand(p) \/ LineEvent(p) \/ IrcPrivmsg(p) \/ WhatsAppIncoming(p)
         \/ WhatsAppNativeIncoming(p)
  PROVE  Decides(p)
<1>1. /\ post[p] \in Arrivals(kind)
      /\ moved \in BOOLEAN /\ cached \in {"none", "direct", "group"} /\ misread \subseteq Posts
  BY PostFacts
<1>2. UNCHANGED matrixVars
  BY DEF TelegramHandle, DiscordHandle, SlackMessage, SlackAppMention, SlackSlashCommand, LineEvent,
     IrcPrivmsg, WhatsAppIncoming, WhatsAppNativeIncoming
<1>3. UNCHANGED <<crowd, moved, cached, misread>>
  BY <1>2 DEF matrixVars
<1>4. CASE TelegramHandle(p)
  <2>1. /\ Receive(p, "telegram")
        /\ Reach(p, IF IsAllowedSender(p) THEN "noting" ELSE "dropped", {})
    BY <1>4 DEF TelegramHandle
  <2>2. ~IsAllowedSender(p) => ~Wanted(p)
    BY DEF Wanted, IsAllowedSender
  <2> QED
    BY <1>1, <1>3, <2>1, <2>2, ReceiveDecides
<1> DEFINE m == post[p]
<1>a. /\ m.from \in {"self", "rejected", "allowed"} /\ m.fresh \in BOOLEAN /\ m.group \in BOOLEAN
      /\ m.address \in {"mentioned", "prefixed", "plain"} /\ m.words \in BOOLEAN
      /\ m.file \in {"none", "ok", "broken"} /\ m.via \in {"message", "app_mention", "slash"}
      /\ m.from = "self" => kind \in SeesItself
      /\ ~m.fresh => kind \in {"matrix", "line", "slack"}
      /\ m.group => kind # "matrix"
      /\ m.via # "message" => kind = "slack" /\ m.fresh /\ m.file = "none"
      /\ m.via = "app_mention" => m.group /\ m.address = "mentioned"
      /\ m.file # "none" => kind \notin {"irc", "whatsapp_native"}
      /\ kind = "line" /\ m.file # "none" => ~m.words /\ m.address = "plain"
  BY ArrivalFacts
<1>5. CASE DiscordHandle(p)
  <2> DEFINE blank == BlankUnlessAttached(p, Cleared(m.group))
  <2>1. kind = "discord" /\ Receive(p, "discord")
    BY <1>5 DEF DiscordHandle, Receive
  <2>2. CASE Own(p) \/ ~IsAllowedSender(p) \/ ~Responds(p)
    <3>1. Reach(p, "dropped", {})
      BY <1>5, <2>2 DEF DiscordHandle
    <3>2. ~Wanted(p)
      BY <1>a, <2>1, <2>2 DEF Own, IsAllowedSender, Responds, ShouldRespondInGroup, IsBotMentioned,
         Wanted, InGroup, Addressed
    <3> QED
      BY <1>1, <1>3, <2>1, <3>1, <3>2, ReceiveDecides
  <2>3. CASE ~(Own(p) \/ ~IsAllowedSender(p) \/ ~Responds(p))
    <3>1. Reach(p, IF blank THEN "dropped" ELSE "held", Fetch(p))
      BY <1>5, <2>3 DEF DiscordHandle
    <3>2. Wanted(p) <=> ~blank
      BY <1>a, <2>1, <2>3 DEF IsAllowedSender, Responds, ShouldRespondInGroup, IsBotMentioned,
         Wanted, InGroup, Addressed, Substance, BlankUnlessAttached, TextLeft
    <3> QED
      BY <1>1, <1>3, <2>1, <2>3, <3>1, <3>2, FetchType, ReceiveDecides
  <2> QED
    BY <2>2, <2>3
<1>6. CASE SlackMessage(p)
  <2>1. kind = "slack" /\ Receive(p, "slack") /\ m.via = "message"
    BY <1>6 DEF SlackMessage, Receive
  <2>2. CASE Own(p) \/ ~m.fresh \/ ~IsAllowedSender(p)
    <3>1. Reach(p, "dropped", {})
      BY <1>6, <2>2 DEF SlackMessage
    <3>2. ~Wanted(p)
      BY <2>2 DEF Own, IsAllowedSender, Wanted
    <3> QED
      BY <1>1, <1>3, <2>1, <3>1, <3>2, ReceiveDecides
  <2>3. CASE ~(Own(p) \/ ~m.fresh \/ ~IsAllowedSender(p)) /\ m.group /\ ~ShouldRespondInGroup(p, FALSE)
    <3>1. Reach(p, "dropped", {"note"})
      BY <1>6, <2>3 DEF SlackMessage
    <3>2. ~Wanted(p)
      BY <2>1, <2>3 DEF ShouldRespondInGroup, Wanted, InGroup, Addressed
    <3> QED
      BY <1>1, <1>3, <2>1, <2>3, <3>1, <3>2, ReceiveDecides
  <2>4. CASE ~(Own(p) \/ ~m.fresh \/ ~IsAllowedSender(p)) /\ ~(m.group /\ ~ShouldRespondInGroup(p, FALSE))
    <3>1. Reach(p, IF BlankUnlessFetched(p) THEN "dropped" ELSE "held", {"note"} \cup Fetch(p))
      BY <1>6, <2>4 DEF SlackMessage
    <3>2. Wanted(p) <=> ~BlankUnlessFetched(p)
      BY <1>a, <2>1, <2>4 DEF IsAllowedSender, ShouldRespondInGroup,
         Wanted, InGroup, Addressed, Substance, BlankUnlessFetched, TextLeft
    <3> QED
      BY <1>1, <1>3, <2>1, <2>4, <3>1, <3>2, FetchType, ReceiveDecides
  <2> QED
    BY <2>2, <2>3, <2>4
<1>7. CASE SlackAppMention(p)
  <2>1. kind = "slack" /\ Receive(p, "slack") /\ m.via = "app_mention"
    BY <1>7 DEF SlackAppMention, Receive
  <2>2. CASE Own(p) \/ ~IsAllowedSender(p)
    <3>1. Reach(p, "dropped", {})
      BY <1>7, <2>2 DEF SlackAppMention
    <3>2. ~Wanted(p)
      BY <2>2 DEF Own, IsAllowedSender, Wanted
    <3> QED
      BY <1>1, <1>3, <2>1, <3>1, <3>2, ReceiveDecides
  <2>3. CASE ~(Own(p) \/ ~IsAllowedSender(p))
    <3>1. Reach(p, IF m.words THEN "held" ELSE "dropped", {"note"})
      BY <1>7, <2>3 DEF SlackAppMention
    <3>2. Wanted(p) <=> m.words
      BY <1>a, <2>1, <2>3 DEF IsAllowedSender, Wanted, InGroup, Addressed, Substance, TextLeft, Cleared
    <3> QED
      BY <1>1, <1>3, <2>1, <2>3, <3>1, <3>2, ReceiveDecides
  <2> QED
    BY <2>2, <2>3
<1>8. CASE SlackSlashCommand(p)
  <2>1. /\ kind = "slack" /\ Receive(p, "slack") /\ m.via = "slash"
        /\ Reach(p, IF IsAllowedSender(p) THEN "held" ELSE "dropped", {})
    BY <1>8 DEF SlackSlashCommand, Receive
  <2>2. Wanted(p) <=> IsAllowedSender(p)
    BY <1>a, <2>1 DEF IsAllowedSender, Wanted, InGroup, Addressed, Substance
  <2> QED
    BY <1>1, <1>3, <2>1, <2>2, ReceiveDecides
<1>9. CASE LineEvent(p)
  <2>1. kind = "line" /\ Receive(p, "line")
    BY <1>9 DEF LineEvent, Receive
  <2>2. CASE ~m.fresh
    <3>1. Reach(p, "dropped", {})
      BY <1>9, <2>2 DEF LineEvent
    <3>2. ~Wanted(p)
      BY <2>2 DEF Wanted
    <3> QED
      BY <1>1, <1>3, <2>1, <3>1, <3>2, ReceiveDecides
  <2>3. CASE m.fresh
    <3> DEFINE no == BlankUnlessFetched(p) \/ ~Responds(p) \/ ~IsAllowedSender(p)
    <3>1. Reach(p, IF no THEN "dropped" ELSE "held", {"note"} \cup Fetch(p))
      BY <1>9, <2>3 DEF LineEvent
    <3>2. Wanted(p) <=> ~no
      BY <1>a, <2>1, <2>3 DEF IsAllowedSender, Responds, ShouldRespondInGroup, IsBotMentioned,
         Wanted, InGroup, Addressed, Substance, BlankUnlessFetched, TextLeft
    <3> QED
      BY <1>1, <1>3, <2>1, <3>1, <3>2, FetchType, ReceiveDecides
  <2> QED
    BY <2>2, <2>3
<1>10. CASE IrcPrivmsg(p)
  <2> DEFINE no == Own(p) \/ ~IsAllowedSender(p) \/ ~Responds(p) \/ ~TextLeft(p, Cleared(m.group))
  <2>1. kind = "irc" /\ Receive(p, "irc") /\ Reach(p, IF no THEN "dropped" ELSE "held", {})
    BY <1>10 DEF IrcPrivmsg, Receive
  <2>2. Wanted(p) <=> ~no
    BY <1>a, <2>1 DEF Own, IsAllowedSender, Responds, ShouldRespondInGroup, IsBotMentioned,
       Wanted, InGroup, Addressed, Substance
  <2> QED
    BY <1>1, <1>3, <2>1, <2>2, ReceiveDecides
<1>11. CASE WhatsAppIncoming(p)
  <2>1. /\ kind = "whatsapp" /\ Receive(p, "whatsapp")
        /\ Reach(p, IF IsAllowedSender(p) THEN "held" ELSE "dropped", {})
    BY <1>11 DEF WhatsAppIncoming, Receive
  <2>2. Wanted(p) <=> IsAllowedSender(p)
    BY <1>a, <2>1 DEF IsAllowedSender, Wanted, InGroup, Addressed, Substance
  <2> QED
    BY <1>1, <1>3, <2>1, <2>2, ReceiveDecides
<1>12. CASE WhatsAppNativeIncoming(p)
  <2>1. /\ kind = "whatsapp_native" /\ Receive(p, "whatsapp_native")
        /\ Reach(p, IF TextLeft(p, {}) /\ IsAllowedSender(p) THEN "held" ELSE "dropped", {})
    BY <1>12 DEF WhatsAppNativeIncoming, Receive
  <2>2. Wanted(p) <=> TextLeft(p, {}) /\ IsAllowedSender(p)
    BY <1>a, <2>1 DEF IsAllowedSender, Wanted, InGroup, Addressed, Substance
  <2> QED
    BY <1>1, <1>3, <2>1, <2>2, ReceiveDecides
<1> QED
  BY <1>4, <1>5, <1>6, <1>7, <1>8, <1>9, <1>10, <1>11, <1>12

\* Telegram decides in its second step, when the sender is known to be allowed.
LEMMA TelegramDecides ==
  ASSUME InboundInv, NEW p \in Posts, TelegramFilter(p)
  PROVE  Decides(p)
<1> DEFINE s == IF Responds(p) THEN "held" ELSE "dropped"
<1>1. /\ stage[p] = "noting" /\ kind = "telegram" /\ IsAllowedSender(p)
      /\ Reach(p, s, {"note"} \cup Fetch(p)) /\ UNCHANGED <<crowd, moved, cached, misread>>
  BY DEF TelegramFilter, InboundInv, AllowedInv, matrixVars
<1>2. /\ stage' = [stage EXCEPT ![p] = s] /\ stage'[p] = s
      /\ effects' \in [Posts -> SUBSET {"note", "fetch"}]
      /\ \A q \in Posts : q # p => stage'[q] = stage[q] /\ effects'[q] = effects[q]
      /\ UNCHANGED <<kind, trigger, post, busOpen, out>>
  BY <1>1, FetchType, ReachFacts
<1>3. Handled(p, s)
  BY <1>1, <1>2 DEF Handled
<1>4. Wanted(p) <=> Responds(p)
  BY <1>1, ArrivalFacts DEF IsAllowedSender, Responds, ShouldRespondInGroup, IsBotMentioned,
     Wanted, InGroup, Addressed, Substance
<1>5. Agrees(p)
  BY <1>1, <1>2, <1>4 DEF Agrees
<1> QED
  BY <1>1, <1>2, <1>3, <1>5, PostFacts DEF Decides, HandledTypes

\* Matrix may mistake the kind of the room, and then says so.
LEMMA MatrixDecides ==
  ASSUME InboundInv, NEW p \in Posts, MatrixHandle(p)
  PROVE  Decides(p)
<1> DEFINE m == post[p]
<1>1. /\ kind = "matrix" /\ Receive(p, "matrix")
      /\ moved \in BOOLEAN /\ cached \in {"none", "direct", "group"} /\ misread \subseteq Posts
  BY PostFacts DEF MatrixHandle, Receive
<1>a. /\ m.from \in {"self", "rejected", "allowed"} /\ m.fresh \in BOOLEAN
      /\ m.address \in {"mentioned", "prefixed", "plain"} /\ m.words \in BOOLEAN
      /\ m.file \in {"none", "ok", "broken"} /\ m.via = "message" /\ ~m.group /\ crowd \in BOOLEAN
  BY <1>1, ArrivalFacts DEF InboundInv, InboundTypeOK
<1>2. CASE (Own(p) \/ ~m.fresh) /\ Reach(p, "dropped", {}) /\ UNCHANGED matrixVars
  <2>1. ~Wanted(p)
    BY <1>2 DEF Own, Wanted
  <2> QED
    BY <1>1, <1>2, <2>1, ReceiveDecides DEF matrixVars
<1>3. CASE /\ BlankUnlessAttached(p, {}) \/ ~IsAllowedSender(p)
           /\ Reach(p, "dropped", Fetch(p)) /\ UNCHANGED matrixVars
  <2>1. ~Wanted(p)
    BY <1>a, <1>1, <1>3 DEF IsAllowedSender, BlankUnlessAttached, TextLeft, Wanted, Substance
  <2> QED
    BY <1>1, <1>3, <2>1, FetchType, ReceiveDecides DEF matrixVars
<1>4. ASSUME m.fresh, ~BlankUnlessAttached(p, {}), IsAllowedSender(p), NEW group \in BOOLEAN,
             IsGroupRoom(p, group), UNCHANGED crowd,
             Reach(p, IF \/ group /\ ~ShouldRespondInGroup(p, IsBotMentioned(p))
                         \/ BlankUnlessAttached(p, Cleared(group))
                      THEN "dropped" ELSE "held", Fetch(p))
      PROVE  Decides(p)
  <2> DEFINE no == \/ group /\ ~ShouldRespondInGroup(p, IsBotMentioned(p))
                   \/ BlankUnlessAttached(p, Cleared(group))
  <2>1. /\ moved' \in BOOLEAN /\ cached' \in {"none", "direct", "group"} /\ misread' \subseteq Posts
    BY <1>1, <1>4 DEF IsGroupRoom, Remember, RememberNothing, RoomKind
  <2>2. group = crowd => (Wanted(p) <=> ~no)
    BY <1>a, <1>1, <1>4 DEF IsAllowedSender, ShouldRespondInGroup, IsBotMentioned,
       BlankUnlessAttached, TextLeft, Wanted, InGroup, Addressed, Substance
  <2>3. group = crowd \/ p \in misread'
    BY <1>a, <1>1, <1>4 DEF IsGroupRoom, RoomKind, InboundInv, CacheInv
  <2> QED
    BY <1>1, <1>4, <2>1, <2>2, <2>3, FetchType, ReceiveDecides
<1> QED
  BY <1>2, <1>3, <1>4 DEF MatrixHandle

\* Every handler decides as it should.
LEMMA HandleDecides ==
  ASSUME InboundInv, NEW p \in Posts, Handle(p)
  PROVE  Decides(p)
  BY HandlersDecide, TelegramDecides, MatrixDecides DEF Handle

\* A handler on Matrix keeps the cache in step with the room.
LEMMA HandleCaches ==
  ASSUME InboundInv, NEW p \in Posts, Handle(p)
  PROVE  CacheInv'
<1>1. CASE UNCHANGED <<crowd, moved, cached>>
  BY <1>1 DEF InboundInv, CacheInv, RoomKind
<1>2. CASE MatrixHandle(p) /\ \E group \in BOOLEAN : IsGroupRoom(p, group) /\ UNCHANGED crowd
  <2>1. UNCHANGED crowd /\ (UNCHANGED <<cached, moved>> \/ Remember)
    BY <1>2 DEF IsGroupRoom, RememberNothing
  <2> QED
    BY <1>1, <2>1 DEF Remember, CacheInv, RoomKind, InboundInv, InboundTypeOK
<1> QED
  BY <1>1, <1>2 DEF Handle, TelegramHandle, TelegramFilter, DiscordHandle, SlackMessage,
     SlackAppMention, SlackSlashCommand, LineEvent, IrcPrivmsg, WhatsAppIncoming,
     WhatsAppNativeIncoming, MatrixHandle, matrixVars

\* A handler that takes the next event keeps the order.
LEMMA HandledKeeps ==
  ASSUME InboundInv, NEW p \in Posts, NEW s, Handled(p, s), HandledTypes, CacheInv'
  PROVE  InboundInv'
<1> USE DEF InboundInv, Handled
<1>1. stage'[p] = s /\ \A q \in Posts : q # p => stage'[q] = stage[q]
  BY DEF InboundTypeOK
<1>2. InboundTypeOK'
  <2>1. stage' \in [Posts -> {"sent", "noting", "held", "dropped", "lost", "published"}]
    BY DEF InboundTypeOK
  <2>2. \A q \in Posts : stage'[q] = "published" <=> \E i \in DOMAIN out' : out'[i] = q
    BY <1>1 DEF InboundTypeOK
  <2> QED
    BY <2>1, <2>2 DEF InboundTypeOK, HandledTypes
<1>3. AllowedInv'
  BY <1>1 DEF AllowedInv, IsAllowedSender
<1>4. PublishedInOrder'
  BY DEF PublishedInOrder
<1>5. SerialInv'
  <2> SUFFICES ASSUME kind \in Serial PROVE SerialInv'
    BY DEF SerialInv
  <2>1. stage[p] = "sent" /\ \A q \in Posts : q < p => stage[q] # "sent"
    BY DEF AllowedInv, Serial
  <2>2. \A q \in Posts : stage[q] # "held"
    BY <2>1
  <2>3. \A i \in DOMAIN out : out[i] \in Posts /\ stage[out[i]] # "sent"
    BY ElementOfSeq, LenProperties DEF SerialInv, InboundTypeOK
  <2>4. \A i \in DOMAIN out : out[i] < p
    <3> TAKE i \in DOMAIN out
    <3>1. out[i] # p /\ ~(p < out[i])
      BY <2>1, <2>3 DEF SerialInv
    <3>2. out[i] \in Nat /\ p \in Nat
      BY <2>3, InboundAssumption
    <3> QED
      BY <3>1, <3>2
  <2>5. \A q, r \in Posts : stage'[q] = "held" /\ stage'[r] = "held" => q = r
    BY <1>1, <2>2
  <2>6. \A q, r \in Posts : stage'[q] = "sent" /\ q < r => stage'[r] = "sent"
    <3> TAKE q, r \in Posts
    <3> SUFFICES ASSUME stage'[q] = "sent", q < r PROVE stage'[r] = "sent"
      OBVIOUS
    <3>1. q # p /\ stage[q] = "sent"
      BY <1>1
    <3>2. r # p
      BY <2>1, <3>1
    <3> QED
      BY <1>1, <3>1, <3>2 DEF SerialInv
  <2>7. \A q \in Posts : stage'[q] = "held" => \A i \in DOMAIN out : out[i] < q
    BY <1>1, <2>2, <2>4
  <2>8. \A i \in DOMAIN out : stage'[out[i]] # "sent"
    BY <1>1, <2>3
  <2> QED
    BY <2>5, <2>6, <2>7, <2>8 DEF SerialInv
<1> QED
  BY <1>2, <1>3, <1>4, <1>5

\* Publishing comes after everything published before.
LEMMA HandleMessageKeeps ==
  ASSUME InboundInv, NEW p \in Posts, HandleMessage(p)
  PROVE  InboundInv' /\ Agrees(p) /\ \A q \in Posts : q # p => stage'[q] = stage[q]
<1> USE DEF InboundInv
<1>1. /\ stage[p] = "held" /\ IsAllowedSender(p)
      /\ stage' = [stage EXCEPT ![p] = IF busOpen THEN "published" ELSE "lost"]
      /\ out' = IF busOpen THEN Append(out, p) ELSE out
      /\ UNCHANGED <<kind, trigger, post, effects, busOpen, crowd, moved, cached, misread>>
  BY DEF HandleMessage, AllowedInv, matrixVars
<1>2. /\ stage'[p] = (IF busOpen THEN "published" ELSE "lost")
      /\ \A q \in Posts : q # p => stage'[q] = stage[q]
  BY <1>1 DEF InboundTypeOK
<1>3. /\ out \in Seq(Posts) /\ Len(out) \in Nat /\ DOMAIN out = 1 .. Len(out)
      /\ out' \in Seq(Posts)
      /\ \A i \in DOMAIN out : out[i] \in Posts /\ i \in DOMAIN out' /\ out'[i] = out[i]
      /\ \A i \in DOMAIN out' : i \in DOMAIN out \/ (busOpen /\ i = Len(out) + 1 /\ out'[i] = p)
      /\ busOpen => Len(out) + 1 \in DOMAIN out' /\ out'[Len(out) + 1] = p
  <2>1. out \in Seq(Posts) /\ Len(out) \in Nat /\ DOMAIN out = 1 .. Len(out)
    BY LenProperties DEF InboundTypeOK
  <2>2. \A i \in DOMAIN out : out[i] \in Posts
    BY <2>1, ElementOfSeq
  <2>3. CASE busOpen
    BY <1>1, <2>1, <2>2, <2>3
  <2>4. CASE ~busOpen
    BY <1>1, <2>1, <2>2, <2>4
  <2> QED
    BY <2>3, <2>4
<1>4. InboundTypeOK'
  <2>1. stage' \in [Posts -> {"sent", "noting", "held", "dropped", "lost", "published"}]
    BY <1>1 DEF InboundTypeOK
  <2>2. \A q \in Posts : stage'[q] = "published" <=> \E i \in DOMAIN out' : out'[i] = q
    <3> TAKE q \in Posts
    <3>1. CASE q = p
      BY <1>1, <1>2, <1>3, <3>1 DEF InboundTypeOK
    <3>2. CASE q # p
      BY <1>2, <1>3, <3>2 DEF InboundTypeOK
    <3> QED
      BY <3>1, <3>2
  <2> QED
    BY <1>1, <1>3, <2>1, <2>2 DEF InboundTypeOK
<1>5. AllowedInv'
  BY <1>1, <1>2 DEF AllowedInv, IsAllowedSender
<1>6. CacheInv'
  BY <1>1 DEF CacheInv, RoomKind
<1>7. PublishedInOrder'
  <2> SUFFICES ASSUME kind \in Serial, NEW i \in DOMAIN out', NEW j \in DOMAIN out', i < j
               PROVE  out'[i] < out'[j]
    BY <1>1 DEF PublishedInOrder
  <2>1. i \in DOMAIN out
    BY <1>3
  <2>2. CASE j \in DOMAIN out
    BY <1>3, <2>1, <2>2 DEF PublishedInOrder
  <2>3. CASE out'[j] = p
    BY <1>1, <1>3, <2>1, <2>3 DEF SerialInv
  <2> QED
    BY <1>3, <2>2, <2>3
<1>8. SerialInv'
  <2> SUFFICES ASSUME kind \in Serial PROVE SerialInv'
    BY <1>1 DEF SerialInv
  <2>1. \A q \in Posts : stage'[q] # "held"
    BY <1>1, <1>2 DEF SerialInv
  <2>2. \A q, r \in Posts : stage'[q] = "sent" /\ q < r => stage'[r] = "sent"
    <3> TAKE q, r \in Posts
    <3> SUFFICES ASSUME stage'[q] = "sent", q < r PROVE stage'[r] = "sent"
      OBVIOUS
    <3>1. stage[q] = "sent"
      BY <1>2
    <3>2. stage[r] = "sent"
      BY <3>1 DEF SerialInv
    <3> QED
      BY <1>1, <1>2, <3>2
  <2>3. \A i \in DOMAIN out' : stage'[out'[i]] # "sent"
    BY <1>2, <1>3 DEF SerialInv
  <2> QED
    BY <2>1, <2>2, <2>3 DEF SerialInv
<1>9. Agrees(p)
  BY <1>1, <1>2 DEF Agrees
<1> QED
  BY <1>2, <1>4, <1>5, <1>6, <1>7, <1>8, <1>9

\* The steps that are no handler's.
LEMMA InboundOthersKeep ==
  ASSUME InboundInv, TelegramMapRace \/ MatrixForget \/ MembersChange \/ CloseBus
  PROVE  InboundInv' /\ \A p \in Posts : Agrees(p)
<1> USE DEF InboundInv
<1>1. CASE TelegramMapRace
  <2>1. /\ kind = "telegram"
        /\ stage' = [p \in Posts |-> IF stage[p] = "published" THEN "published" ELSE "lost"]
        /\ busOpen' = FALSE
        /\ UNCHANGED <<kind, trigger, post, effects, out, crowd, moved, cached, misread>>
    BY <1>1 DEF TelegramMapRace, AllowedInv, matrixVars
  <2>2. InboundTypeOK'
    BY <2>1 DEF InboundTypeOK
  <2>3. AllowedInv' /\ CacheInv'
    BY <2>1 DEF AllowedInv, CacheInv, RoomKind
  <2>4. SerialInv' /\ PublishedInOrder'
    BY <2>1 DEF SerialInv, PublishedInOrder, Serial
  <2>5. \A p \in Posts : Agrees(p)
    BY <2>1 DEF Agrees
  <2> QED
    BY <2>2, <2>3, <2>4, <2>5
<1>2. CASE MatrixForget \/ MembersChange \/ CloseBus
  <2>1. UNCHANGED <<kind, trigger, post, stage, effects, out>>
    BY <1>2 DEF MatrixForget, MembersChange, CloseBus
  <2>2. InboundTypeOK'
    <3>1. /\ busOpen' \in BOOLEAN /\ crowd' \in BOOLEAN /\ moved' \in BOOLEAN
          /\ cached' \in {"none", "direct", "group"} /\ misread' \subseteq Posts
      <4>1. CASE MatrixForget
        BY <4>1 DEF MatrixForget, InboundTypeOK
      <4>2. CASE MembersChange
        BY <4>2 DEF MembersChange, InboundTypeOK
      <4>3. CASE CloseBus
        BY <4>3 DEF CloseBus, matrixVars, InboundTypeOK
      <4> QED
        BY <1>2, <4>1, <4>2, <4>3
    <3> QED
      BY <2>1, <3>1 DEF InboundTypeOK
  <2>3. AllowedInv' /\ SerialInv' /\ PublishedInOrder'
    BY <2>1 DEF AllowedInv, IsAllowedSender, SerialInv, PublishedInOrder
  <2>4. CacheInv'
    BY <1>2 DEF MatrixForget, MembersChange, CloseBus, matrixVars, CacheInv, RoomKind, InboundTypeOK
  <2>5. \A p \in Posts : Agrees(p)
    BY <2>1 DEF Agrees
  <2> QED
    BY <2>2, <2>3, <2>4, <2>5
<1> QED
  BY <1>1, <1>2

\* Every step keeps the invariant, and every decision is right.
LEMMA InboundStep ==
  ASSUME InboundInv, InboundNext
  PROVE  InboundInv' /\ \A p \in Posts : Agrees(p)
<1>1. ASSUME NEW q \in Posts, Handle(q) PROVE InboundInv' /\ \A p \in Posts : Agrees(p)
  <2>1. Decides(q) /\ CacheInv'
    BY <1>1, HandleDecides, HandleCaches
  <2>2. InboundInv'
    BY <2>1, HandledKeeps DEF Decides
  <2>3. \A p \in Posts : Agrees(p)
    BY <2>1 DEF Decides, Agrees
  <2> QED
    BY <2>2, <2>3
<1>2. ASSUME NEW q \in Posts, HandleMessage(q) PROVE InboundInv' /\ \A p \in Posts : Agrees(p)
  <2>1. effects' = effects
    BY <1>2 DEF HandleMessage
  <2> QED
    BY <1>2, <2>1, HandleMessageKeeps DEF Agrees
<1> QED
  BY <1>1, <1>2, InboundOthersKeep DEF InboundNext

LEMMA InboundStutter == InboundInv /\ UNCHANGED inboundVars => InboundInv'
<1> SUFFICES ASSUME InboundInv, UNCHANGED inboundVars PROVE InboundInv'
  OBVIOUS
<1>1. InboundTypeOK' /\ AllowedInv' /\ CacheInv' /\ SerialInv' /\ PublishedInOrder'
  BY DEF inboundVars, InboundInv, InboundTypeOK, AllowedInv, IsAllowedSender, CacheInv, RoomKind,
     SerialInv, PublishedInOrder
<1> QED
  BY <1>1 DEF InboundInv

\* An adapter that handles one event at a time (Slack, Matrix, IRC and both
\* WhatsApp adapters) publishes the messages of a chat in the platform's order.
THEOREM OrderKept == InboundSpec => []PublishedInOrder
<1>1. InboundInv => PublishedInOrder
  BY DEF InboundInv
<1>2. InboundInv /\ [InboundNext]_inboundVars => InboundInv'
  BY InboundStep, InboundStutter
<1> QED
  BY <1>1, <1>2, InboundInitKeeps, PTL DEF InboundSpec

\* The message handlers of all adapters answer what deserves an answer and nothing
\* else, except where Matrix used a failed query or a stale room kind; and those
\* that check the allow-list first do nothing for a sender who is not on it.
THEOREM Decisions == InboundSpec => DecisionsAgree
<1>1. InboundInv /\ [InboundNext]_inboundVars => InboundInv'
  BY InboundStep, InboundStutter
<1>2. InboundInv /\ [InboundNext]_inboundVars => [\A p \in Posts : Agrees(p)]_inboundVars
  BY InboundStep
<1>3. [\A p \in Posts : Agrees(p)]_inboundVars
        => [\A p \in Posts :
              /\ stage'[p] # stage[p] /\ stage'[p] \in {"held", "dropped"} =>
                   (stage'[p] = "held" <=> Wanted(p)) \/ p \in misread'
              /\ effects'[p] # effects[p] /\ kind \in {"telegram", "discord", "slack"} =>
                   IsAllowedSender(p)]_inboundVars
  BY DEF Agrees
<1> QED
  BY <1>1, <1>2, <1>3, InboundInitKeeps, PTL DEF InboundSpec, DecisionsAgree

-----------------------------------------------------------------------------
(* Messages out *)

\* A Send in progress, and only that, has calls to make; the manager retries at
\* most MaxRetries times; each adapter uses what it alone has.
SendInv ==
  /\ calls \in Seq(SUBSET Items) /\ parts \in Seq({"ok", "gone"})
  /\ result \notin {"sending", "replying"} => calls = <<>>
  /\ result = "ready" => attempt <= MaxRetries
  /\ token \/ result \in {"replying", "replied"} => platform = "line"
  /\ plain => platform = "telegram"
  /\ plain /\ calls # <<>> => Head(calls) = {Text}
  /\ overdue > 0 => platform = "discord"

\* One item per call, but for Telegram's captions and Discord's posts.
Shape(c) ==
  \/ \E x \in Items : c \subseteq {x}
  \/ platform = "telegram" /\ text = "short" /\ parts # <<>> /\ c = {1, Text}
  \/ platform = "discord" /\ c = Words \cup Resolvable

\* No item is carried by two calls of a Send.
Planned(seq) ==
  /\ \A i \in DOMAIN seq : Shape(seq[i])
  /\ \A i, j \in DOMAIN seq : i # j => seq[i] \cap seq[j] = {}
  /\ platform = "discord" => Len(seq) <= 1

\* What a Send owes has arrived or is in a call that it is still to make.
OwedInv ==
  /\ result \in {"sending", "replying"} =>
       \A x \in Deliverable \ NotMade : got[x] > 0 \/ \E i \in DOMAIN calls : x \in calls[i]
  /\ result \in {"sent", "replied"} => \A x \in Deliverable \ NotMade : got[x] > 0

InCalls(x) == (platform = "discord" /\ calls # <<>>) \/ \E i \in DOMAIN calls : x \in calls[i]

\* The copies of an item that this Send may still deliver: one in a call, and
\* one more by LINE's reply or Telegram's first try at a chunk.
Left(x) == IF InCalls(x) THEN 1 ELSE 0

Again(x) ==
  IF x = Text /\ (result = "replying" \/ (platform = "telegram" /\ ~plain /\ InCalls(x))) THEN 1 ELSE 0

MostCopies(x) ==
  IF x = Text /\ platform \in {"telegram", "line"} THEN 2 * attempt ELSE attempt

CountInv == \A x \in Items : got[x] + overdue + Left(x) + Again(x) <= MostCopies(x)

DeliveryInv == DeliveryTypeOK /\ SendInv /\ Planned(calls) /\ OwedInv /\ CountInv

LEMMA ItemsFacts == Text \in Items /\ Items \subseteq Nat
  BY DeliveryAssumption DEF Items, Text

\* The invariant says what the property does.
LEMMA DeliveryInvReports == DeliveryInv => ReportedMeansDelivered
<1> SUFFICES ASSUME DeliveryInv PROVE ReportedMeansDelivered
  OBVIOUS
<1>1. result \in {"sent", "replied"} => \A x \in Deliverable \ NotMade : got[x] > 0
  BY DEF DeliveryInv, OwedInv
<1>2. ASSUME NEW x \in Items
      PROVE  got[x] + overdue <=
               IF x = Text /\ platform \in {"telegram", "line"} THEN 2 * attempt ELSE attempt
  <2>1. got[x] + overdue + Left(x) + Again(x) <= MostCopies(x)
    BY DEF DeliveryInv, CountInv
  <2>2. Left(x) \in Nat /\ Again(x) \in Nat
    BY DEF Left, Again
  <2>3. got[x] \in Nat /\ overdue \in Nat /\ attempt \in Nat
    BY DEF DeliveryInv, DeliveryTypeOK
  <2>4. MostCopies(x) \in Nat
    BY <2>3 DEF MostCopies
  <2>5. got[x] + overdue <= MostCopies(x)
    BY <2>1, <2>2, <2>3, <2>4
  <2> QED
    BY <2>5 DEF MostCopies
<1> QED
  BY <1>1, <1>2 DEF ReportedMeansDelivered

\* Nothing was sent yet.
LEMMA DeliveryInitKeeps == DeliveryInit => DeliveryInv
<1> SUFFICES ASSUME DeliveryInit PROVE DeliveryInv
  OBVIOUS
<1>1. PICK n \in 0 .. NumParts : parts \in [1 .. n -> {"ok", "gone"}]
  BY DEF DeliveryInit
<1>2. n \in Nat /\ n <= NumParts /\ NumParts \in Nat
  BY DeliveryAssumption
<1>3. parts \in Seq({"ok", "gone"}) /\ Len(parts) = n
  BY <1>1, <1>2
<1>4. calls = <<>> /\ DOMAIN calls = {} /\ Len(calls) = 0 /\ calls \in Seq(SUBSET Items)
  BY DEF DeliveryInit
<1>5. token \in BOOLEAN /\ (token => platform = "line")
  BY DEF DeliveryInit
<1>6. got \in [Items -> Nat] /\ \A x \in Items : got[x] = 0
  BY DEF DeliveryInit
<1>7. DeliveryTypeOK
  <2>1. platform \in Platforms /\ text \in {"none", "short", "long"} /\ plain \in BOOLEAN
        /\ token \in BOOLEAN
        /\ result \in {"ready", "sending", "replying", "replied", "sent", "failed"}
    BY <1>5 DEF DeliveryInit
  <2>2. Len(parts) <= NumParts /\ \A i \in DOMAIN parts : parts[i] \in {"ok", "gone"}
    BY <1>1, <1>2, <1>3
  <2>3. attempt \in 0 .. MaxRetries + 1 /\ overdue \in 0 .. attempt
    BY DeliveryAssumption DEF DeliveryInit
  <2>4. got \in [Items -> Nat] /\ \A i \in DOMAIN calls : calls[i] \subseteq Items
    BY <1>4, <1>6
  <2> QED
    BY <2>1, <2>2, <2>3, <2>4 DEF DeliveryTypeOK
<1>8. SendInv
  BY <1>3, <1>4, <1>5, DeliveryAssumption DEF DeliveryInit, SendInv
<1>9. Planned(calls) /\ OwedInv
  BY <1>4 DEF Planned, OwedInv, DeliveryInit
<1>10. CountInv
  BY <1>4, <1>6 DEF CountInv, Left, Again, InCalls, MostCopies, DeliveryInit
<1> QED
  BY <1>7, <1>8, <1>9, <1>10 DEF DeliveryInv

-----------------------------------------------------------------------------
(* The calls that are left *)

\* The first call and the others.
LEMMA TailFacts ==
  ASSUME DeliveryInv, calls # <<>>
  PROVE  /\ 1 \in DOMAIN calls /\ Head(calls) = calls[1] /\ Head(calls) \subseteq Items
         /\ Tail(calls) \in Seq(SUBSET Items) /\ Len(Tail(calls)) = Len(calls) - 1
         /\ Len(calls) \in Nat /\ Len(calls) > 0
         /\ \A i \in DOMAIN Tail(calls) : i + 1 \in DOMAIN calls /\ Tail(calls)[i] = calls[i + 1]
         /\ \A i \in DOMAIN calls :
              i = 1 \/ (i - 1 \in DOMAIN Tail(calls) /\ Tail(calls)[i - 1] = calls[i])
<1>1. calls \in Seq(SUBSET Items)
  BY DEF DeliveryInv, SendInv
<1>2. Len(calls) \in Nat /\ DOMAIN calls = 1 .. Len(calls) /\ Len(calls) > 0
  BY <1>1, EmptySeq, LenProperties
<1>3. /\ Tail(calls) \in Seq(SUBSET Items) /\ Len(Tail(calls)) = Len(calls) - 1
      /\ \A i \in 1 .. Len(Tail(calls)) : Tail(calls)[i] = calls[i + 1]
      /\ Head(calls) = calls[1] /\ Head(calls) \in SUBSET Items
  BY <1>1, <1>2, HeadTailProperties
<1>4. DOMAIN Tail(calls) = 1 .. Len(calls) - 1
  BY <1>3, LenProperties
<1> QED
  BY <1>2, <1>3, <1>4

\* What the first call carries is in no other, and the rest is as before.
LEMMA TailCarries ==
  ASSUME DeliveryInv, calls # <<>>
  PROVE  /\ Planned(Tail(calls))
         /\ \A x \in Items : (\E i \in DOMAIN Tail(calls) : x \in Tail(calls)[i]) <=>
              x \notin Head(calls) /\ \E i \in DOMAIN calls : x \in calls[i]
<1> DEFINE rest == Tail(calls)
<1>1. Planned(calls)
  BY DEF DeliveryInv
<1>2. \A i \in DOMAIN rest : i + 1 \in DOMAIN calls /\ rest[i] = calls[i + 1] /\ i \in 1 .. Len(rest)
  BY TailFacts, LenProperties
<1>3. \A i \in DOMAIN rest : i \in Nat /\ i # 0
  BY <1>2, TailFacts
<1>4. Planned(rest)
  <2>1. \A i \in DOMAIN rest : Shape(rest[i])
    BY <1>1, <1>2 DEF Planned
  <2>2. \A i, j \in DOMAIN rest : i # j => rest[i] \cap rest[j] = {}
    <3> SUFFICES ASSUME NEW i \in DOMAIN rest, NEW j \in DOMAIN rest, i # j
                 PROVE  rest[i] \cap rest[j] = {}
      OBVIOUS
    <3>1. i + 1 # j + 1
      BY <1>3
    <3> QED
      BY <1>1, <1>2, <3>1 DEF Planned
  <2>3. platform = "discord" => Len(rest) <= 1
    BY <1>1, TailFacts DEF Planned
  <2> QED
    BY <2>1, <2>2, <2>3 DEF Planned
<1>5. ASSUME NEW x \in Items, NEW i \in DOMAIN rest, x \in rest[i]
      PROVE  x \notin Head(calls) /\ \E j \in DOMAIN calls : x \in calls[j]
  <2>1. i + 1 # 1
    BY <1>3
  <2> QED
    BY <1>1, <1>2, <1>5, <2>1, TailFacts DEF Planned
<1>6. ASSUME NEW x \in Items, x \notin Head(calls), NEW i \in DOMAIN calls, x \in calls[i]
      PROVE  \E j \in DOMAIN rest : x \in rest[j]
  BY <1>6, TailFacts
<1> QED
  BY <1>4, <1>5, <1>6

-----------------------------------------------------------------------------
(* Send: the calls that are planned *)

\* The parts are items, and none is the text.
LEMMA PartsFacts ==
  ASSUME DeliveryInv
  PROVE  /\ DOMAIN parts = 1 .. Len(parts) /\ Len(parts) \in Nat
         /\ \A i \in DOMAIN parts : i \in Items /\ i # Text
         /\ Words \subseteq {Text} /\ Words \subseteq Items
         /\ Resolvable \subseteq DOMAIN parts /\ Resolvable \subseteq Items
<1>1. DOMAIN parts = 1 .. Len(parts) /\ Len(parts) \in Nat /\ Len(parts) <= NumParts
  BY LenProperties DEF DeliveryInv, SendInv, DeliveryTypeOK
<1>2. \A i \in DOMAIN parts : i \in Items /\ i # Text
  BY <1>1, DeliveryAssumption DEF Items, Text
<1>3. Words \subseteq {Text} /\ Words \subseteq Items
  BY ItemsFacts DEF Words
<1>4. Resolvable \subseteq DOMAIN parts /\ Resolvable \subseteq Items
  BY <1>2 DEF Resolvable
<1> QED
  BY <1>1, <1>2, <1>3, <1>4

\* A Send with a plan that covers what is owed.
LEMMA BeginKeeps ==
  ASSUME DeliveryInv, NEW p, NEW seq \in Seq(SUBSET Items), Begin(p, seq), Planned(seq),
         \A x \in Deliverable \ NotMade : \E i \in DOMAIN seq : x \in seq[i]
  PROVE  DeliveryInv'
<1> USE DEF DeliveryInv
<1>1. /\ result = "ready" /\ calls' = seq /\ plain' = FALSE /\ attempt' = attempt + 1
      /\ result' = (IF token THEN "replying" ELSE "sending") /\ token' = FALSE
      /\ UNCHANGED <<overdue, got, platform, text, parts>>
  BY DEF Begin, messageVars
<1>2. attempt \in Nat /\ attempt <= MaxRetries /\ overdue \in 0 .. attempt
  BY <1>1 DEF SendInv, DeliveryTypeOK
<1>3. result' \in {"sending", "replying"} /\ (result' = "replying" => platform = "line")
  BY <1>1 DEF SendInv
<1>4. DeliveryTypeOK'
  <2>1. attempt' \in 0 .. MaxRetries + 1 /\ overdue' \in 0 .. attempt'
    BY <1>1, <1>2, DeliveryAssumption
  <2>2. \A i \in DOMAIN calls' : calls'[i] \subseteq Items
    BY <1>1, ElementOfSeq, LenProperties
  <2>3. UNCHANGED Items
    BY DEF Items
  <2>4. /\ platform' \in Platforms /\ text' \in {"none", "short", "long"}
        /\ Len(parts') <= NumParts /\ \A i \in DOMAIN parts' : parts'[i] \in {"ok", "gone"}
        /\ got' \in [Items -> Nat]
    BY <1>1 DEF DeliveryTypeOK
  <2>5. /\ plain' \in BOOLEAN /\ token' \in BOOLEAN
        /\ result' \in {"ready", "sending", "replying", "replied", "sent", "failed"}
    BY <1>1, <1>3
  <2> QED
    BY <2>1, <2>2, <2>3, <2>4, <2>5 DEF DeliveryTypeOK
<1>5. SendInv'
  BY <1>1, <1>3 DEF SendInv, Items
<1>6. Planned(calls)'
  BY <1>1 DEF Planned, Shape, Words, Resolvable, Items
<1>7. OwedInv'
  <2>1. (Deliverable \ NotMade)' = Deliverable \ NotMade
    BY <1>1, <1>3 DEF Deliverable, NotMade, Words, Resolvable
  <2> QED
    BY <1>1, <1>3, <2>1 DEF OwedInv
<1>8. CountInv'
  <2> SUFFICES ASSUME NEW x \in Items
               PROVE  (got[x] + overdue + Left(x) + Again(x) <= MostCopies(x))'
    BY DEF CountInv, Items
  <2>1. got[x] \in Nat
    BY DEF DeliveryTypeOK
  <2>2. ~InCalls(x) /\ ~(result = "replying")
    BY <1>1 DEF InCalls, SendInv
  <2>3. got[x] + overdue <= MostCopies(x)
    BY <1>2, <2>1, <2>2 DEF CountInv, Left, Again
  <2>4. Left(x)' \in {0, 1} /\ Again(x)' \in {0, 1}
    BY DEF Left, Again
  <2>5. Again(x)' = 1 => x = Text /\ platform \in {"telegram", "line"}
    BY <1>1, <1>3 DEF Again
  <2>6. got'[x] = got[x] /\ overdue' = overdue /\ attempt' = attempt + 1 /\ platform' = platform
    BY <1>1
  <2> QED
    BY <1>2, <2>1, <2>3, <2>4, <2>5, <2>6 DEF MostCopies
<1> QED
  BY <1>4, <1>5, <1>6, <1>7, <1>8

\* A plan of one call.
LEMMA OneCall ==
  ASSUME NEW c \in SUBSET Items, Shape(c)
  PROVE  <<c>> \in Seq(SUBSET Items) /\ Planned(<<c>>) /\ DOMAIN <<c>> = {1} /\ <<c>>[1] = c
  BY DEF Planned

\* One plan after another.
LEMMA JoinPlanned ==
  ASSUME NEW a \in Seq(SUBSET Items), NEW b \in Seq(SUBSET Items), Planned(a), Planned(b),
         platform # "discord", \A i \in DOMAIN a : \A j \in DOMAIN b : a[i] \cap b[j] = {}
  PROVE  /\ a \o b \in Seq(SUBSET Items) /\ Planned(a \o b)
         /\ \A i \in DOMAIN a : \E j \in DOMAIN (a \o b) : (a \o b)[j] = a[i]
         /\ \A i \in DOMAIN b : \E j \in DOMAIN (a \o b) : (a \o b)[j] = b[i]
<1> DEFINE ab == a \o b
<1>1. /\ Len(a) \in Nat /\ DOMAIN a = 1 .. Len(a) /\ Len(b) \in Nat /\ DOMAIN b = 1 .. Len(b)
      /\ ab \in Seq(SUBSET Items) /\ DOMAIN ab = 1 .. Len(a) + Len(b)
  BY ConcatProperties, LenProperties
<1>2. \A i \in DOMAIN ab : \/ i \in DOMAIN a /\ ab[i] = a[i]
                           \/ i - Len(a) \in DOMAIN b /\ ab[i] = b[i - Len(a)] /\ i \notin DOMAIN a
  BY <1>1, ConcatProperties
<1>3. \A i \in DOMAIN ab : Shape(ab[i])
  BY <1>2 DEF Planned
<1>4. ASSUME NEW i \in DOMAIN ab, NEW j \in DOMAIN ab, i # j
      PROVE  ab[i] \cap ab[j] = {}
  <2>1. CASE i \in DOMAIN a /\ j \in DOMAIN a
    BY <1>2, <1>4, <2>1 DEF Planned
  <2>2. CASE i \notin DOMAIN a /\ j \notin DOMAIN a
    <3>1. i - Len(a) # j - Len(a)
      BY <1>1, <1>4
    <3> QED
      BY <1>2, <2>2, <3>1 DEF Planned
  <2>3. CASE i \in DOMAIN a /\ j \notin DOMAIN a
    BY <1>2, <2>3
  <2>4. CASE i \notin DOMAIN a /\ j \in DOMAIN a
    BY <1>2, <2>4
  <2> QED
    BY <2>1, <2>2, <2>3, <2>4
<1>5. Planned(ab)
  BY <1>3, <1>4 DEF Planned
<1>6. ASSUME NEW i \in DOMAIN a PROVE i \in DOMAIN ab /\ ab[i] = a[i]
  BY <1>1, ConcatProperties
<1>7. ASSUME NEW i \in DOMAIN b PROVE i + Len(a) \in DOMAIN ab /\ ab[i + Len(a)] = b[i]
  BY <1>1, ConcatProperties
<1> QED
  BY <1>1, <1>5, <1>6, <1>7

\* Each file in a call of its own.
LEMMA EachPlanned ==
  ASSUME DeliveryInv, platform # "discord"
  PROVE  /\ Each \in Seq(SUBSET Items) /\ Planned(Each)
         /\ DOMAIN Each = DOMAIN parts /\ \A i \in DOMAIN parts : Each[i] = {i}
<1>1. Len(parts) \in Nat /\ DOMAIN parts = 1 .. Len(parts) /\ \A i \in DOMAIN parts : i \in Items
  BY PartsFacts
<1>2. DOMAIN Each = DOMAIN parts /\ \A i \in DOMAIN parts : Each[i] = {i}
  BY DEF Each
<1>3. Each \in [1 .. Len(parts) -> SUBSET Items]
  BY <1>1 DEF Each
<1>4. Each \in Seq(SUBSET Items)
  BY <1>1, <1>3
<1>5. \A i \in DOMAIN Each : Shape(Each[i])
  BY <1>1, <1>2 DEF Shape
<1> QED
  BY <1>2, <1>4, <1>5 DEF Planned

\* The text, if there is one, in a call of its own, and then each file.
LEMMA WordsThenEach ==
  ASSUME DeliveryInv, platform \notin {"discord", "telegram"}, NEW a,
         a = <<Words>> \/ a = (IF text = "none" THEN <<>> ELSE <<{Text}>>)
  PROVE  /\ a \in Seq(SUBSET Items) /\ Planned(a)
         /\ a \o Each \in Seq(SUBSET Items) /\ Planned(a \o Each)
         /\ \A x \in Words : \E i \in DOMAIN a : x \in a[i]
         /\ \A x \in Words \cup DOMAIN parts : \E i \in DOMAIN (a \o Each) : x \in (a \o Each)[i]
<1>1. Words \subseteq {Text} /\ Words \in SUBSET Items /\ Shape(Words) /\ Shape({Text})
  BY PartsFacts, ItemsFacts DEF Shape
<1>2. a = <<Words>> \/ (a = <<>> /\ Words = {}) \/ (a = <<{Text}>> /\ Words = {Text})
  BY DEF Words
<1>3. /\ a \in Seq(SUBSET Items) /\ Planned(a)
      /\ \A i \in DOMAIN a : a[i] \subseteq {Text}
      /\ \A x \in Words : \E i \in DOMAIN a : x \in a[i]
  <2>1. CASE a = <<Words>>
    BY <1>1, <2>1, OneCall
  <2>2. CASE a = <<>> /\ Words = {}
    BY <2>2 DEF Planned
  <2>3. CASE a = <<{Text}>> /\ Words = {Text}
    BY <1>1, <2>3, OneCall
  <2> QED
    BY <1>2, <2>1, <2>2, <2>3
<1>4. \A i \in DOMAIN a : \A j \in DOMAIN Each : a[i] \cap Each[j] = {}
  BY <1>3, EachPlanned, PartsFacts
<1>5. /\ a \o Each \in Seq(SUBSET Items) /\ Planned(a \o Each)
      /\ \A i \in DOMAIN a : \E j \in DOMAIN (a \o Each) : (a \o Each)[j] = a[i]
      /\ \A i \in DOMAIN Each : \E j \in DOMAIN (a \o Each) : (a \o Each)[j] = Each[i]
  <2>1. Each \in Seq(SUBSET Items) /\ Planned(Each) /\ platform # "discord"
    BY EachPlanned
  <2> QED
    BY <1>3, <1>4, <2>1, JoinPlanned
<1>6. ASSUME NEW x \in Words \cup DOMAIN parts
      PROVE  \E i \in DOMAIN (a \o Each) : x \in (a \o Each)[i]
  <2>1. CASE x \in Words
    BY <1>3, <1>5, <2>1
  <2>2. CASE x \in DOMAIN parts
    <3>1. x \in DOMAIN Each /\ Each[x] = {x}
      BY <2>2, EachPlanned
    <3> QED
      BY <1>5, <3>1
  <2> QED
    BY <2>1, <2>2
<1> QED
  BY <1>3, <1>5, <1>6

\* Telegram: the captions of the parts.
EmbedAsCaption == parts # <<>> /\ text = "short"

Captions == [i \in DOMAIN parts |-> IF i = 1 /\ EmbedAsCaption THEN {i, Text} ELSE {i}]

LEMMA CaptionsPlanned ==
  ASSUME DeliveryInv, platform = "telegram"
  PROVE  /\ Captions \in Seq(SUBSET Items) /\ Planned(Captions) /\ DOMAIN Captions = DOMAIN parts
         /\ \A i \in DOMAIN Captions : i \in Captions[i] /\ Captions[i] \subseteq {i, Text}
         /\ ~EmbedAsCaption => \A i \in DOMAIN Captions : Captions[i] = {i}
         /\ EmbedAsCaption => \E i \in DOMAIN Captions : Text \in Captions[i]
<1>1. /\ Len(parts) \in Nat /\ DOMAIN parts = 1 .. Len(parts)
      /\ \A i \in DOMAIN parts : i \in Items /\ i # Text
  BY PartsFacts
<1>2. /\ DOMAIN Captions = DOMAIN parts
      /\ \A i \in DOMAIN parts : Captions[i] = (IF i = 1 /\ EmbedAsCaption THEN {i, Text} ELSE {i})
  BY DEF Captions
<1>3. \A i \in DOMAIN parts : Captions[i] \in SUBSET Items
  BY <1>1, <1>2, ItemsFacts
<1>4. Captions \in Seq(SUBSET Items)
  <2>1. Captions \in [1 .. Len(parts) -> SUBSET Items]
    BY <1>1, <1>2, <1>3 DEF Captions
  <2> QED
    BY <1>1, <2>1
<1>5. \A i \in DOMAIN Captions : Shape(Captions[i])
  <2> SUFFICES ASSUME NEW i \in DOMAIN Captions PROVE Shape(Captions[i])
    OBVIOUS
  <2>1. CASE i = 1 /\ EmbedAsCaption
    BY <1>2, <2>1 DEF Shape, EmbedAsCaption
  <2>2. CASE ~(i = 1 /\ EmbedAsCaption)
    BY <1>1, <1>2, <2>2 DEF Shape
  <2> QED
    BY <2>1, <2>2
<1>6. \A i, j \in DOMAIN Captions : i # j => Captions[i] \cap Captions[j] = {}
  BY <1>1, <1>2
<1>7. EmbedAsCaption => \E i \in DOMAIN Captions : Text \in Captions[i]
  <2> SUFFICES ASSUME EmbedAsCaption PROVE \E i \in DOMAIN Captions : Text \in Captions[i]
    OBVIOUS
  <2>1. Len(parts) # 0
    BY EmptySeq DEF DeliveryInv, SendInv, EmbedAsCaption
  <2>2. 1 \in DOMAIN Captions
    BY <1>1, <1>2, <2>1
  <2> QED
    BY <1>2, <2>2
<1>8. Planned(Captions)
  BY <1>5, <1>6 DEF Planned
<1> QED
  BY <1>2, <1>4, <1>7, <1>8

\* Telegram sends a text before the parts unless it is a caption.
LEMMA TelegramSendKeeps ==
  ASSUME DeliveryInv, TelegramSend
  PROVE  DeliveryInv'
<1> DEFINE a == IF text = "none" \/ EmbedAsCaption THEN <<>> ELSE <<{Text}>>
<1>1. Begin("telegram", a \o Captions) /\ platform = "telegram"
  BY DEF TelegramSend, Begin, EmbedAsCaption, Captions
<1>2. /\ Captions \in Seq(SUBSET Items) /\ Planned(Captions) /\ DOMAIN Captions = DOMAIN parts
      /\ \A i \in DOMAIN Captions : i \in Captions[i] /\ Captions[i] \subseteq {i, Text}
      /\ ~EmbedAsCaption => \A i \in DOMAIN Captions : Captions[i] = {i}
      /\ EmbedAsCaption => \E i \in DOMAIN Captions : Text \in Captions[i]
  BY <1>1, CaptionsPlanned
<1>3. /\ a \in Seq(SUBSET Items) /\ Planned(a)
      /\ \A i \in DOMAIN a : a[i] = {Text} /\ ~EmbedAsCaption
      /\ text # "none" /\ ~EmbedAsCaption => \E i \in DOMAIN a : Text \in a[i]
  <2>1. CASE text = "none" \/ EmbedAsCaption
    <3>1. a = <<>>
      BY <2>1
    <3> QED
      BY <2>1, <3>1 DEF Planned
  <2>2. CASE ~(text = "none" \/ EmbedAsCaption)
    <3>1. a = <<{Text}>>
      BY <2>2
    <3>2. {Text} \in SUBSET Items /\ Shape({Text})
      BY ItemsFacts DEF Shape
    <3>3. a \in Seq(SUBSET Items) /\ Planned(a) /\ DOMAIN a = {1} /\ a[1] = {Text}
      BY <3>1, <3>2, OneCall
    <3> QED
      BY <2>2, <3>3
  <2> QED
    BY <2>1, <2>2
<1> HIDE DEF a
<1>4. \A i \in DOMAIN a : \A j \in DOMAIN Captions : a[i] \cap Captions[j] = {}
  BY <1>2, <1>3, PartsFacts
<1>5. /\ a \o Captions \in Seq(SUBSET Items) /\ Planned(a \o Captions)
      /\ \A i \in DOMAIN a : \E j \in DOMAIN (a \o Captions) : (a \o Captions)[j] = a[i]
      /\ \A i \in DOMAIN Captions : \E j \in DOMAIN (a \o Captions) : (a \o Captions)[j] = Captions[i]
  BY <1>1, <1>2, <1>3, <1>4, JoinPlanned
<1>6. ASSUME NEW x \in Deliverable \ NotMade
      PROVE  \E i \in DOMAIN (a \o Captions) : x \in (a \o Captions)[i]
  <2>1. x \in Words \/ x \in DOMAIN parts
    BY <1>1, PartsFacts DEF Deliverable
  <2>2. CASE x \in DOMAIN parts
    BY <1>2, <1>5, <2>2
  <2>3. CASE x \in Words
    <3>1. x = Text /\ text # "none"
      BY <2>3 DEF Words
    <3>2. CASE EmbedAsCaption
      BY <1>2, <1>5, <3>1, <3>2
    <3>3. CASE ~EmbedAsCaption
      BY <1>3, <1>5, <3>1, <3>3
    <3> QED
      BY <3>2, <3>3
  <2> QED
    BY <2>1, <2>2, <2>3
<1> QED
  BY <1>1, <1>5, <1>6, BeginKeeps

\* What the adapters are to deliver.
LEMMA DeliverableFacts ==
  ASSUME DeliveryInv
  PROVE  /\ Deliverable \subseteq Words \cup DOMAIN parts /\ Deliverable \subseteq Items
         /\ platform \in {"irc", "whatsapp", "whatsapp_native"} => Deliverable = Words
         /\ platform = "discord" => Deliverable = Words \cup Resolvable
<1>1. Words \subseteq Items /\ DOMAIN parts \subseteq Items /\ Resolvable \subseteq DOMAIN parts
  BY PartsFacts
<1>2. platform \in {"irc", "whatsapp", "whatsapp_native"} => Deliverable = Words
  BY DEF Deliverable
<1>3. platform \in {"telegram", "discord", "slack", "matrix"} => Deliverable = Words \cup Resolvable
  BY DEF Deliverable
<1>4. platform = "line" => Deliverable = Words \cup DOMAIN parts
  BY DEF Deliverable
<1>5. platform \notin {"telegram", "discord", "slack", "matrix", "line"} => Deliverable = Words
  BY DEF Deliverable
<1> QED
  BY <1>1, <1>2, <1>3, <1>4, <1>5

\* The Sends of all adapters.
LEMMA SendKeeps ==
  ASSUME DeliveryInv, Send
  PROVE  DeliveryInv'
<1>1. CASE TelegramSend
  BY <1>1, TelegramSendKeeps
<1>2. CASE DiscordSend
  <2> DEFINE c == Words \cup Resolvable
  <2>1. platform = "discord" /\ Begin("discord", <<c>>)
    BY <1>2 DEF DiscordSend, Begin
  <2>2. c \in SUBSET Items /\ Shape(c)
    BY <2>1, PartsFacts DEF Shape
  <2>3. <<c>> \in Seq(SUBSET Items) /\ Planned(<<c>>) /\ DOMAIN <<c>> = {1} /\ <<c>>[1] = c
    BY <2>2, OneCall
  <2>4. \A x \in Deliverable \ NotMade : \E i \in DOMAIN <<c>> : x \in <<c>>[i]
    BY <2>1, <2>3, DeliverableFacts
  <2> QED
    BY <2>1, <2>3, <2>4, BeginKeeps
<1>3. CASE SlackSend \/ MatrixSend \/ LineSend
  <2>1. PICK a : /\ a = <<Words>> \/ a = (IF text = "none" THEN <<>> ELSE <<{Text}>>)
                 /\ \E p \in {"slack", "matrix", "line"} : platform = p /\ Begin(p, a \o Each)
    BY <1>3 DEF SlackSend, MatrixSend, LineSend, Begin
  <2>2. /\ a \o Each \in Seq(SUBSET Items) /\ Planned(a \o Each)
        /\ \A x \in Words \cup DOMAIN parts : \E i \in DOMAIN (a \o Each) : x \in (a \o Each)[i]
    BY <2>1, WordsThenEach
  <2>3. \A x \in Deliverable \ NotMade : \E i \in DOMAIN (a \o Each) : x \in (a \o Each)[i]
    BY <2>2, DeliverableFacts
  <2> QED
    BY <2>1, <2>2, <2>3, BeginKeeps
<1>4. CASE WhatsAppSend \/ WhatsAppNativeSend \/ IrcSend
  <2>1. PICK a : /\ a = <<Words>> \/ a = (IF text = "none" THEN <<>> ELSE <<{Text}>>)
                 /\ \E p \in {"whatsapp", "whatsapp_native", "irc"} : platform = p /\ Begin(p, a)
    BY <1>4 DEF WhatsAppSend, WhatsAppNativeSend, IrcSend, Begin
  <2>2. /\ a \in Seq(SUBSET Items) /\ Planned(a)
        /\ \A x \in Words : \E i \in DOMAIN a : x \in a[i]
    BY <2>1, WordsThenEach
  <2>3. \A x \in Deliverable \ NotMade : \E i \in DOMAIN a : x \in a[i]
    BY <2>1, <2>2, DeliverableFacts
  <2> QED
    BY <2>1, <2>2, <2>3, BeginKeeps
<1> QED
  BY <1>1, <1>2, <1>3, <1>4 DEF Send

-----------------------------------------------------------------------------
(* The calls *)

\* What is owed changes only with a reply.
LEMMA OwedSame ==
  ASSUME UNCHANGED <<platform, text, parts>>, result = "replied" <=> result' = "replied"
  PROVE  (Deliverable \ NotMade)' = Deliverable \ NotMade /\ UNCHANGED <<Words, Resolvable, Items>>
<1>1. UNCHANGED <<Words, Resolvable, Items>>
  BY DEF Words, Resolvable, Items
<1>2. UNCHANGED Deliverable
  BY <1>1 DEF Deliverable
<1>3. UNCHANGED NotMade
  BY <1>1 DEF NotMade
<1> QED
  BY <1>1, <1>2, <1>3

\* The plan is judged by the message alone.
LEMMA PlanSame ==
  ASSUME UNCHANGED <<platform, text, parts>>, NEW seq, Planned(seq), calls' = seq
  PROVE  Planned(calls)'
<1>1. UNCHANGED <<Words, Resolvable, Items>>
  BY DEF Words, Resolvable, Items
<1>2. \A i \in DOMAIN calls' : Shape(calls[i])'
  <2> SUFFICES ASSUME NEW i \in DOMAIN seq PROVE Shape(calls[i])'
    OBVIOUS
  <2>1. Shape(seq[i])
    BY DEF Planned
  <2> QED
    BY <1>1, <2>1 DEF Shape
<1> QED
  BY <1>2 DEF Planned

\* Numbers that a step of a Send adds up.
LEMMA CountFacts ==
  ASSUME DeliveryInv, NEW x \in Items
  PROVE  /\ got[x] \in Nat /\ overdue \in Nat /\ attempt \in Nat /\ overdue <= attempt
         /\ MostCopies(x) \in Nat
         /\ got[x] + overdue + Left(x) + Again(x) <= MostCopies(x)
         /\ Left(x) \in {0, 1} /\ Again(x) \in {0, 1} /\ (InCalls(x) => Left(x) = 1)
<1>1. got[x] \in Nat /\ overdue \in Nat /\ attempt \in Nat /\ overdue <= attempt
  BY DEF DeliveryInv, DeliveryTypeOK
<1>2. MostCopies(x) \in Nat
  BY <1>1 DEF MostCopies
<1>3. Left(x) \in {0, 1} /\ Again(x) \in {0, 1} /\ (InCalls(x) => Left(x) = 1)
  BY DEF Left, Again
<1>4. got[x] + overdue + Left(x) + Again(x) <= MostCopies(x)
  BY DEF DeliveryInv, CountInv
<1> QED
  BY <1>1, <1>2, <1>3, <1>4

\* A part that is skipped was not to be delivered, nor its caption.
LEMMA SkippedNotOwed ==
  ASSUME DeliveryInv, calls # <<>>, ~Open(Head(calls))
  PROVE  /\ \A x \in Deliverable \ NotMade : x \notin Head(calls)
         /\ Head(calls) # {Text}
<1> DEFINE c == Head(calls)
<1>1. platform # "line" /\ \E y \in c : y # Text /\ y \notin Resolvable
  BY DEF Open
<1>2. PICK y \in c : y # Text /\ y \notin Resolvable
  BY <1>1
<1>3. Shape(c)
  BY TailFacts DEF DeliveryInv, Planned
<1>4. Words \subseteq {Text}
  BY PartsFacts
<1>5. Deliverable \subseteq Words \cup Resolvable
  BY <1>1 DEF Deliverable
<1>6. ASSUME NEW x \in Deliverable \ NotMade, x \in c PROVE FALSE
  <2>1. CASE \E z \in Items : c \subseteq {z}
    BY <1>2, <1>4, <1>5, <1>6, <2>1
  <2>2. CASE platform = "telegram" /\ text = "short" /\ parts # <<>> /\ c = {1, Text}
    <3>1. 1 \notin Resolvable
      BY <1>2, <2>2
    <3>2. NotMade = {Text}
      <4>1. result # "replied"
        BY <2>2 DEF DeliveryInv, SendInv
      <4> QED
        BY <2>2, <3>1, <4>1 DEF NotMade
    <3> QED
      BY <1>4, <1>5, <1>6, <2>2, <3>1, <3>2
  <2>3. CASE platform = "discord" /\ c = Words \cup Resolvable
    BY <1>2, <1>4, <2>3
  <2> QED
    BY <1>3, <2>1, <2>2, <2>3 DEF Shape
<1> QED
  BY <1>2, <1>6

\* The first call is done with.
LEMMA ConsumeKeeps ==
  ASSUME DeliveryInv, result = "sending", calls # <<>>, calls' = Tail(calls), plain' = FALSE,
         UNCHANGED <<token, attempt, overdue, result, platform, text, parts>>,
         got' \in [Items -> Nat],
         \A x \in Items : got'[x] = got[x] \/ (x \in Head(calls) /\ got'[x] = got[x] + 1),
         \A x \in Deliverable \ NotMade : x \in Head(calls) => got'[x] > 0
  PROVE  DeliveryInv'
<1> USE DEF DeliveryInv
<1>1. UNCHANGED <<Words, Resolvable, Items>> /\ (Deliverable \ NotMade)' = Deliverable \ NotMade
  BY OwedSame
<1>2. DeliveryTypeOK'
  <2>1. \A i \in DOMAIN calls' : calls'[i] \subseteq Items
    BY TailFacts, ElementOfSeq, LenProperties
  <2>2. plain' \in BOOLEAN
    OBVIOUS
  <2> QED
    BY <1>1, <2>1, <2>2 DEF DeliveryTypeOK
<1>3. SendInv'
  BY <1>1, TailFacts DEF SendInv
<1>4. Planned(calls)'
  BY TailCarries, PlanSame
<1>5. OwedInv'
  <2>1. ASSUME NEW x \in Deliverable \ NotMade
        PROVE  got'[x] > 0 \/ \E i \in DOMAIN calls' : x \in calls'[i]
    <3>1. x \in Items /\ got[x] \in Nat
      BY DeliverableFacts, CountFacts
    <3>2. got[x] > 0 \/ \E i \in DOMAIN calls : x \in calls[i]
      BY DEF OwedInv
    <3>3. got[x] > 0 => got'[x] > 0
      BY <3>1
    <3> QED
      BY <3>1, <3>2, <3>3, TailCarries
  <2> QED
    BY <1>1, <2>1 DEF OwedInv
<1>6. CountInv'
  <2> SUFFICES ASSUME NEW x \in Items
               PROVE  (got[x] + overdue + Left(x) + Again(x) <= MostCopies(x))'
    BY <1>1 DEF CountInv
  <2>1. MostCopies(x)' = MostCopies(x) /\ overdue' = overdue
    BY DEF MostCopies
  <2>2. CASE x \in Head(calls)
    <3>1. InCalls(x)
      BY <2>2, TailFacts DEF InCalls
    <3>2. ~(\E i \in DOMAIN calls' : x \in calls'[i])
      BY <2>2, TailCarries
    <3>3. platform = "discord" => calls' = <<>>
      <4>1. platform = "discord" => Len(calls) <= 1
        BY DEF Planned
      <4>2. platform = "discord" => Len(Tail(calls)) = 0
        BY <4>1, TailFacts
      <4> QED
        BY <4>2, TailFacts, EmptySeq
    <3>4. ~InCalls(x)'
      BY <3>2, <3>3 DEF InCalls
    <3>5. Left(x)' = 0 /\ Again(x)' = 0
      BY <3>4 DEF Left, Again
    <3>6. got'[x] = got[x] \/ got'[x] = got[x] + 1
      OBVIOUS
    <3> QED
      BY <2>1, <3>1, <3>5, <3>6, CountFacts
  <2>3. CASE x \notin Head(calls)
    <3>1. got'[x] = got[x]
      BY <2>3
    <3>2. InCalls(x)' => InCalls(x)
      BY TailCarries DEF InCalls
    <3>3. x = Text => ~plain
      BY <2>3 DEF SendInv
    <3>4. Left(x)' = 0 \/ (Left(x)' = 1 /\ Left(x) = 1)
      BY <3>2 DEF Left
    <3>5. Again(x)' = 0 \/ (Again(x)' = 1 /\ Again(x) = 1)
      BY <3>2, <3>3 DEF Again
    <3> QED
      BY <2>1, <3>1, <3>4, <3>5, CountFacts
  <2> QED
    BY <2>2, <2>3
<1> QED
  BY <1>2, <1>3, <1>4, <1>5, <1>6

\* The Send is over, with an error.
LEMMA ErrorKeeps ==
  ASSUME DeliveryInv, result = "sending", calls' = <<>>, UNCHANGED <<plain, token, attempt, platform, text, parts>>,
         result' \in {"ready", "failed"}, result' = "ready" => attempt <= MaxRetries,
         overdue' \in Nat, overdue' <= attempt, overdue' > 0 => platform = "discord",
         got' \in [Items -> Nat],
         \A x \in Items : got'[x] + overdue' <= got[x] + overdue + Left(x)
  PROVE  DeliveryInv'
<1> USE DEF DeliveryInv
<1>1. UNCHANGED <<Words, Resolvable, Items>>
  BY OwedSame
<1>2. calls' \in Seq(SUBSET Items) /\ DOMAIN calls' = {} /\ Len(calls') = 0
  OBVIOUS
<1>3. DeliveryTypeOK'
  <2>1. overdue' \in 0 .. attempt' /\ attempt' \in 0 .. MaxRetries + 1
    BY DEF DeliveryTypeOK
  <2>2. plain' \in BOOLEAN /\ token' \in BOOLEAN
    BY DEF DeliveryTypeOK
  <2> QED
    BY <1>1, <1>2, <2>1, <2>2 DEF DeliveryTypeOK
<1>4. SendInv'
  BY <1>1, <1>2 DEF SendInv
<1>5. Planned(calls)' /\ OwedInv'
  BY <1>2 DEF Planned, OwedInv
<1>6. CountInv'
  <2> SUFFICES ASSUME NEW x \in Items
               PROVE  (got[x] + overdue + Left(x) + Again(x) <= MostCopies(x))'
    BY <1>1 DEF CountInv
  <2>1. MostCopies(x)' = MostCopies(x)
    BY DEF MostCopies
  <2>2. Left(x)' = 0 /\ Again(x)' = 0
    BY <1>2 DEF Left, Again, InCalls
  <2>3. got'[x] \in Nat
    OBVIOUS
  <2> QED
    BY <2>1, <2>2, <2>3, CountFacts
<1> QED
  BY <1>3, <1>4, <1>5, <1>6

\* A call that is made, or skipped, or whose error is not looked at.
LEMMA NextCallKeeps ==
  ASSUME DeliveryInv, PartSkipped \/ CallSucceeds \/ IrcPrivmsgFails
  PROVE  DeliveryInv'
<1> USE DEF messageVars
<1>1. CASE PartSkipped
  <2>1. /\ result = "sending" /\ calls # <<>> /\ ~Open(Head(calls)) /\ calls' = Tail(calls)
        /\ UNCHANGED <<plain, token, attempt, overdue, got, result, platform, text, parts>>
    BY <1>1 DEF PartSkipped
  <2>2. plain' = FALSE
    BY <2>1, SkippedNotOwed DEF DeliveryInv, DeliveryTypeOK, SendInv
  <2>3. got' \in [Items -> Nat]
    BY <2>1 DEF DeliveryInv, DeliveryTypeOK
  <2>4. \A x \in Deliverable \ NotMade : x \in Head(calls) => got'[x] > 0
    BY <2>1, SkippedNotOwed
  <2> QED
    BY <2>1, <2>2, <2>3, <2>4, ConsumeKeeps
<1>2. CASE CallSucceeds
  <2>1. /\ result = "sending" /\ calls # <<>> /\ calls' = Tail(calls) /\ plain' = FALSE
        /\ got' = [x \in Items |-> IF x \in Head(calls) THEN got[x] + 1 ELSE got[x]]
        /\ UNCHANGED <<token, attempt, overdue, result, platform, text, parts>>
    BY <1>2 DEF CallSucceeds, Arrive
  <2>2. \A x \in Items : got[x] \in Nat
    BY DEF DeliveryInv, DeliveryTypeOK
  <2>3. got' \in [Items -> Nat]
    BY <2>1, <2>2
  <2>4. \A x \in Items : got'[x] = got[x] \/ (x \in Head(calls) /\ got'[x] = got[x] + 1)
    BY <2>1
  <2>5. \A x \in Items : x \in Head(calls) => got'[x] > 0
    BY <2>1, <2>2
  <2>6. \A x \in Deliverable \ NotMade : x \in Head(calls) => got'[x] > 0
    BY <2>5, DeliverableFacts
  <2> QED
    BY <2>1, <2>3, <2>4, <2>6, ConsumeKeeps
<1>3. CASE IrcPrivmsgFails
  <2>1. /\ result = "sending" /\ platform = "irc" /\ calls # <<>> /\ calls' = Tail(calls)
        /\ UNCHANGED <<plain, token, attempt, overdue, got, result, platform, text, parts>>
    BY <1>3 DEF IrcPrivmsgFails
  <2>2. plain' = FALSE
    BY <2>1 DEF DeliveryInv, DeliveryTypeOK, SendInv
  <2>3. got' \in [Items -> Nat]
    BY <2>1 DEF DeliveryInv, DeliveryTypeOK
  <2>4. NotMade = {Text} /\ Deliverable = Words /\ Words \subseteq {Text}
    BY <2>1, DeliverableFacts, PartsFacts DEF NotMade
  <2>5. \A x \in Deliverable \ NotMade : x \in Head(calls) => got'[x] > 0
    BY <2>4
  <2> QED
    BY <2>1, <2>2, <2>3, <2>5, ConsumeKeeps
<1> QED
  BY <1>1, <1>2, <1>3

\* A call with an error, which may have arrived, or a post that is overdue.
LEMMA CallFailsKeeps ==
  ASSUME DeliveryInv, CallFails \/ SendTimeout
  PROVE  DeliveryInv'
<1> USE DEF messageVars
<1>1. attempt \in Nat /\ MaxRetries \in Nat /\ overdue \in Nat /\ overdue <= attempt
      /\ \A x \in Items : got[x] \in Nat
  BY DeliveryAssumption DEF DeliveryInv, DeliveryTypeOK
<1>2. CASE CallFails
  <2>1. /\ result = "sending" /\ calls # <<>> /\ calls' = <<>> /\ Unanswered(Head(calls))
        /\ AfterError(platform = "line" /\ Refused(Head(calls)))
        /\ UNCHANGED <<plain, token, attempt, overdue, platform, text, parts>>
    BY <1>2 DEF CallFails
  <2>2. result' \in {"ready", "failed"} /\ (result' = "ready" => attempt <= MaxRetries)
    BY <1>1, <2>1 DEF AfterError
  <2>3. got' = got \/ got' = [x \in Items |-> IF x \in Head(calls) THEN got[x] + 1 ELSE got[x]]
    BY <2>1 DEF Unanswered, Arrive
  <2>4. got \in [Items -> Nat]
    BY DEF DeliveryInv, DeliveryTypeOK
  <2>5. got' \in [Items -> Nat]
    BY <1>1, <2>3, <2>4
  <2>6. \A x \in Items : got'[x] = got[x] \/ (x \in Head(calls) /\ got'[x] = got[x] + 1)
    BY <2>3
  <2>7. ASSUME NEW x \in Items PROVE got'[x] + overdue' <= got[x] + overdue + Left(x)
    <3>1. x \in Head(calls) => Left(x) = 1
      BY <2>1, TailFacts DEF Left, InCalls
    <3> QED
      BY <2>1, <2>6, <3>1, CountFacts
  <2>8. overdue' > 0 => platform = "discord"
    BY <2>1 DEF DeliveryInv, SendInv
  <2> QED
    BY <1>1, <2>1, <2>2, <2>5, <2>7, <2>8, ErrorKeeps
<1>3. CASE SendTimeout
  <2>1. /\ result = "sending" /\ platform = "discord" /\ calls # <<>> /\ calls' = <<>>
        /\ AfterError(FALSE) /\ (overdue' = overdue \/ overdue' = overdue + 1)
        /\ UNCHANGED <<plain, token, attempt, got, platform, text, parts>>
    BY <1>3 DEF SendTimeout
  <2>2. result' \in {"ready", "failed"} /\ (result' = "ready" => attempt <= MaxRetries)
    BY <1>1, <2>1 DEF AfterError
  <2>3. \A x \in Items : Left(x) = 1
    BY <2>1 DEF Left, InCalls
  <2>4. got' \in [Items -> Nat]
    BY <2>1 DEF DeliveryInv, DeliveryTypeOK
  <2>5. \A x \in Items : got'[x] + overdue' <= got[x] + overdue + Left(x)
    BY <1>1, <2>1, <2>3
  <2>6. overdue' \in Nat /\ overdue' <= attempt
    <3>1. Text \in Items /\ MostCopies(Text) = attempt
      BY <2>1, ItemsFacts DEF MostCopies
    <3>2. got[Text] + overdue + Left(Text) + Again(Text) <= attempt
      BY <3>1, CountFacts
    <3>3. Left(Text) = 1 /\ Again(Text) \in {0, 1}
      BY <2>3, <3>1, CountFacts
    <3> QED
      BY <1>1, <2>1, <3>1, <3>2, <3>3
  <2> QED
    BY <2>1, <2>2, <2>4, <2>5, <2>6, ErrorKeeps
<1> QED
  BY <1>2, <1>3

\* The Send goes on with the same calls.
LEMMA SameCallsKeep ==
  ASSUME DeliveryInv, UNCHANGED <<calls, token, attempt, platform, text, parts>>,
         plain' \in BOOLEAN, plain' => platform = "telegram" /\ (calls # <<>> => Head(calls) = {Text}),
         result' = result \/ (result = "replying" /\ result' = "sending"),
         overdue' \in Nat, overdue' <= overdue, got' \in [Items -> Nat],
         \A x \in Items : got'[x] >= got[x] /\ got'[x] + overdue' + Again(x)' <= got[x] + overdue + Again(x)
  PROVE  DeliveryInv'
<1> USE DEF DeliveryInv
<1>1. UNCHANGED <<Words, Resolvable, Items>> /\ (Deliverable \ NotMade)' = Deliverable \ NotMade
  BY OwedSame
<1>2. DeliveryTypeOK'
  <2>1. attempt \in Nat /\ overdue \in Nat /\ overdue <= attempt
    BY DEF DeliveryTypeOK
  <2>2. overdue' \in 0 .. attempt'
    BY <2>1
  <2>3. result' \in {"ready", "sending", "replying", "replied", "sent", "failed"}
    BY DEF DeliveryTypeOK
  <2> QED
    BY <1>1, <2>2, <2>3 DEF DeliveryTypeOK
<1>3. SendInv'
  <2>1. overdue' > 0 => overdue > 0
    BY DEF DeliveryTypeOK
  <2> QED
    BY <1>1, <2>1 DEF SendInv
<1>4. Planned(calls)'
  BY PlanSame
<1>5. OwedInv'
  <2>1. \A x \in Deliverable \ NotMade : got[x] > 0 => got'[x] > 0
    BY DeliverableFacts, CountFacts
  <2> QED
    BY <1>1, <2>1 DEF OwedInv
<1>6. CountInv'
  <2> SUFFICES ASSUME NEW x \in Items
               PROVE  (got[x] + overdue + Left(x) + Again(x) <= MostCopies(x))'
    BY <1>1 DEF CountInv
  <2>1. MostCopies(x)' = MostCopies(x) /\ Left(x)' = Left(x)
    BY DEF MostCopies, Left, InCalls
  <2>2. got'[x] \in Nat /\ Again(x)' \in {0, 1}
    BY DEF Again
  <2> QED
    BY <2>1, <2>2, CountFacts
<1> QED
  BY <1>2, <1>3, <1>4, <1>5, <1>6

\* A second try, and a post that arrives late.
LEMMA TryAgainKeeps ==
  ASSUME DeliveryInv, HtmlChunkFails \/ ReplyFails \/ LateArrival
  PROVE  DeliveryInv'
<1> USE DEF messageVars
<1>1. got \in [Items -> Nat] /\ overdue \in Nat /\ plain \in BOOLEAN
      /\ \A x \in Items : got[x] \in Nat
  BY DEF DeliveryInv, DeliveryTypeOK
<1>2. CASE HtmlChunkFails
  <2>1. /\ result = "sending" /\ platform = "telegram" /\ ~plain /\ calls # <<>> /\ Head(calls) = {Text}
        /\ plain' = TRUE /\ Unanswered({Text})
        /\ UNCHANGED <<calls, token, attempt, overdue, result, platform, text, parts>>
    BY <1>2 DEF HtmlChunkFails
  <2>2. got' = got \/ got' = [x \in Items |-> IF x \in {Text} THEN got[x] + 1 ELSE got[x]]
    BY <2>1 DEF Unanswered, Arrive
  <2>3. got' \in [Items -> Nat]
    BY <1>1, <2>2
  <2>4. \A x \in Items : got'[x] = got[x] \/ (x = Text /\ got'[x] = got[x] + 1)
    BY <2>2
  <2>5. InCalls(Text)
    BY <2>1, TailFacts DEF InCalls
  <2>6. Again(Text) = 1
    BY <2>1, <2>5 DEF Again
  <2>7. \A x \in Items : Again(x)' = 0 /\ Again(x) \in {0, 1}
    BY <2>1 DEF Again
  <2>8. ASSUME NEW x \in Items
        PROVE  got'[x] >= got[x] /\ got'[x] + overdue' + Again(x)' <= got[x] + overdue + Again(x)
    BY <1>1, <2>1, <2>4, <2>6, <2>7
  <2> QED
    BY <1>1, <2>1, <2>3, <2>8, SameCallsKeep
<1>3. CASE ReplyFails
  <2>1. /\ result = "replying" /\ result' = "sending" /\ Unanswered(Words)
        /\ UNCHANGED <<calls, plain, token, attempt, overdue, platform, text, parts>>
    BY <1>3 DEF ReplyFails
  <2>2. got' = got \/ got' = [x \in Items |-> IF x \in Words THEN got[x] + 1 ELSE got[x]]
    BY <2>1 DEF Unanswered, Arrive
  <2>3. got' \in [Items -> Nat]
    BY <1>1, <2>2
  <2>4. \A x \in Items : got'[x] = got[x] \/ (x = Text /\ got'[x] = got[x] + 1)
    BY <2>2, PartsFacts
  <2>5. platform = "line" /\ ~plain
    BY <2>1 DEF DeliveryInv, SendInv
  <2>6. Again(Text) = 1
    BY <2>1 DEF Again
  <2>7. \A x \in Items : Again(x)' = 0 /\ Again(x) \in {0, 1}
    BY <2>1, <2>5 DEF Again
  <2>8. ASSUME NEW x \in Items
        PROVE  got'[x] >= got[x] /\ got'[x] + overdue' + Again(x)' <= got[x] + overdue + Again(x)
    BY <1>1, <2>1, <2>4, <2>6, <2>7
  <2> QED
    BY <1>1, <2>1, <2>3, <2>5, <2>8, SameCallsKeep
<1>4. CASE LateArrival
  <2>1. /\ overdue > 0 /\ overdue' = overdue - 1
        /\ got' = [x \in Items |-> IF x \in Words \cup Resolvable THEN got[x] + 1 ELSE got[x]]
        /\ UNCHANGED <<calls, plain, token, attempt, result, platform, text, parts>>
    BY <1>4 DEF LateArrival, Arrive
  <2>2. got' \in [Items -> Nat]
    BY <1>1, <2>1
  <2>3. \A x \in Items : got'[x] = got[x] \/ got'[x] = got[x] + 1
    BY <2>1
  <2>4. \A x \in Items : Again(x)' = Again(x) /\ Again(x) \in {0, 1}
    BY <2>1 DEF Again, InCalls
  <2>5. plain => platform = "telegram" /\ (calls # <<>> => Head(calls) = {Text})
    BY DEF DeliveryInv, SendInv
  <2>6. ASSUME NEW x \in Items
        PROVE  got'[x] >= got[x] /\ got'[x] + overdue' + Again(x)' <= got[x] + overdue + Again(x)
    BY <1>1, <2>1, <2>3, <2>4
  <2>7. overdue' \in Nat /\ overdue' <= overdue
    BY <1>1, <2>1
  <2> QED
    BY <1>1, <2>1, <2>2, <2>5, <2>6, <2>7, SameCallsKeep
<1> QED
  BY <1>2, <1>3, <1>4

\* LINE's reply arrived: the Send is over.
LEMMA ReplyKeeps ==
  ASSUME DeliveryInv, ReplySucceeds
  PROVE  DeliveryInv'
<1> USE DEF DeliveryInv
<1>1. /\ result = "replying" /\ result' = "replied" /\ calls' = <<>>
      /\ got' = [x \in Items |-> IF x \in Words THEN got[x] + 1 ELSE got[x]]
      /\ UNCHANGED <<plain, token, attempt, overdue, platform, text, parts>>
  BY DEF ReplySucceeds, Arrive, messageVars
<1>2. platform = "line"
  BY <1>1 DEF SendInv
<1>3. UNCHANGED <<Words, Resolvable, Items>> /\ calls' \in Seq(SUBSET Items) /\ DOMAIN calls' = {}
      /\ Len(calls') = 0
  BY <1>1 DEF Words, Resolvable, Items
<1>4. \A x \in Items : got[x] \in Nat
  BY DEF DeliveryTypeOK
<1>5. got' \in [Items -> Nat] /\ \A x \in Items : got'[x] = got[x] \/ (x = Text /\ got'[x] = got[x] + 1)
  <2>1. Words \subseteq {Text}
    BY PartsFacts
  <2> QED
    BY <1>1, <1>4, <2>1
<1>6. DeliveryTypeOK'
  <2>1. plain' \in BOOLEAN /\ token' \in BOOLEAN
    BY <1>1 DEF DeliveryTypeOK
  <2> QED
    BY <1>1, <1>3, <1>5, <2>1 DEF DeliveryTypeOK
<1>7. SendInv'
  BY <1>1, <1>2, <1>3 DEF SendInv
<1>8. Planned(calls)'
  BY <1>3 DEF Planned
<1>9. OwedInv'
  <2>1. Deliverable' = Words \cup DOMAIN parts /\ NotMade' = DOMAIN parts
    BY <1>1, <1>2, <1>3 DEF Deliverable, NotMade
  <2>2. \A x \in Words : got'[x] > 0
    BY <1>1, <1>4, PartsFacts
  <2> QED
    BY <1>1, <2>1, <2>2 DEF OwedInv
<1>10. CountInv'
  <2> SUFFICES ASSUME NEW x \in Items
               PROVE  (got[x] + overdue + Left(x) + Again(x) <= MostCopies(x))'
    BY <1>3 DEF CountInv
  <2>1. MostCopies(x)' = MostCopies(x) /\ overdue' = overdue
    BY <1>1 DEF MostCopies
  <2>2. Left(x)' = 0 /\ Again(x)' = 0
    BY <1>1, <1>2, <1>3 DEF Left, Again, InCalls
  <2>3. x = Text => Again(x) = 1
    BY <1>1 DEF Again
  <2>4. got'[x] = got[x] \/ (x = Text /\ got'[x] = got[x] + 1)
    BY <1>5
  <2> QED
    BY <2>1, <2>2, <2>3, <2>4, CountFacts
<1> QED
  BY <1>6, <1>7, <1>8, <1>9, <1>10

\* Steps between two calls of the platform.
LEMMA BetweenKeeps ==
  ASSUME DeliveryInv, SendReturns \/ NotRunning \/ NewReplyToken
  PROVE  DeliveryInv'
<1> USE DEF DeliveryInv
<1>1. /\ UNCHANGED <<calls, plain, attempt, overdue, got, platform, text, parts>>
      /\ result \in {"sending", "ready"} /\ calls = <<>>
      /\ result' \in {"sent", "failed"} \/ (result = "ready" /\ result' = "ready")
      /\ result' = "sent" => result = "sending"
      /\ token' = token \/ (token' = TRUE /\ platform = "line")
  BY DEF SendReturns, NotRunning, NewReplyToken, messageVars, SendInv
<1>2. UNCHANGED <<Words, Resolvable, Items>> /\ (Deliverable \ NotMade)' = Deliverable \ NotMade
  BY <1>1, OwedSame
<1>3. DeliveryTypeOK'
  <2>1. token' \in BOOLEAN /\ plain' \in BOOLEAN
    BY <1>1 DEF DeliveryTypeOK
  <2>2. result' \in {"ready", "sending", "replying", "replied", "sent", "failed"}
    BY <1>1
  <2> QED
    BY <1>1, <1>2, <2>1, <2>2 DEF DeliveryTypeOK
<1>4. SendInv'
  BY <1>1, <1>2 DEF SendInv
<1>5. Planned(calls)'
  BY <1>1, PlanSame
<1>6. OwedInv'
  BY <1>1, <1>2 DEF OwedInv
<1>7. CountInv'
  <2>1. \A x \in Items : Left(x)' = Left(x) /\ Again(x)' = Again(x) /\ MostCopies(x)' = MostCopies(x)
    BY <1>1 DEF Left, Again, InCalls, MostCopies
  <2> QED
    BY <1>1, <1>2, <2>1 DEF CountInv
<1> QED
  BY <1>3, <1>4, <1>5, <1>6, <1>7

\* Every step keeps the invariant.
LEMMA DeliveryStep ==
  ASSUME DeliveryInv, [DeliveryNext]_deliveryVars
  PROVE  DeliveryInv'
<1>1. CASE DeliveryNext
  BY <1>1, SendKeeps, NextCallKeeps, CallFailsKeeps, TryAgainKeeps, ReplyKeeps, BetweenKeeps DEF DeliveryNext
<1>2. CASE UNCHANGED deliveryVars
  <2>1. UNCHANGED <<Items, Words, Resolvable>>
    BY <1>2 DEF deliveryVars, Items, Words, Resolvable
  <2>2. UNCHANGED <<Deliverable, NotMade>>
    BY <1>2, <2>1 DEF deliveryVars, Deliverable, NotMade
  <2>3. DeliveryTypeOK' /\ SendInv'
    BY <1>2, <2>1 DEF deliveryVars, DeliveryInv, DeliveryTypeOK, SendInv
  <2>4. Planned(calls)'
    BY <1>2, PlanSame DEF deliveryVars, DeliveryInv
  <2>5. OwedInv'
    BY <1>2, <2>2 DEF deliveryVars, DeliveryInv, OwedInv
  <2>6. CountInv'
    BY <1>2, <2>1 DEF deliveryVars, DeliveryInv, CountInv, Left, Again, InCalls, MostCopies
  <2> QED
    BY <2>3, <2>4, <2>5, <2>6 DEF DeliveryInv
<1> QED
  BY <1>1, <1>2

\* The Sends of all adapters: a message that is reported as sent arrived, and no
\* item of it arrives more often than the retries, Telegram's second try and
\* LINE's reply explain, whatever fails, for any number of parts and retries.
THEOREM DeliveryReported == DeliverySpec => []ReportedMeansDelivered
<1>1. DeliveryInv /\ [DeliveryNext]_deliveryVars => DeliveryInv'
  BY DeliveryStep
<1> QED
  BY <1>1, DeliveryInitKeeps, DeliveryInvReports, PTL DEF DeliverySpec
=============================================================================
