------------------------------ MODULE Delivery ------------------------------
(***************************************************************************)
(* One outbound message on its way through an adapter's Send to the        *)
(* platform.  Send makes one or more calls of the platform's API; each     *)
(* carries the text, a media part, or both.  A call may fail, and it may   *)
(* arrive although the adapter is told that it failed.  The manager calls  *)
(* Send again for the whole message when the error is not permanent        *)
(* (sendWithRetry, see ChannelManager).                                    *)
(***************************************************************************)
EXTENDS Naturals, Sequences

CONSTANTS
  Platforms,  \* the adapters, by their factory names
  NumParts,   \* the most media parts of a message
  MaxRetries  \* maxRetries of the manager

ASSUME DeliveryAssumption == NumParts \in Nat /\ MaxRetries \in Nat

VARIABLES
  platform,  \* the adapter
  text,      \* "none", "short", or "long": more than one call or caption takes
  parts,     \* the media parts: "ok", or "gone" when the file cannot be resolved
  calls,     \* what the calls left to this Send carry
  plain,     \* Telegram: the chunk is being sent again without HTML
  token,     \* LINE: the chat has a reply token that is not too old
  attempt,   \* how often Send was called
  overdue,      \* Discord: calls that timed out and may still arrive
  got,       \* how many copies of the text and of each part arrived
  result     \* how the message is doing

deliveryVars == <<platform, text, parts, calls, plain, token, attempt, overdue, got, result>>
messageVars == <<platform, text, parts>>

Text == 0
Items == Text .. NumParts
Words == IF text = "none" THEN {} ELSE {Text}
Resolvable == {i \in DOMAIN parts : parts[i] = "ok"}

DeliveryTypeOK ==
  /\ platform \in Platforms /\ text \in {"none", "short", "long"}
  /\ Len(parts) <= NumParts /\ \A i \in DOMAIN parts : parts[i] \in {"ok", "gone"}
  /\ \A i \in DOMAIN calls : calls[i] \subseteq Items
  /\ plain \in BOOLEAN /\ token \in BOOLEAN
  /\ attempt \in 0 .. MaxRetries + 1 /\ overdue \in 0 .. attempt
  /\ got \in [Items -> Nat]
  /\ result \in {"ready", "sending", "replying", "replied", "sent", "failed"}

\* A text without media was cut to size by the manager.
DeliveryInit ==
  /\ platform \in Platforms
  /\ text \in {"none", "short", "long"}
  /\ parts \in UNION {[1 .. n -> {"ok", "gone"}] : n \in 0 .. NumParts}
  /\ parts = <<>> => text = "short"
  /\ token \in (IF platform = "line" THEN BOOLEAN ELSE {FALSE})
  /\ calls = <<>> /\ plain = FALSE /\ attempt = 0 /\ overdue = 0
  /\ got = [x \in Items |-> 0] /\ result = "ready"

-----------------------------------------------------------------------------
(* Send of each adapter: the calls it is going to make, if every file is there *)

Begin(p, seq) ==
  /\ platform = p /\ result = "ready"
  /\ calls' = seq /\ plain' = FALSE /\ attempt' = attempt + 1
  /\ result' = IF token THEN "replying" ELSE "sending"
  /\ token' = FALSE
  /\ UNCHANGED <<overdue, got>> /\ UNCHANGED messageVars

\* A short text is not sent by itself: it becomes the caption of the first part.
TelegramSend ==
  LET embedAsCaption == parts # <<>> /\ text = "short"
      caption == [i \in DOMAIN parts |-> IF i = 1 /\ embedAsCaption THEN {i, Text} ELSE {i}]
  IN  Begin("telegram",
            (IF text = "none" \/ embedAsCaption THEN <<>> ELSE <<{Text}>>) \o caption)

\* One post with the text and all the files that could be opened.
DiscordSend == Begin("discord", <<Words \cup Resolvable>>)

Each == [i \in DOMAIN parts |-> {i}]

\* The text, empty or not, and then an upload for each file.
SlackSend == Begin("slack", <<Words>> \o Each)

MatrixSend == Begin("matrix", (IF text = "none" THEN <<>> ELSE <<{Text}>>) \o Each)

\* The tokens are used up.  Without a reply token the text is pushed, and a
\* caption for each part, whatever became of its file.
LineSend == Begin("line", <<Words>> \o Each)

\* No media: whatever the text is, it is sent.
WhatsAppSend == Begin("whatsapp", <<Words>>)

WhatsAppNativeSend == Begin("whatsapp_native", <<Words>>)

\* No media, and nothing at all for a blank text.
IrcSend == Begin("irc", IF text = "none" THEN <<>> ELSE <<{Text}>>)

Send ==
  \/ TelegramSend \/ DiscordSend \/ SlackSend \/ MatrixSend \/ LineSend
  \/ WhatsAppSend \/ WhatsAppNativeSend \/ IrcSend

-----------------------------------------------------------------------------
(* The calls of the API *)

Arrive(c) == got' = [x \in Items |-> IF x \in c THEN got[x] + 1 ELSE got[x]]

\* What the platforms refuse: a post with nothing in it, a text that is too long.
Refused(c) ==
  \/ c = {} /\ platform \notin {"whatsapp", "whatsapp_native"}
  \/ text = "long" /\ Text \in c /\ platform \in {"discord", "matrix", "line"}

\* Can the files that a call carries be resolved and opened?  LINE names files only.
Open(c) == platform = "line" \/ c \ {Text} \subseteq Resolvable

\* A part whose file is gone is skipped, with the caption it was to carry.
PartSkipped ==
  /\ result = "sending" /\ calls # <<>> /\ ~Open(Head(calls))
  /\ calls' = Tail(calls)
  /\ UNCHANGED <<plain, token, attempt, overdue, got, result>> /\ UNCHANGED messageVars

CallSucceeds ==
  /\ result = "sending" /\ calls # <<>> /\ Open(Head(calls)) /\ ~Refused(Head(calls))
  /\ Arrive(Head(calls)) /\ calls' = Tail(calls) /\ plain' = FALSE
  /\ UNCHANGED <<token, attempt, overdue, result>> /\ UNCHANGED messageVars

\* The call did not arrive, or it did and the answer was lost.
Unanswered(c) == UNCHANGED got \/ (~Refused(c) /\ Arrive(c))

\* sendHTMLChunk: whatever the error, the chunk is sent once more as plain text.
HtmlChunkFails ==
  /\ result = "sending" /\ platform = "telegram" /\ ~plain
  /\ calls # <<>> /\ Head(calls) = {Text}
  /\ Unanswered({Text}) /\ plain' = TRUE
  /\ UNCHANGED <<calls, token, attempt, overdue, result>> /\ UNCHANGED messageVars

\* ircevent's error is not looked at.
IrcPrivmsgFails ==
  /\ result = "sending" /\ platform = "irc" /\ calls # <<>>
  /\ calls' = Tail(calls)
  /\ UNCHANGED <<plain, token, attempt, overdue, got, result>> /\ UNCHANGED messageVars

\* Only LINE's client errors are permanent; Send is called again after the rest.
AfterError(permanent) ==
  result' = IF permanent \/ attempt > MaxRetries THEN "failed" ELSE "ready"

\* Faulty variant: the error of one call is logged and the next one is made.
CallFailsLogged ==
  /\ result = "sending" /\ calls # <<>> /\ Open(Head(calls)) /\ platform # "irc"
  /\ Unanswered(Head(calls)) /\ calls' = Tail(calls)
  /\ UNCHANGED <<plain, token, attempt, overdue, result>> /\ UNCHANGED messageVars

CallFails ==
  /\ result = "sending" /\ calls # <<>> /\ Open(Head(calls)) /\ platform # "irc"
  /\ platform = "telegram" /\ Head(calls) = {Text} => plain
  /\ Unanswered(Head(calls)) /\ calls' = <<>>
  /\ AfterError(platform = "line" /\ Refused(Head(calls)))
  /\ UNCHANGED <<plain, token, attempt, overdue>> /\ UNCHANGED messageVars

\* Discord: Send gives up after ten seconds while the call goes on.
SendTimeout ==
  /\ result = "sending" /\ platform = "discord" /\ calls # <<>>
  /\ overdue' = IF Refused(Head(calls)) THEN overdue ELSE overdue + 1
  /\ calls' = <<>> /\ AfterError(FALSE)
  /\ UNCHANGED <<plain, token, attempt, got>> /\ UNCHANGED messageVars

LateArrival ==
  /\ overdue > 0 /\ overdue' = overdue - 1
  /\ Arrive(Words \cup Resolvable)
  /\ UNCHANGED <<calls, plain, token, attempt, result>> /\ UNCHANGED messageVars

\* LINE: a reply that succeeds ends the Send, whatever parts there are ...
ReplySucceeds ==
  /\ result = "replying" /\ ~Refused(Words)
  /\ Arrive(Words) /\ result' = "replied" /\ calls' = <<>>
  /\ UNCHANGED <<plain, token, attempt, overdue>> /\ UNCHANGED messageVars

\* ... and after one that fails everything is pushed.
ReplyFails ==
  /\ result = "replying" /\ Unanswered(Words) /\ result' = "sending"
  /\ UNCHANGED <<calls, plain, token, attempt, overdue>> /\ UNCHANGED messageVars

SendReturns ==
  /\ result = "sending" /\ calls = <<>> /\ result' = "sent"
  /\ UNCHANGED <<calls, plain, token, attempt, overdue, got>> /\ UNCHANGED messageVars

\* LINE: the next message of the chat brings a new reply token.
NewReplyToken ==
  /\ platform = "line" /\ ~token /\ result = "ready" /\ token' = TRUE
  /\ UNCHANGED <<calls, plain, attempt, overdue, got, result>> /\ UNCHANGED messageVars

\* The adapter is not running, or the manager stops between two attempts.
NotRunning ==
  /\ result = "ready" /\ result' = "failed"
  /\ UNCHANGED <<calls, plain, token, attempt, overdue, got>> /\ UNCHANGED messageVars

DeliveryNext ==
  \/ Send \/ SendReturns \/ NotRunning
  \/ PartSkipped \/ CallSucceeds \/ CallFails \/ HtmlChunkFails \/ IrcPrivmsgFails
  \/ SendTimeout \/ LateArrival \/ ReplySucceeds \/ ReplyFails \/ NewReplyToken

DeliverySpec == DeliveryInit /\ [][DeliveryNext]_deliveryVars

-----------------------------------------------------------------------------
(* Properties *)

\* What an adapter can deliver of the message.
Deliverable ==
  Words \cup (CASE platform \in {"telegram", "discord", "slack", "matrix"} -> Resolvable
                [] platform = "line" -> DOMAIN parts
                [] OTHER -> {})

\* The deliveries that Send reports and does not make: Telegram loses a text
\* that was to be the caption of a part it cannot resolve, LINE the parts of a
\* message it could send as a reply, IRC does not know.
NotMade ==
  CASE platform = "telegram" /\ text = "short" /\ parts # <<>> /\ 1 \notin Resolvable -> {Text}
    [] result = "replied" -> DOMAIN parts
    [] platform = "irc" -> {Text}
    [] OTHER -> {}

\* A message is reported as sent only when all of it arrived, with the
\* exceptions named above; and what arrives more than once is explained by
\* Send having been called again, by Telegram's second try at a chunk or by
\* LINE's reply whose answer was lost.
ReportedMeansDelivered ==
  /\ result \in {"sent", "replied"} => \A x \in Deliverable \ NotMade : got[x] > 0
  /\ \A x \in Items :
       got[x] + overdue <=
         IF x = Text /\ platform \in {"telegram", "line"} THEN 2 * attempt ELSE attempt
=============================================================================
