--------------------------- MODULE WhatsAppNative ---------------------------
(***************************************************************************)
(* The life of the in-process WhatsApp adapter                             *)
(* (pkg/channels/whatsapp_native): Start, Stop, the event handler of the   *)
(* WhatsApp library and the goroutine that reconnects.  stopping,          *)
(* reconnecting and the WaitGroup's Add are guarded by reconnectMu, so     *)
(* each critical section is one step; Connect, the back-off and the wait   *)
(* in Stop are not.  The manager's lock keeps Start and Stop apart; the    *)
(* library's events come at any time after the handler is registered.      *)
(***************************************************************************)
EXTENDS Naturals

CONSTANT MaxLosses  \* bounds how often the connection is lost

ASSUME WhatsAppNativeAssumption == MaxLosses \in Nat

VARIABLES
  starting,      \* where Start is
  stopStep,      \* where Stop is
  runCtx,        \* runCtx is not cancelled
  client,        \* the field client is set
  store,         \* the session database: "none", "open" or "closed"
  linked,        \* the library is connected to WhatsApp
  online,        \* IsRunning
  stopping,      \* the flag Stop sets
  reconnecting,  \* the flag of the goroutine that reconnects
  redial,        \* where that goroutine is
  qr,            \* the goroutine that prints QR codes runs
  leaving,       \* reconnect goroutines past their loop that have yet to call Done
  wg,            \* the WaitGroup's counter
  lost,          \* Disconnected events the library has yet to hand over
  losses,        \* how often the connection was lost
  ignored,       \* an event came while reconnecting was set
  late,          \* a Connect was under way when Stop disconnected the client
  timedOut       \* Stop's context ended before the goroutines did

nativeVars == <<starting, stopStep, runCtx, client, store, linked, online, stopping,
                reconnecting, redial, qr, leaving, wg, lost, losses, ignored, late, timedOut>>
lifeVars == <<starting, stopStep, runCtx, client, store, online, stopping>>

NativeTypeOK ==
  /\ starting \in {"reset", "connect", "pair", "done", "failed"}
  /\ stopStep \in {"idle", "cancel", "disconnect", "wait", "close", "done"}
  /\ {runCtx, client, linked, online, stopping, reconnecting, qr, ignored, late, timedOut} \subseteq BOOLEAN
  /\ store \in {"none", "open", "closed"}
  /\ redial \in {"none", "check", "connect", "backoff", "reset"}
  /\ leaving \in Nat /\ wg \in Nat
  /\ losses \in 0 .. MaxLosses /\ lost \in 0 .. losses

NativeInit ==
  /\ starting = "reset" /\ stopStep = "idle"
  /\ runCtx = FALSE /\ client = FALSE /\ store = "none" /\ linked = FALSE /\ online = FALSE
  /\ stopping = FALSE /\ reconnecting = FALSE /\ redial = "none"
  /\ qr = FALSE /\ leaving = 0 /\ wg = 0 /\ lost = 0 /\ losses = 0
  /\ ignored = FALSE /\ late = FALSE /\ timedOut = FALSE

-----------------------------------------------------------------------------
(* Start *)

\* The flags are reset and the database is opened, or Start fails.
StartOpen ==
  /\ starting = "reset"
  /\ \/ starting' = "failed" /\ UNCHANGED <<runCtx, client, store>>
     \/ starting' = "connect" /\ runCtx' = TRUE /\ client' = TRUE /\ store' = "open"
  /\ stopping' = FALSE /\ reconnecting' = FALSE
  /\ UNCHANGED <<stopStep, linked, online, redial, qr, leaving, wg, lost, losses, ignored, late, timedOut>>

\* A device that is not paired yet gets a goroutine for the QR codes.
StartConnect ==
  /\ starting = "connect" /\ linked' = TRUE
  /\ \/ starting' = "pair"
     \/ starting' = "done"
  /\ online' = (starting' = "done")
  /\ UNCHANGED <<stopStep, runCtx, client, store, stopping, reconnecting, redial, qr,
                 leaving, wg, lost, losses, ignored, late, timedOut>>

StartQr ==
  /\ starting = "pair" /\ ~stopping
  /\ qr' = TRUE /\ wg' = wg + 1
  /\ starting' = "done" /\ online' = TRUE
  /\ UNCHANGED <<stopStep, runCtx, client, store, linked, stopping, reconnecting, redial,
                 leaving, lost, losses, ignored, late, timedOut>>

\* cleanupOnError: everything Start had set up is taken down again.
StartFails ==
  /\ starting = "connect" /\ starting' = "failed"
  /\ runCtx' = FALSE /\ linked' = FALSE /\ client' = FALSE /\ store' = "closed"
  /\ UNCHANGED <<stopStep, online, stopping, reconnecting, redial, qr, leaving, wg, lost,
                 losses, ignored, late, timedOut>>

\* The QR goroutine ends with its channel or with the context.
QrEnds ==
  /\ qr /\ qr' = FALSE /\ wg' = wg - 1
  /\ UNCHANGED lifeVars
  /\ UNCHANGED <<linked, reconnecting, redial, leaving, lost, losses, ignored, late, timedOut>>

-----------------------------------------------------------------------------
(* Disconnected events and the goroutine that reconnects *)

ConnectionLost ==
  /\ linked /\ linked' = FALSE
  /\ losses < MaxLosses /\ losses' = losses + 1 /\ lost' = lost + 1
  /\ UNCHANGED lifeVars
  /\ UNCHANGED <<reconnecting, redial, qr, leaving, wg, ignored, late, timedOut>>

\* Faulty variant: only reconnecting is looked at.
EventHandlerUnchecked ==
  /\ lost > 0 /\ lost' = lost - 1
  /\ IF reconnecting
     THEN ignored' = TRUE /\ UNCHANGED <<reconnecting, wg, redial>>
     ELSE reconnecting' = TRUE /\ wg' = wg + 1 /\ redial' = "check" /\ UNCHANGED ignored
  /\ UNCHANGED lifeVars
  /\ UNCHANGED <<linked, qr, leaving, losses, late, timedOut>>

\* eventHandler: both flags are looked at and Add is called under reconnectMu.
EventHandler ==
  /\ lost > 0 /\ lost' = lost - 1
  /\ IF reconnecting \/ stopping
     THEN ignored' = (ignored \/ reconnecting) /\ UNCHANGED <<reconnecting, wg, redial>>
     ELSE reconnecting' = TRUE /\ wg' = wg + 1 /\ redial' = "check" /\ UNCHANGED ignored
  /\ UNCHANGED lifeVars
  /\ UNCHANGED <<linked, qr, leaving, losses, late, timedOut>>

Redial(from, to) == redial = from /\ redial' = to /\ UNCHANGED lifeVars
                    /\ UNCHANGED <<qr, lost, losses, ignored, timedOut>>

\* The context and the field client are looked at before each Connect ...
RedialCheck ==
  /\ Redial("check", IF runCtx /\ client THEN "connect" ELSE "reset")
  /\ UNCHANGED <<linked, reconnecting, leaving, wg, late>>

\* ... which may be under way when Stop cancels and disconnects.
RedialConnect ==
  /\ \/ Redial("connect", "reset") /\ linked' = TRUE
     \/ Redial("connect", "backoff") /\ UNCHANGED linked
  /\ UNCHANGED <<reconnecting, leaving, wg, late>>

\* Faulty variant: a Connect that fails ends the goroutine.
RedialBackoffOnce ==
  /\ Redial("backoff", "reset")
  /\ UNCHANGED <<linked, reconnecting, leaving, wg, late>>

RedialBackoff ==
  /\ Redial("backoff", "check") \/ (~runCtx /\ Redial("backoff", "reset"))
  /\ UNCHANGED <<linked, reconnecting, leaving, wg, late>>

\* The deferred reset of reconnecting, and then wg.Done.
RedialReset ==
  /\ Redial("reset", "none")
  /\ reconnecting' = FALSE /\ leaving' = leaving + 1
  /\ UNCHANGED <<linked, wg, late>>

RedialDone ==
  /\ leaving > 0 /\ leaving' = leaving - 1 /\ wg' = wg - 1
  /\ UNCHANGED lifeVars
  /\ UNCHANGED <<linked, reconnecting, redial, qr, lost, losses, ignored, late, timedOut>>

-----------------------------------------------------------------------------
(* Stop *)

StopsAt(from, to) ==
  /\ stopStep = from /\ stopStep' = to
  /\ UNCHANGED <<starting, reconnecting, redial, qr, leaving, wg, lost, losses, ignored>>

StopFlag ==
  /\ starting \in {"done", "failed"} /\ StopsAt("idle", "cancel")
  /\ stopping' = TRUE
  /\ UNCHANGED <<runCtx, client, store, linked, online, late, timedOut>>

StopCancel ==
  /\ StopsAt("cancel", "disconnect") /\ runCtx' = FALSE
  /\ UNCHANGED <<client, store, linked, online, stopping, late, timedOut>>

StopDisconnect ==
  /\ StopsAt("disconnect", "wait")
  /\ linked' = (IF client THEN FALSE ELSE linked) /\ late' = (redial = "connect")
  /\ UNCHANGED <<runCtx, client, store, online, stopping, timedOut>>

\* wg.Wait returns, or Stop's context ends first.
StopWait ==
  /\ StopsAt("wait", "close")
  /\ \/ wg = 0 /\ UNCHANGED timedOut
     \/ wg > 0 /\ timedOut' = TRUE
  /\ UNCHANGED <<runCtx, client, store, linked, online, stopping, late>>

StopClose ==
  /\ StopsAt("close", "done")
  /\ client' = FALSE /\ store' = (IF store = "open" THEN "closed" ELSE store) /\ online' = FALSE
  /\ UNCHANGED <<runCtx, linked, stopping, late, timedOut>>

StartSteps == StartOpen \/ StartConnect \/ StartQr \/ StartFails
StopSteps == StopCancel \/ StopDisconnect \/ StopWait \/ StopClose
RedialSteps == RedialCheck \/ RedialBackoff \/ RedialReset \/ RedialDone

NativeNext ==
  \/ StartSteps \/ QrEnds
  \/ ConnectionLost \/ EventHandler \/ RedialSteps \/ RedialConnect
  \/ StopFlag \/ StopSteps

\* The goroutines run, events are handed over, and Connect returns; a Connect
\* that is tried again and again succeeds at last.  Nothing makes Stop come.
NativeFairness ==
  /\ WF_nativeVars(RedialSteps) /\ WF_nativeVars(EventHandler) /\ WF_nativeVars(RedialConnect)
  /\ SF_nativeVars(RedialConnect /\ linked')

NativeSpec == NativeInit /\ [][NativeNext]_nativeVars /\ NativeFairness

-----------------------------------------------------------------------------
(* Properties *)

Goroutines == (IF qr THEN 1 ELSE 0) + (IF redial = "none" THEN 0 ELSE 1) + leaving

\* "This closes the TOCTOU window": from the moment Stop waits nothing is added
\* to the WaitGroup, whatever the library reports meanwhile; the database is
\* closed only when no goroutine is left, unless Stop ran out of time; and the
\* library is connected after Stop only if a Connect was under way then.
StopIsFinal ==
  /\ wg = Goroutines
  /\ stopStep \in {"close", "done"} /\ ~timedOut => Goroutines = 0
  /\ stopStep \in {"close", "done"} /\ linked => late \/ timedOut

\* A lost connection is established again, or Stop comes -- unless its event
\* was dropped because the previous goroutine had connected and not yet reset
\* reconnecting: then nothing will try again.
LostConnectionsReturn == lost > 0 ~> linked \/ stopping \/ ignored
=============================================================================
