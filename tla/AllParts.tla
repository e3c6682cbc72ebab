------------------------------ MODULE AllParts ------------------------------
(***************************************************************************)
(* The session store and the parts around the message path, side by side.  *)
(* They share no state here, so one behaviour is about one of them, which  *)
(* the initial state names: its variables move, while those of the others  *)
(* stay in one initial state.                                              *)
(***************************************************************************)
EXTENDS SessionsDurability, Inbound, Delivery, MediaStore, WhatsAppNative, Heartbeat, Typing, Adapters

CONSTANT Parts  \* the parts to explore

VARIABLE part   \* the part this behaviour is about

allVars == <<part, dvars, inboundVars, mediaVars, typingVars, deliveryVars, nativeVars,
             adapterVars, heartbeatVars>>

\* A part that is not explored stays in one initial state.
PartsInit ==
  /\ part \in Parts
  /\ IF part = "sessions" THEN TRUE ELSE disk = Empty
  /\ IF part = "inbound" THEN TRUE
     ELSE kind = "telegram" /\ trigger = "all" /\ post = [p \in Posts |-> Plain]
  /\ IF part = "typing" THEN TRUE ELSE host = "telegram"
  /\ IF part = "delivery" THEN TRUE ELSE platform = "telegram" /\ text = "short" /\ parts = <<>>
  /\ IF part = "adapters" THEN TRUE ELSE name = "telegram"
  /\ IF part = "heartbeat" THEN TRUE ELSE stateFile = NoChat /\ oldFile = NoChat
  /\ DInit /\ InboundInit /\ MediaInit /\ TypingInit /\ DeliveryInit /\ NativeInit
  /\ AdaptersInit /\ HeartbeatInit

\* The variables of the parts but p do not change.
Only(p) ==
  /\ part = p /\ UNCHANGED part
  /\ IF p = "sessions" THEN TRUE ELSE UNCHANGED dvars
  /\ IF p = "inbound" THEN TRUE ELSE UNCHANGED inboundVars
  /\ IF p = "media" THEN TRUE ELSE UNCHANGED mediaVars
  /\ IF p = "typing" THEN TRUE ELSE UNCHANGED typingVars
  /\ IF p = "delivery" THEN TRUE ELSE UNCHANGED deliveryVars
  /\ IF p = "native" THEN TRUE ELSE UNCHANGED nativeVars
  /\ IF p = "adapters" THEN TRUE ELSE UNCHANGED adapterVars
  /\ IF p = "heartbeat" THEN TRUE ELSE UNCHANGED heartbeatVars

PartsNext ==
  \/ Only("sessions") /\ DNext
  \/ Only("inbound") /\ InboundNext
  \/ Only("media") /\ MediaNext
  \/ Only("typing") /\ TypingNext
  \/ Only("delivery") /\ DeliveryNext
  \/ Only("native") /\ NativeNext
  \/ Only("adapters") /\ AdaptersNext
  \/ Only("heartbeat") /\ HeartbeatNext

PartsSpec ==
  PartsInit /\ [][PartsNext]_allVars /\ TypingFairness /\ NativeFairness /\ AdaptersFairness

-----------------------------------------------------------------------------
(* Properties *)

\* Every part is type correct.
PartsTypeOK ==
  /\ part \in Parts
  /\ DTypeOK
  /\ InboundTypeOK /\ MediaTypeOK /\ TypingTypeOK /\ DeliveryTypeOK
  /\ NativeTypeOK /\ AdaptersTypeOK /\ HeartbeatTypeOK
=============================================================================
