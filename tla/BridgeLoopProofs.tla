-------------------------- MODULE BridgeLoopProofs --------------------------
(***************************************************************************)
(* Proofs about BridgeLoop for any sets of messages and session keys.      *)
(***************************************************************************)
EXTENDS BridgeDurability, TLAPS

(* What TypeOK does not say and the steps need: a /stop that is about to    *)
(* call a cancel function has loaded one, and only chat messages are in the *)
(* part of handleMessage behind the command executor.                       *)
ChatPlaces == HeldPlaces \ {"copying", "writing"}

PlaceInv ==
  \A m \in Messages :
    /\ pc[m] \in {"cancelling", "stopped"} => target[m] \in Messages
    /\ pc[m] \in ChatPlaces => kind[m] = "chat"

LEMMA SessionIsKey == ASSUME NEW m \in Messages PROVE SessionOf[m] \in Keys
BY BridgeAssumption

LEMMA AppendLine ==
  ASSUME NEW S, NEW s \in Seq(S), NEW x \in S
  PROVE  Append(s, x) \in Seq(S)
OBVIOUS

(***************************************************************************)
(* Type correctness.  The handlers' values stay in their ranges in every   *)
(* interleaving of any number of handlers.                                 *)
(***************************************************************************)
TypeInv == TypeOK /\ PlaceInv

LEMMA TypeInit == Init => TypeInv
<1> SUFFICES ASSUME Init PROVE TypeInv
  OBVIOUS
<1>1. TypeOK
  <2>1. /\ disk \in [Keys -> Ids \cup {NoId}]
        /\ mem \in [Keys -> Ids \cup {NoId}]
    BY DEF Init, Ids
  <2>2. history \in Seq(Messages \X {"user", "assistant"})
    BY DEF Init
  <2> QED
    BY <2>1, <2>2, BridgeAssumption DEF Init, TypeOK, Places, Replies
<1>2. PlaceInv
  BY DEF Init, PlaceInv, ChatPlaces, HeldPlaces
<1> QED
  BY <1>1, <1>2 DEF TypeInv

LEMMA TypeStep == TypeInv /\ [Next]_vars => TypeInv'
<1> SUFFICES ASSUME TypeInv, [Next]_vars PROVE TypeInv'
  OBVIOUS
<1> USE DEF TypeInv, TypeOK, PlaceInv, Places, HeldPlaces, ChatPlaces, Kinds, Replies,
            loopVars, flightVars, storeVars, Goto, Publish
<1>1. ASSUME NEW m \in Messages, Spawn(m) PROVE TypeInv'
  BY <1>1 DEF Spawn
<1>2. ASSUME NEW m \in Messages, Admit(m) PROVE TypeInv'
  <2>1. CASE SessionOf[m] \in inFlight
    BY <1>2, <2>1, BridgeAssumption DEF Admit
  <2>2. CASE SessionOf[m] \notin inFlight
    <3>1. pc' = [pc EXCEPT ![m] = "admitted"] /\ kind[m] = "chat" /\ kind' = kind
      BY <1>2, <2>2 DEF Admit
    <3>2. inFlight' \subseteq Keys
      <4>1. inFlight' = inFlight \cup {SessionOf[m]}
        BY <1>2 DEF Admit
      <4> QED
        BY <4>1, SessionIsKey
    <3>3. PlaceInv'
      BY <1>2, <3>1 DEF Admit
    <3> QED
      BY <1>2, <3>1, <3>2, <3>3 DEF Admit
  <2> QED
    BY <2>1, <2>2
<1>3. ASSUME NEW m \in Messages, ReplyBusy(m) PROVE TypeInv'
  BY <1>3 DEF ReplyBusy
<1>4. ASSUME NEW m \in Messages, RegisterCancel(m) PROVE TypeInv'
  BY <1>4, BridgeAssumption DEF RegisterCancel
<1>5. ASSUME NEW m \in Messages, StartInvoke(m) PROVE TypeInv'
  BY <1>5, BridgeAssumption DEF StartInvoke, Store!Get
<1>6. ASSUME NEW m \in Messages, InvokeReturns(m) PROVE TypeInv'
  BY <1>6 DEF InvokeReturns, InvokeOutcome, InvokeReturnsCancelled, InvokeReturnsError,
              InvokeReturnsText, InvokeReturnsEmpty
<1>7. ASSUME NEW m \in Messages, ReplyError(m) PROVE TypeInv'
  BY <1>7 DEF ReplyError
<1>8. ASSUME NEW m \in Messages, ReplyText(m) PROVE TypeInv'
  BY <1>8 DEF ReplyText
<1>9. ASSUME NEW m \in Messages, RecordUser(m) PROVE TypeInv'
  <2>1. history' \in Seq(Messages \X {"user", "assistant"})
    <3>1. <<m, "user">> \in Messages \X {"user", "assistant"}
      OBVIOUS
    <3>2. Append(history, <<m, "user">>) \in Seq(Messages \X {"user", "assistant"})
      BY <3>1, AppendLine
    <3> QED
      BY <1>9, <3>2 DEF RecordUser
  <2> QED
    BY <1>9, <2>1 DEF RecordUser
<1>10. ASSUME NEW m \in Messages, RecordAssistant(m) PROVE TypeInv'
  <2>1. history' \in Seq(Messages \X {"user", "assistant"})
    <3>1. <<m, "assistant">> \in Messages \X {"user", "assistant"}
      OBVIOUS
    <3>2. Append(history, <<m, "assistant">>) \in Seq(Messages \X {"user", "assistant"})
      BY <3>1, AppendLine
    <3> QED
      BY <1>10, <3>2 DEF RecordAssistant
  <2> QED
    BY <1>10, <2>1 DEF RecordAssistant
<1>11. ASSUME NEW m \in Messages, SetSession(m) PROVE TypeInv'
  BY <1>11, BridgeAssumption DEF SetSession, Store!Set, Ids
<1>12. ASSUME NEW m \in Messages, SaveCopy(m) PROVE TypeInv'
  BY <1>12 DEF SaveCopy, Store!SaveCopy
<1>13. ASSUME NEW m \in Messages, SaveWrite(m) PROVE TypeInv'
  <2>1. PICK place \in {"noting", "cleared", "clearFailed"} :
          /\ pc' = [pc EXCEPT ![m] = place]
          /\ place = "noting" => kind[m] = "chat"
    BY <1>13 DEF SaveWrite
  <2>2. /\ disk' \in [Keys -> Ids \cup {NoId}]
        /\ snap' \in [Messages -> [Keys -> Ids \cup {NoId}] \cup {NoSave}]
        /\ mem' = mem /\ dirty' = dirty
    BY <1>13 DEF SaveWrite, Store!SaveWrite, Store!SaveFail
  <2>3. PlaceInv'
    BY <1>13, <2>1 DEF SaveWrite
  <2> QED
    BY <1>13, <2>1, <2>2, <2>3 DEF SaveWrite
<1>14. ASSUME NEW m \in Messages, NoteLastChannel(m) PROVE TypeInv'
  BY <1>14, BridgeAssumption DEF NoteLastChannel
<1>15. ASSUME NEW m \in Messages, Unwind(m) PROVE TypeInv'
  <2>1. CASE pc[m] = "unwinding"
    BY <1>15, <2>1, BridgeAssumption DEF Unwind
  <2>2. CASE pc[m] = "releasing"
    BY <1>15, <2>2, BridgeAssumption DEF Unwind
  <2> QED
    BY <1>15, <2>1, <2>2 DEF Unwind
<1>16. ASSUME NEW m \in Messages, StopLoad(m) PROVE TypeInv'
  BY <1>16, BridgeAssumption DEF StopLoad
<1>17. ASSUME NEW m \in Messages, StopCancel(m) PROVE TypeInv'
  BY <1>17 DEF StopCancel
<1>18. ASSUME NEW m \in Messages, ClearSession(m) PROVE TypeInv'
  BY <1>18, BridgeAssumption DEF ClearSession, Store!Delete
<1>19. ASSUME NEW m \in Messages, ReplyCommand(m) PROVE TypeInv'
  BY <1>19 DEF ReplyCommand
<1>20. CASE RunReturns \/ Shutdown
  BY <1>20 DEF RunReturns, Shutdown
<1>21. CASE UNCHANGED vars
  BY <1>21 DEF vars
<1> QED
  BY <1>1, <1>2, <1>3, <1>4, <1>5, <1>6, <1>7, <1>8, <1>9, <1>10, <1>11, <1>12,
     <1>13, <1>14, <1>15, <1>16, <1>17, <1>18, <1>19, <1>20, <1>21
  DEF Next, HandlerStep

THEOREM TypeCorrect == Spec => []TypeOK
<1>1. TypeInv => TypeOK
  BY DEF TypeInv
<1> QED
  BY <1>1, TypeInit, TypeStep, PTL DEF Spec

-----------------------------------------------------------------------------
(***************************************************************************)
(* One run per session.  "At most one holder" is not inductive: Admit      *)
(* tests inFlight, not the other handlers, and Unwind deletes by key.  The *)
(* inductive form ties both maps to the handlers: a taken slot has a       *)
(* holder, a holder has its slot, and a cancelFlights entry is the current *)
(* holder's.                                                               *)
(***************************************************************************)
SlotInv == OneRunPerSession /\ SlotsHaveOwners /\ StopReachesTheRun

LEMMA SlotInit == Init => SlotInv
BY BridgeAssumption
DEF Init, SlotInv, OneRunPerSession, SlotsHaveOwners, StopReachesTheRun, Holds, Stoppable,
    HeldPlaces, StoppablePlaces

\* A step of m that leaves both maps alone and keeps m inside, or outside, of
\* both regions.
LEMMA SlotKept ==
  ASSUME SlotInv, NEW m \in Messages, NEW place,
         pc \in [Messages -> Places],
         cancelFlights \in [Keys -> Messages \cup {NoHandler}],
         UNCHANGED <<kind, inFlight, cancelFlights>>,
         pc' = [pc EXCEPT ![m] = place],
         (kind[m] = "chat" /\ place \in HeldPlaces) <=> Holds(m),
         (kind[m] = "chat" /\ place \in StoppablePlaces) <=> Stoppable(m)
  PROVE  SlotInv'
<1>1. \A n \in Messages : (Holds(n)' <=> Holds(n)) /\ (Stoppable(n)' <=> Stoppable(n))
  BY DEF Holds, Stoppable
<1>2. OneRunPerSession' /\ SlotsHaveOwners'
  BY <1>1 DEF SlotInv, OneRunPerSession, SlotsHaveOwners
<1>3. StopReachesTheRun'
  BY <1>1 DEF SlotInv, StopReachesTheRun
<1> QED
  BY <1>2, <1>3 DEF SlotInv

LEMMA SlotStep == TypeInv /\ SlotInv /\ [Next]_vars => SlotInv'
<1> SUFFICES ASSUME TypeInv, SlotInv, [Next]_vars PROVE SlotInv'
  OBVIOUS
<1> USE DEF TypeInv
<1>0. /\ pc \in [Messages -> Places]
      /\ cancelFlights \in [Keys -> Messages \cup {NoHandler}]
  BY DEF TypeOK
<1> DEFINE Still(m) == /\ kind' = kind /\ inFlight' = inFlight
                       /\ cancelFlights' = cancelFlights
\* The steps outside handleMessage's slot, and those well inside it.
<1>1. ASSUME NEW m \in Messages,
             \/ Spawn(m) \/ ReplyBusy(m) \/ StartInvoke(m) \/ InvokeReturns(m)
             \/ ReplyError(m) \/ ReplyText(m) \/ RecordUser(m) \/ RecordAssistant(m)
             \/ SetSession(m) \/ SaveCopy(m) \/ NoteLastChannel(m)
             \/ StopCancel(m) \/ ReplyCommand(m)
      PROVE  SlotInv'
  <2>1. Still(m)
    BY <1>1 DEF Spawn, ReplyBusy, StartInvoke, InvokeReturns, ReplyError, ReplyText,
                RecordUser, RecordAssistant, SetSession, SaveCopy, NoteLastChannel,
                StopCancel, ReplyCommand, loopVars, flightVars
  <2>2. PICK place \in Places :
          /\ pc' = [pc EXCEPT ![m] = place]
          /\ place \in HeldPlaces <=> pc[m] \in HeldPlaces
          /\ place \in StoppablePlaces <=> pc[m] \in StoppablePlaces
    BY <1>1 DEF Spawn, ReplyBusy, StartInvoke, InvokeReturns, InvokeOutcome,
                InvokeReturnsCancelled, InvokeReturnsError, InvokeReturnsText,
                InvokeReturnsEmpty, ReplyError, ReplyText,
                RecordUser, RecordAssistant, SetSession, SaveCopy, NoteLastChannel,
                StopCancel, ReplyCommand, Goto, Places, HeldPlaces, StoppablePlaces
  <2> QED
    BY <1>0, <2>1, <2>2, SlotKept DEF Holds, Stoppable
<1>2. ASSUME NEW m \in Messages, StopLoad(m) \/ ClearSession(m) PROVE SlotInv'
  <2>1. Still(m) /\ kind[m] # "chat"
    BY <1>2 DEF StopLoad, ClearSession, loopVars, flightVars
  <2>2. PICK place \in Places : pc' = [pc EXCEPT ![m] = place]
    BY <1>2 DEF StopLoad, ClearSession, Goto, Places, HeldPlaces
  <2> QED
    BY <1>0, <2>1, <2>2, SlotKept DEF Holds, Stoppable
<1>3. ASSUME NEW m \in Messages, SaveWrite(m) PROVE SlotInv'
  <2>1. Still(m) /\ pc[m] = "writing"
    BY <1>3 DEF SaveWrite, loopVars, flightVars, Goto
  <2>2. PICK place \in Places :
          /\ pc' = [pc EXCEPT ![m] = place]
          /\ kind[m] = "chat" => place = "noting"
    BY <1>3 DEF SaveWrite, Goto, Places, HeldPlaces
  <2> QED
    BY <1>0, <2>1, <2>2, SlotKept DEF Holds, Stoppable, HeldPlaces, StoppablePlaces
\* Admission: the slot was free, so no other handler of the session holds it.
<1>4. ASSUME NEW m \in Messages, Admit(m) PROVE SlotInv'
  <2>0. /\ kind' = kind /\ kind[m] = "chat" /\ pc[m] = "spawned"
        /\ cancelFlights' = cancelFlights
        /\ inFlight' = inFlight \cup {SessionOf[m]}
    BY <1>4 DEF Admit, Goto, loopVars
  <2>1. CASE SessionOf[m] \in inFlight
    <3>1. pc' = [pc EXCEPT ![m] = "busy"] /\ inFlight' = inFlight
      BY <1>4, <2>0, <2>1 DEF Admit, Goto
    <3> QED
      BY <1>0, <2>0, <3>1, SlotKept DEF Holds, Stoppable, HeldPlaces, StoppablePlaces
  <2>2. CASE SessionOf[m] \notin inFlight
    <3>1. pc' = [pc EXCEPT ![m] = "admitted"]
      BY <1>4, <2>2 DEF Admit, Goto
    <3>2. \A n \in Messages : Stoppable(n)' <=> Stoppable(n)
      BY <1>0, <2>0, <3>1 DEF Stoppable, StoppablePlaces, HeldPlaces
    <3>3. \A n \in Messages : Holds(n)' <=> n = m \/ Holds(n)
      BY <1>0, <2>0, <3>1 DEF Holds, HeldPlaces
    <3>4. \A n \in Messages : Holds(n) => SessionOf[n] # SessionOf[m]
      BY <2>2, SessionIsKey DEF SlotInv, SlotsHaveOwners
    <3>5. OneRunPerSession'
      BY <3>3, <3>4 DEF SlotInv, OneRunPerSession
    <3>6. SlotsHaveOwners'
      BY <2>0, <3>3, SessionIsKey DEF SlotInv, SlotsHaveOwners
    <3>7. StopReachesTheRun'
      BY <1>0, <2>0, <3>2 DEF SlotInv, StopReachesTheRun
    <3> QED
      BY <3>5, <3>6, <3>7 DEF SlotInv
  <2> QED
    BY <2>1, <2>2
\* Registration: the holder overwrites whatever entry its session has.
<1>5. ASSUME NEW m \in Messages, RegisterCancel(m) PROVE SlotInv'
  <2>0. /\ kind' = kind /\ kind[m] = "chat" /\ pc[m] = "admitted"
        /\ pc' = [pc EXCEPT ![m] = "registered"]
        /\ cancelFlights' = [cancelFlights EXCEPT ![SessionOf[m]] = m]
        /\ inFlight' = inFlight
    BY <1>5 DEF RegisterCancel, Goto, loopVars, PlaceInv, ChatPlaces, HeldPlaces
  <2>1. Holds(m)
    BY <2>0 DEF Holds, HeldPlaces
  <2>2. \A n \in Messages : Holds(n)' <=> Holds(n)
    BY <1>0, <2>0 DEF Holds, HeldPlaces
  <2>3. \A n \in Messages : Stoppable(n)' <=> n = m \/ Stoppable(n)
    BY <1>0, <2>0 DEF Stoppable, StoppablePlaces, HeldPlaces
  <2>4. \A n \in Messages : Stoppable(n) /\ n # m => SessionOf[n] # SessionOf[m]
    BY <2>1 DEF SlotInv, OneRunPerSession, Stoppable, StoppablePlaces, Holds
  <2>5. StopReachesTheRun'
    BY <2>0, <2>3, <2>4, BridgeAssumption DEF TypeOK, SlotInv, StopReachesTheRun
  <2> QED
    BY <2>0, <2>2, <2>5 DEF SlotInv, OneRunPerSession, SlotsHaveOwners
\* The deferred Deletes: by key, but only the holder can be there.
<1>6. ASSUME NEW m \in Messages, Unwind(m) PROVE SlotInv'
  <2>0. kind' = kind /\ kind[m] = "chat" /\ Holds(m)
    BY <1>6 DEF Unwind, Goto, loopVars, PlaceInv, ChatPlaces, HeldPlaces, Holds
  <2>00. \A n \in Messages : Holds(n) /\ n # m => SessionOf[n] # SessionOf[m]
    BY <2>0 DEF SlotInv, OneRunPerSession
  <2>1. CASE pc[m] = "unwinding"
    <3>1. /\ pc' = [pc EXCEPT ![m] = "releasing"]
          /\ cancelFlights' = [cancelFlights EXCEPT ![SessionOf[m]] = NoHandler]
          /\ inFlight' = inFlight
      BY <1>6, <2>1 DEF Unwind, Goto
    <3>2. \A n \in Messages : Holds(n)' <=> Holds(n)
      BY <1>0, <2>0, <2>1, <3>1 DEF Holds, HeldPlaces
    <3>3. \A n \in Messages : Stoppable(n)' <=> n # m /\ Stoppable(n)
      BY <1>0, <2>0, <2>1, <3>1 DEF Stoppable, StoppablePlaces, HeldPlaces
    <3>4. \A n \in Messages : Stoppable(n) /\ n # m => SessionOf[n] # SessionOf[m]
      BY <2>00 DEF Stoppable, StoppablePlaces, Holds
    <3>5. StopReachesTheRun'
      BY <3>1, <3>3, <3>4, BridgeAssumption DEF TypeOK, SlotInv, StopReachesTheRun
    <3> QED
      BY <3>1, <3>2, <3>5 DEF SlotInv, OneRunPerSession, SlotsHaveOwners
  <2>2. CASE pc[m] = "releasing"
    <3>1. /\ pc' = [pc EXCEPT ![m] = "done"]
          /\ cancelFlights' = cancelFlights
          /\ inFlight' = inFlight \ {SessionOf[m]}
      BY <1>6, <2>2 DEF Unwind, Goto
    <3>2. \A n \in Messages : Holds(n)' <=> n # m /\ Holds(n)
      BY <1>0, <2>0, <2>2, <3>1 DEF Holds, HeldPlaces
    <3>3. \A n \in Messages : Stoppable(n)' <=> Stoppable(n)
      BY <1>0, <2>0, <2>2, <3>1 DEF Stoppable, StoppablePlaces, HeldPlaces
    <3>4. SlotsHaveOwners'
      BY <2>00, <3>1, <3>2, SessionIsKey DEF SlotInv, SlotsHaveOwners
    <3>5. OneRunPerSession'
      BY <3>2 DEF SlotInv, OneRunPerSession
    <3>6. StopReachesTheRun'
      BY <1>0, <3>1, <3>3 DEF SlotInv, StopReachesTheRun
    <3> QED
      BY <3>4, <3>5, <3>6 DEF SlotInv
  <2> QED
    BY <1>6, <2>1, <2>2 DEF Unwind, Goto
<1>7. CASE RunReturns \/ Shutdown \/ UNCHANGED vars
  <2>1. UNCHANGED <<kind, pc, inFlight, cancelFlights>>
    BY <1>7 DEF RunReturns, Shutdown, vars, flightVars
  <2> QED
    BY <2>1 DEF SlotInv, OneRunPerSession, SlotsHaveOwners, StopReachesTheRun, Holds, Stoppable
<1> QED
  BY <1>1, <1>2, <1>3, <1>4, <1>5, <1>6, <1>7 DEF Next, HandlerStep

\* "Dedup in-flight requests per session" (loop.go): any number of handlers of a
\* session race for it, at most one is past the test at any time.
THEOREM MutualExclusion == Spec => []OneRunPerSession
<1>1. SlotInv => OneRunPerSession
  BY DEF SlotInv
<1> QED
  BY <1>1, TypeInit, TypeStep, SlotInit, SlotStep, PTL DEF Spec

\* A slot is never leaked and never given away early.
THEOREM SlotsOwned == Spec => []SlotsHaveOwners
<1>1. SlotInv => SlotsHaveOwners
  BY DEF SlotInv
<1> QED
  BY <1>1, TypeInit, TypeStep, SlotInit, SlotStep, PTL DEF Spec

\* /stop always finds the cancel function of the run it should stop, and no
\* entry of a handler that has left survives in cancelFlights.
THEOREM StopFindsRun == Spec => []StopReachesTheRun
<1>1. SlotInv => StopReachesTheRun
  BY DEF SlotInv
<1> QED
  BY <1>1, TypeInit, TypeStep, SlotInit, SlotStep, PTL DEF Spec

-----------------------------------------------------------------------------
(***************************************************************************)
(* The session store.  Between sessions.Get and sessions.Set of a handler  *)
(* only a handler of the same session could store another id, and that one *)
(* would hold the session's slot as well.                                  *)
(***************************************************************************)

\* The places between sessions.Get and the look at what the CLI reported.
ResumedPlaces == {"invoking", "answered", "recordingUser", "recordingAssistant"}

\* Only StartInvoke changes what a handler has read, and only SetSession and
\* ClearSession change the map.
LEMMA ResumedKept ==
  ASSUME TypeInv, NEW m \in Messages, pc[m] \in ResumedPlaces, mem[SessionOf[m]] \in {resumed[m], NoId},
         NEW n \in Messages, Spawn(n) \/ HandlerStep(n) \/ InvokeReturns(n),
         SetSession(n) => SessionOf[n] # SessionOf[m]
  PROVE  mem'[SessionOf[m]] \in {resumed'[m], NoId}
<1> USE DEF TypeInv, TypeOK, storeVars
<1>1. CASE StartInvoke(n)
  BY <1>1 DEF StartInvoke, Goto, ResumedPlaces
<1>2. CASE SetSession(n)
  BY <1>2, SessionIsKey DEF SetSession, Store!Set
<1>3. CASE ClearSession(n)
  BY <1>3, SessionIsKey DEF ClearSession, Store!Delete
<1>4. CASE \/ Spawn(n) \/ InvokeReturns(n) \/ Admit(n) \/ ReplyBusy(n) \/ RegisterCancel(n)
           \/ ReplyError(n) \/ ReplyText(n) \/ RecordUser(n) \/ RecordAssistant(n)
           \/ NoteLastChannel(n) \/ Unwind(n) \/ StopLoad(n) \/ StopCancel(n) \/ ReplyCommand(n)
  <2>1. mem' = mem /\ resumed' = resumed
    BY <1>4 DEF Spawn, InvokeReturns, Admit, ReplyBusy, RegisterCancel, ReplyError, ReplyText,
       RecordUser, RecordAssistant, NoteLastChannel, Unwind, StopLoad, StopCancel, ReplyCommand
  <2> QED
    BY <2>1
<1>5. CASE SaveCopy(n) \/ SaveWrite(n)
  BY <1>5 DEF SaveCopy, SaveWrite, Store!SaveCopy, Store!SaveWrite, Store!SaveFail
<1> QED
  BY <1>1, <1>2, <1>3, <1>4, <1>5 DEF HandlerStep

\* A handler gets to these places by StartInvoke, or was there.
LEMMA ResumedFrom ==
  ASSUME TypeInv, [Next]_vars, NEW m \in Messages, pc'[m] \in ResumedPlaces
  PROVE  pc[m] \in ResumedPlaces \/ StartInvoke(m)
<1> USE DEF TypeInv, TypeOK, ResumedPlaces, Goto
<1>1. CASE RunReturns \/ Shutdown \/ UNCHANGED vars
  BY <1>1 DEF RunReturns, Shutdown, vars
<1>2. ASSUME NEW n \in Messages, n # m, Spawn(n) \/ HandlerStep(n) \/ InvokeReturns(n)
      PROVE  pc'[m] = pc[m]
  BY <1>2 DEF HandlerStep, Spawn, InvokeReturns, InvokeOutcome, InvokeReturnsCancelled, InvokeReturnsError,
     InvokeReturnsText, InvokeReturnsEmpty, Admit, ReplyBusy, RegisterCancel, StartInvoke, ReplyError,
     ReplyText, RecordUser, RecordAssistant, SetSession, SaveCopy, SaveWrite, NoteLastChannel, Unwind,
     StopLoad, StopCancel, ClearSession, ReplyCommand
<1>3. CASE Spawn(m) \/ HandlerStep(m) \/ InvokeReturns(m)
  BY <1>3 DEF HandlerStep, Spawn, InvokeReturns, InvokeOutcome, InvokeReturnsCancelled, InvokeReturnsError,
     InvokeReturnsText, InvokeReturnsEmpty, Admit, ReplyBusy, RegisterCancel, ReplyError,
     ReplyText, RecordUser, RecordAssistant, SetSession, SaveCopy, SaveWrite, NoteLastChannel, Unwind,
     StopLoad, StopCancel, ClearSession, ReplyCommand
<1> QED
  BY <1>1, <1>2, <1>3 DEF Next

LEMMA ResumeStep == TypeInv /\ SlotInv /\ OnlyClearMovesTheSession /\ [Next]_vars => OnlyClearMovesTheSession'
<1> SUFFICES ASSUME TypeInv, SlotInv, OnlyClearMovesTheSession, [Next]_vars,
                    NEW m \in Messages, pc'[m] \in ResumedPlaces
             PROVE  mem'[SessionOf[m]] \in {resumed'[m], NoId}
  BY DEF OnlyClearMovesTheSession, ResumedPlaces
<1>1. CASE StartInvoke(m)
  BY <1>1 DEF StartInvoke, Store!Get, storeVars, TypeInv, TypeOK
<1>2. CASE pc[m] \in ResumedPlaces
  <2>1. mem[SessionOf[m]] \in {resumed[m], NoId}
    BY <1>2 DEF OnlyClearMovesTheSession, ResumedPlaces
  <2>2. ASSUME NEW n \in Messages, SetSession(n) PROVE SessionOf[n] # SessionOf[m]
    <3>1. Holds(m)
      BY <1>2 DEF Holds, ResumedPlaces, HeldPlaces, ChatPlaces, TypeInv, PlaceInv
    <3>2. Holds(n) /\ n # m
      BY <1>2, <2>2 DEF SetSession, Goto, Holds, ResumedPlaces, HeldPlaces, ChatPlaces, TypeInv, PlaceInv
    <3> QED
      BY <3>1, <3>2 DEF SlotInv, OneRunPerSession
  <2>3. CASE RunReturns \/ Shutdown \/ UNCHANGED vars
    BY <2>1, <2>3 DEF RunReturns, Shutdown, vars, storeVars
  <2>4. ASSUME NEW n \in Messages, Spawn(n) \/ HandlerStep(n) \/ InvokeReturns(n)
        PROVE  mem'[SessionOf[m]] \in {resumed'[m], NoId}
    BY <1>2, <2>1, <2>2, <2>4, ResumedKept
  <2> QED
    BY <2>3, <2>4 DEF Next
<1> QED
  BY <1>1, <1>2, ResumedFrom

\* No conversation is forked: what a handler resumed is still the session's id
\* when it looks at the CLI's result, unless /clear has removed it.
THEOREM SessionNotForked == Spec => []OnlyClearMovesTheSession
<1>1. Init => OnlyClearMovesTheSession
  BY DEF Init, OnlyClearMovesTheSession
<1> QED
  BY <1>1, TypeInit, TypeStep, SlotInit, SlotStep, ResumeStep, PTL DEF Spec

\* A step of a handler is at most one of the store's steps.
LEMMA StoreStep == TypeInv /\ [Next]_vars => [Store!Next]_(Store!vars)
<1> SUFFICES ASSUME TypeInv, [Next]_vars PROVE [Store!Next]_(Store!vars)
  OBVIOUS
<1> USE DEF Store!Next, Store!vars, storeVars
<1>1. ASSUME NEW n \in Messages, SetSession(n) PROVE [Store!Next]_(Store!vars)
  <2>1. CASE UNCHANGED storeVars
    BY <2>1
  <2>2. CASE \E id \in {n, resumed[n]} \ {NoId} : Store!Set(n, SessionOf[n], id)
    BY <2>2, SessionIsKey DEF TypeInv, TypeOK, Ids
  <2> QED
    BY <1>1, <2>1, <2>2 DEF SetSession
<1>2. ASSUME NEW n \in Messages, ClearSession(n) PROVE [Store!Next]_(Store!vars)
  BY <1>2, SessionIsKey DEF ClearSession
<1>3. ASSUME NEW n \in Messages, SaveCopy(n) \/ SaveWrite(n) PROVE [Store!Next]_(Store!vars)
  BY <1>3 DEF SaveCopy, SaveWrite
<1>4. ASSUME NEW n \in Messages,
             \/ Spawn(n) \/ InvokeReturns(n) \/ Admit(n) \/ ReplyBusy(n) \/ RegisterCancel(n)
             \/ StartInvoke(n) \/ ReplyError(n) \/ ReplyText(n) \/ RecordUser(n) \/ RecordAssistant(n)
             \/ NoteLastChannel(n) \/ Unwind(n) \/ StopLoad(n) \/ StopCancel(n) \/ ReplyCommand(n)
      PROVE  UNCHANGED Store!vars
  BY <1>4 DEF Spawn, InvokeReturns, Admit, ReplyBusy, RegisterCancel, StartInvoke, ReplyError, ReplyText,
     RecordUser, RecordAssistant, NoteLastChannel, Unwind, StopLoad, StopCancel, ReplyCommand
<1>5. CASE RunReturns \/ Shutdown \/ UNCHANGED vars
  BY <1>5 DEF RunReturns, Shutdown, vars
<1> QED
  BY <1>1, <1>2, <1>3, <1>4, <1>5 DEF Next, HandlerStep

\* The handlers together use the session store as Sessions describes it, so what
\* is proved of the store holds of the bridge's.
THEOREM BridgeUsesStore == Spec => StoreSpec
<1>1. Init => Store!Init
  BY DEF Init, Store!Init, Store!Maps, Ids
<1> QED
  BY <1>1, TypeInit, TypeStep, StoreStep, PTL DEF Spec, StoreSpec, Store!Spec

-----------------------------------------------------------------------------
(***************************************************************************)
(* Silence.  A chat message can end without a word only by the early       *)
(* return for a cancelled context, so the invariant says of the places     *)
(* behind the other exits that something was published, and of a cancelled *)
(* context that a /stop which loaded it has called it.                     *)
(***************************************************************************)

\* The places that a chat message reaches only after it has published.
RepliedPlaces == {"recordingUser", "recordingAssistant", "persisting", "copying", "writing", "noting"}

\* A /stop has called the cancel function of m.
StoppedBy(m) == \E t \in Messages : target[t] = m /\ pc[t] \in {"stopped", "done"}

SilenceInv ==
  \A m \in Messages :
    /\ m \in cancelled => StoppedBy(m)
    /\ kind[m] = "chat" /\ pc[m] \in RepliedPlaces => reply[m] # "none"
    /\ kind[m] = "chat" /\ pc[m] \in {"unwinding", "releasing", "done"} /\ reply[m] = "none"
         => shutdown \/ m \in cancelled

\* A /stop that has called a cancel function keeps its target.
LEMMA StoppedStays ==
  ASSUME TypeInv, [Next]_vars, NEW m \in Messages, StoppedBy(m)
  PROVE  StoppedBy(m)'
<1> PICK t \in Messages : target[t] = m /\ pc[t] \in {"stopped", "done"}
  BY DEF StoppedBy
<1> USE DEF TypeInv, TypeOK, Goto
<1>1. ASSUME NEW n \in Messages, n # t, Spawn(n) \/ HandlerStep(n) \/ InvokeReturns(n)
      PROVE  pc'[t] = pc[t] /\ target'[t] = target[t]
  BY <1>1 DEF HandlerStep, Spawn, InvokeReturns, InvokeOutcome, InvokeReturnsCancelled, InvokeReturnsError,
     InvokeReturnsText, InvokeReturnsEmpty, Admit, ReplyBusy, RegisterCancel, StartInvoke, ReplyError,
     ReplyText, RecordUser, RecordAssistant, SetSession, SaveCopy, SaveWrite, NoteLastChannel, Unwind,
     StopLoad, StopCancel, ClearSession, ReplyCommand
<1>2. CASE Spawn(t) \/ HandlerStep(t) \/ InvokeReturns(t)
  <2>1. ReplyCommand(t)
    BY <1>2 DEF HandlerStep, Spawn, InvokeReturns, InvokeOutcome, InvokeReturnsCancelled, InvokeReturnsError,
       InvokeReturnsText, InvokeReturnsEmpty, Admit, ReplyBusy, RegisterCancel, StartInvoke, ReplyError,
       ReplyText, RecordUser, RecordAssistant, SetSession, SaveCopy, SaveWrite, NoteLastChannel, Unwind,
       StopLoad, StopCancel, ClearSession
  <2> QED
    BY <2>1 DEF ReplyCommand, StoppedBy
<1>3. CASE RunReturns \/ Shutdown \/ UNCHANGED vars
  BY <1>3 DEF RunReturns, Shutdown, vars, StoppedBy
<1> QED
  BY <1>1, <1>2, <1>3 DEF Next, StoppedBy

\* A context is cancelled by the /stop that has loaded it.
LEMMA CancelledKeeps ==
  ASSUME TypeInv, SilenceInv, [Next]_vars, NEW m \in Messages, m \in cancelled'
  PROVE  StoppedBy(m)'
<1>1. CASE m \in cancelled
  BY <1>1, StoppedStays DEF SilenceInv
<1>2. CASE m \notin cancelled
  <2>1. PICK t \in Messages : StopCancel(t)
    BY <1>2 DEF Next, HandlerStep, Spawn, InvokeReturns, Admit, ReplyBusy, RegisterCancel, StartInvoke,
       ReplyError, ReplyText, RecordUser, RecordAssistant, SetSession, SaveCopy, SaveWrite,
       NoteLastChannel, Unwind, StopLoad, ClearSession, ReplyCommand, RunReturns, Shutdown, vars, flightVars
  <2>2. target[t] = m /\ target' = target /\ pc'[t] = "stopped"
    BY <1>2, <2>1 DEF StopCancel, Goto, TypeInv, TypeOK
  <2> QED
    BY <2>2 DEF StoppedBy
<1> QED
  BY <1>1, <1>2

\* A handler that goes on after its run has published, or its run was empty.
LEMMA RepliedKeeps ==
  ASSUME TypeInv, SilenceInv, [Next]_vars, NEW m \in Messages, kind[m] = "chat", pc'[m] \in RepliedPlaces
  PROVE  reply'[m] # "none"
<1> USE DEF TypeInv, TypeOK, Goto, RepliedPlaces, Publish
<1>1. ASSUME NEW n \in Messages, n # m, Spawn(n) \/ HandlerStep(n) \/ InvokeReturns(n)
      PROVE  pc'[m] = pc[m] /\ reply'[m] = reply[m]
  BY <1>1 DEF HandlerStep, Spawn, InvokeReturns, InvokeOutcome, InvokeReturnsCancelled, InvokeReturnsError,
     InvokeReturnsText, InvokeReturnsEmpty, Admit, ReplyBusy, RegisterCancel, StartInvoke, ReplyError,
     ReplyText, RecordUser, RecordAssistant, SetSession, SaveCopy, SaveWrite, NoteLastChannel, Unwind,
     StopLoad, StopCancel, ClearSession, ReplyCommand
<1>2. CASE ReplyText(m) \/ InvokeReturns(m)
  BY <1>2 DEF ReplyText, InvokeReturns, InvokeOutcome, InvokeReturnsCancelled, InvokeReturnsError,
     InvokeReturnsText, InvokeReturnsEmpty
<1>3. CASE RecordUser(m) \/ RecordAssistant(m) \/ SetSession(m) \/ SaveCopy(m) \/ SaveWrite(m)
  BY <1>3 DEF RecordUser, RecordAssistant, SetSession, SaveCopy, SaveWrite, SilenceInv
<1>4. CASE \/ Spawn(m) \/ Admit(m) \/ ReplyBusy(m) \/ RegisterCancel(m) \/ StartInvoke(m) \/ ReplyError(m)
           \/ NoteLastChannel(m) \/ Unwind(m) \/ StopLoad(m) \/ StopCancel(m) \/ ClearSession(m)
           \/ ReplyCommand(m)
  BY <1>4 DEF Spawn, Admit, ReplyBusy, RegisterCancel, StartInvoke, ReplyError, NoteLastChannel, Unwind,
     StopLoad, StopCancel, ClearSession, ReplyCommand
<1>5. CASE RunReturns \/ Shutdown \/ UNCHANGED vars
  BY <1>5 DEF RunReturns, Shutdown, vars, SilenceInv
<1> QED
  BY <1>1, <1>2, <1>3, <1>4, <1>5 DEF Next, HandlerStep, SilenceInv

\* A handler unwinds without a reply only from a cancelled context.
LEMMA UnwoundKeeps ==
  ASSUME TypeInv, SilenceInv, [Next]_vars, NEW m \in Messages, kind[m] = "chat",
         pc'[m] \in {"unwinding", "releasing", "done"}, reply'[m] = "none"
  PROVE  shutdown' \/ m \in cancelled'
<1> USE DEF TypeInv, TypeOK, Goto, Publish
<1>0. (shutdown => shutdown') /\ (m \in cancelled => m \in cancelled')
  BY DEF Next, HandlerStep, Spawn, InvokeReturns, Admit, ReplyBusy, RegisterCancel, StartInvoke,
     ReplyError, ReplyText, RecordUser, RecordAssistant, SetSession, SaveCopy, SaveWrite, StopCancel,
     NoteLastChannel, Unwind, StopLoad, ClearSession, ReplyCommand, RunReturns, Shutdown, vars,
     flightVars, loopVars
<1>1. ASSUME NEW n \in Messages, n # m, Spawn(n) \/ HandlerStep(n) \/ InvokeReturns(n)
      PROVE  pc'[m] = pc[m] /\ reply'[m] = reply[m]
  BY <1>1 DEF HandlerStep, Spawn, InvokeReturns, InvokeOutcome, InvokeReturnsCancelled, InvokeReturnsError,
     InvokeReturnsText, InvokeReturnsEmpty, Admit, ReplyBusy, RegisterCancel, StartInvoke, ReplyError,
     ReplyText, RecordUser, RecordAssistant, SetSession, SaveCopy, SaveWrite, NoteLastChannel, Unwind,
     StopLoad, StopCancel, ClearSession, ReplyCommand
<1>2. CASE InvokeReturns(m)
  BY <1>0, <1>2 DEF InvokeReturns, InvokeOutcome, InvokeReturnsCancelled, InvokeReturnsError,
     InvokeReturnsText, InvokeReturnsEmpty
<1>3. CASE ReplyBusy(m) \/ ReplyError(m)
  BY <1>3 DEF ReplyBusy, ReplyError
<1>4. CASE NoteLastChannel(m) \/ Unwind(m)
  BY <1>0, <1>4 DEF NoteLastChannel, Unwind, SilenceInv, RepliedPlaces
<1>5. CASE \/ Spawn(m) \/ Admit(m) \/ RegisterCancel(m) \/ StartInvoke(m) \/ ReplyText(m) \/ RecordUser(m)
           \/ RecordAssistant(m) \/ SetSession(m) \/ SaveCopy(m) \/ SaveWrite(m)
           \/ StopLoad(m) \/ StopCancel(m) \/ ClearSession(m)
  BY <1>5 DEF Spawn, Admit, RegisterCancel, StartInvoke, ReplyText, RecordUser, RecordAssistant,
     SetSession, SaveCopy, SaveWrite, StopLoad, StopCancel, ClearSession
<1>6. CASE ReplyCommand(m)
  BY <1>6 DEF ReplyCommand
<1>7. CASE RunReturns \/ Shutdown \/ UNCHANGED vars
  BY <1>0, <1>7 DEF RunReturns, Shutdown, vars, SilenceInv
<1> QED
  BY <1>0, <1>1, <1>2, <1>3, <1>4, <1>5, <1>6, <1>7 DEF Next, HandlerStep, SilenceInv

LEMMA SilenceStep == TypeInv /\ SilenceInv /\ [Next]_vars => SilenceInv'
<1> SUFFICES ASSUME TypeInv, SilenceInv, [Next]_vars, NEW m \in Messages
             PROVE  /\ m \in cancelled' => StoppedBy(m)'
                    /\ kind'[m] = "chat" /\ pc'[m] \in RepliedPlaces => reply'[m] # "none"
                    /\ kind'[m] = "chat" /\ pc'[m] \in {"unwinding", "releasing", "done"} /\ reply'[m] = "none"
                         => shutdown' \/ m \in cancelled'
  BY DEF SilenceInv
<1>1. kind' = kind
  BY DEF Next, HandlerStep, Spawn, InvokeReturns, Admit, ReplyBusy, RegisterCancel, StartInvoke,
     ReplyError, ReplyText, RecordUser, RecordAssistant, SetSession, SaveCopy, SaveWrite, StopCancel,
     NoteLastChannel, Unwind, StopLoad, ClearSession, ReplyCommand, RunReturns, Shutdown, vars, loopVars
<1> QED
  BY <1>1, CancelledKeeps, RepliedKeeps, UnwoundKeeps

\* "Silently discard context cancellation -- user already received Stopped": only
\* the target of a /stop that was carried out ends without a word, unless the
\* program is stopping.
THEOREM SilenceExplained == Spec => []SilentOnlyIfStopped
<1>1. Init => SilenceInv
  BY DEF Init, SilenceInv, RepliedPlaces
<1>2. SilenceInv => SilentOnlyIfStopped
  BY DEF SilenceInv, StoppedBy, SilentOnlyIfStopped
<1> QED
  BY <1>1, <1>2, TypeInit, TypeStep, SilenceStep, PTL DEF Spec

-----------------------------------------------------------------------------
(***************************************************************************)
(* Durability.  The handlers with the history variables of                 *)
(* SessionsDurability implement that module, so its theorem holds of the   *)
(* bridge's file.  A handler is about to save, or saving, exactly where    *)
(* handleMessage and ClearHistory do so (SaveInv).                         *)
(***************************************************************************)
hvars == <<vars, overlapped, suspect>>

SaveInv ==
  /\ dirty = {m \in Messages : pc[m] = "copying"}
  /\ Saving = {m \in Messages : pc[m] = "writing"}

LEMMA SaveInit == Init => SaveInv
BY DEF Init, SaveInv, Saving

\* Every step of the handlers is one of these for the store.
StoreSteps(m) ==
  \/ UNCHANGED storeVars
  \/ Store!Delete(m, SessionOf[m]) \/ \E id \in Ids : Store!Set(m, SessionOf[m], id)
  \/ Store!SaveCopy(m) \/ Store!SaveWrite(m) \/ Store!SaveFail(m)

LEMMA SaveStep == TypeInv /\ SaveInv /\ [Next]_vars => SaveInv'
<1> SUFFICES ASSUME TypeInv, SaveInv, [Next]_vars PROVE SaveInv'
  OBVIOUS
<1> USE DEF SaveInv, Saving, TypeInv, TypeOK, Goto, storeVars
<1>1. ASSUME NEW n \in Messages, SetSession(n) PROVE SaveInv'
  BY <1>1 DEF SetSession, Store!Set
<1>2. ASSUME NEW n \in Messages, ClearSession(n) PROVE SaveInv'
  BY <1>2 DEF ClearSession, Store!Delete
<1>3. ASSUME NEW n \in Messages, SaveCopy(n) PROVE SaveInv'
  BY <1>3, BridgeAssumption DEF SaveCopy, Store!SaveCopy
<1>4. ASSUME NEW n \in Messages, SaveWrite(n) PROVE SaveInv'
  BY <1>4 DEF SaveWrite, Store!SaveWrite, Store!SaveFail
<1>5. ASSUME NEW n \in Messages,
             \/ Spawn(n) \/ InvokeReturns(n) \/ Admit(n) \/ ReplyBusy(n) \/ RegisterCancel(n)
             \/ StartInvoke(n) \/ ReplyError(n) \/ ReplyText(n) \/ RecordUser(n) \/ RecordAssistant(n)
             \/ NoteLastChannel(n) \/ Unwind(n) \/ StopLoad(n) \/ StopCancel(n) \/ ReplyCommand(n)
      PROVE  SaveInv'
  <2>1. UNCHANGED <<dirty, snap>>
    BY <1>5 DEF Spawn, InvokeReturns, Admit, ReplyBusy, RegisterCancel, StartInvoke, ReplyError, ReplyText,
       RecordUser, RecordAssistant, NoteLastChannel, Unwind, StopLoad, StopCancel, ReplyCommand
  <2>2. \A m \in Messages : /\ pc'[m] = "copying" <=> pc[m] = "copying"
                            /\ pc'[m] = "writing" <=> pc[m] = "writing"
    BY <1>5 DEF Spawn, InvokeReturns, InvokeOutcome, InvokeReturnsCancelled, InvokeReturnsError,
       InvokeReturnsText, InvokeReturnsEmpty, Admit, ReplyBusy, RegisterCancel, StartInvoke, ReplyError, ReplyText,
       RecordUser, RecordAssistant, NoteLastChannel, Unwind, StopLoad, StopCancel, ReplyCommand
  <2> QED
    BY <2>1, <2>2
<1>6. CASE RunReturns \/ Shutdown \/ UNCHANGED vars
  BY <1>6 DEF RunReturns, Shutdown, vars
<1> QED
  BY <1>1, <1>2, <1>3, <1>4, <1>5, <1>6 DEF Next, HandlerStep

LEMMA StepsOfStore == ASSUME TypeInv, [Next]_vars PROVE UNCHANGED storeVars \/ \E m \in Messages : StoreSteps(m)
<1> USE DEF StoreSteps, storeVars
<1>1. ASSUME NEW n \in Messages, SetSession(n) PROVE StoreSteps(n)
  BY <1>1 DEF SetSession, TypeInv, TypeOK, Ids
<1>2. ASSUME NEW n \in Messages, ClearSession(n) \/ SaveCopy(n) \/ SaveWrite(n) PROVE StoreSteps(n)
  BY <1>2 DEF ClearSession, SaveCopy, SaveWrite
<1>3. ASSUME NEW n \in Messages,
             \/ Spawn(n) \/ InvokeReturns(n) \/ Admit(n) \/ ReplyBusy(n) \/ RegisterCancel(n)
             \/ StartInvoke(n) \/ ReplyError(n) \/ ReplyText(n) \/ RecordUser(n) \/ RecordAssistant(n)
             \/ NoteLastChannel(n) \/ Unwind(n) \/ StopLoad(n) \/ StopCancel(n) \/ ReplyCommand(n)
      PROVE  UNCHANGED storeVars
  BY <1>3 DEF Spawn, InvokeReturns, Admit, ReplyBusy, RegisterCancel, StartInvoke, ReplyError, ReplyText,
     RecordUser, RecordAssistant, NoteLastChannel, Unwind, StopLoad, StopCancel, ReplyCommand
<1>4. CASE RunReturns \/ Shutdown \/ UNCHANGED vars
  BY <1>4 DEF RunReturns, Shutdown, vars
<1> QED
  BY <1>1, <1>2, <1>3, <1>4 DEF Next, HandlerStep

LEMMA SavingSame == ASSUME UNCHANGED snap, History PROVE UNCHANGED <<overlapped, suspect>>
<1>1. Saving' = Saving
  BY DEF Saving
<1> QED
  BY <1>1 DEF History

\* The history variables follow every step as SessionsDurability has them do.
LEMMA HistoryStep ==
  ASSUME TypeInv, SaveInv, [Next]_vars, History
  PROVE  [Durability!DNext]_(Durability!dvars)
<1>1. CASE UNCHANGED storeVars
  BY <1>1, SavingSame DEF storeVars, Durability!dvars
<1>2. ASSUME NEW m \in Messages,
             Store!Delete(m, SessionOf[m]) \/ \E id \in Ids : Store!Set(m, SessionOf[m], id)
      PROVE  Durability!DNext
  <2>1. UNCHANGED <<overlapped, suspect>>
    BY <1>2, SavingSame DEF Store!Delete, Store!Set
  <2>2. Durability!DChange(m)
    BY <1>2, <2>1, SessionIsKey
    DEF Store!Delete, Store!Set, Store!Free, Durability!DChange, Durability!Delete, Durability!Set,
        Durability!Free
  <2> QED
    BY <2>2 DEF Durability!DNext
<1>3. ASSUME NEW m \in Messages, Store!SaveCopy(m) PROVE Durability!DNext
  <2>1. m \notin Saving /\ m \in dirty /\ snap' = [snap EXCEPT ![m] = mem] /\ mem # NoSave
    BY <1>3, BridgeAssumption DEF Store!SaveCopy, SaveInv, TypeInv, TypeOK
  <2>2. Saving' = Saving \cup {m}
    BY <2>1 DEF Saving, TypeInv, TypeOK
  <2>3. Saving' \ Saving = {m} /\ Saving \ Saving' = {}
    BY <2>1, <2>2
  <2>4. overlapped' = (IF Saving = {} THEN overlapped ELSE overlapped \cup Saving \cup {m}) /\ UNCHANGED suspect
    BY <2>3 DEF History
  <2>5. Durability!DSaveCopy(m)
    BY <1>3, <2>4 DEF Store!SaveCopy, Durability!DSaveCopy, Durability!SaveCopy, Durability!Saving, Saving
  <2> QED
    BY <2>5 DEF Durability!DNext
<1>4. ASSUME NEW m \in Messages, Store!SaveWrite(m) \/ Store!SaveFail(m) PROVE Durability!DNext
  <2>1. m \in Saving /\ snap' = [snap EXCEPT ![m] = NoSave]
    BY <1>4 DEF Store!SaveWrite, Store!SaveFail, Saving
  <2>2. Saving' = Saving \ {m}
    BY <2>1 DEF Saving, TypeInv, TypeOK
  <2>3. Saving' \ Saving = {} /\ Saving \ Saving' = {m}
    BY <2>1, <2>2
  <2>4. overlapped' = overlapped \ {m} /\ suspect' = (m \in overlapped \/ disk' # snap[m])
    BY <2>3 DEF History
  <2>5. CASE disk' = snap[m]
    <3>1. Durability!SaveWrite(m)
      BY <1>4, <2>5 DEF Store!SaveWrite, Store!SaveFail, Durability!SaveWrite
    <3>2. suspect' = (m \in overlapped)
      BY <2>4, <2>5
    <3> QED
      BY <2>4, <3>1, <3>2 DEF Durability!DSaveWrite, Durability!DNext
  <2>6. CASE disk' # snap[m]
    <3>1. Durability!SaveFail(m)
      BY <1>4, <2>6 DEF Store!SaveWrite, Store!SaveFail, Durability!SaveFail
    <3>2. suspect' = TRUE
      BY <2>4, <2>6
    <3> QED
      BY <2>4, <3>1, <3>2 DEF Durability!DSaveFail, Durability!DNext
  <2> QED
    BY <2>5, <2>6
<1> QED
  BY <1>1, <1>2, <1>3, <1>4, StepsOfStore DEF StoreSteps

LEMMA HistorySteps ==
  TypeInv /\ SaveInv /\ [Next /\ History]_hvars => [Durability!DNext]_(Durability!dvars)
<1> SUFFICES ASSUME TypeInv, SaveInv, [Next /\ History]_hvars
             PROVE  [Durability!DNext]_(Durability!dvars)
  OBVIOUS
<1>1. CASE Next /\ History
  BY <1>1, HistoryStep
<1>2. CASE UNCHANGED hvars
  BY <1>2 DEF hvars, vars, Durability!dvars
<1> QED
  BY <1>1, <1>2

\* The bridge with its history implements the durable session store.
THEOREM BridgeIsDurableStore == HSpec => DurableStoreSpec
<1>1. HInit => Durability!DInit /\ TypeInv /\ SaveInv
  <2>1. Init => Durability!Init
    BY DEF Init, Durability!Init, Durability!Maps, Ids
  <2> QED
    BY <2>1, TypeInit, SaveInit DEF HInit, Durability!DInit
<1>2. [Next /\ History]_hvars => [Next]_vars
  BY DEF hvars
<1> QED
  BY <1>1, <1>2, HistorySteps, TypeStep, SaveStep, PTL DEF HSpec, DurableStoreSpec, Durability!DSpec, hvars

(***************************************************************************)
(* A theorem of an instantiated module cannot be cited here, so the        *)
(* invariant of SessionsDurabilityProofs is shown again for the handlers:  *)
(* with nobody about to save, a Save that has had the file to itself so    *)
(* far is about to write the map as it is.                                 *)
(***************************************************************************)
FileInv ==
  /\ dirty = {} => \A m \in Saving \ overlapped : snap[m] = mem
  /\ dirty = {} /\ Saving = {} /\ ~suspect => disk = mem

LEMMA FileStep ==
  ASSUME TypeInv, FileInv, [Durability!DNext]_(Durability!dvars)
  PROVE  FileInv'
<1> USE DEF FileInv, Saving, TypeInv, TypeOK
\* Whoever has changed the map is about to save it.
<1>1. ASSUME NEW m \in Messages, Durability!DChange(m) PROVE FileInv'
  <2>1. dirty' # {}
    BY <1>1 DEF Durability!DChange, Durability!Delete, Durability!Set
  <2> QED
    BY <2>1
\* The new copy is the map; every older one is now an overlapped one.
<1>2. ASSUME NEW m \in Messages, Durability!DSaveCopy(m) PROVE FileInv'
  <2>1. snap' = [snap EXCEPT ![m] = mem] /\ mem' = mem /\ mem # NoSave
    BY <1>2, BridgeAssumption DEF Durability!DSaveCopy, Durability!SaveCopy
  <2>2. m \in Saving'
    BY <2>1
  <2>3. \A n \in Saving' \ overlapped' : n = m
    BY <1>2, <2>1 DEF Durability!DSaveCopy, Durability!Saving
  <2> QED
    BY <2>1, <2>2, <2>3
\* The last Save to finish writes the map, if it had the file to itself.
<1>3. ASSUME NEW m \in Messages, Durability!DSaveWrite(m) PROVE FileInv'
  <2>1. dirty' = {} => \A n \in Saving' \ overlapped' : snap'[n] = mem'
    BY <1>3 DEF Durability!DSaveWrite, Durability!SaveWrite
  <2>2. ASSUME dirty' = {}, Saving' = {}, ~suspect' PROVE disk' = mem'
    <3>1. dirty = {} /\ m \in Saving \ overlapped
      BY <1>3, <2>2 DEF Durability!DSaveWrite, Durability!SaveWrite
    <3>2. snap[m] = mem
      BY <3>1
    <3> QED
      BY <1>3, <3>2 DEF Durability!DSaveWrite, Durability!SaveWrite
  <2> QED
    BY <2>1, <2>2
<1>4. ASSUME NEW m \in Messages, Durability!DSaveFail(m) PROVE FileInv'
  BY <1>4 DEF Durability!DSaveFail, Durability!SaveFail
<1>5. CASE Durability!DRestart
  <2>1. Saving' = {}
    BY <1>5 DEF Durability!DRestart, Durability!Load, Durability!Clear
  <2> QED
    BY <1>5, <2>1 DEF Durability!DRestart
<1>6. CASE UNCHANGED Durability!dvars
  BY <1>6 DEF Durability!dvars
<1> QED
  BY <1>1, <1>2, <1>3, <1>4, <1>5, <1>6 DEF Durability!DNext

\* Whenever no handler is between its change of a session and the end of its Save,
\* sessions.json holds the map, if the last Save had the file to itself.
THEOREM BridgeFileHolds == HSpec => []FileHoldsTheMap
<1>1. HInit => TypeInv /\ SaveInv /\ FileInv
  <2>1. Init => FileInv
    BY DEF Init, FileInv, Saving
  <2> QED
    BY <2>1, TypeInit, SaveInit DEF HInit
<1>2. TypeInv /\ SaveInv /\ FileInv /\ [Next /\ History]_hvars => (TypeInv /\ SaveInv /\ FileInv)'
  <2> SUFFICES ASSUME TypeInv, SaveInv, FileInv, [Next /\ History]_hvars
               PROVE  (TypeInv /\ SaveInv /\ FileInv)'
    OBVIOUS
  <2>1. TypeInv' /\ SaveInv'
    BY TypeStep, SaveStep DEF hvars
  <2>2. FileInv'
    BY HistorySteps, FileStep
  <2> QED
    BY <2>1, <2>2
<1>3. SaveInv /\ FileInv => FileHoldsTheMap
  BY DEF SaveInv, FileInv, FileHoldsTheMap
<1> QED
  BY <1>1, <1>2, <1>3, PTL DEF HSpec, hvars
=============================================================================
