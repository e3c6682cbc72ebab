------------------------------ MODULE PartsProofs -----------------------------
(*****************************************************************************)
(* Proofs about five of the parts around the message path: the heartbeat,    *)
(* the WhatsApp adapter's life, the media store, the signs of typing and the *)
(* other adapters' lives.  Each section is about one module and does not use *)
(* the others.  The last one puts all parts together.                        *)
(*****************************************************************************)
EXTENDS AllParts, SessionsDurabilityProofs, AdapterPathProofs

-----------------------------------------------------------------------------
(*****************************************************************************)
(* Heartbeat.  Where a heartbeat goes, for any chats and any number of       *)
(* handlers.  The state file always answers for the exchange that was        *)
(* recorded last (Recorded), whoever holds the lock of the bridge's manager  *)
(* (Locked), and the heartbeat's own manager never leaves the value it was   *)
(* started with (LoadedOnce).                                                *)
(*****************************************************************************)

\* What the managers would load from the disk.
OnDisk == IF stateFile # NoChat THEN stateFile ELSE oldFile

Recorded == told = OnDisk

\* The handler that holds the lock has put its chat into last, and there is one.
Locked ==
  /\ exchange \in [Handlers -> Values] /\ setting \subseteq Handlers
  /\ \A h \in setting : last = exchange[h] /\ exchange[h] # NoChat
  /\ \A g, h \in setting : g = h
  /\ program = "down" => setting = {} /\ \A h \in Handlers : exchange[h] = NoChat

LoadedOnce ==
  /\ beatLast \in {startup, NoChat}
  /\ BeatsGoToStartupChannel

BeatInv == Recorded /\ Locked /\ LoadedOnce

\* Initially the program is down and the history variable agrees with the files.
LEMMA BeatInit == HeartbeatInit => BeatInv
BY DEF HeartbeatInit, BeatInv, Recorded, OnDisk, Locked, LoadedOnce, BeatsGoToStartupChannel, Values

\* The program's own steps: a manager loads what the file answers for.
LEMMA ProgramKeeps == BeatInv /\ (Start \/ Close \/ Stop \/ Exit) => BeatInv'
<1> SUFFICES ASSUME BeatInv, Start \/ Close \/ Stop \/ Exit PROVE BeatInv'
  OBVIOUS
<1> USE DEF BeatInv, beatVars, stateVars
<1>1. CASE Start
  <2>1. PICK value \in Values :
          NewManager(value) /\ last' \in {value, NoChat} /\ beatLast' \in {value, NoChat}
    BY <1>1 DEF Start
  <2>2. value = told /\ Recorded'
    BY <1>1, <2>1 DEF Start, NewManager, Recorded, OnDisk
  <2>3. Locked'
    BY <1>1 DEF Start, Locked
  <2>4. LoadedOnce'
    BY <1>1, <2>1, <2>2 DEF Start, LoadedOnce, BeatsGoToStartupChannel
  <2> QED
    BY <2>2, <2>3, <2>4
<1>2. CASE Close \/ Stop
  BY <1>2 DEF Close, Stop, Recorded, OnDisk, Locked, LoadedOnce, BeatsGoToStartupChannel
<1>3. CASE Exit
  <2>1. Recorded'
    BY <1>3 DEF Exit, Recorded, OnDisk
  <2>2. Locked'
    BY <1>3 DEF Exit, Locked, Values
  <2>3. LoadedOnce'
    BY <1>3 DEF Exit, LoadedOnce, BeatsGoToStartupChannel
  <2> QED
    BY <2>1, <2>2, <2>3
<1> QED
  BY <1>1, <1>2, <1>3

\* The bridge's handlers: only the one that holds the lock replaces the file.
LEMMA HandlersKeep ==
  ASSUME BeatInv, NEW h \in Handlers,
         SetLastChannel(h) \/ SaveAtomic(h) \/ \E c \in Chats : Answer(h, c)
  PROVE  BeatInv'
<1> USE DEF BeatInv, beatVars, Values
<1>1. CASE SetLastChannel(h)
  <2>1. Recorded' /\ LoadedOnce'
    BY <1>1 DEF SetLastChannel, Recorded, OnDisk, LoadedOnce, BeatsGoToStartupChannel
  <2>2. program # "down"
    BY <1>1 DEF SetLastChannel, Locked
  <2>3. Locked'
    BY <1>1, <2>2 DEF SetLastChannel, Locked
  <2> QED
    BY <2>1, <2>3
<1>2. CASE SaveAtomic(h)
  BY <1>2 DEF SaveAtomic, Recorded, OnDisk, Locked, LoadedOnce, BeatsGoToStartupChannel
<1>3. CASE \E c \in Chats : Answer(h, c)
  BY <1>3 DEF Answer, Recorded, OnDisk, Locked, LoadedOnce, BeatsGoToStartupChannel
<1> QED
  BY <1>1, <1>2, <1>3

\* The heartbeat service: a beat is sent to a chat, so the manager has one.
LEMMA BeatsKeep ==
  ASSUME BeatInv, NEW b \in Beats,
         ExecuteHeartbeat(b) \/ HandlerReturns(b) \/ SendResponse(b)
  PROVE  BeatInv'
<1> USE DEF BeatInv, stateVars
<1>1. CASE ExecuteHeartbeat(b) \/ HandlerReturns(b)
  BY <1>1 DEF ExecuteHeartbeat, HandlerReturns, Recorded, OnDisk, Locked, LoadedOnce,
              BeatsGoToStartupChannel
<1>2. CASE SendResponse(b)
  BY <1>2, HeartbeatAssumption
  DEF SendResponse, Recorded, OnDisk, Locked, LoadedOnce, BeatsGoToStartupChannel
<1> QED
  BY <1>1, <1>2

LEMMA BeatStep == BeatInv /\ [HeartbeatNext]_heartbeatVars => BeatInv'
<1> SUFFICES ASSUME BeatInv, [HeartbeatNext]_heartbeatVars PROVE BeatInv'
  OBVIOUS
<1>1. CASE UNCHANGED heartbeatVars
  BY <1>1 DEF heartbeatVars, BeatInv, Recorded, OnDisk, Locked, LoadedOnce,
              BeatsGoToStartupChannel
<1> QED
  BY <1>1, ProgramKeeps, HandlersKeep, BeatsKeep DEF HeartbeatNext

\* Every heartbeat goes to the chat that was recorded last before the program
\* started.
THEOREM BeatsKeptToStartup == HeartbeatSpec => []BeatsGoToStartupChannel
<1>1. BeatInv => BeatsGoToStartupChannel
  BY DEF BeatInv, LoadedOnce
<1> QED
  BY BeatInit, BeatStep, <1>1, PTL DEF HeartbeatSpec

-----------------------------------------------------------------------------
(*****************************************************************************)
(* WhatsAppNative.  That Stop of the WhatsApp adapter is final, however      *)
(* often the connection is lost.  StopIsFinal needs to know where Start and  *)
(* Stop are (Ordered): the flags reconnecting and stopping are true exactly  *)
(* while they should be, and after Stop disconnected the client only a       *)
(* Connect that was under way can link it again.                             *)
(*****************************************************************************)

\* The part of the type invariant that the proof needs, in two halves: the
\* counters are a matter of arithmetic, the flags and the steps are not.
Counters == leaving \in Nat /\ wg \in Nat /\ lost \in Nat /\ losses \in Nat

Types ==
  /\ runCtx \in BOOLEAN /\ client \in BOOLEAN /\ linked \in BOOLEAN /\ stopping \in BOOLEAN
  /\ reconnecting \in BOOLEAN /\ qr \in BOOLEAN /\ late \in BOOLEAN /\ timedOut \in BOOLEAN
  /\ starting \in {"reset", "connect", "pair", "done", "failed"}
  /\ stopStep \in {"idle", "cancel", "disconnect", "wait", "close", "done"}
  /\ redial \in {"none", "check", "connect", "backoff", "reset"}

\* Before Start has connected the client there is nothing to stop.
BeforeStart ==
  /\ starting = "pair" => ~qr
  /\ starting \in {"reset", "connect", "failed"} =>
    ~linked /\ lost = 0 /\ redial = "none" /\ ~qr /\ leaving = 0

\* What holds at each step of Start and Stop.
Ordered ==
  /\ reconnecting <=> redial # "none"
  /\ starting \in {"connect", "pair", "done"} /\ stopStep # "done" => client
  /\ stopStep # "idle" => stopping /\ starting \in {"done", "failed"}
  /\ stopStep \in {"disconnect", "wait", "close", "done"} => ~runCtx
  /\ stopStep \in {"wait", "close", "done"} /\ (linked \/ redial = "connect") => late
  /\ stopStep \in {"close", "done"} /\ ~timedOut => wg = 0

FinalInv == Counters /\ Types /\ BeforeStart /\ Ordered /\ wg = Goroutines

\* Initially nothing runs.
LEMMA FinalInit == NativeInit => FinalInv
<1> SUFFICES ASSUME NativeInit PROVE FinalInv
  OBVIOUS
<1>1. Types
  BY DEF NativeInit, Types
<1>2. BeforeStart
  BY DEF NativeInit, BeforeStart
<1>3. Ordered
  BY DEF NativeInit, Ordered
<1>4. Counters /\ wg = Goroutines
  BY DEF NativeInit, Counters, Goroutines
<1> QED
  BY <1>1, <1>2, <1>3, <1>4 DEF FinalInv

\* The steps of Start keep the invariant: Stop has not begun.
LEMMA StartKeeps == FinalInv /\ StartSteps => FinalInv'
<1> SUFFICES ASSUME FinalInv, StartSteps PROVE FinalInv'
  OBVIOUS
<1> USE DEF FinalInv, Counters, Types, BeforeStart, Ordered, Goroutines
<1>1. CASE StartOpen
  BY <1>1 DEF StartOpen
<1>2. CASE StartConnect
  <2>c. Counters'
    BY <1>2 DEF StartConnect
  <2>t. Types'
    BY <1>2 DEF StartConnect
  <2>b. BeforeStart'
    BY <1>2 DEF StartConnect
  <2>o. Ordered'
    BY <1>2 DEF StartConnect
  <2>g. (wg = Goroutines)'
    BY <1>2 DEF StartConnect
  <2> QED
    BY <2>c, <2>t, <2>b, <2>o, <2>g
<1>3. CASE StartQr
  <2>c. Counters'
    BY <1>3 DEF StartQr
  <2>t. Types'
    BY <1>3 DEF StartQr
  <2>b. BeforeStart'
    BY <1>3 DEF StartQr
  <2>o. Ordered'
    BY <1>3 DEF StartQr
  <2>g. (wg = Goroutines)'
    BY <1>3 DEF StartQr
  <2> QED
    BY <2>c, <2>t, <2>b, <2>o, <2>g
<1>4. CASE StartFails
  BY <1>4 DEF StartFails
<1> QED
  BY <1>1, <1>2, <1>3, <1>4 DEF StartSteps

\* So do the goroutines: none is added to the WaitGroup once stopping is set.
LEMMA GoroutinesKeep ==
  FinalInv /\ (QrEnds \/ ConnectionLost \/ EventHandler \/ RedialSteps \/ RedialConnect) => FinalInv'
<1> SUFFICES ASSUME FinalInv,
                    QrEnds \/ ConnectionLost \/ EventHandler \/ RedialSteps \/ RedialConnect
             PROVE  FinalInv'
  OBVIOUS
<1> USE DEF FinalInv, Counters, Types, BeforeStart, Ordered, Goroutines, lifeVars
<1>1. CASE QrEnds
  <2>c. Counters'
    BY <1>1 DEF QrEnds
  <2>t. Types'
    BY <1>1 DEF QrEnds
  <2>b. BeforeStart'
    BY <1>1 DEF QrEnds
  <2>o. Ordered'
    BY <1>1 DEF QrEnds
  <2>g. (wg = Goroutines)'
    BY <1>1 DEF QrEnds
  <2> QED
    BY <2>c, <2>t, <2>b, <2>o, <2>g
<1>2. CASE ConnectionLost
  <2>c. Counters'
    BY <1>2 DEF ConnectionLost
  <2>t. Types'
    BY <1>2 DEF ConnectionLost
  <2>b. BeforeStart'
    BY <1>2 DEF ConnectionLost
  <2>o. Ordered'
    BY <1>2 DEF ConnectionLost
  <2>g. (wg = Goroutines)'
    BY <1>2 DEF ConnectionLost
  <2> QED
    BY <2>c, <2>t, <2>b, <2>o, <2>g
<1>3. CASE EventHandler
  <2>1. CASE reconnecting \/ stopping
    BY <1>3, <2>1 DEF EventHandler
  <2>2. CASE ~reconnecting /\ ~stopping
    <3>c. Counters'
      BY <1>3, <2>2 DEF EventHandler
    <3>t. Types'
      BY <1>3, <2>2 DEF EventHandler
    <3>b. BeforeStart'
      BY <1>3, <2>2 DEF EventHandler
    <3>o. Ordered'
      BY <1>3, <2>2 DEF EventHandler
    <3>g. (wg = Goroutines)'
      BY <1>3, <2>2 DEF EventHandler
    <3> QED
      BY <3>c, <3>t, <3>b, <3>o, <3>g
  <2> QED
    BY <2>1, <2>2
<1>4. CASE RedialCheck
  BY <1>4 DEF RedialCheck, Redial
<1>5. CASE RedialConnect
  <2>c. Counters'
    BY <1>5 DEF RedialConnect, Redial
  <2>t. Types'
    BY <1>5 DEF RedialConnect, Redial
  <2>b. BeforeStart'
    BY <1>5 DEF RedialConnect, Redial
  <2>o. Ordered'
    BY <1>5 DEF RedialConnect, Redial
  <2>g. (wg = Goroutines)'
    BY <1>5 DEF RedialConnect, Redial
  <2> QED
    BY <2>c, <2>t, <2>b, <2>o, <2>g
<1>6. CASE RedialBackoff
  BY <1>6 DEF RedialBackoff, Redial
<1>7. CASE RedialReset
  <2>c. Counters'
    BY <1>7 DEF RedialReset, Redial
  <2>t. Types'
    BY <1>7 DEF RedialReset, Redial
  <2>b. BeforeStart'
    BY <1>7 DEF RedialReset, Redial
  <2>o. Ordered'
    BY <1>7 DEF RedialReset, Redial
  <2>g. (wg = Goroutines)'
    BY <1>7 DEF RedialReset, Redial
  <2> QED
    BY <2>c, <2>t, <2>b, <2>o, <2>g
<1>8. CASE RedialDone
  BY <1>8 DEF RedialDone
<1> QED
  BY <1>1, <1>2, <1>3, <1>4, <1>5, <1>6, <1>7, <1>8 DEF RedialSteps

\* And the steps of Stop.
LEMMA StopKeeps == FinalInv /\ (StopFlag \/ StopSteps) => FinalInv'
<1> SUFFICES ASSUME FinalInv, StopFlag \/ StopSteps PROVE FinalInv'
  OBVIOUS
<1> USE DEF FinalInv, Counters, Types, BeforeStart, Ordered, Goroutines, StopsAt
<1>1. CASE StopFlag
  BY <1>1 DEF StopFlag
<1>2. CASE StopCancel
  BY <1>2 DEF StopCancel
<1>3. CASE StopDisconnect
  BY <1>3 DEF StopDisconnect
<1>4. CASE StopWait
  BY <1>4 DEF StopWait
<1>5. CASE StopClose
  BY <1>5 DEF StopClose
<1> QED
  BY <1>1, <1>2, <1>3, <1>4, <1>5 DEF StopSteps

LEMMA FinalStep == FinalInv /\ [NativeNext]_nativeVars => FinalInv'
<1> SUFFICES ASSUME FinalInv, [NativeNext]_nativeVars PROVE FinalInv'
  OBVIOUS
<1>1. CASE UNCHANGED nativeVars
  BY <1>1 DEF nativeVars, FinalInv, Counters, Types, BeforeStart, Ordered, Goroutines
<1> QED
  BY <1>1, StartKeeps, GoroutinesKeep, StopKeeps DEF NativeNext

LEMMA FinalStops == FinalInv => StopIsFinal
BY DEF FinalInv, Counters, Types, Ordered, Goroutines, StopIsFinal

\* Stop is final: nothing is added to the WaitGroup while it waits, the database
\* is closed only when no goroutine is left, and the client is linked afterwards
\* only by a Connect that was under way.
THEOREM StopFinal == NativeSpec => []StopIsFinal
BY FinalInit, FinalStep, FinalStops, PTL DEF NativeSpec

-----------------------------------------------------------------------------
(*****************************************************************************)
(* MediaStore.  That files and references keep each other, for any           *)
(* references and any paths.  FilesMatchReferences is not inductive: whether *)
(* a file may be deleted under a reference depends on the paths the cleaner  *)
(* has collected (doomed), and those on the references that were stored while *)
(* another one was in use.                                                   *)
(*****************************************************************************)

\* References whose file somebody relies on.
InUse == live \cup storing

\* What the proof adds: a path that is about to be deleted is not in use, and two
\* references in use do not have the same path, unless the path is shared; and
\* a reader's reference is in the store or expired.
DeletionsAreOwned ==
  /\ \A r \in InUse : entry[r] \in doomed => entry[r] \in shared
  /\ \A r, t \in InUse : r # t /\ entry[r] = entry[t] => entry[r] \in shared
  /\ reading \subseteq live \cup expired
  /\ reading \ live \subseteq expired

FilesInv == MediaTypeOK /\ DeletionsAreOwned /\ FilesMatchReferences

USE DEF Drawn, PathsOf, InUse

\* Initially there is nothing.
LEMMA FilesInit == MediaInit => FilesInv
BY DEF MediaInit, FilesInv, MediaTypeOK, DeletionsAreOwned, FilesMatchReferences

\* Type correctness is inductive by itself.
LEMMA MediaTypeStep == MediaTypeOK /\ [MediaNext]_mediaVars => MediaTypeOK'
<1> SUFFICES ASSUME MediaTypeOK, [MediaNext]_mediaVars PROVE MediaTypeOK'
  OBVIOUS
<1> USE DEF MediaTypeOK
<1>1. ASSUME NEW p \in Paths, WriteFile(p) PROVE MediaTypeOK'
  BY <1>1 DEF WriteFile
<1>2. ASSUME NEW p \in Paths, CleanDelete(p) PROVE MediaTypeOK'
  BY <1>2 DEF CleanDelete
<1>3. ASSUME NEW p \in Paths, NEW r \in Refs, StoreStat(p, r) PROVE MediaTypeOK'
  BY <1>3 DEF StoreStat
<1>4. ASSUME NEW r \in Refs, StoreInsert(r) PROVE MediaTypeOK'
  BY <1>4 DEF StoreInsert
<1>5. ASSUME NEW r \in Refs, Expire(r) \/ Resolve(r) \/ PersistInboundFile(r) PROVE MediaTypeOK'
  BY <1>5 DEF Expire, Resolve, PersistInboundFile
<1>6. CASE StartCleaner \/ StopCleaner
  BY <1>6 DEF StartCleaner, StopCleaner
<1>7. CASE CleanCollect
  BY <1>7 DEF CleanCollect
<1>8. CASE UNCHANGED mediaVars
  BY <1>8 DEF mediaVars
<1> QED
  BY <1>1, <1>2, <1>3, <1>4, <1>5, <1>6, <1>7, <1>8 DEF MediaNext

\* Every step keeps the invariant.
LEMMA FilesStep == FilesInv /\ [MediaNext]_mediaVars => FilesInv'
<1> SUFFICES ASSUME FilesInv, [MediaNext]_mediaVars PROVE FilesInv'
  OBVIOUS
<1>t. MediaTypeOK /\ MediaTypeOK'
  BY MediaTypeStep DEF FilesInv
<1> USE DEF FilesInv, MediaTypeOK, DeletionsAreOwned, FilesMatchReferences
<1>1. ASSUME NEW p \in Paths, WriteFile(p) PROVE FilesInv'
  BY <1>t, <1>1 DEF WriteFile
<1>2. ASSUME NEW p \in Paths, CleanDelete(p) PROVE FilesInv'
  BY <1>t, <1>2 DEF CleanDelete
<1>3. ASSUME NEW p \in Paths, NEW r \in Refs, StoreStat(p, r) PROVE FilesInv'
  BY <1>t, <1>3 DEF StoreStat
<1>4. ASSUME NEW r \in Refs, StoreInsert(r) PROVE FilesInv'
  BY <1>t, <1>4 DEF StoreInsert
<1>5. ASSUME NEW r \in Refs, Expire(r) \/ Resolve(r) \/ PersistInboundFile(r) PROVE FilesInv'
  BY <1>t, <1>5 DEF Expire, Resolve, PersistInboundFile
<1>6. CASE StartCleaner \/ StopCleaner
  BY <1>t, <1>6 DEF StartCleaner, StopCleaner
<1>7. CASE CleanCollect
  BY <1>t, <1>7 DEF CleanCollect
<1>8. CASE UNCHANGED mediaVars
  BY <1>t, <1>8 DEF mediaVars
<1> QED
  BY <1>1, <1>2, <1>3, <1>4, <1>5, <1>6, <1>7, <1>8 DEF MediaNext

\* Files and references keep each other in every reachable state of the store.
THEOREM FilesKept == MediaSpec => []FilesMatchReferences
<1>1. MediaInit => FilesInv
  BY FilesInit
<1>2. FilesInv /\ [MediaNext]_mediaVars => FilesInv'
  BY FilesStep
<1>3. FilesInv => FilesMatchReferences
  BY DEF FilesInv
<1> QED
  BY <1>1, <1>2, <1>3, PTL DEF MediaSpec

-----------------------------------------------------------------------------
(*****************************************************************************)
(* Typing.  That no sign of typing is left without somebody who takes it     *)
(* down, for any messages of the chat: the safety behind SignsEnd.  Discord   *)
(* and Matrix have one loop per chat (OneLoop), and Matrix, which handles one *)
(* event after another, never replaces the entry of a loop that still runs    *)
(* (MatrixReplaces).                                                         *)
(*****************************************************************************)

\* Who holds the stop of a sign: the handler that is about to record it, the
\* registry, the bridge for its deferred call -- or, on Discord, where any stop will
\* do, the registry with one of another message.
Held(s) ==
  \/ \E m \in Msgs : s = Base(m) /\ handler[m] = "started"
  \/ \E m \in Msgs : s = Bridge(m) /\ handler[m] = "handling"
  \/ s = typingStops
  \/ host = "discord" /\ typingStops # NoSign

SignsHeld == \A s \in on : Held(s) \/ StopLost(s)

\* Who takes a sign down.  While the context is open somebody does who holds its
\* stop; once it is cancelled nobody empties the registry any more, but every loop
\* sees the context.
Owned(s) == IF alive THEN Held(s) ELSE host # "slack"

SignsOwned == \A s \in on : Owned(s) \/ Orphaned(s)

OneLoop == host \in {"discord", "matrix"} => on \subseteq {current}

\* The registry holds stops of HandleMessage only.
Registered ==
  /\ typingStops # NoSign => \E m \in Msgs : typingStops = Base(m) /\ handler[m] # "new"
  /\ host = "slack" => \A m \in Msgs : Bridge(m) \notin on

MatrixReplaces ==
  host = "matrix" =>
    /\ \A m, n \in Msgs : handler[m] = "started" /\ handler[n] = "started" => m = n
    /\ \A m \in Msgs : handler[m] = "started" => typingStops \notin on
    /\ ~running => on = {}

TypingInv == TypingTypeOK /\ OneLoop /\ Registered /\ MatrixReplaces /\ SignsHeld

LEMMA SignFacts ==
  /\ \A s \in Signs : s # NoSign /\ \E m \in Msgs : s = Base(m) \/ s = Bridge(m)
  /\ \A m, n \in Msgs : /\ Base(m) \in Signs /\ Bridge(m) \in Signs /\ Base(m) # Bridge(n)
                        /\ Base(m) = Base(n) => m = n
                        /\ Bridge(m) = Bridge(n) => m = n
                        /\ Base(m)[2] = "base" /\ Bridge(m)[2] = "bridge"
BY TypingAssumption DEF Signs, Base, Bridge

LEMMA TypingInitKeeps == TypingInit => TypingInv
BY DEF TypingInit, TypingInv, TypingTypeOK, OneLoop, Registered, MatrixReplaces, SignsHeld

\* What StartTyping and a call of a stop function do to the loops.
LEMMA StartTypingFacts ==
  ASSUME TypingInv, NEW s \in Signs, StartTyping(s)
  PROVE  /\ on' \in SUBSET Signs /\ current' \in Signs \cup {NoSign} /\ UNCHANGED <<alive, running>>
         /\ on' \subseteq on \cup {s}
         /\ host \in {"discord", "matrix"} /\ (host = "matrix" => running) => on' = {s} /\ current' = s
         /\ host = "matrix" /\ ~running => UNCHANGED <<on, current>>
         /\ host = "slack" => s[2] = "base"
BY DEF TypingInv, TypingTypeOK, OneLoop, StartTyping, TelegramStartTyping, LineStartTyping,
       DiscordStartTyping, MatrixStartTyping, IrcStartTyping, SlackReactToMessage

LEMMA CallStopFacts ==
  ASSUME TypingInv, NEW s \in Signs \cup {NoSign}, CallStop(s)
  PROVE  /\ on' \subseteq on /\ current' \in Signs \cup {NoSign} /\ UNCHANGED <<alive, running>>
         /\ s \notin on'
         /\ host = "discord" /\ s # NoSign => on' = {}
         /\ host \in {"discord", "matrix"} => on' \subseteq {current'}
BY TypingAssumption
DEF TypingInv, TypingTypeOK, OneLoop, CallStop, DiscordStopTyping, MatrixStopTyping

\* The handler of a message: only the first of its steps can be told apart from
\* the others by what the registry holds.
LEMMA BaseStartKeeps ==
  ASSUME TypingInv, NEW m \in Msgs, BaseStart(m)
  PROVE  TypingInv'
<1> USE SignFacts DEF TypingInv, TypingTypeOK, OneLoop, Registered, MatrixReplaces, SignsHeld,
                      Held, StopLost, registryVars, replyVars, loopVars, Move
<1>1. CASE host = "line" /\ Move(m, "new", "unrecorded") /\ UNCHANGED loopVars
  BY <1>1 DEF BaseStart
<1>2. CASE Move(m, "new", "started") /\ StartTyping(Base(m))
  <2>1. /\ on' \in SUBSET Signs /\ current' \in Signs \cup {NoSign} /\ UNCHANGED <<alive, running>>
        /\ on' \subseteq on \cup {Base(m)}
        /\ host \in {"discord", "matrix"} /\ (host = "matrix" => running)
           => on' = {Base(m)} /\ current' = Base(m)
        /\ host = "matrix" /\ ~running => UNCHANGED <<on, current>>
    BY <1>2, StartTypingFacts
  <2>2. /\ handler[m] = "new" /\ handler' = [handler EXCEPT ![m] = "started"]
        /\ UNCHANGED <<host, seen, replies, sending, typingStops, aged, overwritten, swept>>
        /\ host = "matrix" => \A n \in Msgs : handler[n] # "started"
    BY <1>2 DEF BaseStart
  <2>3. TypingTypeOK'
    BY <2>1, <2>2
  <2>4. OneLoop' /\ Registered'
    BY <2>1, <2>2
  <2>5. MatrixReplaces'
    BY <2>1, <2>2
  <2>6. SignsHeld'
    BY <2>1, <2>2
  <2> QED
    BY <2>3, <2>4, <2>5, <2>6
<1> QED
  BY <1>1, <1>2 DEF BaseStart

LEMMA RecordKeeps ==
  ASSUME TypingInv, NEW m \in Msgs, RecordTypingStop(m) \/ PublishUnrecorded(m) \/ BridgeBusy(m)
  PROVE  TypingInv'
<1> USE SignFacts DEF TypingInv, TypingTypeOK, OneLoop, Registered, MatrixReplaces, SignsHeld,
                      Held, StopLost, registryVars, replyVars, loopVars, Move
<1>1. CASE RecordTypingStop(m)
  <2>1. TypingTypeOK' /\ OneLoop' /\ Registered'
    BY <1>1 DEF RecordTypingStop
  <2>2. MatrixReplaces'
    BY <1>1 DEF RecordTypingStop
  <2>3. ASSUME NEW s \in on' PROVE Held(s)' \/ StopLost(s)'
    <3>1. s \in on /\ (Held(s) \/ StopLost(s))
      BY <1>1, <2>3 DEF RecordTypingStop
    <3>2. CASE s = Base(m)
      BY <1>1, <3>2 DEF RecordTypingStop
    <3>3. CASE s = typingStops /\ s # Base(m)
      BY <1>1, <3>1, <3>3 DEF RecordTypingStop
    <3>4. CASE s # typingStops /\ s # Base(m)
      BY <1>1, <3>1, <3>4 DEF RecordTypingStop
    <3> QED
      BY <3>2, <3>3, <3>4
  <2> QED
    BY <2>1, <2>2, <2>3
<1>2. CASE PublishUnrecorded(m)
  BY <1>2 DEF PublishUnrecorded
<1>3. CASE BridgeBusy(m)
  BY <1>3 DEF BridgeBusy
<1> QED
  BY <1>1, <1>2, <1>3

\* The bridge's own sign: started when it runs the message, ended when it is done.
LEMMA BridgeKeeps ==
  ASSUME TypingInv, NEW m \in Msgs, BridgeStart(m) \/ BridgeFinish(m)
  PROVE  TypingInv'
<1> USE SignFacts DEF TypingInv, TypingTypeOK, OneLoop, Registered, MatrixReplaces, SignsHeld,
                      Held, StopLost, registryVars, replyVars, loopVars, Move
<1>1. CASE BridgeStart(m) /\ host # "slack"
  <2>1. /\ on' \in SUBSET Signs /\ current' \in Signs \cup {NoSign} /\ UNCHANGED <<alive, running>>
        /\ on' \subseteq on \cup {Bridge(m)}
        /\ host \in {"discord", "matrix"} /\ (host = "matrix" => running)
           => on' = {Bridge(m)} /\ current' = Bridge(m)
        /\ host = "matrix" /\ ~running => UNCHANGED <<on, current>>
    BY <1>1, StartTypingFacts DEF BridgeStart
  <2>2. /\ handler[m] = "published" /\ handler' = [handler EXCEPT ![m] = "handling"]
        /\ UNCHANGED <<host, seen, replies, sending, typingStops, aged, overwritten, swept>>
    BY <1>1 DEF BridgeStart
  <2>3. TypingTypeOK' /\ OneLoop' /\ Registered'
    BY <1>1, <2>1, <2>2
  <2>4. MatrixReplaces'
    BY <2>1, <2>2
  <2>5. SignsHeld'
    BY <2>1, <2>2
  <2> QED
    BY <2>3, <2>4, <2>5
<1>2. CASE BridgeFinish(m) /\ host # "slack"
  <2>1. /\ on' \subseteq on /\ current' \in Signs \cup {NoSign} /\ UNCHANGED <<alive, running>>
        /\ Bridge(m) \notin on'
        /\ host = "discord" => on' = {}
        /\ host \in {"discord", "matrix"} => on' \subseteq {current'}
    BY <1>2, CallStopFacts DEF BridgeFinish
  <2>2. /\ handler[m] = "handling" /\ handler' = [handler EXCEPT ![m] = "done"]
        /\ replies' \in BOOLEAN
        /\ UNCHANGED <<sending, host, seen, typingStops, aged, overwritten, swept>>
    BY <1>2 DEF BridgeFinish
  <2>3. TypingTypeOK' /\ OneLoop' /\ Registered'
    BY <1>2, <2>1, <2>2
  <2>4. MatrixReplaces'
    BY <2>1, <2>2
  <2>5. ASSUME NEW s \in on' PROVE Held(s)' \/ StopLost(s)'
    BY <2>1, <2>2, <2>5
  <2> QED
    BY <2>3, <2>4, <2>5
<1>3. CASE BridgeStart(m) /\ host = "slack"
  BY <1>3 DEF BridgeStart
<1>4. CASE BridgeFinish(m) /\ host = "slack"
  <2>1. /\ handler[m] = "handling" /\ handler' = [handler EXCEPT ![m] = "done"]
        /\ replies' \in BOOLEAN
        /\ UNCHANGED <<sending, host, alive, running, on, current, seen, typingStops, aged, overwritten, swept>>
    BY <1>4 DEF BridgeFinish
  <2>2. TypingTypeOK' /\ OneLoop' /\ Registered'
    BY <1>4, <2>1
  <2>3. MatrixReplaces'
    BY <1>4, <2>1
  <2>4. ASSUME NEW s \in on' PROVE Held(s)' \/ StopLost(s)'
    <3>1. s # Bridge(m) /\ (Held(s) \/ StopLost(s))
      BY <1>4, <2>1, <2>4
    <3> QED
      BY <2>1, <3>1
  <2> QED
    BY <2>2, <2>3, <2>4
<1> QED
  BY <1>1, <1>2, <1>3, <1>4

\* The registry: the stop it gives up is called, unless the janitor calls that of
\* an earlier entry.
LEMMA RegistryKeeps == TypingInv /\ (Worker \/ Janitor) => TypingInv'
<1> SUFFICES ASSUME TypingInv, Worker \/ Janitor PROVE TypingInv'
  OBVIOUS
<1> USE SignFacts DEF TypingInv, TypingTypeOK, OneLoop, Registered, MatrixReplaces, SignsHeld,
                      Held, StopLost, registryVars, replyVars, loopVars
<1>1. CASE PreSend
  <2>1. /\ on' \subseteq on /\ current' \in Signs \cup {NoSign} /\ UNCHANGED <<alive, running>>
        /\ typingStops \notin on'
        /\ host = "discord" /\ typingStops # NoSign => on' = {}
        /\ host \in {"discord", "matrix"} => on' \subseteq {current'}
    BY <1>1, CallStopFacts DEF PreSend
  <2>2. TypingTypeOK' /\ OneLoop' /\ Registered' /\ MatrixReplaces'
    BY <1>1, <2>1 DEF PreSend
  <2>3. SignsHeld'
    BY <1>1, <2>1 DEF PreSend
  <2> QED
    BY <2>2, <2>3
<1>2. CASE Age \/ JanitorSees
  <2>1. UNCHANGED <<host, alive, running, on, current, typingStops, handler, overwritten, swept>>
    BY <1>2 DEF Age, JanitorSees
  <2>a. aged' \in BOOLEAN /\ (aged' => typingStops' # NoSign)
    <3>1. CASE Age
      BY <3>1 DEF Age
    <3>2. CASE JanitorSees
      BY <3>2 DEF JanitorSees
    <3> QED
      BY <1>2, <3>1, <3>2
  <2>s. seen' \in Signs \cup {NoSign} /\ UNCHANGED <<replies, sending>>
    BY <1>2 DEF Age, JanitorSees
  <2>2. TypingTypeOK'
    BY <2>1, <2>a, <2>s
  <2>3. OneLoop' /\ Registered' /\ MatrixReplaces' /\ SignsHeld'
    BY <2>1
  <2> QED
    BY <2>2, <2>3
<1>3. CASE TakeReply
  BY <1>3 DEF TakeReply
<1>4. CASE JanitorRemoves /\ typingStops = NoSign
  BY <1>4 DEF JanitorRemoves
<1>5. CASE JanitorRemoves /\ typingStops # NoSign
  <2>1. /\ on' \subseteq on /\ current' \in Signs \cup {NoSign} /\ UNCHANGED <<alive, running>>
        /\ seen \notin on'
        /\ host = "discord" => on' = {}
        /\ host \in {"discord", "matrix"} => on' \subseteq {current'}
    BY <1>5, CallStopFacts DEF JanitorRemoves
  <2>2. TypingTypeOK' /\ OneLoop' /\ Registered' /\ MatrixReplaces'
    BY <1>5, <2>1 DEF JanitorRemoves
  <2>3. SignsHeld'
    BY <1>5, <2>1 DEF JanitorRemoves
  <2> QED
    BY <2>2, <2>3
<1> QED
  BY <1>1, <1>2, <1>3, <1>4, <1>5 DEF Janitor, Worker

\* What ends loops anyway.
LEMMA LoopsKeep == TypingInv /\ (LoopEnds \/ ContextCancelled \/ StopAdapter) => TypingInv'
<1> SUFFICES ASSUME TypingInv, LoopEnds \/ ContextCancelled \/ StopAdapter PROVE TypingInv'
  OBVIOUS
<1> USE SignFacts DEF TypingInv, TypingTypeOK, OneLoop, Registered, MatrixReplaces, SignsHeld,
                      Held, StopLost, registryVars, replyVars
<1>1. ASSUME NEW s \in Signs, LoopDone(s) \/ DiscordLoopTimeout(s) PROVE TypingInv'
  BY <1>1 DEF LoopDone, DiscordLoopTimeout
<1>2. CASE StopAdapter
  BY <1>2 DEF StopAdapter
<1>3. CASE ContextCancelled
  BY <1>3 DEF ContextCancelled, loopVars
<1> QED
  BY <1>1, <1>2, <1>3 DEF LoopEnds

LEMMA TypingStep == TypingInv /\ [TypingNext]_typingVars => TypingInv'
<1> SUFFICES ASSUME TypingInv, [TypingNext]_typingVars PROVE TypingInv'
  OBVIOUS
<1>1. CASE UNCHANGED typingVars
  BY <1>1 DEF typingVars, TypingInv, TypingTypeOK, OneLoop, Registered, MatrixReplaces, SignsHeld,
              Held, StopLost
<1>2. ASSUME NEW m \in Msgs, BaseStart(m) \/ Finishing(m) \/ Beginning(m) PROVE TypingInv'
  BY <1>2, BaseStartKeeps, RecordKeeps, BridgeKeeps DEF Finishing, Beginning
<1> QED
  BY <1>1, <1>2, RegistryKeeps, LoopsKeep DEF TypingNext

\* Who holds a stop can use it while the context is open.
LEMMA HeldIsOwned == TypingInv => SignsOwned
BY DEF TypingInv, SignsHeld, SignsOwned, Owned, Orphaned, LeftAtShutdown

\* Whatever handlers, replies, janitor, bridge and shutdown do, every sign that is on
\* has somebody who takes it down, its stop was lost from the registry on a platform
\* where nothing else ends it, or it is a reaction found by the shutdown.
THEOREM SignsAreOwned == TypingSpec => []SignsOwned
<1> QED
  BY HeldIsOwned, TypingInitKeeps, TypingStep, PTL DEF TypingSpec

-----------------------------------------------------------------------------
(*****************************************************************************)
(* Adapters.  That whatever still runs after Stop has been told to end, for  *)
(* every adapter and every way of Start to fail: the safety behind           *)
(* ReceiversEnd.  It needs to know whose goroutines there are (Belongs), and *)
(* that one which only the end of its connection ends has a connection.      *)
(*****************************************************************************)

Runs(t) == task[t] \notin {"none", "ended"}

Belongs(t) ==
  \/ name = "telegram" /\ t \in {"updates", "handler", "register"}
  \/ name = "discord" /\ t \in {"socket", "events"}
  \/ name = "slack" /\ t \in {"eventLoop", "socket"}
  \/ name = "matrix" /\ t \in {"sync", "janitor"}
  \/ name = "line" /\ t = "events"
  \/ name = "irc" /\ t = "loop"
  \/ name = "whatsapp" /\ t = "listen"

\* What ends a goroutine: its context, Stop of the bot handler, the end of its
\* connection, or that no webhook call comes any more.
ToldToEnd(t) ==
  \/ t \in BoundToContext \cup {"register"} /\ Done
  \/ t = "handler" /\ life = "stopped"
  \/ t \in {"socket", "events", "loop"} /\ session = "closed"
  \/ t = "listen" /\ session = "closed" /\ Done
  \/ t = "events" /\ name = "line" /\ ~serving

LeftoversEnd == life = "stopped" => \A t \in Tasks : Runs(t) => ToldToEnd(t)

Connected ==
  name \in {"discord", "irc", "whatsapp"} /\ (\E t \in Tasks : Runs(t)) => session # "none"

LifeInv ==
  /\ AdaptersTypeOK
  /\ \A t \in Tasks : Runs(t) => Belongs(t)
  /\ Connected
  /\ serving => name = "line" /\ life = "running"
  /\ life = "new" => session = "none" /\ \A t \in Tasks : ~Runs(t)
  /\ life = "stopped" => ctx = "cancelled" /\ session \in {"none", "closed"}

LEMMA LifeInit == AdaptersInit => LifeInv
<1> SUFFICES ASSUME AdaptersInit PROVE LifeInv
  OBVIOUS
<1>1. AdaptersTypeOK
  <2>1. task \in [Tasks -> Places]
    BY DEF AdaptersInit, Places
  <2>2. reads \in 0 .. ReadLimit
    BY AdaptersAssumption DEF AdaptersInit
  <2> QED
    BY <2>1, <2>2 DEF AdaptersInit, AdaptersTypeOK
<1>2. \A t \in Tasks : ~Runs(t)
  BY DEF AdaptersInit, Runs
<1> QED
  BY <1>1, <1>2 DEF AdaptersInit, LifeInv, Connected

LEMMA LifeLeftovers == LifeInv => LeftoversEnd
BY DEF LifeInv, LeftoversEnd, Connected, Belongs, ToldToEnd, BoundToContext, Done, Runs

\* Start launches the goroutines of its adapter, and no others.
LEMMA LaunchFacts ==
  ASSUME AdaptersTypeOK, NEW ts \in SUBSET Tasks, Launch(ts, "waiting")
  PROVE  /\ task' \in [Tasks -> Places]
         /\ \A t \in Tasks : t \in ts => task'[t] = "waiting"
         /\ \A t \in Tasks : t \notin ts => task'[t] = task[t]
BY DEF AdaptersTypeOK, Launch, Places

LEMMA StartsKeep ==
  ASSUME LifeInv, NEW n, NEW s \in {"none", "open"}, NEW ts \in SUBSET Tasks, Starts(n, s, ts),
         \A t \in ts : Belongs(t), n \in {"discord", "irc", "whatsapp"} => s = "open"
  PROVE  LifeInv'
<1>1. /\ task' \in [Tasks -> Places]
      /\ \A t \in Tasks : t \in ts => task'[t] = "waiting"
      /\ \A t \in Tasks : t \notin ts => task'[t] = task[t]
  BY LaunchFacts DEF Starts, LifeInv
<1>2. /\ name = n /\ UNCHANGED <<name, gateway, reads, panicked>>
      /\ life = "new" /\ life' = "running" /\ ctx' = "open" /\ session' = s
  BY DEF Starts
<1>3. serving' \in BOOLEAN /\ (serving' => n = "line")
  BY DEF Starts
<1>4. AdaptersTypeOK'
  BY <1>1, <1>2, <1>3 DEF LifeInv, AdaptersTypeOK
<1>5. \A t \in Tasks : Runs(t)' => Belongs(t)'
  BY <1>1, <1>2 DEF LifeInv, Runs, Belongs
<1> QED
  BY <1>2, <1>3, <1>4, <1>5 DEF LifeInv, Connected

LEMMA FailsKeep ==
  ASSUME LifeInv, NEW n, NEW c \in {"open", "cancelled"}, NEW ts \in SUBSET Tasks, Fails(n, c, ts),
         \A t \in ts : Belongs(t), n \in {"discord", "irc", "whatsapp"} => ts = {}
  PROVE  LifeInv'
<1>1. /\ task' \in [Tasks -> Places]
      /\ \A t \in Tasks : t \in ts => task'[t] = "waiting"
      /\ \A t \in Tasks : t \notin ts => task'[t] = task[t]
  BY LaunchFacts DEF Fails, LifeInv
<1>2. /\ name = n /\ UNCHANGED <<name, gateway, session, serving, reads, panicked>>
      /\ life = "new" /\ life' = "failed" /\ ctx' = c
  BY DEF Fails
<1>3. AdaptersTypeOK'
  BY <1>1, <1>2 DEF LifeInv, AdaptersTypeOK
<1>4. \A t \in Tasks : Runs(t)' => Belongs(t)'
  BY <1>1, <1>2 DEF LifeInv, Runs, Belongs
<1>5. Connected'
  BY <1>1, <1>2 DEF LifeInv, Runs, Connected
<1> QED
  BY <1>2, <1>3, <1>4, <1>5 DEF LifeInv

LEMMA StartKeepsLife == LifeInv /\ AdapterStart => LifeInv'
<1> SUFFICES ASSUME LifeInv, AdapterStart PROVE LifeInv'
  OBVIOUS
<1> USE DEF Tasks
<1>1. CASE TelegramStart
  <2>1. CASE Starts("telegram", "none", {"updates", "handler", "register"})
    BY <2>1, StartsKeep DEF Starts, Belongs
  <2>2. ASSUME NEW ts \in {{}, {"updates"}}, Fails("telegram", "cancelled", ts) PROVE LifeInv'
    BY <2>2, FailsKeep DEF Fails, Belongs
  <2> QED
    BY <1>1, <2>1, <2>2 DEF TelegramStart
<1>2. CASE DiscordStart
  BY <1>2, StartsKeep, FailsKeep DEF DiscordStart, Starts, Fails, Belongs
<1>3. CASE SlackStart
  BY <1>3, StartsKeep, FailsKeep DEF SlackStart, Starts, Fails, Belongs
<1>4. CASE MatrixStart
  BY <1>4, StartsKeep DEF MatrixStart, Starts, Belongs
<1>5. CASE LineStart
  BY <1>5, StartsKeep DEF LineStart, Starts, Belongs
<1>6. CASE IrcStart
  BY <1>6, StartsKeep, FailsKeep DEF IrcStart, Starts, Fails, Belongs
<1>7. CASE WhatsAppStart
  BY <1>7, StartsKeep, FailsKeep DEF WhatsAppStart, Starts, Fails, Belongs
<1> QED
  BY <1>1, <1>2, <1>3, <1>4, <1>5, <1>6, <1>7 DEF AdapterStart

\* A goroutine that goes on was running before, unless a webhook call starts it.
LEMMA GoesKeeps ==
  ASSUME LifeInv, NEW t \in Tasks, NEW from, NEW to \in Places, Goes(t, from, to),
         from \notin {"none", "ended"} \/ (serving /\ t = "events")
  PROVE  LifeInv'
<1>1. /\ task[t] = from /\ task' \in [Tasks -> Places]
      /\ \A u \in Tasks : u # t => task'[u] = task[u]
      /\ UNCHANGED <<name, life, gateway, ctx, session, serving, reads, panicked>>
  BY DEF Goes, LifeInv, AdaptersTypeOK
<1>2. AdaptersTypeOK'
  BY <1>1 DEF LifeInv, AdaptersTypeOK
<1>3. \A u \in Tasks : Runs(u)' => Runs(u) \/ (serving /\ u = "events")
  BY <1>1 DEF Runs
<1>4. \A u \in Tasks : Runs(u)' => Belongs(u)'
  BY <1>1, <1>3 DEF LifeInv, Belongs
<1>5. Connected'
  BY <1>1, <1>3 DEF LifeInv, Connected
<1>6. life = "new" => \A u \in Tasks : ~Runs(u)'
  BY <1>3 DEF LifeInv
<1> QED
  BY <1>1, <1>2, <1>4, <1>5, <1>6 DEF LifeInv

LEMMA ProgressKeeps ==
  LifeInv /\ (Progress \/ RegistrationCancelled \/ WebhookHandler \/ ListenMessage
               \/ \E t \in Tasks : ContextEnds(t)) => LifeInv'
<1> SUFFICES ASSUME LifeInv,
                    Progress \/ RegistrationCancelled \/ WebhookHandler \/ ListenMessage
                      \/ \E t \in Tasks : ContextEnds(t)
             PROVE  LifeInv'
  OBVIOUS
<1> USE GoesKeeps DEF Places, Tasks
<1>1. CASE EventLoop \/ GivesUp \/ BotHandlerEnds \/ SessionEnds
  BY <1>1 DEF EventLoop, GivesUp, BotHandlerEnds, SessionEnds
<1>2. CASE DiscordEvent \/ ProcessEvent \/ CommandRegistration \/ RegistrationCancelled
  BY <1>2 DEF DiscordEvent, ProcessEvent, CommandRegistration, RegistrationCancelled
<1>3. CASE Listen \/ ListenMessage
  BY <1>3 DEF Listen, ListenMessage
<1>4. CASE WebhookHandler
  BY <1>4 DEF WebhookHandler
<1>5. ASSUME NEW t \in Tasks, ContextEnds(t) PROVE LifeInv'
  BY <1>5 DEF ContextEnds
<1>6. CASE ListenError
  <2>1. /\ task["listen"] = "reading" /\ task' \in [Tasks -> Places]
        /\ \A u \in Tasks : u # "listen" => task'[u] = task[u]
        /\ UNCHANGED <<name, life, gateway, ctx, session, serving, panicked>>
    BY <1>6 DEF ListenError, LifeInv, AdaptersTypeOK
  <2>2. reads' \in 0 .. ReadLimit
    BY <1>6, AdaptersAssumption DEF ListenError, LifeInv, AdaptersTypeOK
  <2>3. AdaptersTypeOK'
    BY <2>1, <2>2 DEF LifeInv, AdaptersTypeOK
  <2>4. \A u \in Tasks : Runs(u)' => Runs(u)
    BY <2>1 DEF Runs
  <2> QED
    BY <2>1, <2>3, <2>4 DEF LifeInv, Connected, Belongs
<1>7. CASE ListenPanics
  <2>1. /\ task' \in [Tasks -> Places] /\ \A u \in Tasks : task'[u] = "ended"
        /\ UNCHANGED <<name, life, gateway, ctx, session, serving>> /\ panicked' = TRUE
    BY <1>7 DEF ListenPanics
  <2>2. reads' \in 0 .. ReadLimit
    BY <1>7, AdaptersAssumption DEF ListenPanics
  <2>3. AdaptersTypeOK'
    BY <2>1, <2>2 DEF LifeInv, AdaptersTypeOK
  <2>4. \A u \in Tasks : ~Runs(u)'
    BY <2>1 DEF Runs
  <2> QED
    BY <2>1, <2>3, <2>4 DEF LifeInv, Connected
<1> QED
  BY <1>1, <1>2, <1>3, <1>4, <1>5, <1>6, <1>7 DEF Progress

\* The shutdown: Stop closes the connection if there is one.
LEMMA StopKeepsLife ==
  LifeInv /\ (AdapterStop \/ StopAll \/ GatewayCancels \/ SessionLost) => LifeInv'
<1> SUFFICES ASSUME LifeInv, AdapterStop \/ StopAll \/ GatewayCancels \/ SessionLost PROVE LifeInv'
  OBVIOUS
<1> USE DEF LifeInv, AdaptersTypeOK, Connected, Runs, Belongs, Alive
<1>1. ASSUME NEW ns, NEW s \in {"none", "open", "lost", "closed"}, Stops(ns, s),
             s \in {"none", "closed"},
             name \in {"discord", "irc", "whatsapp"} /\ session # "none" => s # "none"
      PROVE  LifeInv'
  BY <1>1 DEF Stops
<1>2. CASE AdapterStop
  BY <1>1, <1>2 DEF AdapterStop, TelegramStop, DiscordStop, SlackStop, MatrixStop, LineStop, IrcStop,
                    WhatsAppStop, Stops
<1>3. CASE StopAll
  BY <1>3 DEF StopAll
<1>4. CASE GatewayCancels
  BY <1>4 DEF GatewayCancels
<1>5. CASE SessionLost
  BY <1>5 DEF SessionLost
<1> QED
  BY <1>2, <1>3, <1>4, <1>5

LEMMA LifeStep == LifeInv /\ [AdaptersNext]_adapterVars => LifeInv'
<1> SUFFICES ASSUME LifeInv, [AdaptersNext]_adapterVars PROVE LifeInv'
  OBVIOUS
<1>1. CASE UNCHANGED adapterVars
  BY <1>1 DEF adapterVars, LifeInv, AdaptersTypeOK, Connected, Runs, Belongs
<1> QED
  BY <1>1, StartKeepsLife, ProgressKeeps, StopKeepsLife DEF AdaptersNext

\* After Stop, whatever goroutine of the adapter still runs has been told to end:
\* its context is cancelled, its connection is closed, or nothing feeds it any
\* more -- also if Start had failed half-way.
THEOREM LeftoversAreTold == AdaptersSpec => []LeftoversEnd
BY LifeInit, LifeStep, LifeLeftovers, PTL DEF AdaptersSpec

-----------------------------------------------------------------------------
(*****************************************************************************)
(* AllParts.  What was proved of each part holds of the parts side by side,  *)
(* the system the runs explore, and every part is type correct.              *)
(*****************************************************************************)

\* The types of the WhatsApp adapter that FinalInv says nothing of.
NativeTypes ==
  /\ online \in BOOLEAN /\ ignored \in BOOLEAN /\ store \in {"none", "open", "closed"}
  /\ losses <= MaxLosses /\ lost <= losses

NativeInv == FinalInv /\ NativeTypes

LEMMA NativeInvTypes == NativeInv => NativeTypeOK
<1> SUFFICES ASSUME NativeInv PROVE NativeTypeOK
  OBVIOUS
<1>1. losses \in 0 .. MaxLosses /\ lost \in 0 .. losses /\ leaving \in Nat /\ wg \in Nat
  BY WhatsAppNativeAssumption DEF NativeInv, NativeTypes, FinalInv, Counters
<1> QED
  BY <1>1 DEF NativeInv, NativeTypes, FinalInv, Types, NativeTypeOK

LEMMA NativeInitKeeps == NativeInit => NativeInv
<1> SUFFICES ASSUME NativeInit PROVE NativeTypes
  BY FinalInit DEF NativeInv
<1>1. losses <= MaxLosses /\ lost <= losses
  BY WhatsAppNativeAssumption DEF NativeInit
<1> QED
  BY <1>1 DEF NativeInit, NativeTypes

\* An event that is handed over was counted when the connection was lost.
LEMMA NativeStep == NativeInv /\ [NativeNext]_nativeVars => NativeInv'
<1> SUFFICES ASSUME NativeInv, [NativeNext]_nativeVars PROVE NativeTypes'
  BY FinalStep DEF NativeInv
<1> USE DEF NativeInv, NativeTypes, FinalInv, Counters, lifeVars
<1>1. CASE StartSteps
  <2>1. losses' <= MaxLosses /\ lost' <= losses'
    BY <1>1 DEF StartSteps, StartOpen, StartConnect, StartQr, StartFails
  <2>2. online' \in BOOLEAN /\ ignored' \in BOOLEAN /\ store' \in {"none", "open", "closed"}
    BY <1>1 DEF StartSteps, StartOpen, StartConnect, StartQr, StartFails
  <2> QED
    BY <2>1, <2>2
<1>2. CASE QrEnds
  BY <1>2 DEF QrEnds
<1>3. CASE ConnectionLost
  <2>1. losses' <= MaxLosses /\ lost' <= losses'
    BY <1>3, WhatsAppNativeAssumption DEF ConnectionLost
  <2> QED
    BY <1>3, <2>1 DEF ConnectionLost
<1>4. CASE EventHandler
  <2>1. losses' <= MaxLosses /\ lost' <= losses'
    BY <1>4, WhatsAppNativeAssumption DEF EventHandler
  <2>2. ignored' \in BOOLEAN
    BY <1>4 DEF EventHandler, Types
  <2>3. UNCHANGED <<online, store>>
    BY <1>4 DEF EventHandler
  <2> QED
    BY <2>1, <2>2, <2>3
<1>5. CASE RedialSteps \/ RedialConnect
  BY <1>5 DEF RedialSteps, RedialCheck, RedialBackoff, RedialReset, RedialDone, RedialConnect, Redial
<1>6. CASE StopFlag \/ StopSteps
  BY <1>6 DEF StopFlag, StopSteps, StopsAt, StopCancel, StopDisconnect, StopWait, StopClose
<1>7. CASE UNCHANGED nativeVars
  BY <1>7 DEF nativeVars
<1> QED
  BY <1>1, <1>2, <1>3, <1>4, <1>5, <1>6, <1>7 DEF NativeNext

LEMMA HeartbeatTypeInit == HeartbeatInit => HeartbeatTypeOK
BY DEF HeartbeatInit, HeartbeatTypeOK, Values, Unsent

LEMMA HeartbeatTypeStep == HeartbeatTypeOK /\ [HeartbeatNext]_heartbeatVars => HeartbeatTypeOK'
<1> SUFFICES ASSUME HeartbeatTypeOK, [HeartbeatNext]_heartbeatVars PROVE HeartbeatTypeOK'
  OBVIOUS
<1> USE DEF HeartbeatTypeOK, Values, beatVars, stateVars
<1>1. CASE Start
  <2>1. PICK value \in Values :
          NewManager(value) /\ last' \in {value, NoChat} /\ beatLast' \in {value, NoChat}
    BY <1>1 DEF Start
  <2>2. {stateFile', last', beatLast', startup'} \subseteq Values
    BY <1>1, <2>1 DEF Start, NewManager
  <2> QED
    BY <1>1, <2>2 DEF Start
<1>2. CASE Close \/ Stop
  BY <1>2 DEF Close, Stop
<1>3. CASE Exit
  BY <1>3 DEF Exit, Unsent
<1>4. ASSUME NEW h \in Handlers, SetLastChannel(h) \/ SaveAtomic(h) PROVE HeartbeatTypeOK'
  BY <1>4 DEF SetLastChannel, SaveAtomic
<1>5. ASSUME NEW h \in Handlers, NEW c \in Chats, Answer(h, c) PROVE HeartbeatTypeOK'
  BY <1>5 DEF Answer
<1>6. ASSUME NEW b \in Beats, ExecuteHeartbeat(b) \/ HandlerReturns(b) PROVE HeartbeatTypeOK'
  BY <1>6 DEF ExecuteHeartbeat, HandlerReturns
<1>7. ASSUME NEW b \in Beats, SendResponse(b) PROVE HeartbeatTypeOK'
  BY <1>7 DEF SendResponse
<1>8. CASE UNCHANGED heartbeatVars
  BY <1>8 DEF heartbeatVars
<1> QED
  BY <1>1, <1>2, <1>3, <1>4, <1>5, <1>6, <1>7, <1>8 DEF HeartbeatNext

PartsInv ==
  /\ part \in Parts
  /\ DurableInv /\ InboundInv /\ FilesInv /\ TypingInv /\ DeliveryInv /\ NativeInv
  /\ LifeInv /\ BeatInv /\ HeartbeatTypeOK

LEMMA PartsInitKeeps == PartsInit => PartsInv
BY DurableInit, InboundInitKeeps, FilesInit, TypingInitKeeps, DeliveryInitKeeps, NativeInitKeeps,
   LifeInit, BeatInit, HeartbeatTypeInit
DEF PartsInit, PartsInv

\* A step of the parts is, for each of them, one of its own or none.
LEMMA EachSteps ==
  ASSUME [PartsNext]_allVars
  PROVE  /\ UNCHANGED part
         /\ [DNext]_dvars /\ [InboundNext]_inboundVars /\ [MediaNext]_mediaVars
         /\ [TypingNext]_typingVars /\ [DeliveryNext]_deliveryVars /\ [NativeNext]_nativeVars
         /\ [AdaptersNext]_adapterVars /\ [HeartbeatNext]_heartbeatVars
BY DEF PartsNext, Only, allVars

LEMMA PartsStep == PartsInv /\ [PartsNext]_allVars => PartsInv'
<1> SUFFICES ASSUME PartsInv, [PartsNext]_allVars PROVE PartsInv'
  OBVIOUS
<1>1. InboundInv'
  BY EachSteps, InboundStep, InboundStutter DEF PartsInv
<1>2. DeliveryInv'
  BY EachSteps, DeliveryStep DEF PartsInv
<1>3. DurableInv' /\ FilesInv' /\ TypingInv'
  BY EachSteps, DurableStep, FilesStep, TypingStep DEF PartsInv
<1>4. NativeInv' /\ LifeInv' /\ BeatInv' /\ HeartbeatTypeOK'
  BY EachSteps, NativeStep, LifeStep, BeatStep, HeartbeatTypeStep DEF PartsInv
<1> QED
  BY <1>1, <1>2, <1>3, <1>4, EachSteps DEF PartsInv

\* Every part is type correct, for any values of the constants.
THEOREM PartsTypeCorrect == PartsSpec => []PartsTypeOK
<1>1. PartsInv => PartsTypeOK
  BY NativeInvTypes
  DEF PartsInv, PartsTypeOK, DurableInv, InboundInv, FilesInv, TypingInv, DeliveryInv, LifeInv
<1> QED
  BY <1>1, PartsInitKeeps, PartsStep, PTL DEF PartsSpec

\* The specification that is model-checked has the safety properties that are
\* proved of its parts one by one, and those that only the proofs state.
THEOREM PartsSafe ==
  PartsSpec => [](/\ DurableWithoutOverlap /\ PublishedInOrder /\ FilesMatchReferences
                  /\ ReportedMeansDelivered /\ StopIsFinal /\ BeatsGoToStartupChannel
                  /\ SignsOwned /\ LeftoversEnd)
<1>1. PartsInv => /\ DurableWithoutOverlap /\ PublishedInOrder /\ FilesMatchReferences
                  /\ ReportedMeansDelivered /\ StopIsFinal /\ BeatsGoToStartupChannel
                  /\ SignsOwned /\ LeftoversEnd
  BY DeliveryInvReports, FinalStops, LifeLeftovers, HeldIsOwned
  DEF PartsInv, DurableInv, InboundInv, FilesInv, NativeInv, BeatInv, LoadedOnce
<1> QED
  BY <1>1, PartsInitKeeps, PartsStep, PTL DEF PartsSpec
=============================================================================
