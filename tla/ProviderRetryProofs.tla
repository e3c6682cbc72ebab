------------------------- MODULE ProviderRetryProofs -------------------------
(***************************************************************************)
(* What holds of one call of Provider.Invoke for any number of retries and *)
(* any length of output: its types (and with them a bound on the attempts), *)
(* that a refused session is never resumed, that an answer is whole, and   *)
(* that attempts do not overlap.                                           *)
(***************************************************************************)
EXTENDS ProviderRetry, TLAPS

\* The attempts made so far account for every retry that was granted.
Attempts ==
  pc # "returned" =>
    /\ idleAttempts < MaxAttempts
    /\ Len(starts) = idleAttempts + (IF sessionRetried THEN 1 ELSE 0) + (IF pc = "starting" THEN 0 ELSE 1)

\* The n-th subprocess knows no id above n + 1, so the id it creates is new: it was
\* not refused before.
KnownIds ==
  /\ session \in 0 .. Len(starts) + 1
  /\ refused \subseteq 1 .. Len(starts) + 1
  /\ session \notin refused

\* What the subprocess at work prints is about its own session or about none.
OwnLines == [id : {own, NoId}, body : Bodies]

CurrentAttempt ==
  pc \in {"scanning", "waiting"} =>
    /\ own \in 1 .. Len(starts) + 1 /\ own \notin refused
    /\ pipe \in Seq(OwnLines) /\ lines \in Seq(OwnLines) /\ parsed \in OwnLines

\* Outside of runOnce there is no subprocess, and no reader once lineCh is closed.
NothingRuns ==
  /\ pc # "scanning" => reader = "closed"
  /\ pc \in {"starting", "returned"} => proc \in {"none"} \cup Dead
  /\ pc = "waiting" /\ reason = "exit" /\ runCancelled => ctxDone
  /\ pc # "returned" => outcome = Pending

\* A scan that the timer did not end has come to the end of the output, or to a line
\* that was too long; behind that the subprocess may print on.
ReadToItsEnd ==
  pc \in {"scanning", "waiting"} /\ reader = "closed" /\ ~runCancelled
    => \/ pipe = <<>> /\ proc # "running"
       \/ pipe # <<>> /\ Head(pipe) = TooLong

RetryInv ==
  /\ TypeOK /\ Attempts /\ KnownIds /\ CurrentAttempt /\ NothingRuns /\ ReadToItsEnd
  /\ AnswerIsWhole

USE DEF NoId, GivenId, Ids, Bodies, Dead, Statuses, Pending

\* At least one attempt is made.
LEMMA MaxAttemptsNat == MaxAttempts \in Nat \ {0}
BY RetryAssumption DEF MaxAttempts

\* Initially the call has been made and nothing was started.
LEMMA RetryInit == Init => RetryInv
<1> SUFFICES ASSUME Init PROVE RetryInv
  OBVIOUS
<1> USE MaxAttemptsNat, RetryAssumption DEF Init
<1>1. TypeOK
  <2>1. Blank \in Lines /\ <<>> \in Seq(Lines) /\ <<>> \in Seq(Ids \cup {NoId})
    BY DEF Blank, Lines
  <2>2. session \in Ids \cup {NoId}
    OBVIOUS
  <2>3. idleAttempts \in 0 .. MaxAttempts /\ printed \in 0 .. MaxLines
    OBVIOUS
  <2> QED
    BY <2>1, <2>2, <2>3 DEF TypeOK
<1>2. Attempts /\ KnownIds /\ CurrentAttempt /\ NothingRuns /\ ReadToItsEnd /\ AnswerIsWhole
  BY DEF Attempts, KnownIds, CurrentAttempt, NothingRuns, ReadToItsEnd, AnswerIsWhole
<1> QED
  BY <1>1, <1>2 DEF RetryInv

-----------------------------------------------------------------------------
(* The subprocess, the idle timer and /stop *)

\* They leave the attempt's place and its session alone.
LEMMA ProcessKeeps ==
  ASSUME RetryInv, PrintLine \/ CloseOutput \/ Exit \/ Kill \/ Stop
  PROVE  RetryInv'
<1> USE RetryAssumption DEF RetryInv, reqVars, procVars, scanVars, histVars
<1>1. CASE PrintLine
  <2>1. pc \in {"scanning", "waiting"}
    BY <1>1 DEF PrintLine, NothingRuns, TypeOK
  <2>2. Printable \subseteq OwnLines
    <3>1. TooLong \in OwnLines
      BY DEF TooLong, OwnLines
    <3>2. [id : {own, NoId}, body : {"nothing", "answer", "error"} \cup (IF session = NoId THEN {} ELSE {"refused"})]
            \subseteq OwnLines
      BY DEF OwnLines
    <3>3. {[id |-> own, body |-> "nothing"], [id |-> NoId, body |-> "answer"]} \subseteq OwnLines
      BY DEF OwnLines
    <3> QED
      BY <3>1, <3>2, <3>3 DEF Printable
  <2>3. OwnLines \subseteq Lines
    BY DEF OwnLines, Lines, TypeOK
  <2>4. PICK line \in OwnLines : pipe' = Append(pipe, line)
    BY <1>1, <2>2 DEF PrintLine
  <2>5. pipe' \in Seq(OwnLines)' /\ pipe' \in Seq(Lines)
    <3>1. OwnLines' = OwnLines
      BY <1>1 DEF PrintLine, OwnLines
    <3>2. pipe \in Seq(OwnLines) /\ pipe \in Seq(Lines)
      BY <2>1 DEF CurrentAttempt, TypeOK
    <3>3. Append(pipe, line) \in Seq(OwnLines) /\ Append(pipe, line) \in Seq(Lines)
      BY <2>3, <3>2
    <3> QED
      BY <2>4, <3>1, <3>3
  <2>6. TypeOK'
    BY <1>1, <2>5 DEF PrintLine, TypeOK
  <2>7. CurrentAttempt'
    BY <1>1, <2>5 DEF PrintLine, CurrentAttempt, OwnLines
  <2>8. Attempts' /\ KnownIds' /\ NothingRuns' /\ AnswerIsWhole'
    BY <1>1 DEF PrintLine, Attempts, KnownIds, NothingRuns, AnswerIsWhole
  <2>9. ReadToItsEnd'
    <3>1. pipe # <<>> => Append(pipe, line) # <<>> /\ Head(Append(pipe, line)) = Head(pipe)
      BY <2>1 DEF CurrentAttempt
    <3> QED
      BY <1>1, <2>4, <3>1 DEF PrintLine, ReadToItsEnd, TooLong
  <2> QED
    BY <2>6, <2>7, <2>8, <2>9
<1>2. CASE CloseOutput
  <2>1. proc' \in {"none", "running", "closing"} \cup Dead /\ proc \in {"running", "closing"}
    BY <1>2 DEF CloseOutput
  <2>2. UNCHANGED <<provider, ctxDone, session, idleAttempts, sessionRetried, pc, reason, own, printed>>
    BY <1>2 DEF CloseOutput
  <2>3. UNCHANGED <<pipe, reader, lines, runCancelled, parsed, starts, refused, outcome>>
    BY <1>2 DEF CloseOutput
  <2>4. TypeOK'
    BY <2>1, <2>2, <2>3 DEF TypeOK
  <2>5. CurrentAttempt'
    BY <2>2, <2>3 DEF CurrentAttempt, OwnLines
  <2>6. Attempts' /\ KnownIds'
    BY <2>2, <2>3 DEF Attempts, KnownIds
  <2>7. NothingRuns' /\ ReadToItsEnd' /\ AnswerIsWhole'
    BY <1>2, <2>1, <2>2, <2>3 DEF CloseOutput, NothingRuns, ReadToItsEnd, Readable, AnswerIsWhole
  <2> QED
    BY <2>4, <2>5, <2>6, <2>7
<1>3. CASE Exit
  <2>1. proc' \in {"none", "running", "closing"} \cup Dead /\ proc \in {"running", "closing"}
    BY <1>3 DEF Exit
  <2>2. UNCHANGED <<provider, ctxDone, session, idleAttempts, sessionRetried, pc, reason, own, printed>>
    BY <1>3 DEF Exit
  <2>3. UNCHANGED <<pipe, reader, lines, runCancelled, parsed, starts, refused, outcome>>
    BY <1>3 DEF Exit
  <2>4. TypeOK'
    BY <2>1, <2>2, <2>3 DEF TypeOK
  <2>5. CurrentAttempt'
    BY <2>2, <2>3 DEF CurrentAttempt, OwnLines
  <2>6. Attempts' /\ KnownIds'
    BY <2>2, <2>3 DEF Attempts, KnownIds
  <2>7. NothingRuns' /\ ReadToItsEnd' /\ AnswerIsWhole'
    BY <1>3, <2>1, <2>2, <2>3 DEF Exit, NothingRuns, ReadToItsEnd, Readable, AnswerIsWhole
  <2> QED
    BY <2>4, <2>5, <2>6, <2>7
<1>4. CASE Kill
  <2>1. proc' \in {"none", "running", "closing"} \cup Dead /\ proc \in {"running", "closing"}
    BY <1>4 DEF Kill
  <2>2. UNCHANGED <<provider, ctxDone, session, idleAttempts, sessionRetried, pc, reason, own, printed>>
    BY <1>4 DEF Kill
  <2>3. UNCHANGED <<pipe, reader, lines, runCancelled, parsed, starts, refused, outcome>>
    BY <1>4 DEF Kill
  <2>4. TypeOK'
    BY <2>1, <2>2, <2>3 DEF TypeOK
  <2>5. CurrentAttempt'
    BY <2>2, <2>3 DEF CurrentAttempt, OwnLines
  <2>6. Attempts' /\ KnownIds'
    BY <2>2, <2>3 DEF Attempts, KnownIds
  <2>7. NothingRuns' /\ ReadToItsEnd' /\ AnswerIsWhole'
    BY <1>4, <2>1, <2>2, <2>3 DEF Kill, NothingRuns, ReadToItsEnd, Readable, AnswerIsWhole
  <2> QED
    BY <2>4, <2>5, <2>6, <2>7
<1>5. CASE Stop
  <2>1. TypeOK'
    BY <1>5 DEF Stop, TypeOK
  <2>2. CurrentAttempt'
    BY <1>5 DEF Stop, CurrentAttempt, OwnLines
  <2>3. Attempts' /\ KnownIds' /\ NothingRuns' /\ ReadToItsEnd' /\ AnswerIsWhole'
    BY <1>5 DEF Stop, Attempts, KnownIds, NothingRuns, ReadToItsEnd, Readable, AnswerIsWhole
  <2> QED
    BY <2>1, <2>2, <2>3
<1> QED
  BY <1>1, <1>2, <1>3, <1>4, <1>5

\* The reader hands the lines on as they are, and works only while runOnce scans.
LEMMA ScanKeeps ==
  ASSUME RetryInv, Scan
  PROVE  RetryInv'
<1> USE DEF RetryInv, reqVars, procVars, scanVars, histVars
<1>1. CASE Forward
  <2>1. pc = "scanning"
    BY <1>1 DEF Forward, NothingRuns
  <2>2. Head(pipe) \in OwnLines /\ Tail(pipe) \in Seq(OwnLines) /\ Append(lines, Head(pipe)) \in Seq(OwnLines)
    BY <1>1, <2>1 DEF Forward, Readable, CurrentAttempt
  <2>3. Head(pipe) \in Lines /\ Tail(pipe) \in Seq(Lines) /\ Append(lines, Head(pipe)) \in Seq(Lines)
    BY <1>1 DEF Forward, Readable, TypeOK
  <2>4. OwnLines' = OwnLines
    BY <1>1 DEF Forward, OwnLines
  <2>5. TypeOK'
    BY <1>1, <2>3 DEF Forward, TypeOK
  <2>6. CurrentAttempt'
    BY <1>1, <2>2, <2>4 DEF Forward, CurrentAttempt
  <2>7. Attempts' /\ KnownIds' /\ NothingRuns' /\ ReadToItsEnd' /\ AnswerIsWhole'
    BY <1>1 DEF Forward, Attempts, KnownIds, NothingRuns, ReadToItsEnd, Readable, AnswerIsWhole
  <2> QED
    BY <2>5, <2>6, <2>7
<1>2. CASE IdleFires
  <2>1. pc = "scanning" /\ outcome = Pending
    BY <1>2 DEF IdleFires, NothingRuns
  <2>2. TypeOK'
    BY <1>2 DEF IdleFires, TypeOK
  <2>3. CurrentAttempt'
    BY <1>2 DEF IdleFires, CurrentAttempt, OwnLines
  <2>4. Attempts' /\ KnownIds' /\ NothingRuns' /\ ReadToItsEnd' /\ AnswerIsWhole'
    BY <1>2, <2>1 DEF IdleFires, Attempts, KnownIds, NothingRuns, ReadToItsEnd, Readable, AnswerIsWhole
  <2> QED
    BY <2>2, <2>3, <2>4
<1>3. CASE Drain
  <2>1. pc = "scanning" /\ outcome = Pending
    BY <1>3 DEF Drain, NothingRuns
  <2>2. Tail(pipe) \in Seq(OwnLines) /\ Tail(pipe) \in Seq(Lines)
    BY <1>3, <2>1 DEF Drain, Readable, CurrentAttempt, TypeOK
  <2>3. TypeOK'
    BY <1>3, <2>2 DEF Drain, TypeOK
  <2>4. CurrentAttempt'
    BY <1>3, <2>2 DEF Drain, CurrentAttempt, OwnLines
  <2>5. Attempts' /\ KnownIds' /\ NothingRuns' /\ ReadToItsEnd' /\ AnswerIsWhole'
    BY <1>3, <2>1 DEF Drain, Attempts, KnownIds, NothingRuns, ReadToItsEnd, AnswerIsWhole
  <2> QED
    BY <2>3, <2>4, <2>5
<1>4. CASE ReaderEnds \/ ScanFails
  <2>1. (pipe = <<>> /\ proc # "running") \/ (pipe # <<>> /\ Head(pipe) = TooLong)
    BY <1>4 DEF ReaderEnds, ScanFails
  <2>2. ReaderCloses
    BY <1>4 DEF ReaderEnds, ScanFails
  <2>3. pc = "scanning" /\ outcome = Pending
    BY <2>2 DEF ReaderCloses, NothingRuns
  <2>4. TypeOK'
    BY <2>2 DEF ReaderCloses, TypeOK
  <2>5. CurrentAttempt'
    BY <2>2 DEF ReaderCloses, CurrentAttempt, OwnLines
  <2>6. Attempts' /\ KnownIds' /\ NothingRuns' /\ AnswerIsWhole'
    BY <2>2, <2>3 DEF ReaderCloses, Attempts, KnownIds, NothingRuns, AnswerIsWhole
  <2>7. ReadToItsEnd'
    BY <2>1, <2>2 DEF ReaderCloses, ReadToItsEnd, TooLong
  <2> QED
    BY <2>4, <2>5, <2>6, <2>7
<1> QED
  BY <1>1, <1>2, <1>3, <1>4 DEF Scan

-----------------------------------------------------------------------------
(* runOnce *)

\* A subprocess is started on an id that was not refused, or makes a new one.
LEMMA StartKeeps ==
  ASSUME RetryInv, Start
  PROVE  RetryInv'
<1> USE MaxAttemptsNat, RetryAssumption DEF RetryInv, reqVars
<1>1. Len(starts) \in Nat /\ starts' \in Seq(Ids \cup {NoId}) /\ Len(starts') = Len(starts) + 1
  BY DEF Start, TypeOK
<1>2. Len(starts) <= MaxAttempts
  BY <1>1 DEF Start, Attempts, TypeOK
<1>3. own' \in 1 .. Len(starts) + 2 /\ own' \notin refused
  BY <1>1 DEF Start, KnownIds
<1>4. TypeOK'
  <2>1. Blank \in Lines /\ <<>> \in Seq(Lines)
    BY DEF Blank, Lines
  <2>2. own' \in Ids \cup {NoId}
    BY <1>1, <1>2, <1>3
  <2>3. pipe' \in Seq(Lines) /\ lines' \in Seq(Lines) /\ parsed' \in Lines /\ printed' \in 0 .. MaxLines
    BY <2>1 DEF Start
  <2>4. /\ proc' = "running" /\ pc' = "scanning" /\ reason' = "none"
        /\ reader' = "open" /\ runCancelled' = FALSE
    BY DEF Start
  <2>5. UNCHANGED <<provider, ctxDone, session, idleAttempts, sessionRetried, refused, outcome>>
    BY DEF Start
  <2> QED
    BY <1>1, <2>2, <2>3, <2>4, <2>5 DEF TypeOK
<1>5. CurrentAttempt'
  <2>1. Blank \in OwnLines' /\ <<>> \in Seq(OwnLines')
    BY DEF Blank, OwnLines
  <2> QED
    BY <1>1, <1>3, <2>1 DEF Start, CurrentAttempt
<1>6. Attempts' /\ KnownIds'
  <2>1. pc = "starting" /\ pc' = "scanning" /\ UNCHANGED <<session, idleAttempts, sessionRetried, refused>>
    BY DEF Start
  <2>2. idleAttempts \in Nat
    BY DEF TypeOK
  <2>3. Attempts'
    BY <1>1, <2>1, <2>2 DEF Attempts
  <2>4. KnownIds'
    BY <1>1, <2>1 DEF KnownIds
  <2> QED
    BY <2>3, <2>4
<1>7. NothingRuns' /\ ReadToItsEnd' /\ AnswerIsWhole'
  BY DEF Start, NothingRuns, ReadToItsEnd, Readable, AnswerIsWhole
<1> QED
  BY <1>4, <1>5, <1>6, <1>7

\* Reading the lines keeps to the subprocess' own session.
LEMMA ParseKeeps ==
  ASSUME RetryInv, Parse \/ Check
  PROVE  RetryInv'
<1> USE DEF RetryInv, reqVars, procVars, scanVars, histVars
<1>1. CASE Parse
  <2>1. pc = "scanning"
    BY <1>1 DEF Parse
  <2>2. Head(lines) \in OwnLines /\ Tail(lines) \in Seq(OwnLines)
    BY <1>1, <2>1 DEF Parse, CurrentAttempt
  <2>3. Tail(lines) \in Seq(Lines) /\ OwnLines \subseteq Lines
    <3>1. Tail(lines) \in Seq(Lines)
      BY <1>1 DEF Parse, TypeOK
    <3>2. own \in Ids \cup {NoId}
      BY DEF TypeOK
    <3> QED
      BY <3>1, <3>2 DEF OwnLines, Lines
  <2>4. parsed' \in OwnLines /\ OwnLines' = OwnLines
    BY <1>1, <2>1, <2>2 DEF Parse, CurrentAttempt, OwnLines
  <2>5. TypeOK'
    BY <1>1, <2>3, <2>4 DEF Parse, TypeOK
  <2>6. CurrentAttempt'
    BY <1>1, <2>2, <2>4 DEF Parse, CurrentAttempt
  <2>7. Attempts' /\ KnownIds' /\ NothingRuns' /\ ReadToItsEnd' /\ AnswerIsWhole'
    BY <1>1 DEF Parse, Attempts, KnownIds, NothingRuns, ReadToItsEnd, Readable, AnswerIsWhole
  <2> QED
    BY <2>5, <2>6, <2>7
<1>2. CASE Check
  <2>1. TypeOK'
    BY <1>2 DEF Check, TypeOK
  <2>2. CurrentAttempt'
    BY <1>2 DEF Check, CurrentAttempt, OwnLines
  <2>3. Attempts' /\ KnownIds' /\ AnswerIsWhole'
    BY <1>2 DEF Check, Attempts, KnownIds, AnswerIsWhole, Readable
  <2>4. NothingRuns' /\ ReadToItsEnd'
    BY <1>2 DEF Check, NothingRuns, ReadToItsEnd
  <2> QED
    BY <2>1, <2>2, <2>3, <2>4
<1> QED
  BY <1>1, <1>2

-----------------------------------------------------------------------------
(* invokeWithRetry *)

\* A call that returns keeps the invariant, if what it returns is a whole answer.
LEMMA FinishKeeps ==
  ASSUME RetryInv, NEW s \in Statuses, NEW id \in Ids \cup {NoId}, Finish(s, id),
         pc \in {"starting", "waiting"}, proc \in {"none"} \cup Dead,
         s = "ok" => proc = "ok" /\ id \in {NoId, own} /\ (runCancelled => ctxDone) /\ (~runCancelled => ~Readable),
         idleAttempts' \in 0 .. MaxAttempts,
         UNCHANGED <<provider, ctxDone, reason, procVars, scanVars, starts>>
  PROVE  RetryInv'
<1> USE DEF RetryInv, procVars, scanVars, Finish
<1>1. TypeOK'
  BY DEF TypeOK
<1>2. Attempts' /\ KnownIds' /\ CurrentAttempt' /\ NothingRuns' /\ ReadToItsEnd'
  BY DEF Attempts, KnownIds, CurrentAttempt, NothingRuns, ReadToItsEnd
<1>3. AnswerIsWhole'
  BY DEF AnswerIsWhole, Readable
<1> QED
  BY <1>1, <1>2, <1>3

\* Another attempt keeps it, if it is on an id that was not refused, and counted.
LEMMA AgainKeeps ==
  ASSUME RetryInv, NEW id \in 0 .. Len(starts) + 1, id \in Ids \cup {NoId}, Again(id),
         pc = "waiting", proc \in Dead,
         refused' \subseteq 1 .. Len(starts) + 1, refused' \subseteq Ids, id \notin refused',
         idleAttempts' \in Nat, idleAttempts' < MaxAttempts, sessionRetried' \in BOOLEAN,
         idleAttempts' + (IF sessionRetried' THEN 1 ELSE 0)
           = idleAttempts + (IF sessionRetried THEN 1 ELSE 0) + 1,
         UNCHANGED <<provider, ctxDone, reason, procVars, scanVars, starts>>
  PROVE  RetryInv'
<1> USE MaxAttemptsNat DEF RetryInv, procVars, scanVars, Again
<1>1. TypeOK'
  BY DEF TypeOK
<1>2. Attempts'
  <2>1. pc' = "starting" /\ starts' = starts /\ Len(starts) \in Nat /\ idleAttempts \in Nat
    BY DEF TypeOK
  <2>2. Len(starts) = idleAttempts + (IF sessionRetried THEN 1 ELSE 0) + 1
    BY DEF Attempts
  <2>3. Len(starts) = idleAttempts' + (IF sessionRetried' THEN 1 ELSE 0)
    BY <2>1, <2>2
  <2> QED
    BY <2>1, <2>3 DEF Attempts
<1>3. KnownIds' /\ CurrentAttempt' /\ NothingRuns' /\ ReadToItsEnd'
  BY DEF KnownIds, CurrentAttempt, NothingRuns, ReadToItsEnd
<1>4. AnswerIsWhole'
  BY DEF AnswerIsWhole, NothingRuns
<1> QED
  BY <1>1, <1>2, <1>3, <1>4

\* Only the id of the attempt that was refused is given up, for none.
LEMMA RetryExpiredKeeps ==
  ASSUME RetryInv, RetryExpired, pc = "waiting", proc \in Dead,
         UNCHANGED <<provider, ctxDone, reason, procVars, scanVars, starts>>
  PROVE  RetryInv'
<1>1. CASE sessionRetried
  BY <1>1, FinishKeeps DEF RetryExpired, RetryInv, TypeOK
<1>2. CASE ~sessionRetried
  <2>1. Len(starts) \in Nat /\ Again(NoId) /\ sessionRetried' = TRUE /\ idleAttempts' = idleAttempts
    BY <1>2 DEF RetryExpired, RetryInv, TypeOK
  <2>2. refused' = refused \cup ({session} \ {NoId})
    BY <1>2 DEF RetryExpired
  <2>3. refused' \subseteq 1 .. Len(starts) + 1 /\ refused' \subseteq Ids /\ NoId \notin refused'
    BY <2>1, <2>2 DEF RetryInv, KnownIds, TypeOK
  <2>4. idleAttempts \in Nat /\ idleAttempts < MaxAttempts
    BY DEF RetryInv, Attempts, TypeOK
  <2> QED
    BY <1>2, <2>1, <2>3, <2>4, AgainKeeps
<1> QED
  BY <1>1, <1>2

\* An idle attempt is repeated on the id it has shown, which was not refused.
LEMMA RetryIdleKeeps ==
  ASSUME RetryInv, RetryIdle, pc = "waiting", proc \in Dead,
         UNCHANGED <<provider, ctxDone, reason, procVars, scanVars, starts>>
  PROVE  RetryInv'
<1> USE MaxAttemptsNat DEF RetryInv
<1>1. idleAttempts \in Nat /\ idleAttempts < MaxAttempts /\ idleAttempts' = idleAttempts + 1
  BY DEF RetryIdle, Attempts, TypeOK
<1>2. CASE idleAttempts' >= MaxAttempts
  <2>1. Finish("hung", NoId) /\ idleAttempts' \in 0 .. MaxAttempts
    BY <1>1, <1>2 DEF RetryIdle
  <2> QED
    BY <2>1, FinishKeeps
<1>3. CASE ~(idleAttempts' >= MaxAttempts)
  <2>1. Again(PartialId) /\ sessionRetried' = sessionRetried /\ refused' = refused
    BY <1>3 DEF RetryIdle
  <2>2. PartialId \in {own, session} /\ parsed.id \in {own, NoId}
    BY DEF PartialId, CurrentAttempt, OwnLines
  <2>3. Len(starts) \in Nat /\ PartialId \in 0 .. Len(starts) + 1 /\ PartialId \in Ids \cup {NoId} /\ PartialId \notin refused
    BY <2>2 DEF CurrentAttempt, KnownIds, TypeOK
  <2>4. refused' \subseteq 1 .. Len(starts) + 1 /\ refused' \subseteq Ids
    BY <2>1 DEF KnownIds, TypeOK
  <2> QED
    BY <1>1, <1>3, <2>1, <2>3, <2>4, AgainKeeps DEF TypeOK
<1> QED
  BY <1>2, <1>3

\* The ends of an attempt.
LEMMA WaitKeeps ==
  ASSUME RetryInv, StartFails \/ WaitIdle \/ WaitRefused \/ WaitFails \/ WaitSucceeds
  PROVE  RetryInv'
<1>i. idleAttempts \in 0 .. MaxAttempts
  BY DEF RetryInv, TypeOK
<1>1. CASE StartFails
  <2>1. proc \in {"none"} \cup Dead /\ pc = "starting" /\ idleAttempts' = idleAttempts
    BY <1>1 DEF StartFails, RetryInv, NothingRuns
  <2>2. Finish("failed", NoId) \/ Finish("canceled", NoId)
    BY <1>1 DEF StartFails
  <2>3. UNCHANGED <<provider, ctxDone, reason, procVars, scanVars, starts>>
    BY <1>1 DEF StartFails
  <2> QED
    BY <1>i, <2>1, <2>2, <2>3, FinishKeeps
<1>2. CASE WaitIdle
  BY <1>2, RetryIdleKeeps DEF WaitIdle
<1>3. CASE WaitRefused
  BY <1>3, RetryExpiredKeeps DEF WaitRefused
<1>4. CASE WaitFails
  <2>1. proc \in Dead /\ pc = "waiting" /\ UNCHANGED <<provider, ctxDone, reason, procVars, scanVars, starts>>
    BY <1>4 DEF WaitFails
  <2>2. CASE RetryExpired
    BY <2>1, <2>2, RetryExpiredKeeps
  <2>3. CASE (\E s \in {"canceled", "failed", "message"} : Finish(s, NoId)) /\ idleAttempts' = idleAttempts
    BY <1>i, <2>1, <2>3, FinishKeeps
  <2>4. RetryExpired \/ ((\E s \in {"canceled", "failed", "message"} : Finish(s, NoId)) /\ idleAttempts' = idleAttempts)
    BY <1>4 DEF WaitFails
  <2> QED
    BY <2>2, <2>3, <2>4
<1>5. CASE WaitSucceeds
  <2>1. /\ proc = "ok" /\ pc = "waiting" /\ idleAttempts' = idleAttempts /\ (runCancelled => ctxDone)
        /\ (~runCancelled => ~Readable)
    BY <1>5 DEF WaitSucceeds, RetryInv, NothingRuns, ReadToItsEnd, Readable
  <2>2. UNCHANGED <<provider, ctxDone, reason, procVars, scanVars, starts>>
    BY <1>5 DEF WaitSucceeds
  <2>3. parsed.id \in {NoId, own} /\ parsed.id \in Ids \cup {NoId}
    BY <2>1 DEF RetryInv, CurrentAttempt, OwnLines, TypeOK
  <2>4. Finish("message", NoId) \/ Finish("ok", parsed.id)
    BY <1>5 DEF WaitSucceeds
  <2> QED
    BY <1>i, <2>1, <2>2, <2>3, <2>4, FinishKeeps
<1> QED
  BY <1>1, <1>2, <1>3, <1>4, <1>5

\* Every step keeps the invariant.
LEMMA RetryStep == RetryInv /\ [Next]_vars => RetryInv'
<1> SUFFICES ASSUME RetryInv, [Next]_vars PROVE RetryInv'
  OBVIOUS
<1>1. CASE UNCHANGED vars
  <2>1. TypeOK' /\ Attempts' /\ KnownIds'
    BY <1>1 DEF vars, RetryInv, TypeOK, Attempts, KnownIds
  <2>2. CurrentAttempt' /\ NothingRuns' /\ ReadToItsEnd' /\ AnswerIsWhole'
    BY <1>1 DEF vars, RetryInv, CurrentAttempt, OwnLines, NothingRuns, ReadToItsEnd, Readable, AnswerIsWhole
  <2> QED
    BY <2>1, <2>2 DEF RetryInv
<1> QED
  BY <1>1, ProcessKeeps, ScanKeeps, StartKeeps, ParseKeeps, WaitKeeps DEF Next, RunOnce

-----------------------------------------------------------------------------
\* Every reachable state is type correct; in particular the ids stay in a set that
\* only max_retries bounds, because so is the number of attempts.
THEOREM TypeCorrect == Spec => []TypeOK
<1>1. RetryInv => TypeOK
  BY DEF RetryInv
<1> QED
  BY <1>1, RetryInit, RetryStep, PTL DEF Spec

\* No attempt is started on an id that the CLI would not resume.
THEOREM RefusedStaysRefused == Spec => []NeverResumesRefused
<1>1. RetryInv => NeverResumesRefused
  BY DEF RetryInv, KnownIds, NeverResumesRefused
<1> QED
  BY <1>1, RetryInit, RetryStep, PTL DEF Spec

\* An answer comes whole from the last attempt.
THEOREM AnswersAreWhole == Spec => []AnswerIsWhole
<1>1. RetryInv => AnswerIsWhole
  BY DEF RetryInv
<1> QED
  BY <1>1, RetryInit, RetryStep, PTL DEF Spec

\* The next attempt starts, and the call returns, only when the subprocess of the
\* attempt before has been reaped.
THEOREM AttemptsDoNotOverlap == Spec => NoOverlappingAttempts
<1>1. RetryInv /\ [Next]_vars => [starts' # starts \/ outcome' # outcome => proc \in {"none"} \cup Dead]_vars
  <2> SUFFICES ASSUME RetryInv, Next, starts' # starts \/ outcome' # outcome
               PROVE  proc \in {"none"} \cup Dead
    OBVIOUS
  <2>1. CASE StartFails \/ Start
    BY <2>1 DEF StartFails, Start, RetryInv, NothingRuns
  <2>2. CASE WaitIdle \/ WaitRefused \/ WaitFails \/ WaitSucceeds
    BY <2>2 DEF WaitIdle, WaitRefused, WaitFails, WaitSucceeds
  <2>3. CASE Parse \/ Check \/ Scan \/ PrintLine \/ CloseOutput \/ Exit \/ Kill \/ Stop
    BY <2>3 DEF Parse, Check, Scan, Forward, Drain, IdleFires, ReaderEnds, ScanFails, ReaderCloses,
       PrintLine, CloseOutput, Exit, Kill, Stop, histVars
  <2> QED
    BY <2>1, <2>2, <2>3 DEF Next, RunOnce
<1> QED
  BY <1>1, RetryInit, RetryStep, PTL DEF Spec, NoOverlappingAttempts
=============================================================================
