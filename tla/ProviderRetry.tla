---------------------------- MODULE ProviderRetry ----------------------------
(***************************************************************************)
(* One call of Provider.Invoke (pkg/providers: retry.go, idle.go, and      *)
(* runOnce of claude_provider.go and codex_provider.go).  Each attempt     *)
(* starts the CLI as a subprocess, reads its output through two goroutines *)
(* with an idle timer, reaps it, and tells invokeWithRetry whether to try  *)
(* again.                                                                  *)
(*                                                                         *)
(* Concurrent with the call: the subprocess, the idle timer, and /stop,    *)
(* which cancels the context.                                              *)
(***************************************************************************)
EXTENDS Naturals, Sequences

CONSTANTS
  Retries,     \* bridge.max_retries
  MaxLines     \* bound: lines a subprocess prints that the code looks at

ASSUME RetryAssumption ==
  /\ Retries \in Nat
  /\ MaxLines \in Nat \ {0}

MaxAttempts == IF Retries < 1 THEN 1 ELSE Retries

\* Session ids.  The n-th subprocess may create the id n + 1.
NoId == 0
GivenId == 1
Ids == GivenId .. MaxAttempts + 2

Bodies == {"nothing", "answer", "error", "refused", "too long"}
Lines == [id : Ids \cup {NoId}, body : Bodies]
Blank == [id |-> NoId, body |-> "nothing"]

\* A line of more than scannerMaxTokenSize bytes.
TooLong == [id |-> NoId, body |-> "too long"]

\* How a subprocess can have ended.
Dead == {"ok", "failed", "killed"}

VARIABLES
  provider,        \* which CLI is configured
  ctxDone,         \* the caller's context is cancelled
  session,         \* req.SessionID
  idleAttempts, sessionRetried,
  pc,              \* where runOnce stands
  reason,          \* why the attempt ended: idle, refused, or by its exit
  proc,            \* the subprocess
  own,             \* the session id the subprocess works in
  printed,         \* how many lines it has printed
  pipe,            \* printed and not yet read
  reader,          \* the goroutine of scanWithIdleTimeout that owns the timer
  lines,           \* lineCh
  runCancelled,    \* the idle timer has called cancel()
  parsed,          \* what runOnce has understood so far
  starts,          \* history: the session id each subprocess was started with
  refused,         \* history: ids given up because the CLI would not resume them
  outcome          \* what Invoke returns

reqVars == <<session, idleAttempts, sessionRetried>>
procVars == <<proc, own, printed>>
scanVars == <<pipe, reader, lines, runCancelled, parsed>>
histVars == <<starts, refused>>
vars == <<provider, ctxDone, session, idleAttempts, sessionRetried, pc, reason, proc, own,
          printed, pipe, reader, lines, runCancelled, parsed, starts, refused, outcome>>

\* ok: the CLI's own result; empty: neither result nor error; canceled:
\* context.Canceled; hung: idle timeouts used up; message: ErrProviderMessage;
\* failed: any other error, such as "signal: killed".
Statuses == {"ok", "empty", "canceled", "hung", "message", "failed"}
Pending == [status |-> "pending", id |-> NoId]

TypeOK ==
  /\ provider \in {"claude", "codex"}
  /\ ctxDone \in BOOLEAN
  /\ session \in Ids \cup {NoId}
  /\ idleAttempts \in 0 .. MaxAttempts
  /\ sessionRetried \in BOOLEAN
  /\ pc \in {"starting", "scanning", "waiting", "returned"}
  /\ reason \in {"none", "idle", "refused", "exit"}
  /\ proc \in {"none", "running", "closing"} \cup Dead
  /\ own \in Ids \cup {NoId}
  /\ printed \in 0 .. MaxLines
  /\ pipe \in Seq(Lines) /\ lines \in Seq(Lines)
  /\ reader \in {"open", "draining", "closed"}
  /\ runCancelled \in BOOLEAN
  /\ parsed \in Lines
  /\ starts \in Seq(Ids \cup {NoId})
  /\ refused \subseteq Ids
  /\ outcome \in {Pending} \cup [status : Statuses, id : Ids \cup {NoId}]

Init ==
  /\ provider \in {"claude", "codex"}
  /\ ctxDone = FALSE
  /\ session \in {NoId, GivenId}
  /\ idleAttempts = 0
  /\ sessionRetried = FALSE
  /\ pc = "starting"
  /\ reason = "none"
  /\ proc = "none"
  /\ own = NoId
  /\ printed = 0
  /\ pipe = <<>>
  /\ reader = "closed"
  /\ lines = <<>>
  /\ runCancelled = FALSE
  /\ parsed = Blank
  /\ starts = <<>>
  /\ refused = {}
  /\ outcome = Pending

-----------------------------------------------------------------------------
Finish(status, id) ==
  /\ pc' = "returned"
  /\ outcome' = [status |-> status, id |-> id]
  /\ UNCHANGED <<session, sessionRetried, refused>>

\* The system prompt's temporary file or the subprocess cannot be created;
\* cmd.Start refuses to start on a cancelled context.
StartFails ==
  /\ pc = "starting"
  /\ Finish("failed", NoId) \/ (ctxDone /\ Finish("canceled", NoId))
  /\ UNCHANGED <<provider, ctxDone, idleAttempts, reason, procVars, scanVars, starts>>

\* Faulty variant: what the attempt before has understood is still there.
StartKeepingOutput ==
  /\ pc = "starting"
  /\ ~ctxDone
  /\ starts' = Append(starts, session)
  /\ proc' = "running"
  /\ own' \in {Len(starts) + 2} \cup (IF session = NoId THEN {} ELSE {session})
  /\ printed' = 0
  /\ pipe' = <<>> /\ lines' = <<>>
  /\ reader' = "open"
  /\ runCancelled' = FALSE
  /\ reason' = "none"
  /\ pc' = "scanning"
  /\ UNCHANGED <<provider, ctxDone, reqVars, parsed, refused, outcome>>

\* A resumed CLI keeps the id or continues under a new one.
Start ==
  /\ pc = "starting"
  /\ ~ctxDone
  /\ starts' = Append(starts, session)
  /\ proc' = "running"
  /\ own' \in {Len(starts) + 2} \cup (IF session = NoId THEN {} ELSE {session})
  /\ printed' = 0
  /\ pipe' = <<>> /\ lines' = <<>>
  /\ reader' = "open"
  /\ runCancelled' = FALSE
  /\ parsed' = Blank
  /\ reason' = "none"
  /\ pc' = "scanning"
  /\ UNCHANGED <<provider, ctxDone, reqVars, refused, outcome>>

-----------------------------------------------------------------------------
(* The subprocess *)

\* A claude result event carries the session id and the text or error together;
\* codex prints its thread id and its messages as events of their own.
Printable ==
  {TooLong} \cup
  IF provider = "claude"
  THEN [id : {own, NoId},
        body : {"nothing", "answer", "error"} \cup (IF session = NoId THEN {} ELSE {"refused"})]
  ELSE {[id |-> own, body |-> "nothing"], [id |-> NoId, body |-> "answer"]}

\* Whether the pipe still takes a line that nobody reads is left open.
PrintLine ==
  /\ proc = "running"
  /\ printed < MaxLines
  /\ printed' = printed + 1
  /\ \E line \in Printable : pipe' = Append(pipe, line)
  /\ UNCHANGED <<provider, ctxDone, reqVars, pc, reason, proc, own, reader, lines, runCancelled,
                 parsed, histVars, outcome>>

\* Its output reaches end of file a moment before it can be reaped.
CloseOutput ==
  /\ proc = "running"
  /\ proc' = "closing"
  /\ UNCHANGED <<provider, ctxDone, reqVars, pc, reason, own, printed, scanVars, histVars, outcome>>

Exit ==
  /\ proc = "closing"
  /\ proc' \in {"ok", "failed"}
  /\ UNCHANGED <<provider, ctxDone, reqVars, pc, reason, own, printed, scanVars, histVars, outcome>>

\* exec.CommandContext
Kill ==
  /\ proc \in {"running", "closing"}
  /\ ctxDone \/ runCancelled
  /\ proc' = "killed"
  /\ UNCHANGED <<provider, ctxDone, reqVars, pc, reason, own, printed, scanVars, histVars, outcome>>

Stop ==
  /\ ~ctxDone
  /\ ctxDone' = TRUE
  /\ UNCHANGED <<provider, reqVars, pc, reason, procVars, scanVars, histVars, outcome>>

-----------------------------------------------------------------------------
(* scanWithIdleTimeout *)

Readable == pipe # <<>> /\ Head(pipe) # TooLong

\* A line arrives in time and resets the timer.
Forward ==
  /\ reader = "open"
  /\ Readable
  /\ lines' = Append(lines, Head(pipe))
  /\ pipe' = Tail(pipe)
  /\ UNCHANGED <<provider, ctxDone, reqVars, pc, reason, procVars, reader, runCancelled, parsed,
                 histVars, outcome>>

\* After a timeout what is left in the pipe is read and thrown away.
Drain ==
  /\ reader = "draining"
  /\ Readable
  /\ pipe' = Tail(pipe)
  /\ UNCHANGED <<provider, ctxDone, reqVars, pc, reason, procVars, reader, lines, runCancelled,
                 parsed, histVars, outcome>>

\* Faulty variant: the timer is stopped by the first line and never reset.
IdleFiresBeforeOutput ==
  /\ reader = "open"
  /\ printed = 0
  /\ runCancelled' = TRUE
  /\ reader' = "draining"
  /\ UNCHANGED <<provider, ctxDone, reqVars, pc, reason, procVars, pipe, lines, parsed, histVars, outcome>>

\* The timer fires -- possibly with a line already in the pipe.
IdleFires ==
  /\ reader = "open"
  /\ runCancelled' = TRUE
  /\ reader' = "draining"
  /\ UNCHANGED <<provider, ctxDone, reqVars, pc, reason, procVars, pipe, lines, parsed, histVars, outcome>>

ReaderCloses ==
  /\ reader \in {"open", "draining"} /\ reader' = "closed"
  /\ UNCHANGED <<provider, ctxDone, reqVars, pc, reason, procVars, pipe, lines, runCancelled, parsed,
                 histVars, outcome>>

\* End of file: the reader closes lineCh.
ReaderEnds == proc # "running" /\ pipe = <<>> /\ ReaderCloses

\* scanner.Err(): a line that is too long ends the scan as if the output were at
\* its end.  The rest stays unread, and the timer is stopped, while the subprocess
\* may still run.
ScanFails == pipe # <<>> /\ Head(pipe) = TooLong /\ ReaderCloses

-----------------------------------------------------------------------------
(* runOnce after Start *)

\* An event without an id leaves the id alone.  A later claude result replaces
\* the text or error of an earlier one; a codex event need not carry any.
Parse ==
  /\ pc = "scanning"
  /\ lines # <<>>
  /\ lines' = Tail(lines)
  /\ parsed' = [id |-> IF Head(lines).id = NoId THEN parsed.id ELSE Head(lines).id,
                body |-> IF provider = "codex" /\ Head(lines).body = "nothing"
                         THEN parsed.body ELSE Head(lines).body]
  /\ UNCHANGED <<provider, ctxDone, reqVars, pc, reason, procVars, pipe, reader, runCancelled,
                 histVars, outcome>>

\* lineCh is closed and empty: runCtx.Err() != nil && ctx.Err() == nil, then
\* the "No conversation found" event.
Check ==
  /\ pc = "scanning"
  /\ reader = "closed"
  /\ lines = <<>>
  /\ reason' = IF runCancelled /\ ~ctxDone THEN "idle"
               ELSE IF parsed.body = "refused" THEN "refused" ELSE "exit"
  /\ pc' = "waiting"
  /\ UNCHANGED <<provider, ctxDone, reqVars, procVars, scanVars, histVars, outcome>>

-----------------------------------------------------------------------------
(* invokeWithRetry's decision *)

Again(id) ==
  /\ pc' = "starting"
  /\ session' = id
  /\ UNCHANGED outcome

\* Faulty variant: the retry resumes the same id.
RetryExpiredSameId ==
  /\ IF sessionRetried THEN Finish("empty", NoId)
     ELSE /\ Again(session)
          /\ sessionRetried' = TRUE
          /\ refused' = refused \cup ({session} \ {NoId})
  /\ UNCHANGED idleAttempts

\* A second expiry returns what runOnce returned: no result and no error.
RetryExpired ==
  /\ IF sessionRetried THEN Finish("empty", NoId)
     ELSE /\ Again(NoId)
          /\ sessionRetried' = TRUE
          /\ refused' = refused \cup ({session} \ {NoId})
  /\ UNCHANGED idleAttempts

PartialId == IF parsed.id # NoId THEN parsed.id ELSE session

\* Faulty variant: > for >=.
RetryIdleOnceMore ==
  /\ idleAttempts' = idleAttempts + 1
  /\ IF idleAttempts' > MaxAttempts THEN Finish("hung", NoId)
     ELSE Again(PartialId) /\ UNCHANGED <<sessionRetried, refused>>

RetryIdle ==
  /\ idleAttempts' = idleAttempts + 1
  /\ IF idleAttempts' >= MaxAttempts THEN Finish("hung", NoId)
     ELSE Again(PartialId) /\ UNCHANGED <<sessionRetried, refused>>

-----------------------------------------------------------------------------
\* Faulty variant: the killed subprocess of a timeout is not waited for.
WaitIdleNot ==
  /\ pc = "waiting" /\ reason = "idle"
  /\ RetryIdle
  /\ UNCHANGED <<provider, ctxDone, reason, procVars, scanVars, starts>>

\* cmd.Wait in the two early returns of runOnce: its result is discarded.
WaitIdle ==
  /\ pc = "waiting" /\ reason = "idle"
  /\ proc \in Dead
  /\ RetryIdle
  /\ UNCHANGED <<provider, ctxDone, reason, procVars, scanVars, starts>>

WaitRefused ==
  /\ pc = "waiting" /\ reason = "refused"
  /\ proc \in Dead
  /\ RetryExpired
  /\ UNCHANGED <<provider, ctxDone, reason, procVars, scanVars, starts>>

\* cmd.Wait reports an error: a bad exit, the kill, or -- after a good exit on a
\* cancelled context -- the context's own error.  claude with a session id
\* treats all of them as an expired session; codex passes stderr on.
WaitFails ==
  /\ pc = "waiting" /\ reason = "exit"
  /\ proc \in {"failed", "killed"} \/ (proc = "ok" /\ ctxDone)
  /\ IF provider = "claude" /\ session # NoId
     THEN RetryExpired
     ELSE /\ \/ Finish(IF proc = "ok" THEN "canceled" ELSE "failed", NoId)
             \/ provider = "codex" /\ Finish("message", NoId)
          /\ UNCHANGED idleAttempts
  /\ UNCHANGED <<provider, ctxDone, reason, procVars, scanVars, starts>>

WaitSucceeds ==
  /\ pc = "waiting" /\ reason = "exit"
  /\ proc = "ok"
  /\ Finish(IF parsed.body = "error" THEN "message" ELSE "ok",
            IF parsed.body = "error" THEN NoId ELSE parsed.id)
  /\ UNCHANGED <<provider, ctxDone, idleAttempts, reason, procVars, scanVars, starts>>

-----------------------------------------------------------------------------
RunOnce ==
  \/ StartFails \/ Start \/ Parse \/ Check
  \/ WaitIdle \/ WaitRefused \/ WaitFails \/ WaitSucceeds

Scan == Forward \/ Drain \/ IdleFires \/ ReaderEnds \/ ScanFails

Next == RunOnce \/ Scan \/ PrintLine \/ CloseOutput \/ Exit \/ Kill \/ Stop

Spec == Init /\ [][Next]_vars

\* Goroutines run, the timer fires if the reader stays open, a kill arrives and
\* closes the pipe, and a CLI that has closed its output exits (the idle timer does
\* not cover cmd.Wait).  It need neither print nor finish, and nobody has to send /stop.
Fairness ==
  WF_vars(RunOnce) /\ WF_vars(Scan) /\ WF_vars(IdleFires) /\ WF_vars(Kill) /\ WF_vars(Exit)

FairSpec == Spec /\ Fairness

-----------------------------------------------------------------------------
(* Properties *)

\* Two subprocesses of one call never run side by side: the next attempt is
\* started only when the one before has been reaped, and Invoke returns only
\* when none is left (the handler frees the session and /stop loses its target).
NoOverlappingAttempts ==
  [][starts' # starts \/ outcome' # outcome => proc \in {"none"} \cup Dead]_vars

\* An id the CLI would not resume is not resumed again in this call, not even
\* through the partial id that a timeout carries forward.
NeverResumesRefused == pc = "starting" => session \notin refused

\* What Invoke returns as a result comes whole from its last attempt: one that
\* exited well, ran in the returned session, was not cut off by the timer (unless
\* /stop came on top of the timeout), and whose output was read to the end, or to a
\* line that was too long.
AnswerIsWhole ==
  outcome.status = "ok" =>
    /\ proc = "ok"
    /\ outcome.id \in {NoId, own}
    /\ runCancelled => ctxDone
    /\ ~runCancelled => ~Readable

\* "the subprocess blocks writing to its stdout pipe while cmd.Wait() blocks waiting
\* for the subprocess to exit": nobody reads behind a line that was too long, and no
\* timer runs.  The limit of 4 MB makes this rare and does not exclude it.
StuckBehindLongLine ==
  /\ pc = "waiting" /\ reader = "closed" /\ proc = "running"
  /\ pipe # <<>> /\ Head(pipe) = TooLong
  /\ ~ctxDone /\ ~runCancelled

\* The idle timer turns a CLI that hangs, silently or in the middle of its
\* output, into an answer to the user: Invoke returns without any /stop.  The only
\* other end is a CLI that hangs after a line that was too long.
InvokeReturns == <>(outcome # Pending) \/ <>[]StuckBehindLongLine

\* handleMessage: "Silently discard context cancellation -- user already received
\* 'Stopped.' from /stop": a subprocess killed by /stop is reported as a
\* cancelled context and not as an error of its own.
StoppedRunsAreSilent ==
  outcome # Pending /\ proc = "killed" /\ ~runCancelled
    => outcome.status \in {"canceled", "empty"}
=============================================================================
