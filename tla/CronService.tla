----------------------------- MODULE CronService -----------------------------
(***************************************************************************)
(* pkg/cron/service.go as the program runs it: one service inside the      *)
(* gateway, which loads jobs.json once and then keeps the job list in      *)
(* memory, and the `ectoclaw cron` commands, which are processes of their  *)
(* own that read the same file, change their copy and write it back.       *)
(*                                                                         *)
(* NextRunAtMS is modelled where it is read, in the gateway's memory: the  *)
(* service recomputes it for every enabled job when it loads the file, and *)
(* the commands only print it.                                             *)
(***************************************************************************)
EXTENDS Naturals

CONSTANTS
  Jobs,       \* job ids
  Commands,   \* processes that run an `ectoclaw cron` command
  Schedules,  \* [Jobs -> SUBSET Kinds]: the schedules a job may have
  NoJob,      \* no job is executing
  NoCopy      \* the command has not read the file

\* "at" jobs are deleted after their run, "atKept" jobs disabled; "invalid"
\* stands for a schedule that never fires (a cron expression that does not parse).
Kinds == {"recurring", "at", "atKept", "invalid"}

\* What a job list says of each job: no entry, Enabled, or not Enabled.
Lists == [Jobs -> {"absent", "on", "off"}]

ASSUME CronAssumption ==
  /\ NoJob \notin Jobs
  /\ NoCopy \notin Lists

VARIABLES
  kind,     \* the schedule of each job
  file,     \* the list in jobs.json
  gateway,  \* "down", "running", or "stopped": the process without a ticking service
  mem,      \* CronService.store.Jobs of the gateway
  next,     \* NextRunAtMS of the gateway's jobs: "none" (nil), "later", or "now" (<= now)
  due,      \* dueJobIDs not yet executed
  current,  \* the job whose handler is running
  passed,   \* "at" times that have gone by
  copy,     \* the list each command has read
  known,    \* ids that were generated (they are random and never come again)
  runs,     \* history: how often a job was handed to the handler (2 = more than once)
  added     \* history: jobs reported as added, and not as removed since

gvars == <<gateway, mem, next, due, current>>
vars == <<kind, file, gvars, passed, copy, known, runs, added>>

OneTime(j) == kind[j] \in {"at", "atKept"}

TypeOK ==
  /\ kind \in [Jobs -> Kinds]
  /\ file \in Lists
  /\ gateway \in {"down", "running", "stopped"}
  /\ mem \in Lists
  /\ next \in [Jobs -> {"none", "later", "now"}]
  /\ due \subseteq Jobs
  /\ current \in Jobs \cup {NoJob}
  /\ passed \subseteq Jobs
  /\ copy \in [Commands -> Lists \cup {NoCopy}]
  /\ known \subseteq Jobs
  /\ runs \in [Jobs -> 0 .. 2]
  /\ added \subseteq Jobs

Nothing == [j \in Jobs |-> "absent"]
NoRuns  == [j \in Jobs |-> "none"]

\* The file may hold jobs of earlier commands, and one-time jobs, which no
\* command creates: they are written by hand.
Init ==
  /\ kind \in [Jobs -> Kinds]
  /\ \A j \in Jobs : kind[j] \in Schedules[j]
  /\ file \in Lists
  /\ gateway = "down"
  /\ mem = Nothing
  /\ next = NoRuns
  /\ due = {}
  /\ current = NoJob
  /\ passed = {}
  /\ copy = [c \in Commands |-> NoCopy]
  /\ known = {j \in Jobs : file[j] # "absent" \/ OneTime(j)}
  /\ runs = [j \in Jobs |-> 0]
  /\ added = {}

-----------------------------------------------------------------------------
(* The service in the gateway *)

\* Faulty variant: the error of NextTickAfter is ignored, and its zero time is used.
ComputeNextRunZero(j) ==
  CASE kind[j] = "recurring" -> "later"
    [] kind[j] = "invalid"   -> "epoch"
    [] OTHER                 -> IF j \in passed THEN "none" ELSE "later"

\* Faulty variant: a one-time job whose time has gone by is due at once.
ComputeNextRunOverdue(j) ==
  CASE kind[j] = "recurring" -> "later"
    [] kind[j] = "invalid"   -> "none"
    [] OTHER                 -> IF j \in passed THEN "now" ELSE "later"

ComputeNextRun(j) ==
  CASE kind[j] = "recurring" -> "later"
    [] kind[j] = "invalid"   -> "none"
    [] OTHER                 -> IF j \in passed THEN "none" ELSE "later"

\* WriteFileAtomic writes the whole list, or fails and leaves the file alone.
Save(list) == file' \in {file, list}

\* loadStore, recomputeNextRuns, saveStoreUnsafe; without the save there is no service.
Start ==
  /\ gateway = "down"
  /\ mem' = file
  /\ next' = [j \in Jobs |-> IF file[j] = "on" THEN ComputeNextRun(j) ELSE "none"]
  /\ gateway' \in {"running", "stopped"}
  /\ UNCHANGED <<kind, file, due, current, passed, copy, known, runs, added>>

\* The time in NextRunAtMS is reached; an "at" time also while no gateway runs.
TimePasses(j) ==
  /\ next[j] = "later" \/ (OneTime(j) /\ j \notin passed)
  /\ next' = [next EXCEPT ![j] = IF @ = "later" THEN "now" ELSE @]
  /\ passed' = IF OneTime(j) THEN passed \cup {j} ELSE passed
  /\ UNCHANGED <<kind, file, gateway, mem, due, current, copy, known, runs, added>>

\* runLoop is between two ticks: it calls checkJobs and executes in one goroutine.
Idle == due = {} /\ current = NoJob

Due == {j \in Jobs : mem[j] = "on" /\ next[j] = "now"}

\* Faulty variant: checkJobs returns when the list cannot be saved.
TickOrReturn ==
  /\ gateway = "running"
  /\ Idle
  /\ next' = [j \in Jobs |-> IF j \in Due THEN "none" ELSE next[j]]
  /\ \/ due' = Due /\ file' = mem
     \/ due' = {} /\ file' = file
  /\ UNCHANGED <<kind, gateway, mem, current, passed, copy, known, runs, added>>

\* checkJobs: the due jobs lose their next run, the list is saved, and the jobs
\* are executed, saved or not.
Tick ==
  /\ gateway = "running"
  /\ Idle
  /\ due' = Due
  /\ next' = [j \in Jobs |-> IF j \in Due THEN "none" ELSE next[j]]
  /\ Save(mem)
  /\ UNCHANGED <<kind, gateway, mem, current, passed, copy, known, runs, added>>

\* executeJobByID calls the handler.  Stop does not end a round that has begun.
Execute(j) ==
  /\ j \in due
  /\ current = NoJob
  /\ due' = due \ {j}
  /\ current' = j
  /\ runs' = [runs EXCEPT ![j] = IF @ = 2 THEN 2 ELSE @ + 1]
  /\ UNCHANGED <<kind, file, gateway, mem, next, passed, copy, known, added>>

\* Faulty variant: a job whose handler failed is not scheduled again.
FinishRescheduledIfOk ==
  LET j == current IN
  /\ j # NoJob
  /\ current' = NoJob
  /\ mem' = [mem EXCEPT ![j] = CASE kind[j] = "at"     -> "absent"
                                 [] kind[j] = "atKept" -> "off"
                                 [] OTHER              -> @]
  /\ \E ok \in BOOLEAN :
       next' = [next EXCEPT ![j] = IF OneTime(j) \/ ~ok THEN "none" ELSE ComputeNextRun(j)]
  /\ Save(mem')
  /\ UNCHANGED <<kind, gateway, due, passed, copy, known, runs, added>>

\* The handler has returned, with or without an error: a one-time job is deleted
\* or disabled, any other gets its next run, and the list is saved.
Finish ==
  LET j == current IN
  /\ j # NoJob
  /\ current' = NoJob
  /\ mem' = [mem EXCEPT ![j] = CASE kind[j] = "at"     -> "absent"
                                 [] kind[j] = "atKept" -> "off"
                                 [] OTHER              -> @]
  /\ next' = [next EXCEPT ![j] = IF OneTime(j) THEN "none" ELSE ComputeNextRun(j)]
  /\ Save(mem')
  /\ UNCHANGED <<kind, gateway, due, passed, copy, known, runs, added>>

Stop ==
  /\ gateway = "running"
  /\ gateway' = "stopped"
  /\ UNCHANGED <<kind, file, mem, next, due, current, passed, copy, known, runs, added>>

\* The process ends, in order or not, and its memory is lost.
Exit ==
  /\ gateway # "down"
  /\ gateway' = "down"
  /\ mem' = Nothing
  /\ next' = NoRuns
  /\ due' = {}
  /\ current' = NoJob
  /\ UNCHANGED <<kind, file, passed, copy, known, runs, added>>

-----------------------------------------------------------------------------
(* The commands.  Nothing locks the file between reading and writing it. *)

\* NewCronService in the command's process.
ReadFile(c) ==
  /\ copy[c] = NoCopy
  /\ copy' = [copy EXCEPT ![c] = file]
  /\ UNCHANGED <<kind, file, gvars, passed, known, runs, added>>

Done(c) ==
  /\ copy[c] # NoCopy
  /\ copy' = [copy EXCEPT ![c] = NoCopy]
  /\ UNCHANGED <<kind, gvars, passed, runs>>

\* add makes a new id, and reports success only after the file is written.
AddJob(c, j) ==
  /\ Done(c)
  /\ j \notin known
  /\ known' = known \cup {j}
  /\ Save([copy[c] EXCEPT ![j] = "on"])
  /\ added' = IF file'[j] = "on" THEN added \cup {j} ELSE added

\* remove reports success whether or not the file could be written.
RemoveJob(c, j) ==
  /\ Done(c)
  /\ copy[c][j] # "absent"
  /\ Save([copy[c] EXCEPT ![j] = "absent"])
  /\ added' = added \ {j}
  /\ UNCHANGED known

\* enable and disable.
EnableJob(c, j, enabled) ==
  /\ Done(c)
  /\ copy[c][j] # "absent"
  /\ Save([copy[c] EXCEPT ![j] = enabled])
  /\ UNCHANGED <<known, added>>

\* list, an id that is not in the copy, or a command that was interrupted.
NoChange(c) ==
  /\ Done(c)
  /\ UNCHANGED <<file, known, added>>

Command(c) ==
  \/ ReadFile(c)
  \/ \E j \in Jobs : AddJob(c, j) \/ RemoveJob(c, j)
  \/ \E j \in Jobs, enabled \in {"on", "off"} : EnableJob(c, j, enabled)
  \/ NoChange(c)

Service == Tick \/ (\E j \in Jobs : Execute(j)) \/ Finish

Next ==
  \/ Start \/ Stop \/ Exit
  \/ Service
  \/ \E j \in Jobs : TimePasses(j)
  \/ \E c \in Commands : Command(c)

Spec == Init /\ [][Next]_vars

\* Time passes, the ticker ticks and handlers return (they run under a ten-minute
\* context).  Nobody has to start, stop or command anything.
FairSpec ==
  /\ Spec
  /\ WF_vars(Service)
  /\ \A j \in Jobs : WF_vars(TimePasses(j))

-----------------------------------------------------------------------------
(* Properties *)

\* A one-time job is handed to its handler at most once, however often the
\* gateway dies between clearing NextRunAtMS, running the job, and saving that it
\* was removed, and although a command may write back a list that still has it.
AtMostOnce == \A j \in Jobs : OneTime(j) => runs[j] <= 1

\* "Reset next run for due jobs before unlocking to avoid duplicate execution":
\* from there to the end of executeJobByID only the local list of due ids knows
\* that the job has to be scheduled again.  No enabled recurring job may be left
\* with a nil NextRunAtMS and nobody to set it.
NextRunAccounted ==
  \A j \in Jobs :
    gateway = "running" /\ kind[j] = "recurring" /\ mem[j] = "on" /\ next[j] = "none"
      => j \in due \/ j = current

\* A job with a next run is executed while the service runs: neither a failed
\* save, nor a failing handler, nor a job that is always due before it starves it.
ScheduledJobsRun ==
  \A j \in Jobs :
    gateway = "running" /\ next[j] # "none" ~> current = j \/ gateway # "running"

\* "Added job" means that the job stays in jobs.json until a command removes it
\* (AddJob as cmd/ectoclaw/internal/cron/add.go and the cron skill present it).
AddedJobsStay == \A j \in added : file[j] # "absent"
=============================================================================
