-------------------------- MODULE CronServiceProofs --------------------------
(***************************************************************************)
(* Proofs about CronService for any set of jobs, any schedules and any     *)
(* number of commands.                                                     *)
(***************************************************************************)
EXTENDS CronService, TLAPS

(* Where a one-time job can be: it is due only after its time and before its *)
(* run, and once its time has gone by nothing gives it a next run again.     *)
OnceInv ==
  \A j \in Jobs : OneTime(j) =>
    /\ next[j] = "now" => j \in passed
    /\ next[j] # "none" => runs[j] = 0 /\ j \notin due
    /\ j \in due => j \in passed /\ runs[j] = 0
    /\ runs[j] # 0 => j \in passed /\ runs[j] = 1

(***************************************************************************)
(* Type correctness.  Lists are written by two kinds of processes, and every *)
(* list that any of them reads or writes is a list of known states.          *)
(***************************************************************************)
LEMMA ListUpdate ==
  ASSUME NEW list \in Lists, NEW j \in Jobs, NEW entry \in {"absent", "on", "off"}
  PROVE  [list EXCEPT ![j] = entry] \in Lists
BY DEF Lists

LEMMA NextRunType ==
  ASSUME NEW j \in Jobs PROVE ComputeNextRun(j) \in {"none", "later"}
BY DEF ComputeNextRun

LEMMA TypeInit == Init => TypeOK
BY DEF Init, TypeOK, Nothing, NoRuns, Lists

\* What a command does to the file and its own copy, whichever command it is.
LEMMA CommandType ==
  ASSUME TypeOK, NEW c \in Commands, Command(c)
  PROVE  TypeOK' /\ UNCHANGED <<kind, gvars, passed, runs>>
<1> USE DEF TypeOK, Done, gvars
<1>1. CASE ReadFile(c)
  BY <1>1 DEF ReadFile
<1>2. ASSUME NEW j \in Jobs, AddJob(c, j) PROVE TypeOK' /\ UNCHANGED <<kind, gvars, passed, runs>>
  <2>1. copy[c] \in Lists
    BY <1>2 DEF AddJob
  <2>2. [copy[c] EXCEPT ![j] = "on"] \in Lists
    <3>1. "on" \in {"absent", "on", "off"}
      BY <1>2
    <3> HIDE DEF TypeOK, Done, gvars
    <3> QED
      BY <2>1, <3>1, ListUpdate
  <2>3. file' \in {file, [copy[c] EXCEPT ![j] = "on"]}
    <3> HIDE DEF TypeOK, Done, gvars
    <3> QED
      BY <1>2 DEF AddJob, Save
  <2>4. file' \in Lists
    BY <2>2, <2>3
  <2> QED
    BY <1>2, <2>4 DEF AddJob
<1>3. ASSUME NEW j \in Jobs, RemoveJob(c, j) PROVE TypeOK' /\ UNCHANGED <<kind, gvars, passed, runs>>
  <2>1. copy[c] \in Lists
    BY <1>3 DEF RemoveJob
  <2>2. [copy[c] EXCEPT ![j] = "absent"] \in Lists
    <3>1. "absent" \in {"absent", "on", "off"}
      BY <1>3
    <3> HIDE DEF TypeOK, Done, gvars
    <3> QED
      BY <2>1, <3>1, ListUpdate
  <2>3. file' \in {file, [copy[c] EXCEPT ![j] = "absent"]}
    <3> HIDE DEF TypeOK, Done, gvars
    <3> QED
      BY <1>3 DEF RemoveJob, Save
  <2>4. file' \in Lists
    BY <2>2, <2>3
  <2> QED
    BY <1>3, <2>4 DEF RemoveJob
<1>4. ASSUME NEW j \in Jobs, NEW enabled \in {"on", "off"}, EnableJob(c, j, enabled)
      PROVE  TypeOK' /\ UNCHANGED <<kind, gvars, passed, runs>>
  <2>1. copy[c] \in Lists
    BY <1>4 DEF EnableJob
  <2>2. [copy[c] EXCEPT ![j] = enabled] \in Lists
    <3>1. enabled \in {"absent", "on", "off"}
      BY <1>4
    <3> HIDE DEF TypeOK, Done, gvars
    <3> QED
      BY <2>1, <3>1, ListUpdate
  <2>3. file' \in {file, [copy[c] EXCEPT ![j] = enabled]}
    <3> HIDE DEF TypeOK, Done, gvars
    <3> QED
      BY <1>4 DEF EnableJob, Save
  <2>4. file' \in Lists
    BY <2>2, <2>3
  <2> QED
    BY <1>4, <2>4 DEF EnableJob
<1>5. CASE NoChange(c)
  BY <1>5 DEF NoChange
<1> QED
  BY <1>1, <1>2, <1>3, <1>4, <1>5 DEF Command

LEMMA TypeStep == TypeOK /\ [Next]_vars => TypeOK'
<1> SUFFICES ASSUME TypeOK, [Next]_vars PROVE TypeOK'
  OBVIOUS
<1> USE DEF TypeOK
<1>1. CASE Start
  BY <1>1, NextRunType DEF Start, Lists
<1>2. CASE Stop
  BY <1>2 DEF Stop
<1>3. CASE Exit
  BY <1>3 DEF Exit, Nothing, NoRuns, Lists
<1>4. CASE Tick
  BY <1>4 DEF Tick, Due, Save
<1>5. ASSUME NEW j \in Jobs, Execute(j) PROVE TypeOK'
  BY <1>5 DEF Execute
<1>6. CASE Finish
  <2>1. current \in Jobs
    BY <1>6 DEF Finish
  <2>2. mem' \in Lists
    BY <1>6, <2>1 DEF Finish, Lists
  <2>3. next' \in [Jobs -> {"none", "later", "now"}]
    BY <1>6, <2>1, NextRunType DEF Finish
  <2> QED
    BY <1>6, <2>2, <2>3 DEF Finish, Save
<1>7. ASSUME NEW j \in Jobs, TimePasses(j) PROVE TypeOK'
  BY <1>7 DEF TimePasses
<1>8. ASSUME NEW c \in Commands, Command(c) PROVE TypeOK'
  BY <1>8, CommandType
<1>9. CASE UNCHANGED vars
  BY <1>9 DEF vars, gvars
<1> QED
  BY <1>1, <1>2, <1>3, <1>4, <1>5, <1>6, <1>7, <1>8, <1>9 DEF Next, Service

\* Every value stays in its range, in jobs.json too, whoever wrote it last.
THEOREM TypeCorrect == Spec => []TypeOK
BY TypeInit, TypeStep, PTL DEF Spec

(***************************************************************************)
(* A one-time job runs at most once.                                       *)
(***************************************************************************)
LEMMA OnceStep == TypeOK /\ OnceInv /\ [Next]_vars => OnceInv'
<1> SUFFICES ASSUME TypeOK, OnceInv, [Next]_vars PROVE OnceInv'
  OBVIOUS
<1> USE DEF TypeOK, OnceInv, OneTime
\* Only jobs whose time is to come get a next run, so none that has run.
<1>1. CASE Start
  <2>1. \A j \in Jobs : OneTime(j) =>
          /\ next'[j] # "now"
          /\ next'[j] # "none" => j \notin passed
    BY <1>1 DEF Start, ComputeNextRun
  <2> QED
    BY <1>1, <2>1 DEF Start
<1>2. CASE Stop
  BY <1>2 DEF Stop
<1>3. CASE Exit
  BY <1>3 DEF Exit, NoRuns
\* The jobs collected lose their next run in the same step.
<1>4. CASE Tick
  BY <1>4 DEF Tick, Due, Idle
<1>5. ASSUME NEW j \in Jobs, Execute(j) PROVE OnceInv'
  BY <1>5 DEF Execute
<1>6. CASE Finish
  BY <1>6 DEF Finish
<1>7. ASSUME NEW j \in Jobs, TimePasses(j) PROVE OnceInv'
  BY <1>7 DEF TimePasses
<1>8. ASSUME NEW c \in Commands, Command(c) PROVE OnceInv'
  BY <1>8, CommandType DEF gvars
<1>9. CASE UNCHANGED vars
  BY <1>9 DEF vars, gvars
<1> QED
  BY <1>1, <1>2, <1>3, <1>4, <1>5, <1>6, <1>7, <1>8, <1>9 DEF Next, Service

\* However often the gateway dies and starts again, and whatever lists the cron
\* commands write back, no one-time job is handed to its handler twice.
THEOREM RunsAtMostOnce == Spec => []AtMostOnce
<1>1. Init => OnceInv
  BY DEF Init, OnceInv, NoRuns
<1>2. TypeOK /\ OnceInv => AtMostOnce
  BY DEF TypeOK, OnceInv, AtMostOnce
<1> QED
  BY <1>1, <1>2, OnceStep, TypeInit, TypeStep, PTL DEF Spec

(***************************************************************************)
(* No recurring job is forgotten.                                          *)
(***************************************************************************)
LEMMA AccountedStep == TypeOK /\ NextRunAccounted /\ [Next]_vars => NextRunAccounted'
<1> SUFFICES ASSUME TypeOK, NextRunAccounted, [Next]_vars PROVE NextRunAccounted'
  OBVIOUS
<1> USE DEF TypeOK, NextRunAccounted
<1>1. CASE Start
  BY <1>1 DEF Start, ComputeNextRun
<1>2. CASE Stop
  BY <1>2 DEF Stop
<1>3. CASE Exit
  BY <1>3 DEF Exit
\* A job that loses its next run is due.
<1>4. CASE Tick
  BY <1>4 DEF Tick, Due, Idle
\* A job that leaves the due list is the current one; there was no other.
<1>5. ASSUME NEW j \in Jobs, Execute(j) PROVE NextRunAccounted'
  BY <1>5, CronAssumption DEF Execute
\* The current job, and only it, gets a next run.
<1>6. CASE Finish
  BY <1>6 DEF Finish, ComputeNextRun, OneTime
<1>7. ASSUME NEW j \in Jobs, TimePasses(j) PROVE NextRunAccounted'
  BY <1>7 DEF TimePasses
<1>8. ASSUME NEW c \in Commands, Command(c) PROVE NextRunAccounted'
  BY <1>8, CommandType DEF gvars
<1>9. CASE UNCHANGED vars
  BY <1>9 DEF vars, gvars
<1> QED
  BY <1>1, <1>2, <1>3, <1>4, <1>5, <1>6, <1>7, <1>8, <1>9 DEF Next, Service

\* While the service runs, an enabled recurring job without a next run is in the
\* round of executions that will give it one.
THEOREM RecurringAccounted == Spec => []NextRunAccounted
<1>1. Init => NextRunAccounted
  BY DEF Init, NextRunAccounted
<1> QED
  BY <1>1, AccountedStep, TypeInit, TypeStep, PTL DEF Spec
=============================================================================
