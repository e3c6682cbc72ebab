SPECIFICATION FairSpec
CONSTANTS
  j1 = j1
  j2 = j2
  c1 = c1
  Jobs <- MCJobs
  Commands <- MCCommands
  Schedules <- MCSchedules
  NoJob = NoJob
  NoCopy = NoCopy
CHECK_DEADLOCK FALSE
INVARIANTS
  TypeOK
  AtMostOnce
  NextRunAccounted
PROPERTIES
  ScheduledJobsRun
