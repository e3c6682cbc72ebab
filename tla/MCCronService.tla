---------------------------- MODULE MCCronService ----------------------------
(* A job with a recurring or an invalid schedule, a one-time job that is deleted *)
(* or disabled after its run, and one cron command at a time.                    *)
EXTENDS CronService, TLC

CONSTANTS j1, j2, c1

MCJobs == {j1, j2}
MCCommands == {c1}
MCSchedules == (j1 :> {"recurring", "invalid"}) @@ (j2 :> {"at", "atKept"})
=============================================================================
