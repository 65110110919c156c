-------------------------- MODULE MCCronScheduler --------------------------
(* Small instances of CronScheduler.                                        *)
EXTENDS CronScheduler, TLC

CONSTANTS i1, i2, i3, scan, gas

\* Job "scan" is registered twice, around a shutdown; job "gas" once.
TwoJobs == (i1 :> scan) @@ (i2 :> gas) @@ (i3 :> scan)
=============================================================================
