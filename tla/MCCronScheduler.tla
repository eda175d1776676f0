-------------------------- MODULE MCCronScheduler --------------------------
(* TLC instances of CronScheduler: a one-shot task and a recurring one.    *)
EXTENDS CronScheduler, TLC

CONSTANTS o, r

JustO   == {o}
JustR   == {r}
None    == {}
Periods == (o :> 1) @@ (r :> 2)
=============================================================================
