-------------------------- MODULE MCSchedulerLock --------------------------
(* TLC instances of SchedulerLock.                                         *)
EXTENDS SchedulerLock

CONSTANTS s1, s2, s3

ThreeSessions == {s1, s2, s3}
=============================================================================
