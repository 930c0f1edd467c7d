---------------------------- MODULE MCSleepLock ----------------------------
(***************************************************************************)
(* Instances of SleepLock for TLC: three threads, one of which may be      *)
(* killed anywhere, share a mutex and a semaphore.                         *)
(***************************************************************************)
EXTENDS SleepLock

CONSTANTS t1, t2, t3
=============================================================================
