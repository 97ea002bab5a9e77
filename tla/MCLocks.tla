---------------------------- MODULE MCLocks ----------------------------
(* IPCLocks for TLC: the two threads of the program and all of its calls.  *)
EXTENDS IPCLocks
=========================================================================
