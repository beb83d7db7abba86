----------------------------- MODULE MCWatchdog -----------------------------
(* Watchdog on a small instance: a tick stands for half of the timeout, so *)
(* the hold-off is three timeouts long as in the code.                     *)
EXTENDS Watchdog
=============================================================================
