----------------------------- MODULE MCWatchdog -----------------------------
EXTENDS Watchdog, TLC

(* The second tenant's dead-letter check; the first has chain alerts only. *)
MCCheckTenant == <<2>>
MCDeadLetterChecks == {1}
=============================================================================
