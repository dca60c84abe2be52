---------------------------- MODULE MCRetryTimer ----------------------------
(* RetryTimer for TLC: all constants are numbers, given in the .cfg.        *)
EXTENDS RetryTimer
=============================================================================
