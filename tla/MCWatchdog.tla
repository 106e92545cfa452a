----------------------------- MODULE MCWatchdog -----------------------------
(* Instances of Watchdog for TLC.                                          *)
EXTENDS WatchdogInvariant

MCConditions == {"host_unreachable"}
=============================================================================
