---------------------------- MODULE HealthAnswer ----------------------------
(***************************************************************************)
(* What a Hermes gateway answers to a health check: HealthResult of        *)
(* src/watchdog/hermes.py, and the HealthProbe of src/watchdog/state.py    *)
(* that wraps it.                                                          *)
(***************************************************************************)
CONSTANTS
  None,      \* a missing value (Python's None)
  Platforms  \* names of messaging platforms a gateway reports

(* A health answer; None stands for a HealthProbe that was not reachable.  *)
(* down is the set of platforms whose state is not "connected".            *)
HealthResult ==
  [status_ok : BOOLEAN, gateway_running : BOOLEAN, down : SUBSET Platforms]

Healthy(h) == h.status_ok /\ h.gateway_running
=============================================================================
