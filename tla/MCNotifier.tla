----------------------------- MODULE MCNotifier -----------------------------
(* Instances of Notifier for TLC.                                          *)
EXTENDS NotifierInvariant

MCConditions == {"host_unreachable", "webui_down"}
=============================================================================
