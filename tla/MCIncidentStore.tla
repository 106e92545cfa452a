-------------------------- MODULE MCIncidentStore ---------------------------
(* Instances of IncidentStore for TLC.                                     *)
EXTENDS IncidentStore

MCKeys == {"key1", "key2"}
MCFingerprints == {"", "webui", "platform"}
=============================================================================
