---------------------------- MODULE MCSupervisor ----------------------------
(* Supervisor with two sessions, the runner's default, and two signals: one *)
(* that is handled and one that meets the teardown.                        *)
EXTENDS Supervisor
=============================================================================
