---------------------------- MODULE MCSupervisor ----------------------------
(* Small instances of Supervisor for TLC. *)
EXTENDS Supervisor, TLC

TwoPerTopic == [t \in Topic |-> 2]
=============================================================================
