-------------------------- MODULE MCRestartPolicy --------------------------
(* A small instance of RestartPolicy for TLC. *)
EXTENDS RestartPolicy
=============================================================================
