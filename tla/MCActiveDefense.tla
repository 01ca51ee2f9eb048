-------------------------- MODULE MCActiveDefense ---------------------------
(* All commands, each by itself, with a restart before, within or after it. *)
EXTENDS ActiveDefense

MCCommands == Command

=============================================================================
