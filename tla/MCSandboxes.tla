---------------------------- MODULE MCSandboxes ----------------------------
(***************************************************************************)
(* Sandboxes on a small host: its constants are numbers, given in the cfg. *)
(***************************************************************************)
EXTENDS Sandboxes
=============================================================================
