------------------------------ MODULE MCBeats ------------------------------
(***************************************************************************)
(* Beats on a small instance: the watched chat alone, with both push rungs *)
(* and one fault of any kind.                                              *)
(***************************************************************************)
EXTENDS Beats
=============================================================================
