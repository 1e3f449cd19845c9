---------------------------- MODULE MCFileCFleet ----------------------------
(***************************************************************************)
(* Two agencies, one of them with a verified archive, one equivalent       *)
(* request and two attempts: the smallest fleet in which a shard is left   *)
(* by every way out and another follows it.                                *)
(***************************************************************************)
EXTENDS FileCFleet
=============================================================================
