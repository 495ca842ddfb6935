---------------------------- MODULE MCInspection ----------------------------
(***************************************************************************)
(* Instances of Inspection alone for TLC.                                  *)
(***************************************************************************)
EXTENDS Inspection
=============================================================================
