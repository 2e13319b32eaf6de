----------------------------- MODULE MCCrdWatch -----------------------------
(* Small instances of CrdWatch for TLC. *)
EXTENDS CrdWatch, TLC

CONSTANT g
=============================================================================
