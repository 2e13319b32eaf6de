----------------------------- MODULE MCEvalGate -----------------------------
(* Small instances of EvalGate for TLC. *)
EXTENDS EvalGate, TLC

CONSTANTS e1, e2, e3, e4
=============================================================================
