--------------------------- MODULE MCConsumerPins ---------------------------
(* Small instances of ConsumerPins for TLC. *)
EXTENDS ConsumerPins, TLC

CONSTANTS a, b
=============================================================================
