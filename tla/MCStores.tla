---------------------------- MODULE MCStores --------------------------------
(* Small instances of both stores for TLC. *)
EXTENDS S3Store, TLC

CONSTANTS a, b, c
=============================================================================
