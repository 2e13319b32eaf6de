--------------------------- MODULE MCTenantAccess ---------------------------
(* Small instances of TenantAccess for TLC. *)
EXTENDS TenantAccess, TLC

CONSTANTS s1, s2
=============================================================================
