------------------------------ MODULE MCProcess ------------------------------
(* Small instances of Process for TLC. *)
EXTENDS Process, TLC

CONSTANT g

AllServers == <<"management", "jsonnet">>
AllServersShut == <<"jsonnet", "management">>
=============================================================================
