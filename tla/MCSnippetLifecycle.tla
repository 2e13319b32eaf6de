------------------------- MODULE MCSnippetLifecycle -------------------------
(* Small instances of SnippetLifecycle for TLC. *)
EXTENDS SnippetLifecycle, TLC

CONSTANTS a, b, c

=============================================================================
