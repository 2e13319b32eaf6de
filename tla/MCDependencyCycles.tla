------------------------- MODULE MCDependencyCycles -------------------------
(* Small instances of DependencyCycles for TLC. *)
EXTENDS DependencyCycles, TLC

CONSTANTS a, b, l

(* A plain source, a broken one, another snippet's artifact, a library. *)
SmallChoices ==
  {<<None, {}, TRUE>>, <<None, {}, FALSE>>, <<a, {}, TRUE>>, <<b, {}, TRUE>>,
   <<None, {l}, TRUE>>}
=============================================================================
