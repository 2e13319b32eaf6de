--------------------------- MODULE MCSourceFetch ---------------------------
(* A small instance of SourceFetch for TLC. *)
EXTENDS SourceFetch, TLC

CONSTANTS f, g

Tar(body, entries, marker, digest) ==
  [body |-> body, entries |-> entries, marker |-> marker, digest |-> digest,
   reachable |-> TRUE]
File(n, k) == [name |-> n, size |-> k]

(* With caps of 1, 1, 2 and 5: small, exactly at every cap, exactly at the *)
(* stream's without an end marker, beyond one cap each, and unusable for   *)
(* another reason.                                                         *)
Small == Tar(1, <<File("m", 1)>>, 1, "declared")
Exact == Tar(1, <<File("m", 1), File("n", 1)>>, 1, "declared")
Unmarked == Tar(1, <<File("m", 1), File("n", 1), File(Dropped, 0)>>, 0, "declared")
Unusable ==
  { [Small EXCEPT !.body = 2], Tar(1, <<File("m", 2)>>, 1, "declared"),
    Tar(1, <<File("m", 1), File("n", 1), File("o", 1)>>, 0, "declared"),
    Tar(1, <<File(Dropped, 3), File("m", 1)>>, 0, "declared"),
    Tar(1, <<File("m", 1), File("m", 1)>>, 1, "declared"),
    Tar(1, <<File(Dropped, 1)>>, 1, "declared"),
    [Small EXCEPT !.digest = "malformed"], [Small EXCEPT !.reachable = FALSE] }

FirstAnyThenGood ==
  << Unusable \cup {Small, [Small EXCEPT !.digest = "absent"]}, {Exact, Unmarked} >>
=============================================================================
