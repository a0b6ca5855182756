--------------------------- MODULE MCSqliteStore ---------------------------
(* Two servers, two paths and a symlink to the first, for TLC.            *)
EXTENDS SqliteStore, TLC

CONSTANTS p1, p2, link

Names1 == {p1, p2, link}
Symlinks == (p1 :> p1) @@ (p2 :> p2) @@ (link :> p1)
Interchangeable == Permutations(Servers) \cup Permutations(Files) \cup Permutations(Peppers)
=============================================================================
