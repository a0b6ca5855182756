--------------------------- MODULE MCMemoryStore ---------------------------
(* The in-memory store for TLC: two blob sizes, one too big to fit twice.  *)
EXTENDS MemoryStore, TLC

CONSTANTS m1, m2, p1

OnePin == (m1 :> p1) @@ (m2 :> p1)
Uneven == (m1 :> 1) @@ (m2 :> 2)

\* Ids are only ever compared.
Interchangeable == Permutations(Ids)
=============================================================================
