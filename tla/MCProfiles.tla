----------------------------- MODULE MCProfiles -----------------------------
(* Two commands, two profiles with two fields, for TLC.                    *)
EXTENDS Profiles, TLC

CONSTANTS ttl, out, bad

BadTtl == (ttl :> {bad}) @@ (out :> {})
Interchangeable == Permutations(Commands) \cup Permutations(Names)
=============================================================================
