---------------------------- MODULE MCReceiving ----------------------------
(* A page and a command line, two directories, and the names that make the *)
(* export policy work, for TLC.                                            *)
EXTENDS Receiving, TLC

C(s) == [i \in DOMAIN s |-> Char(s[i])]
Lowercase == [x \in {"A"} |-> "a"]
Widths == [x \in {"con"} |-> 3]

\* No files; two names that differ by case, and one that looks like a copy; a device; a name
\* of dots and spaces; two that are as long as a name may be.
Messages == {
  <<>>,
  << C(<<"a">>), C(<<"A">>), <<Char("a"), Mark(2)>> >>,
  << C(<<"con", ".", "/", " ">>) >>, << C(<<".", " ">>) >>,
  << C(<<"a", "a", "a", "a", "b", ".", "b">>), C(<<"A", "a", "a", "a", "b", ".", "b">>) >> }

Interchangeable == Permutations(Dirs)
=============================================================================
