----------------------------- MODULE MCSending -----------------------------
(* A server with a few files and environments to start with, two files to  *)
(* send, and a size that takes a digit more than another, for TLC.         *)
EXTENDS Sending, TLC

Word(n) == [name |-> "word", count |-> n]
Digit(n) == [name |-> "digits", count |-> n]
Literal(text) == [name |-> "literal", text |-> text]
SomeWords == { <<"a", "b">>, <<"a", "-", "b">>, <<"b">> }
Alphabet == [a \in {"digits", "Alnum"} |-> IF a = "digits" THEN {"0", "1"} ELSE {"0", "1", "a", "b"}]

Setting ==
  [min_ttl |-> 4, max_ttl |-> 12, default_ttl |-> 8, ttl_presets |-> {6},
   max_payload_bytes |-> 50, max_files |-> 2, max_manifest_bytes |-> 18, pbkdf2_iterations |-> 10,
   min_bits |-> 2, template |-> <<Word(Absent), Digit(2)>>,
   mode |-> "memory", path |-> Unset, max_messages |-> 2, max_bytes |-> 60,
   max_hash_memory_bytes |-> 4, hash_bytes |-> 2, max_concurrent_hashes |-> Unset,
   max_failed_attempts |-> 3, max_queued_hashes |-> 8,
   window |-> 4, create_per_window |-> 1, retrieve_per_window |-> 1, max_tracked_keys |-> 4,
   max_concurrent_uploads |-> 1]

Nowhere == [k \in {} |-> 0]

\* Each one is accepted with some environment, or is one that a start refuses.
Files ==
  { Nowhere,
    [min_ttl |-> 8, ttl_presets |-> {}, mode |-> "sqlite", path |-> "file"],
    [max_payload_bytes |-> 40, max_concurrent_hashes |-> 3],
    [max_files |-> 3], [min_ttl |-> 14], [ttl_presets |-> {5}], [mode |-> "sqlite"],
    [max_messages |-> 0], [template |-> <<Word(2), Word(Absent)>>], [template |-> <<Digit(1)>>], [unknown |-> 1] }
Environment == { Nowhere, [max_files |-> 1, pbkdf2_iterations |-> 9], [default_ttl |-> 4],
                 [template |-> <<Literal(<<"-">>), Word(2), [name |-> "Alnum", count |-> 1]>>],
                 [template |-> <<Literal(<<".">>)>>], [template |-> <<Digit(Absent)>>],

                 [hash_bytes |-> 5], [max_bytes |-> 45] }

Units == [u \in {"s", "m"} |-> IF u = "s" THEN 1 ELSE 3]
Ttls == {None} \cup [value : {0, 2, 5, 9}, unit : {"s"}] \cup [value : {1, 3}, unit : {"m"}]
        \cup [value : {1}, unit : {"weeks"}]
Names == [f \in FileIds |-> IF f = "f" THEN 2 ELSE 3]
Mimes == [f \in FileIds |-> 1]
=============================================================================
