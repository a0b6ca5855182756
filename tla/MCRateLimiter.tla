---------------------------- MODULE MCRateLimiter ----------------------------
(* The limiter for TLC: clients that come directly or through proxies, with *)
(* a header of their own or without, and more of them than are tracked.     *)
EXTENDS RateLimiter

From(bucket, client, proxies, header) ==
  [bucket |-> bucket, client |-> client, proxies |-> proxies, header |-> header]
Sources ==
  { From("create", "a", <<>>, <<>>), From("create", "a", <<"p", "r">>, <<"b">>),
    From("create", "b", <<>>, <<"a">>), From("create", "c", <<"p">>, Unusable),
    From("retrieve", "b", <<"p">>, <<"a", "r">>) }
Limits == [b \in {"create", "retrieve"} |-> IF b = "create" THEN 1 ELSE 2]
Interchangeable == Permutations(Requests)
=============================================================================
