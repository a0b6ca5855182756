----------------------------- MODULE RateLimiter -----------------------------
(***************************************************************************)
(* The fixed-window rate limiter (ratelimit.rs) under concurrent requests: *)
(* the middleware reads the clock first and takes the limiter's mutex      *)
(* later, so requests pass the mutex in another order than their clock     *)
(* readings.  One mutex guards the counters and the expiry queue, so a     *)
(* whole call of `allow` is one step.                                      *)
(* Bounds: MaxTime, one call per request, and MaxStale, the ticks that may *)
(* pass between a request's clock reading and its turn at the mutex.       *)
(***************************************************************************)
EXTENDS Integers, FiniteSets, SequencesExt

CONSTANTS Requests,
          Addresses,
          Trusted,     \* server.trusted_proxies
          Origins,     \* where requests come from: bucket, client, the trusted proxies they
                       \* pass in order (the client is the last who is not one), and what
                       \* the client sent as X-Forwarded-For
          Unusable,    \* as a header: repeated, malformed or too long
          Limit,       \* Limit[b]: the limit of bucket b
          Window,      \* rate_limit.window
          MaxKeys,     \* rate_limit.max_tracked_keys
          MaxStale, MaxTime

ASSUME LimiterAssumption ==
  /\ IsFiniteSet(Requests) /\ Trusted \subseteq Addresses
  /\ Unusable \notin Seq(Addresses)
  /\ \A o \in Origins : /\ o.bucket \in DOMAIN Limit
                       /\ o.client \in Addresses \ Trusted /\ o.proxies \in Seq(Trusted)
                       /\ o.header \in {Unusable} \cup Seq(Addresses)
  /\ \A b \in DOMAIN Limit : Limit[b] \in Nat \ {0}
  /\ Window \in Nat \ {0} /\ MaxKeys \in Nat \ {0}
  /\ MaxStale \in Nat /\ MaxTime \in Nat

VARIABLES clock,
          windows,   \* the HashMap: a function from tracked keys to their counters
          expiry,    \* the VecDeque of (window start, key)
          origin, at,  \* each request: where it comes from, and the time it read
          verdict,   \* new, then waiting for the mutex, then allowed or limited
          granted    \* history: the time at which an allowed request passed

vars == <<clock, windows, expiry, origin, at, verdict, granted>>

Verdicts == {"new", "waiting", "allowed", "limited"}

Init ==
  /\ clock = 0
  /\ windows = <<>> /\ expiry = <<>>
  /\ origin \in [Requests -> Origins]
  /\ at = [q \in Requests |-> 0]
  /\ verdict = [q \in Requests |-> "new"]
  /\ granted = [q \in Requests |-> 0]

Tracked == DOMAIN windows

\* The socket peer, and the header it sends: each proxy adds whom it got the request from.
Peer(o) == Last(<<o.client>> \o o.proxies)
Forwarded(o) ==
  IF o.proxies = <<>> \/ o.header = Unusable THEN o.header
  ELSE o.header \o Front(<<o.client>> \o o.proxies)

\* client_address: of a trusted peer the last entry that is not a trusted proxy.
ClientAddress(o) ==
  IF Peer(o) \notin Trusted \/ Forwarded(o) = Unusable THEN Peer(o)
  ELSE LET untrusted == {i \in DOMAIN Forwarded(o) : Forwarded(o)[i] \notin Trusted}
       IN IF untrusted = {} THEN Peer(o) ELSE Forwarded(o)[Max(untrusted)]

Key(q) == [bucket |-> origin[q].bucket, address |-> ClientAddress(origin[q])]

\* Instant::now(), an argument of the call.
ReadClock(q) ==
  /\ verdict[q] = "new"
  /\ at' = [at EXCEPT ![q] = clock]
  /\ verdict' = [verdict EXCEPT ![q] = "waiting"]
  /\ UNCHANGED <<clock, windows, expiry, origin, granted>>

Due(entry, now) == entry.started + Window <= now

\* How many entries the loop pops: it stops at the first that is not due.
Popped(now) == Max({n \in 0..Len(expiry) : \A i \in 1..n : Due(expiry[i], now)})

\* The counters that those entries stand for; an entry whose counter was restarted is skipped.
Ended(now) ==
  {k \in Tracked : \E i \in 1..Popped(now) :
     expiry[i].key = k /\ expiry[i].started = windows[k].started}

Live(now) == [k \in Tracked \ Ended(now) |-> windows[k]]
Kept(now) == SubSeq(expiry, Popped(now) + 1, Len(expiry))

Passes(q) ==
  /\ verdict' = [verdict EXCEPT ![q] = "allowed"]
  /\ granted' = [granted EXCEPT ![q] = clock]
Limited(q) ==
  /\ verdict' = [verdict EXCEPT ![q] = "limited"]
  /\ UNCHANGED granted

\* Lets one request too many pass in a window.
CountExistingOneMore(q, live) ==
  /\ expiry' = Kept(at[q])
  /\ IF live[Key(q)].count > Limit[Key(q).bucket]
     THEN windows' = live /\ Limited(q)
     ELSE windows' = [live EXCEPT ![Key(q)].count = @ + 1] /\ Passes(q)

\* A tracked key's turn: counted up to the limit.
CountExisting(q, live) ==
  /\ expiry' = Kept(at[q])
  /\ IF live[Key(q)].count >= Limit[Key(q).bucket]
     THEN windows' = live /\ Limited(q)
     ELSE windows' = [live EXCEPT ![Key(q)].count = @ + 1] /\ Passes(q)

\* Makes room for a new key by dropping a live counter.
CountNewEvicting(q, live) ==
  LET dropped == IF Cardinality(DOMAIN live) >= MaxKeys THEN {Kept(at[q])[1].key} ELSE {}
  IN  /\ windows' = [k \in (DOMAIN live \ dropped) \cup {Key(q)} |->
                       IF k = Key(q) THEN [started |-> at[q], count |-> 1] ELSE live[k]]
      /\ expiry' = Append(SelectSeq(Kept(at[q]), LAMBDA e : e.key \notin dropped),
                          [started |-> at[q], key |-> Key(q)])
      /\ Passes(q)

\* A counter that is never queued for expiry.
CountNewUnqueued(q, live) ==
  /\ expiry' = Kept(at[q])
  /\ IF Cardinality(DOMAIN live) >= MaxKeys
     THEN windows' = live /\ Limited(q)
     ELSE /\ windows' = [k \in DOMAIN live \cup {Key(q)} |->
                           IF k = Key(q) THEN [started |-> at[q], count |-> 1] ELSE live[k]]
          /\ Passes(q)

\* A new key's turn: refused at the cap, which evicts nobody; else it starts a window.
CountNew(q, live) ==
  IF Cardinality(DOMAIN live) >= MaxKeys
  THEN windows' = live /\ expiry' = Kept(at[q]) /\ Limited(q)
  ELSE /\ windows' = [k \in DOMAIN live \cup {Key(q)} |->
                        IF k = Key(q) THEN [started |-> at[q], count |-> 1] ELSE live[k]]
       /\ expiry' = Append(Kept(at[q]), [started |-> at[q], key |-> Key(q)])
       /\ Passes(q)

\* RateLimiter::allow, with the mutex.
Allow(q) ==
  /\ verdict[q] = "waiting"
  /\ LET live == Live(at[q])
     IN  \/ Key(q) \in DOMAIN live /\ CountExisting(q, live)
         \/ Key(q) \notin DOMAIN live /\ CountNew(q, live)
  /\ UNCHANGED <<clock, origin, at>>

Tick ==
  /\ clock < MaxTime
  /\ \A q \in Requests : verdict[q] = "waiting" => clock < at[q] + MaxStale
  /\ clock' = clock + 1
  /\ UNCHANGED <<windows, expiry, origin, at, verdict, granted>>

Next == (\E q \in Requests : ReadClock(q) \/ Allow(q)) \/ Tick

Spec == Init /\ [][Next]_vars

-----------------------------------------------------------------------------
\* Every counter is queued for its expiry exactly once, under its own start, so none stays
\* for ever and the queue is as bounded as the table: by rate_limit.max_tracked_keys, also
\* when the clock readings arrive out of order.
CountersQueued ==
  /\ Len(expiry) = Cardinality(Tracked) /\ Cardinality(Tracked) <= MaxKeys
  /\ \A i \in 1..Len(expiry) :
       expiry[i].key \in Tracked /\ windows[expiry[i].key].started = expiry[i].started

\* A counter is dropped only once its window is over: a flood of new addresses does not
\* reset anybody's count.
LiveCountersKept ==
  [][\A k \in Tracked :
       \/ k \in DOMAIN windows' /\ windows'[k].started = windows[k].started
       \/ windows[k].started + Window <= clock]_vars

\* A client gets at most two windows' worth of requests of a bucket into one window's length,
\* less the time for which a request may lag behind its own clock reading, whichever proxies
\* it goes through and whomever it says it is; what it sends with an unusable header counts
\* against the proxy.
Burst(bucket, client, t) ==
  {q \in Requests : /\ verdict[q] = "allowed"
                    /\ origin[q].bucket = bucket /\ origin[q].client = client
                    /\ origin[q].header # Unusable \/ origin[q].proxies = <<>>
                    /\ granted[q] \in t..(t + Window - MaxStale - 1)}
BurstBounded ==
  /\ \A o \in Origins, t \in 0..clock :
       Cardinality(Burst(o.bucket, o.client, t)) <= 2 * Limit[o.bucket]
  /\ \A k \in Tracked : \E q \in Requests : k.address \in {origin[q].client, Peer(origin[q])}
=============================================================================
