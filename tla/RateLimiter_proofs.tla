------------------------- MODULE RateLimiter_proofs -------------------------
(***************************************************************************)
(* The limiter's table for any number of clients and any order in which    *)
(* their clock readings reach the mutex.  Matched says that the queue and  *)
(* the counters name each other one to one; it is kept by taking the due   *)
(* entries out, by counting, and by adding a counter with its entry.       *)
(*                                                                         *)
(* The bound on bursts follows a history of the windows that the table has *)
(* had for each key: the requests that passed in each of them, never more  *)
(* than the limit.  Requests of windows that are not neighbours passed at  *)
(* least Window less MaxStale apart, so a shorter time meets two at most.  *)
(***************************************************************************)
EXTENDS RateLimiter, FiniteSetTheorems, SequenceTheorems, WellFoundedInduction, TLAPS

Keys == {Key(q) : q \in Requests}
Counters == [started : Nat, count : Nat]
Queued == [started : Nat, key : Keys]

Matched(win, queue) ==
  /\ win \in [DOMAIN win -> Counters]
  /\ queue \in Seq(Queued)
  /\ \A i, j \in 1..Len(queue) : queue[i].key = queue[j].key => i = j
  /\ \A i \in 1..Len(queue) :
       queue[i].key \in DOMAIN win /\ win[queue[i].key].started = queue[i].started
  /\ \A k \in DOMAIN win : \E i \in 1..Len(queue) : queue[i].key = k

\* A request that waits for the mutex has read a time that has been.
LimiterInv ==
  /\ clock \in Nat /\ at \in [Requests -> Nat] /\ verdict \in [Requests -> Verdicts]
  /\ \A q \in Requests : verdict[q] = "waiting" => at[q] <= clock
  /\ Matched(windows, expiry) /\ Len(expiry) <= MaxKeys

\* As many entries as counters.
LEMMA MatchedCounts ==
  ASSUME NEW win, NEW queue, Matched(win, queue)
  PROVE  IsFiniteSet(DOMAIN win) /\ Cardinality(DOMAIN win) = Len(queue)
  <1> DEFINE KeyAt == [i \in 1..Len(queue) |-> queue[i].key]
  <1>1. Len(queue) \in Nat
    BY DEF Matched
  <1>2. KeyAt \in Bijection(1..Len(queue), DOMAIN win)
    BY DEF Matched, Bijection, Injection, Surjection, IsInjective
  <1>3. IsFiniteSet(1..Len(queue)) /\ Cardinality(1..Len(queue)) = Len(queue)
    BY <1>1, FS_Interval
  <1>4. QED
    BY <1>2, <1>3, FS_Bijection DEF ExistsBijection

\* The loop pops a prefix of the queue, and every entry it pops is due.
LEMMA PopsDue ==
  ASSUME NEW now \in Nat, expiry \in Seq(Queued)
  PROVE  /\ Popped(now) \in 0..Len(expiry)
         /\ \A i \in 1..Popped(now) : Due(expiry[i], now)
  <1> DEFINE PrefixLengths == {n \in 0..Len(expiry) : \A i \in 1..n : Due(expiry[i], now)}
             Left == {m \in Nat : m <= Len(expiry) /\ Len(expiry) - m \in PrefixLengths}
  <1>1. Len(expiry) \in Nat
    OBVIOUS
  <1>2. Len(expiry) \in Left
    BY <1>1
  <1>3. PICK m \in Left : \A y \in Left : ~(<<y, m>> \in OpToRel(<, Nat))
    BY <1>2, WFMin, NatLessThanWellFounded
  <1>4. \A y \in Left : m <= y
    <2>1. Left \subseteq Nat
      OBVIOUS
    <2> HIDE DEF Left
    <2>2. \A y \in Left : ~(y < m)
      BY <1>3, <2>1, Zenon DEF OpToRel
    <2>3. QED
      BY <2>1, <2>2
  <1>5. /\ Len(expiry) - m \in PrefixLengths
        /\ \A n \in PrefixLengths : Len(expiry) - m >= n
    <2>1. \A n \in PrefixLengths : Len(expiry) - n \in Left
      BY <1>1
    <2>2. Len(expiry) - m \in PrefixLengths /\ m \in Nat
      BY <1>3
    <2>3. ASSUME NEW k \in PrefixLengths
          PROVE  Len(expiry) - m >= k
      <3>1. k \in Nat
        BY <2>3
      <3> HIDE DEF PrefixLengths, Left
      <3>2. m <= Len(expiry) - k
        BY <1>4, <2>1, <2>3
      <3>3. QED
        BY <1>1, <2>2, <3>1, <3>2
    <2>4. QED
      BY <2>2, <2>3
  <1>6. Max(PrefixLengths) \in PrefixLengths
    <2> HIDE DEF PrefixLengths
    <2>1. QED
      BY <1>5 DEF Max
  <1>7. QED
    BY <1>6 DEF Popped

\* Taking the due entries out takes exactly their counters out.
LEMMA PopKeepsMatched ==
  ASSUME Matched(windows, expiry), NEW now \in Nat
  PROVE  /\ Matched(Live(now), Kept(now)) /\ Len(Kept(now)) <= Len(expiry)
         /\ \A k \in Tracked : k \in DOMAIN Live(now) \/ windows[k].started + Window <= now
         /\ DOMAIN Live(now) \subseteq Tracked
         /\ \A k \in DOMAIN Live(now) : Live(now)[k] = windows[k]
  <1> DEFINE n == Popped(now)
  <1>1. n \in 0..Len(expiry) /\ \A i \in 1..n : Due(expiry[i], now)
    BY PopsDue DEF Matched
  <1> HIDE DEF n
  <1>2. Ended(now) = {expiry[i].key : i \in 1..n}
    BY <1>1 DEF Ended, Matched, n, Tracked
  <1>3. /\ Len(expiry) \in Nat
        /\ Len(Kept(now)) = Len(expiry) - n
        /\ \A i \in 1..Len(Kept(now)) : Kept(now)[i] = expiry[i + n]
        /\ Kept(now) \in Seq(Queued)
    BY <1>1 DEF Kept, Matched, n
  <1>4. DOMAIN Live(now) = Tracked \ Ended(now)
    BY DEF Live
  <1>5. \A k \in DOMAIN Live(now) : Live(now)[k] = windows[k]
    BY DEF Live
  <1>6. \A k \in Tracked : k \in DOMAIN Live(now) \/ windows[k].started + Window <= now
    <2> SUFFICES ASSUME NEW k \in Tracked, k \in Ended(now)
                 PROVE  windows[k].started + Window <= now
      BY <1>4
    <2>1. QED
      BY <1>1 DEF Ended, Due, n
  <1>7. Matched(Live(now), Kept(now))
    <2>1. Live(now) \in [DOMAIN Live(now) -> Counters]
      BY <1>4, <1>5 DEF Live, Matched, Tracked
    <2>2. \A i \in 1..Len(Kept(now)) : i + n \in 1..Len(expiry) /\ i + n \notin 1..n
      BY <1>1, <1>3
    <2>3. \A i, j \in 1..Len(Kept(now)) : Kept(now)[i].key = Kept(now)[j].key => i = j
      <3> SUFFICES ASSUME NEW i \in 1..Len(Kept(now)), NEW j \in 1..Len(Kept(now)),
                          expiry[i + n].key = expiry[j + n].key
                   PROVE  i = j
        BY <1>3
      <3>1. i + n = j + n
        BY <2>2 DEF Matched
      <3>2. QED
        BY <1>1, <1>3, <3>1
    <2>4. \A i \in 1..Len(Kept(now)) : /\ Kept(now)[i].key \in DOMAIN Live(now)
                                       /\ Live(now)[Kept(now)[i].key].started = Kept(now)[i].started
      <3> SUFFICES ASSUME NEW i \in 1..Len(Kept(now))
                   PROVE  /\ expiry[i + n].key \in DOMAIN Live(now)
                          /\ Live(now)[expiry[i + n].key].started = expiry[i + n].started
        BY <1>3
      <3>1. ASSUME NEW j \in 1..n
            PROVE  expiry[j].key # expiry[i + n].key
        <4>1. j \in 1..Len(expiry) /\ i + n \in 1..Len(expiry) /\ j # i + n
          BY <1>1, <1>3, <2>2
        <4>2. QED
          BY <4>1 DEF Matched
      <3>2. expiry[i + n].key \in DOMAIN Live(now)
        BY <1>2, <1>4, <2>2, <3>1 DEF Matched, Tracked
      <3>3. QED
        BY <1>5, <2>2, <3>2 DEF Matched
    <2>5. \A k \in DOMAIN Live(now) : \E i \in 1..Len(Kept(now)) : Kept(now)[i].key = k
      <3> SUFFICES ASSUME NEW k \in DOMAIN Live(now)
                   PROVE  \E i \in 1..Len(Kept(now)) : Kept(now)[i].key = k
        OBVIOUS
      <3>1. PICK j \in 1..Len(expiry) : expiry[j].key = k
        BY <1>4 DEF Matched, Tracked
      <3>2. j \notin 1..n
        BY <1>2, <1>4, <3>1
      <3>3. j - n \in 1..Len(Kept(now)) /\ (j - n) + n = j
        BY <1>1, <1>3, <3>2
      <3>4. QED
        BY <1>3, <3>1, <3>3
    <2>6. QED
      BY <1>3, <2>1, <2>3, <2>4, <2>5 DEF Matched
  <1>8. QED
    BY <1>1, <1>3, <1>4, <1>5, <1>6, <1>7

LEMMA CountKeepsMatched ==
  ASSUME NEW win, NEW queue, Matched(win, queue), NEW k \in DOMAIN win
  PROVE  Matched([win EXCEPT ![k].count = @ + 1], queue)
  <1> DEFINE more == [win EXCEPT ![k].count = @ + 1]
  <1>1. DOMAIN more = DOMAIN win
    OBVIOUS
  <1>2. \A x \in DOMAIN win : win[x] \in Counters
    BY DEF Matched
  <1>3. [win[k] EXCEPT !.count = @ + 1] \in Counters
        /\ [win[k] EXCEPT !.count = @ + 1].started = win[k].started
    BY <1>2 DEF Counters
  <1>4. \A x \in DOMAIN win :
          more[x] = IF x = k THEN [win[k] EXCEPT !.count = @ + 1] ELSE win[x]
    BY DEF Matched
  <1>5. \A x \in DOMAIN win : more[x] \in Counters /\ more[x].started = win[x].started
    BY <1>2, <1>3, <1>4
  <1>6. more \in [DOMAIN more -> Counters]
    <2>1. more = [x \in DOMAIN win |-> more[x]]
      BY DEF Matched
    <2>2. QED
      BY <1>1, <1>5, <2>1
  <1>7. QED
    <2> HIDE DEF more
    <2>1. Matched(more, queue)
      BY <1>1, <1>5, <1>6 DEF Matched
    <2>2. QED
      BY <2>1 DEF more

LEMMA NewKeepsMatched ==
  ASSUME NEW win, NEW queue, Matched(win, queue), NEW k \in Keys, k \notin DOMAIN win,
         NEW now \in Nat
  PROVE  Matched([x \in DOMAIN win \cup {k} |->
                    IF x = k THEN [started |-> now, count |-> 1] ELSE win[x]],
                 Append(queue, [started |-> now, key |-> k]))
  <1> DEFINE fresh == [x \in DOMAIN win \cup {k} |->
                         IF x = k THEN [started |-> now, count |-> 1] ELSE win[x]]
             entry == [started |-> now, key |-> k]
             longer == Append(queue, entry)
  <1>1. entry \in Queued /\ entry.key = k /\ entry.started = now
    BY DEF Queued
  <1> HIDE DEF entry
  <1>2. /\ longer \in Seq(Queued) /\ Len(queue) \in Nat /\ Len(longer) = Len(queue) + 1
        /\ \A i \in 1..Len(queue) : longer[i] = queue[i]
        /\ longer[Len(queue) + 1] = entry
    BY <1>1 DEF Matched
  <1>3. DOMAIN fresh = DOMAIN win \cup {k} /\ fresh[k].started = now
        /\ \A x \in DOMAIN win : fresh[x] = win[x]
    OBVIOUS
  <1>4. fresh \in [DOMAIN fresh -> Counters]
    BY DEF Matched, Counters
  <1> HIDE DEF fresh, longer
  <1>5. \A i \in 1..Len(longer) : i \in 1..Len(queue) \/ i = Len(queue) + 1
    BY <1>2
  <1>6. \A i \in 1..Len(queue) : longer[i].key # k
    BY <1>2 DEF Matched
  <1>7. \A i, j \in 1..Len(longer) : longer[i].key = longer[j].key => i = j
    BY <1>1, <1>2, <1>5, <1>6 DEF Matched
  <1>8. \A i \in 1..Len(longer) : longer[i].key \in DOMAIN fresh
                                  /\ fresh[longer[i].key].started = longer[i].started
    <2>1. ASSUME NEW i \in 1..Len(queue)
          PROVE  /\ longer[i].key \in DOMAIN fresh
                 /\ fresh[longer[i].key].started = longer[i].started
      <3>1. queue[i].key \in DOMAIN win /\ win[queue[i].key].started = queue[i].started
        BY DEF Matched
      <3>2. longer[i] = queue[i]
        BY <1>2
      <3>3. QED
        BY <1>3, <3>1, <3>2
    <2>2. LET i == Len(queue) + 1
          IN  longer[i].key \in DOMAIN fresh /\ fresh[longer[i].key].started = longer[i].started
      BY <1>1, <1>2, <1>3
    <2>3. QED
      BY <1>5, <2>1, <2>2
  <1>9. \A x \in DOMAIN fresh : \E i \in 1..Len(longer) : longer[i].key = x
    <2> SUFFICES ASSUME NEW x \in DOMAIN fresh
                 PROVE  \E i \in 1..Len(longer) : longer[i].key = x
      OBVIOUS
    <2>1. CASE x = k
      BY <1>1, <1>2, <2>1
    <2>2. CASE x \in DOMAIN win
      <3>1. PICK i \in 1..Len(queue) : queue[i].key = x
        BY <2>2 DEF Matched
      <3>2. QED
        BY <1>2, <3>1
    <2>3. QED
      BY <1>3, <2>1, <2>2
  <1>10. Matched(fresh, longer)
    BY <1>2, <1>4, <1>7, <1>8, <1>9 DEF Matched
  <1>11. QED
    BY <1>10 DEF fresh, longer, entry

KeptAcross ==
  \A k \in Tracked :
    \/ k \in DOMAIN windows' /\ windows'[k].started = windows[k].started
    \/ windows[k].started + Window <= clock

\* One turn at the mutex.
LEMMA AllowKeeps ==
  ASSUME LimiterInv, NEW q \in Requests, Allow(q)
  PROVE  Matched(windows', expiry') /\ Len(expiry') <= MaxKeys /\ KeptAcross
  <1> DEFINE now == at[q]
             live == Live(now)
             kept == Kept(now)
             k == Key(q)
  <1>1. now \in Nat /\ now <= clock /\ clock \in Nat /\ k \in Keys
    BY DEF LimiterInv, Allow, Keys
  <1>2. /\ Matched(live, kept) /\ Len(kept) <= Len(expiry)
        /\ \A x \in Tracked : x \in DOMAIN live \/ windows[x].started + Window <= now
        /\ DOMAIN live \subseteq Tracked
        /\ \A x \in DOMAIN live : live[x] = windows[x]
    BY <1>1, PopKeepsMatched DEF LimiterInv
  <1>3. Len(expiry) <= MaxKeys /\ Len(expiry) \in Nat /\ MaxKeys \in Nat /\ Len(kept) \in Nat
    BY <1>2, LimiterAssumption DEF LimiterInv, Matched
  <1>4. \/ k \in DOMAIN live /\ CountExisting(q, live)
        \/ k \notin DOMAIN live /\ CountNew(q, live)
    BY DEF Allow
  <1>5. Window \in Nat /\ \A x \in Tracked : windows[x].started \in Nat
    BY LimiterAssumption DEF LimiterInv, Matched, Counters, Tracked
  <1>6. \A x \in Tracked : x \in DOMAIN live \/ windows[x].started + Window <= clock
    <2> HIDE DEF live, now
    <2> QED
      BY <1>1, <1>2, <1>5
  <1> HIDE DEF live, kept, k
  <1>7. CASE windows' = live /\ expiry' = kept
    <2>1. KeptAcross
      BY <1>2, <1>6, <1>7 DEF KeptAcross
    <2>2. QED
      BY <1>2, <1>3, <1>7, <2>1
  <1>8. CASE /\ k \in DOMAIN live
             /\ windows' = [live EXCEPT ![k].count = @ + 1] /\ expiry' = kept
    <2>1. Matched(windows', expiry')
      BY <1>2, <1>8, CountKeepsMatched
    <2>2. DOMAIN windows' = DOMAIN live
          /\ \A x \in DOMAIN live : windows'[x].started = live[x].started
      <3>1. \A x \in DOMAIN live : live[x] \in Counters
        BY <1>2 DEF Matched
      <3>2. \A x \in DOMAIN live :
              windows'[x] = IF x = k THEN [live[k] EXCEPT !.count = @ + 1] ELSE live[x]
        BY <1>2, <1>8 DEF Matched
      <3>3. [live[k] EXCEPT !.count = @ + 1].started = live[k].started
        BY <1>8, <3>1 DEF Counters
      <3>4. QED
        BY <1>8, <3>2, <3>3
    <2>3. KeptAcross
      BY <1>2, <1>6, <2>2 DEF KeptAcross
    <2>4. QED
      BY <1>2, <1>3, <1>8, <2>1, <2>3
  <1>9. CASE /\ k \notin DOMAIN live /\ ~(Cardinality(DOMAIN live) >= MaxKeys)
             /\ windows' = [x \in DOMAIN live \cup {k} |->
                              IF x = k THEN [started |-> now, count |-> 1] ELSE live[x]]
             /\ expiry' = Append(kept, [started |-> now, key |-> k])
    <2>1. Matched(windows', expiry')
      BY <1>1, <1>2, <1>9, NewKeepsMatched
    <2>2. Cardinality(DOMAIN live) = Len(kept)
      BY <1>2, MatchedCounts
    <2>3. Len(expiry') = Len(kept) + 1
      BY <1>2, <1>9 DEF Matched
    <2>4. KeptAcross
      BY <1>2, <1>6, <1>9 DEF KeptAcross
    <2>5. QED
      BY <1>3, <1>9, <2>1, <2>2, <2>3, <2>4
  <1>10. \/ windows' = live /\ expiry' = kept
         \/ /\ k \in DOMAIN live
            /\ windows' = [live EXCEPT ![k].count = @ + 1] /\ expiry' = kept
         \/ /\ k \notin DOMAIN live /\ ~(Cardinality(DOMAIN live) >= MaxKeys)
            /\ windows' = [x \in DOMAIN live \cup {k} |->
                             IF x = k THEN [started |-> now, count |-> 1] ELSE live[x]]
            /\ expiry' = Append(kept, [started |-> now, key |-> k])
    BY <1>4 DEF CountExisting, CountNew, kept, k
  <1>11. QED
    BY <1>7, <1>8, <1>9, <1>10

LEMMA LimiterStep ==
  ASSUME LimiterInv, [Next]_vars
  PROVE  LimiterInv' /\ (KeptAcross \/ UNCHANGED vars)
  <1>1. ASSUME NEW q \in Requests, Allow(q)
        PROVE  LimiterInv' /\ KeptAcross
    <2>1. Matched(windows', expiry') /\ Len(expiry') <= MaxKeys /\ KeptAcross
      BY <1>1, AllowKeeps
    <2>2. /\ UNCHANGED <<clock, at, origin>> /\ verdict[q] = "waiting"
          /\ \/ verdict' = [verdict EXCEPT ![q] = "allowed"]
             \/ verdict' = [verdict EXCEPT ![q] = "limited"]
      BY <1>1 DEF Allow, CountExisting, CountNew, Passes, Limited
    <2>3. Keys' = Keys
      BY <2>2 DEF Keys, Key
    <2>4. Matched(windows, expiry)'
      BY <2>1, <2>3 DEF Matched, Queued
    <2>5. QED
      BY <2>1, <2>2, <2>4 DEF LimiterInv, Verdicts
  <1>2. ASSUME UNCHANGED <<windows, expiry, origin>>
        PROVE  (Matched(windows, expiry) /\ Len(expiry) <= MaxKeys)' /\ KeptAcross
    <2>1. Keys' = Keys
      BY <1>2 DEF Keys, Key
    <2>2. QED
      BY <1>2, <2>1 DEF LimiterInv, Matched, Queued, KeptAcross, Tracked
  <1>3. ASSUME NEW q \in Requests, ReadClock(q)
        PROVE  LimiterInv' /\ KeptAcross
    <2>1. (Matched(windows, expiry) /\ Len(expiry) <= MaxKeys)' /\ KeptAcross
      BY <1>2, <1>3 DEF ReadClock
    <2>2. QED
      BY <1>3, <2>1 DEF ReadClock, LimiterInv, Verdicts
  <1>4. CASE Tick
    <2>1. (Matched(windows, expiry) /\ Len(expiry) <= MaxKeys)' /\ KeptAcross
      BY <1>2, <1>4 DEF Tick
    <2>2. QED
      BY <1>4, <2>1 DEF Tick, LimiterInv
  <1>5. CASE UNCHANGED vars
    <2>1. (Matched(windows, expiry) /\ Len(expiry) <= MaxKeys)'
      BY <1>2, <1>5 DEF vars
    <2>2. QED
      BY <1>5, <2>1 DEF vars, LimiterInv
  <1>6. QED
    BY <1>1, <1>3, <1>4, <1>5 DEF Next

LEMMA LimiterStarts ==
  ASSUME Init
  PROVE  LimiterInv
  <1>1. Matched(windows, expiry)
    BY DEF Init, Matched
  <1>2. QED
    BY <1>1, LimiterAssumption DEF Init, LimiterInv, Verdicts

\* Whatever the order in which clock readings reach the mutex: every counter has its entry in
\* the queue, once and with its own start, and there are at most MaxKeys of them.
THEOREM EveryCounterQueued == Spec => []CountersQueued
  <1>1. Init => LimiterInv
    BY LimiterStarts
  <1>2. LimiterInv /\ [Next]_vars => LimiterInv'
    BY LimiterStep
  <1>3. LimiterInv => CountersQueued
    <2> SUFFICES ASSUME LimiterInv PROVE CountersQueued
      OBVIOUS
    <2>1. Cardinality(Tracked) = Len(expiry)
      BY MatchedCounts DEF LimiterInv, Tracked
    <2>2. QED
      BY <2>1 DEF LimiterInv, Matched, CountersQueued, Tracked
  <1>4. QED
    BY <1>1, <1>2, <1>3, PTL DEF Spec

\* However many new addresses come, a counter stays until its window is over.
THEOREM NoCounterDroppedEarly == Spec => LiveCountersKept
  <1>1. Init => LimiterInv
    BY LimiterStarts
  <1>2. LimiterInv /\ [Next]_vars => LimiterInv'
    BY LimiterStep
  <1>3. LimiterInv /\ [Next]_vars => [KeptAcross]_vars
    BY LimiterStep
  <1>4. QED
    BY <1>1, <1>2, <1>3, PTL DEF Spec, LiveCountersKept, KeptAcross

-----------------------------------------------------------------------------
\* Whoever the client says it is, a usable header leads back to it: what the trusted proxies
\* wrote after its own address is skipped, and what it wrote itself is never reached.
LEMMA AddressOfClient ==
  ASSUME NEW o \in Origins
  PROVE  /\ ClientAddress(o) \in {o.client, Peer(o)}
         /\ o.header # Unusable \/ o.proxies = <<>> => ClientAddress(o) = o.client
  <1> DEFINE hops == <<o.client>> \o o.proxies
  <1>1. /\ o.client \in Addresses \ Trusted /\ o.proxies \in Seq(Trusted)
        /\ o.header \in {Unusable} \cup Seq(Addresses) /\ Trusted \subseteq Addresses
        /\ Unusable \notin Seq(Addresses)
    BY LimiterAssumption
  <1>2. /\ hops \in Seq(Addresses) /\ Len(hops) = Len(o.proxies) + 1 /\ Len(o.proxies) \in Nat
        /\ hops[1] = o.client /\ \A i \in 2..Len(hops) : hops[i] = o.proxies[i - 1]
    <2>1. o.proxies \in Seq(Addresses) /\ <<o.client>> \in Seq(Addresses)
      BY <1>1
    <2>2. QED
      BY <2>1
  <1>3. CASE o.proxies = <<>>
    <2>1. Peer(o) = o.client
      BY <1>2, <1>3 DEF Peer, Last
    <2>2. QED
      BY <1>1, <2>1 DEF ClientAddress
  <1>4. CASE o.proxies # <<>> /\ o.header = Unusable
    BY <1>4 DEF ClientAddress, Forwarded
  <1>5. CASE o.proxies # <<>> /\ o.header # Unusable
    <2> DEFINE told == Front(hops)
               f == Forwarded(o)
               n == Len(o.header)
               untrusted == {i \in DOMAIN f : f[i] \notin Trusted}
    <2>1. o.header \in Seq(Addresses) /\ n \in Nat
      BY <1>1, <1>5
    <2>2. Len(o.proxies) >= 1
      BY <1>1, <1>5
    <2>3. /\ told \in Seq(Addresses) /\ Len(told) = Len(o.proxies) /\ told[1] = o.client
          /\ \A i \in 2..Len(told) : told[i] \in Trusted
      <3>1. told = SubSeq(hops, 1, Len(hops) - 1)
        BY DEF Front
      <3> HIDE DEF hops, told
      <3>2. told \in Seq(Addresses) /\ Len(told) = Len(o.proxies)
            /\ \A i \in 1..Len(told) : told[i] = hops[i]
        BY <1>2, <2>2, <3>1
      <3>3. \A i \in 2..Len(told) : i - 1 \in 1..Len(o.proxies) /\ i \in 2..Len(hops)
        BY <1>2, <3>2
      <3>4. \A i \in 1..Len(o.proxies) : o.proxies[i] \in Trusted
        BY <1>1
      <3>5. ASSUME NEW i \in 2..Len(told)
            PROVE  told[i] \in Trusted
        <4>1. i \in 1..Len(told) /\ hops[i] = o.proxies[i - 1]
          BY <1>2, <3>2, <3>3
        <4>2. QED
          BY <3>2, <3>3, <3>4, <4>1
      <3>6. told[1] = o.client
        BY <1>2, <2>2, <3>2
      <3>7. QED
        BY <3>2, <3>5, <3>6
    <2>4. Peer(o) \in Trusted
      <3>1. Peer(o) = hops[Len(hops)]
        BY DEF Peer, Last
      <3> HIDE DEF hops
      <3>2. Len(hops) \in 2..Len(hops) /\ Len(hops) - 1 \in 1..Len(o.proxies)
        BY <1>2, <2>2
      <3>3. \A i \in 1..Len(o.proxies) : o.proxies[i] \in Trusted
        BY <1>1
      <3>4. QED
        BY <1>2, <3>1, <3>2, <3>3
    <2>5. f = o.header \o told
      BY <1>5 DEF Forwarded
    <2> HIDE DEF told, f, n
    <2>6. /\ f \in Seq(Addresses) /\ Len(f) = n + Len(told) /\ Len(told) >= 1 /\ Len(told) \in Nat
          /\ \A i \in 1..Len(told) : f[n + i] = told[i]
      <3>1. /\ f \in Seq(Addresses) /\ Len(f) = Len(o.header) + Len(told)
            /\ \A j \in 1..Len(o.header) + Len(told) :
                 f[j] = IF j <= Len(o.header) THEN o.header[j] ELSE told[j - Len(o.header)]
        <4>1. o.header \in Seq(Addresses) /\ told \in Seq(Addresses)
          BY <2>1, <2>3
        <4>2. /\ o.header \o told \in Seq(Addresses)
              /\ Len(o.header \o told) = Len(o.header) + Len(told)
              /\ \A j \in 1..Len(o.header) + Len(told) :
                   (o.header \o told)[j]
                     = IF j <= Len(o.header) THEN o.header[j] ELSE told[j - Len(o.header)]
          BY <4>1, ConcatProperties
        <4>3. QED
          BY <2>5, <4>2, Zenon
      <3>2. Len(told) >= 1 /\ Len(told) \in Nat
        BY <2>2, <2>3
      <3>3. \A i \in 1..Len(told) : n + i \in 1..n + Len(told) /\ ~(n + i <= n) /\ (n + i) - n = i
        BY <2>1, <3>2
      <3>4. ASSUME NEW i \in 1..Len(told)
            PROVE  f[n + i] = told[i]
        <4>1. n + i \in 1..n + Len(told) /\ ~(n + i <= n) /\ (n + i) - n = i
          BY <3>3
        <4>2. \A j \in 1..n + Len(told) : f[j] = IF j <= n THEN o.header[j] ELSE told[j - n]
          BY <3>1 DEF n
        <4>3. f[n + i] = told[(n + i) - n]
          BY <4>1, <4>2
        <4>4. QED
          BY <4>1, <4>3
      <3>5. QED
        BY <3>1, <3>2, <3>4 DEF n
    <2>7. n + 1 \in untrusted
      BY <1>1, <2>1, <2>3, <2>6
    <2>8. \A i \in untrusted : i <= n + 1
      <3> SUFFICES ASSUME NEW i \in 1..Len(f), i > n + 1
                   PROVE  f[i] \in Trusted
        BY <2>1, <2>6
      <3>1. i - n \in 2..Len(told) /\ i = n + (i - n)
        BY <2>1, <2>6
      <3>2. QED
        BY <2>3, <2>6, <3>1
    <2>9. Max(untrusted) = n + 1
      <3>1. \A i \in untrusted : i \in Nat
        BY <2>6
      <3> HIDE DEF untrusted
      <3>2. QED
        BY <2>1, <2>7, <2>8, <3>1 DEF Max
    <2>10. f # Unusable
      BY <1>1, <2>6
    <2>11. f[n + 1] = o.client
      BY <2>3, <2>6
    <2>12. ClientAddress(o) = f[Max(untrusted)]
      BY <2>4, <2>7, <2>10 DEF ClientAddress, f
    <2>13. QED
      BY <2>9, <2>11, <2>12
  <1>6. QED
    BY <1>3, <1>4, <1>5

\* The history of the windows: gen[q] numbers the window in which request q passed, among
\* those of its key, and cur[k] is the last window of k.  Two windows that are not neighbours
\* lie apart, for between them one ran its whole length.
Passed(k, gen, g) == {q \in Requests : verdict[q] = "allowed" /\ Key(q) = k /\ gen[q] = g}

Past(q, gen, cur, win) ==
  /\ granted[q] \in Nat /\ granted[q] <= clock /\ gen[q] <= cur[Key(q)]
  /\ gen[q] + 2 <= cur[Key(q)] => granted[q] + Window <= clock + MaxStale
  /\ gen[q] + 1 <= cur[Key(q)] =>
       IF Key(q) \in DOMAIN win THEN granted[q] <= win[Key(q)].started + MaxStale
       ELSE granted[q] + Window <= clock + MaxStale

Apart(q, r, gen) ==
  Key(r) = Key(q) /\ gen[q] + 2 <= gen[r] => granted[q] + Window <= granted[r] + MaxStale

Allowed == {q \in Requests : verdict[q] = "allowed"}

History(gen, cur, win) ==
  /\ gen \in [Requests -> Nat] /\ cur \in [Keys -> Nat]
  /\ \A q \in Allowed : Past(q, gen, cur, win) /\ \A r \in Allowed : Apart(q, r, gen)
  /\ \A k \in Keys, g \in Nat : Cardinality(Passed(k, gen, g)) <= Limit[k.bucket]
  /\ \A k \in DOMAIN win : Cardinality(Passed(k, gen, cur[k])) = win[k].count

FreshReadings ==
  /\ granted \in [Requests -> Nat] /\ origin \in [Requests -> Origins]
  /\ \A q \in Requests : verdict[q] = "waiting" => clock <= at[q] + MaxStale

Told == \E gen, cur : History(gen, cur, windows)

WindowsInv == LimiterInv /\ FreshReadings /\ Told

LEMMA KeyFacts ==
  /\ \A q \in Requests : Key(q) \in Keys
  /\ Matched(windows, expiry) => Tracked \subseteq Keys /\ \A k \in Tracked : windows[k] \in Counters
  <1>1. \A q \in Requests : Key(q) \in Keys
    BY DEF Keys
  <1>2. ASSUME Matched(windows, expiry), NEW k \in Tracked
        PROVE  k \in Keys /\ windows[k] \in Counters
    <2>1. PICK i \in 1..Len(expiry) : expiry[i].key = k
      BY <1>2 DEF Matched, Tracked
    <2>2. expiry[i] \in Queued
      BY <1>2, <2>1 DEF Matched
    <2>3. QED
      BY <1>2, <2>1, <2>2 DEF Matched, Queued, Tracked
  <1>3. QED
    BY <1>1, <1>2

\* Dropping counters whose window is over.
LEMMA DropKeepsHistory ==
  ASSUME LimiterInv, NEW gen, NEW cur, History(gen, cur, windows),
         NEW win, DOMAIN win \subseteq Tracked, \A k \in DOMAIN win : win[k] = windows[k],
         \A k \in Tracked : k \in DOMAIN win \/ windows[k].started + Window <= clock
  PROVE  History(gen, cur, win)
  <1>1. ASSUME NEW q \in Allowed
        PROVE  Past(q, gen, cur, win)
    <2>1. Past(q, gen, cur, windows)
      BY DEF History
    <2>2. Key(q) \in Keys
      BY KeyFacts DEF Allowed
    <2>3. gen[q] \in Nat /\ cur[Key(q)] \in Nat /\ clock \in Nat
      BY <2>2 DEF History, Allowed, LimiterInv
    <2>4. Window \in Nat /\ MaxStale \in Nat
      BY LimiterAssumption
    <2>5. CASE Key(q) \in Tracked /\ Key(q) \notin DOMAIN win
      <3>1. windows[Key(q)].started \in Nat /\ windows[Key(q)].started + Window <= clock
        BY <2>5, KeyFacts DEF LimiterInv, Counters
      <3>2. QED
        BY <2>1, <2>3, <2>4, <2>5, <3>1 DEF Past, Tracked
    <2>6. CASE Key(q) \in DOMAIN win
      BY <2>1, <2>6 DEF Past, Tracked
    <2>7. CASE Key(q) \notin Tracked
      BY <2>1, <2>7 DEF Past, Tracked
    <2>8. QED
      BY <2>5, <2>6, <2>7
  <1>2. \A k \in DOMAIN win : Cardinality(Passed(k, gen, cur[k])) = win[k].count
    BY DEF History, Tracked
  <1>3. QED
    BY <1>1, <1>2 DEF History

\* A step that lets nobody pass, and after which there are the counters of win.
LEMMA FrameKeepsHistory ==
  ASSUME LimiterInv, NEW gen, NEW cur, NEW win, History(gen, cur, win), windows' = win,
         UNCHANGED origin, UNCHANGED granted, clock' \in Nat, clock <= clock', Allowed' = Allowed
  PROVE  Told'
  <1>1. Keys' = Keys /\ \A q : Key(q)' = Key(q)
    BY DEF Keys, Key
  <1>2. ASSUME NEW q \in Allowed
        PROVE  Past(q, gen, cur, windows)'
    <2>1. Past(q, gen, cur, win)
      BY DEF History
    <2>2. clock \in Nat /\ Window \in Nat /\ MaxStale \in Nat
      BY LimiterAssumption DEF LimiterInv
    <2>3. granted' = granted /\ Key(q)' = Key(q)
      BY <1>1
    <2>4. granted[q] \in Nat
      BY <2>1 DEF Past
    <2>5. granted[q] + Window <= clock + MaxStale => granted[q] + Window <= clock' + MaxStale
      BY <2>2, <2>4
    <2>6. granted[q] <= clock => granted[q] <= clock'
      BY <2>2, <2>4
    <2>7. QED
      BY <2>1, <2>3, <2>5, <2>6 DEF Past
  <1>3. ASSUME NEW q \in Allowed, NEW r \in Allowed
        PROVE  Apart(q, r, gen)'
    BY <1>1 DEF History, Apart
  <1>4. \A k, g : Passed(k, gen, g)' = Passed(k, gen, g)
    <2>1. \A q \in Requests : verdict'[q] = "allowed" <=> verdict[q] = "allowed"
      BY DEF Allowed
    <2>2. QED
      BY <1>1, <2>1 DEF Passed
  <1>5. History(gen, cur, windows)'
    BY <1>1, <1>2, <1>3, <1>4 DEF History
  <1>6. QED
    BY <1>5 DEF Told

\* A request passes, in the window that runs or in the next one.
LEMMA PassKeepsHistory ==
  ASSUME LimiterInv, FreshReadings, NEW q \in Requests, verdict[q] = "waiting", Passes(q),
         UNCHANGED origin, UNCHANGED clock, NEW k, k = Key(q),
         NEW gen, NEW cur, NEW win, History(gen, cur, win), DOMAIN win \subseteq Tracked,
         DOMAIN windows' = DOMAIN win \cup {k},
         \A x \in DOMAIN win \ {k} : windows'[x] = win[x],
         NEW n \in {cur[k], cur[k] + 1},
         n = cur[k] =>
           /\ k \in DOMAIN win /\ windows'[k].started = win[k].started
           /\ win[k].count \in Nat /\ windows'[k].count = win[k].count + 1
           /\ win[k].count < Limit[k.bucket],
         n = cur[k] + 1 =>
           /\ k \notin DOMAIN win /\ windows'[k].started = at[q] /\ windows'[k].count = 1,
         NEW gen2, gen2 = [gen EXCEPT ![q] = n], NEW cur2, cur2 = [cur EXCEPT ![k] = n]
  PROVE  Told'
  <1>1. Keys' = Keys /\ \A r : Key(r)' = Key(r)
    BY DEF Keys, Key
  <1>2. k \in Keys /\ gen \in [Requests -> Nat] /\ cur \in [Keys -> Nat]
    BY KeyFacts DEF History
  <1>3. cur[k] \in Nat /\ n \in Nat /\ cur[k] <= n /\ n <= cur[k] + 1
    BY <1>2
  <1>4. /\ clock \in Nat /\ at[q] \in Nat /\ clock <= at[q] + MaxStale
        /\ Window \in Nat /\ MaxStale \in Nat
    BY LimiterAssumption DEF LimiterInv, FreshReadings
  <1>5. /\ \A x, g : /\ IsFiniteSet(Passed(x, gen, g)) /\ q \notin Passed(x, gen, g)
                     /\ x = k /\ g = n => Passed(x, gen2, g)' = Passed(x, gen, g) \cup {q}
                     /\ ~(x = k /\ g = n) => Passed(x, gen2, g)' = Passed(x, gen, g)
        /\ Allowed' = Allowed \cup {q} /\ q \notin Allowed
    <2>1. verdict' = [verdict EXCEPT ![q] = "allowed"]
      BY DEF Passes
    <2>2. ASSUME NEW x, NEW g
          PROVE  /\ IsFiniteSet(Passed(x, gen, g)) /\ q \notin Passed(x, gen, g)
                 /\ x = k /\ g = n => Passed(x, gen2, g)' = Passed(x, gen, g) \cup {q}
                 /\ ~(x = k /\ g = n) => Passed(x, gen2, g)' = Passed(x, gen, g)
      <3>1. \A r \in Requests : verdict'[r] = IF r = q THEN "allowed" ELSE verdict[r]
        BY <2>1 DEF LimiterInv
      <3>2. IsFiniteSet(Passed(x, gen, g))
        BY LimiterAssumption, FS_Subset DEF Passed
      <3>3. q \notin Passed(x, gen, g)
        BY DEF Passed
      <3>4. \A r \in Requests : gen2[r] = IF r = q THEN n ELSE gen[r]
        BY <1>2, <1>3
      <3>5. Passed(x, gen2, g)'
              = {r \in Requests : verdict'[r] = "allowed" /\ Key(r) = x /\ gen2[r] = g}
        BY <1>1 DEF Passed
      <3>6. QED
        BY <3>1, <3>2, <3>3, <3>4, <3>5 DEF Passed
    <2>3. Allowed' = Allowed \cup {q} /\ q \notin Allowed
      BY <2>1 DEF Allowed, LimiterInv
    <2>4. QED
      BY <2>2, <2>3
  <1>6. /\ gen2 \in [Requests -> Nat] /\ cur2 \in [Keys -> Nat]
        /\ gen2[q] = n /\ cur2[k] = n
        /\ \A r \in Allowed : gen2[r] = gen[r]
        /\ \A x \in Keys \ {k} : cur2[x] = cur[x]
    BY <1>2, <1>3, <1>5 DEF Allowed
  <1>7. /\ \A r \in Allowed : granted'[r] = granted[r] /\ Past(r, gen, cur, win)
        /\ clock' = clock /\ granted'[q] = clock
    BY <1>5 DEF Passes, History, Allowed, FreshReadings
  <1>8. Past(q, gen2, cur2, windows)'
    <2>1. Key(q)' = k
      BY <1>1
    <2>2. ~(n + 2 <= n) /\ ~(n + 1 <= n)
      BY <1>3
    <2>3. QED
      BY <1>4, <1>6, <1>7, <2>1, <2>2 DEF Past
  <1>9. ASSUME NEW r \in Allowed
        PROVE  /\ Past(r, gen2, cur2, windows)'
               /\ Key(r) = k => gen[r] <= n /\ (gen[r] + 2 <= n => granted[r] + Window <= clock + MaxStale)
    <2>1. Past(r, gen, cur, win) /\ granted'[r] = granted[r] /\ gen2[r] = gen[r] /\ Key(r)' = Key(r)
      BY <1>1, <1>6, <1>7
    <2>2. gen[r] \in Nat /\ Key(r) \in Keys /\ granted[r] \in Nat /\ granted[r] <= clock
      BY <1>2, <2>1, KeyFacts DEF Allowed, Past
    <2>3. CASE Key(r) = k /\ n = cur[k]
      <3>1. k \in DOMAIN win /\ windows'[k].started = win[k].started /\ k \in DOMAIN windows'
        BY <2>3
      <3>2. cur2[Key(r)] = cur[Key(r)]
        BY <1>6, <2>3
      <3>3. QED
        BY <1>3, <1>7, <2>1, <2>2, <2>3, <3>1, <3>2 DEF Past
    <2>4. CASE Key(r) = k /\ n = cur[k] + 1
      <3>1. k \notin DOMAIN win /\ windows'[k].started = at[q] /\ k \in DOMAIN windows'
        BY <2>4
      <3>2. gen[r] <= cur[k] /\ (gen[r] + 1 <= cur[k] => granted[r] + Window <= clock + MaxStale)
        BY <2>1, <2>4, <3>1 DEF Past
      <3>3. gen[r] <= n /\ (gen[r] + 2 <= n => granted[r] + Window <= clock + MaxStale)
        BY <1>3, <2>2, <2>4, <3>2
      <3>4. granted[r] <= windows'[k].started + MaxStale
        BY <1>4, <2>2, <3>1
      <3>5. QED
        BY <1>6, <1>7, <2>1, <2>2, <2>4, <3>1, <3>3, <3>4 DEF Past
    <2>5. CASE Key(r) # k
      <3>1. /\ cur2[Key(r)] = cur[Key(r)] /\ (Key(r) \in DOMAIN windows' <=> Key(r) \in DOMAIN win)
            /\ Key(r) \in DOMAIN win => windows'[Key(r)] = win[Key(r)]
        BY <1>6, <2>2, <2>5
      <3>2. QED
        BY <1>7, <2>1, <2>5, <3>1 DEF Past
    <2>6. QED
      BY <2>3, <2>4, <2>5
  <1>10. ASSUME NEW r \in Allowed', NEW x \in Allowed'
         PROVE  Apart(r, x, gen2)'
    <2>1. Key(r)' = Key(r) /\ Key(x)' = Key(x)
      BY <1>1
    <2>2. CASE r = q
      <3>1. x # q /\ Key(x) = k => gen2[x] <= n /\ gen2[x] \in Nat
        BY <1>2, <1>5, <1>6, <1>9 DEF Allowed
      <3>2. QED
        BY <1>3, <1>6, <2>1, <2>2, <3>1 DEF Apart
    <2>3. CASE r # q /\ x = q
      BY <1>5, <1>6, <1>7, <1>9, <2>1, <2>3 DEF Apart
    <2>4. CASE r # q /\ x # q
      <3>1. r \in Allowed /\ x \in Allowed
        BY <1>5, <2>4
      <3>2. Apart(r, x, gen)
        BY <3>1 DEF History
      <3>3. QED
        BY <1>6, <1>7, <2>1, <3>1, <3>2 DEF Apart
    <2>5. QED
      BY <2>2, <2>3, <2>4
  <1>11. \A g \in Nat : Cardinality(Passed(k, gen, g)) \in Nat
    BY <1>5, FS_CardinalityType
  <1>12. Passed(k, gen, cur[k] + 1) = {}
    <2>1. \A r \in Passed(k, gen, cur[k] + 1) : r \in Allowed /\ Key(r) = k /\ gen[r] = cur[k] + 1
      BY DEF Passed, Allowed
    <2>2. \A r \in Allowed : Key(r) = k => gen[r] <= cur[k]
      BY <1>7 DEF Past
    <2>3. \A r \in Passed(k, gen, cur[k] + 1) : cur[k] + 1 <= cur[k]
      BY <2>1, <2>2
    <2>4. QED
      BY <1>3, <2>3
  <1>13. Limit[k.bucket] \in Nat \ {0}
    <2>1. k.bucket = origin[q].bucket /\ origin[q] \in Origins
      BY DEF Key, FreshReadings
    <2>2. QED
      BY <2>1, LimiterAssumption
  <1>14. /\ Cardinality(Passed(k, gen2, n)') <= Limit[k.bucket]
         /\ Cardinality(Passed(k, gen2, n)') = windows'[k].count
    <2>1. Passed(k, gen2, n)' = Passed(k, gen, n) \cup {q}
      BY <1>5
    <2>2. Cardinality(Passed(k, gen2, n)') = Cardinality(Passed(k, gen, n)) + 1
      <3>1. IsFiniteSet(Passed(k, gen, n)) /\ q \notin Passed(k, gen, n)
        BY <1>5
      <3>2. Cardinality(Passed(k, gen, n) \cup {q}) = Cardinality(Passed(k, gen, n)) + 1
        BY <3>1, FS_AddElement
      <3>3. QED
        BY <2>1, <3>2
    <2>3. CASE n = cur[k]
      <3>1. /\ k \in DOMAIN win /\ windows'[k].count = win[k].count + 1
            /\ win[k].count < Limit[k.bucket] /\ win[k].count \in Nat
        BY <2>3
      <3>2. Cardinality(Passed(k, gen, n)) = win[k].count
        BY <2>3, <3>1 DEF History
      <3>3. QED
        BY <1>13, <2>2, <3>1, <3>2
    <2>4. CASE n = cur[k] + 1
      <3>1. windows'[k].count = 1
        BY <2>4
      <3>2. Cardinality(Passed(k, gen, n)) = 0
        BY <1>12, <2>4, FS_EmptySet
      <3>3. QED
        BY <1>13, <2>2, <3>1, <3>2
    <2>5. QED
      BY <2>3, <2>4
  <1>15. ASSUME NEW x \in Keys, NEW g \in Nat
         PROVE  Cardinality(Passed(x, gen2, g)') <= Limit[x.bucket]
    <2>1. CASE x = k /\ g = n
      BY <1>14, <2>1
    <2>2. CASE ~(x = k /\ g = n)
      <3>1. Passed(x, gen2, g)' = Passed(x, gen, g)
        BY <1>5, <2>2
      <3>2. Cardinality(Passed(x, gen, g)) <= Limit[x.bucket]
        BY DEF History
      <3>3. QED
        BY <3>1, <3>2
    <2>3. QED
      BY <2>1, <2>2
  <1>16. ASSUME NEW x \in DOMAIN windows'
         PROVE  Cardinality(Passed(x, gen2, cur2[x])') = windows'[x].count
    <2>1. CASE x = k
      BY <1>6, <1>14, <2>1
    <2>2. CASE x # k
      <3>1. x \in DOMAIN win /\ windows'[x] = win[x] /\ x \in Keys
        BY <2>2, KeyFacts DEF LimiterInv
      <3>2. cur2[x] = cur[x] /\ Cardinality(Passed(x, gen, cur[x])) = win[x].count
        BY <1>6, <2>2, <3>1 DEF History
      <3>3. Passed(x, gen2, cur2[x])' = Passed(x, gen, cur[x])
        <4>1. Passed(x, gen2, cur[x])' = Passed(x, gen, cur[x])
          BY <1>5, <2>2
        <4>2. QED
          BY <3>2, <4>1
      <3>4. QED
        BY <3>1, <3>2, <3>3
    <2>3. QED
      BY <2>1, <2>2
  <1>17. History(gen2, cur2, windows)'
    <2>1. \A r \in Allowed' : Past(r, gen2, cur2, windows)' /\ \A x \in Allowed' : Apart(r, x, gen2)'
      BY <1>5, <1>8, <1>9, <1>10
    <2>2. QED
      BY <1>1, <1>6, <1>15, <1>16, <2>1 DEF History
  <1>18. QED
    BY <1>17 DEF Told

LEMMA AllowKeepsTold ==
  ASSUME LimiterInv, FreshReadings, Told, NEW q \in Requests, Allow(q)
  PROVE  Told'
  <1>1. PICK gen, cur : History(gen, cur, windows)
    BY DEF Told
  <1>2. \E a, b, c, d : a = Key(q) /\ b = at[q] /\ c = Live(at[q]) /\ d = Kept(at[q])
    OBVIOUS
  <1>3. PICK k, now, live, kept :
          k = Key(q) /\ now = at[q] /\ live = Live(at[q]) /\ kept = Kept(at[q])
    BY <1>2
  <1>4. /\ verdict[q] = "waiting" /\ UNCHANGED origin /\ UNCHANGED clock
        /\ k \in Keys /\ clock \in Nat /\ now \in Nat /\ now <= clock
        /\ \A r \in Requests : verdict[r] \in Verdicts
    BY <1>3, KeyFacts DEF Allow, LimiterInv
  <1>5. /\ Matched(live, kept) /\ DOMAIN live \subseteq Tracked
        /\ \A x \in DOMAIN live : live[x] = windows[x] /\ live[x] \in Counters
        /\ \A x \in Tracked : x \in DOMAIN live \/ windows[x].started + Window <= clock
    <2>1. /\ Matched(live, kept)
          /\ \A x \in Tracked : x \in DOMAIN live \/ windows[x].started + Window <= now
          /\ DOMAIN live \subseteq Tracked
          /\ \A x \in DOMAIN live : live[x] = windows[x]
      BY <1>3, <1>4, PopKeepsMatched DEF LimiterInv
    <2>2. \A x \in DOMAIN live : live[x] \in Counters
      BY <2>1 DEF Matched
    <2>3. ASSUME NEW x \in Tracked, windows[x].started + Window <= now
          PROVE  windows[x].started + Window <= clock
      <3>1. windows[x].started \in Nat
        BY KeyFacts DEF LimiterInv, Counters
      <3>2. QED
        BY <1>4, <2>3, <3>1, LimiterAssumption
    <2>4. QED
      BY <2>1, <2>2, <2>3
  <1>6. History(gen, cur, live)
    BY <1>1, <1>5, DropKeepsHistory
  <1>7. gen \in [Requests -> Nat] /\ cur \in [Keys -> Nat] /\ cur[k] \in Nat
    BY <1>4, <1>6 DEF History
  <1>8. CASE windows' = live /\ Limited(q)
    <2>1. Allowed' = Allowed
      BY <1>4, <1>8 DEF Limited, Allowed, LimiterInv
    <2>2. QED
      BY <1>4, <1>6, <1>8, <2>1, FrameKeepsHistory DEF Limited
  <1>9. CASE /\ k \in DOMAIN live /\ live[k].count < Limit[k.bucket]
             /\ windows' = [live EXCEPT ![k].count = @ + 1] /\ Passes(q)
    <2>1. PICK n, gen2, cur2 :
            n = cur[k] /\ gen2 = [gen EXCEPT ![q] = n] /\ cur2 = [cur EXCEPT ![k] = n]
      OBVIOUS
    <2>2. /\ windows'[k] = [live[k] EXCEPT !.count = @ + 1]
          /\ \A x \in DOMAIN live \ {k} : windows'[x] = live[x]
          /\ DOMAIN windows' = DOMAIN live \cup {k}
      BY <1>5, <1>9 DEF Matched
    <2>3. /\ windows'[k].started = live[k].started /\ live[k].count \in Nat
          /\ windows'[k].count = live[k].count + 1
      BY <1>5, <1>9, <2>2 DEF Counters
    <2>4. n \in {cur[k], cur[k] + 1} /\ n # cur[k] + 1
      BY <1>7, <2>1
    <2>5. QED
      BY <1>3, <1>4, <1>5, <1>6, <1>9, <2>1, <2>2, <2>3, <2>4, PassKeepsHistory
  <1>10. CASE /\ k \notin DOMAIN live /\ Passes(q)
              /\ windows' = [x \in DOMAIN live \cup {k} |->
                               IF x = k THEN [started |-> now, count |-> 1] ELSE live[x]]
    <2>1. PICK n, gen2, cur2 :
            n = cur[k] + 1 /\ gen2 = [gen EXCEPT ![q] = n] /\ cur2 = [cur EXCEPT ![k] = n]
      OBVIOUS
    <2>2. /\ windows'[k].started = now /\ windows'[k].count = 1
          /\ \A x \in DOMAIN live \ {k} : windows'[x] = live[x]
          /\ DOMAIN windows' = DOMAIN live \cup {k}
      BY <1>10
    <2>3. n \in {cur[k], cur[k] + 1} /\ n # cur[k]
      BY <1>7, <2>1
    <2>4. /\ k = Key(q) /\ verdict[q] = "waiting" /\ UNCHANGED origin /\ UNCHANGED clock
          /\ Passes(q) /\ k \notin DOMAIN live /\ DOMAIN live \subseteq Tracked
          /\ windows'[k].started = at[q]
      BY <1>3, <1>4, <1>5, <1>10, <2>2
    <2>5. QED
      BY <1>6, <2>1, <2>2, <2>3, <2>4, PassKeepsHistory
  <1>11. \/ windows' = live /\ Limited(q)
         \/ /\ k \in DOMAIN live /\ live[k].count < Limit[k.bucket]
            /\ windows' = [live EXCEPT ![k].count = @ + 1] /\ Passes(q)
         \/ /\ k \notin DOMAIN live /\ Passes(q)
            /\ windows' = [x \in DOMAIN live \cup {k} |->
                             IF x = k THEN [started |-> now, count |-> 1] ELSE live[x]]
    <2>1. \/ k \in DOMAIN live /\ CountExisting(q, live)
          \/ k \notin DOMAIN live /\ CountNew(q, live)
      BY <1>3 DEF Allow
    <2>2. CASE k \in DOMAIN live /\ CountExisting(q, live)
      <3>1. live[k].count \in Nat /\ Limit[k.bucket] \in Nat
        <4>1. k.bucket = origin[q].bucket /\ origin[q] \in Origins
          BY <1>3 DEF Key, FreshReadings
        <4>2. QED
          BY <1>5, <2>2, <4>1, LimiterAssumption DEF Counters
      <3>2. \/ windows' = live /\ Limited(q)
            \/ /\ ~(live[k].count >= Limit[k.bucket])
               /\ windows' = [live EXCEPT ![k].count = @ + 1] /\ Passes(q)
        BY <1>3, <2>2 DEF CountExisting
      <3>3. ~(live[k].count >= Limit[k.bucket]) => live[k].count < Limit[k.bucket]
        BY <3>1
      <3>4. QED
        BY <2>2, <3>2, <3>3
    <2>3. CASE k \notin DOMAIN live /\ CountNew(q, live)
      BY <1>3, <2>3 DEF CountNew
    <2>4. QED
      BY <2>1, <2>2, <2>3
  <1>12. QED
    BY <1>8, <1>9, <1>10, <1>11

LEMMA WindowsStep ==
  ASSUME WindowsInv, [Next]_vars
  PROVE  WindowsInv'
  <1>1. LimiterInv' /\ LimiterInv /\ FreshReadings /\ Told
    BY LimiterStep DEF WindowsInv
  <1>2. PICK gen, cur : History(gen, cur, windows)
    BY <1>1 DEF Told
  <1>3. ASSUME UNCHANGED <<windows, origin, granted>>, clock <= clock', Allowed' = Allowed
        PROVE  Told'
    <2>1. clock' \in Nat
      BY <1>1 DEF LimiterInv
    <2>2. PICK win : win = windows
      OBVIOUS
    <2>3. QED
      BY <1>1, <1>2, <1>3, <2>1, <2>2, FrameKeepsHistory
  <1>4. ASSUME NEW q \in Requests, ReadClock(q)
        PROVE  FreshReadings' /\ Told'
    <2>1. Allowed' = Allowed
      BY <1>1, <1>4 DEF ReadClock, Allowed, LimiterInv
    <2>2. clock <= clock' /\ clock \in Nat
      BY <1>1, <1>4 DEF ReadClock, LimiterInv
    <2>3. \A r \in Requests : verdict'[r] = "waiting" => clock' <= at'[r] + MaxStale
      BY <1>1, <1>4, LimiterAssumption DEF ReadClock, LimiterInv, FreshReadings
    <2>4. QED
      BY <1>1, <1>3, <1>4, <2>1, <2>2, <2>3 DEF ReadClock, FreshReadings
  <1>5. ASSUME NEW q \in Requests, Allow(q)
        PROVE  FreshReadings' /\ Told'
    <2>1. Told'
      BY <1>1, <1>5, AllowKeepsTold
    <2>2. /\ UNCHANGED <<clock, at, origin>>
          /\ granted' = [granted EXCEPT ![q] = clock] \/ UNCHANGED granted
          /\ \/ verdict' = [verdict EXCEPT ![q] = "allowed"]
             \/ verdict' = [verdict EXCEPT ![q] = "limited"]
      BY <1>5 DEF Allow, CountExisting, CountNew, Passes, Limited
    <2>3. \A r \in Requests : verdict'[r] = "waiting" => verdict[r] = "waiting"
      BY <1>1, <2>2 DEF LimiterInv
    <2>4. granted' \in [Requests -> Nat]
      BY <1>1, <2>2 DEF LimiterInv, FreshReadings
    <2>5. QED
      BY <1>1, <2>1, <2>2, <2>3, <2>4 DEF FreshReadings
  <1>6. CASE Tick
    <2>1. Told'
      <3>1. Allowed' = Allowed /\ clock <= clock'
        BY <1>1, <1>6 DEF Tick, Allowed, LimiterInv
      <3>2. QED
        BY <1>3, <1>6, <3>1 DEF Tick
    <2>2. \A r \in Requests : verdict'[r] = "waiting" => clock' <= at'[r] + MaxStale
      BY <1>1, <1>6, LimiterAssumption DEF Tick, LimiterInv
    <2>3. granted' = granted /\ origin' = origin
      BY <1>6 DEF Tick
    <2>4. QED
      BY <1>1, <2>1, <2>2, <2>3 DEF FreshReadings, WindowsInv
  <1>7. CASE UNCHANGED vars
    <2>1. Told'
      <3>1. Allowed' = Allowed /\ clock <= clock'
        BY <1>1, <1>7 DEF vars, Allowed, LimiterInv
      <3>2. QED
        BY <1>3, <1>7, <3>1 DEF vars
    <2>2. UNCHANGED clock /\ UNCHANGED at /\ UNCHANGED verdict /\ UNCHANGED granted
          /\ UNCHANGED origin
      BY <1>7 DEF vars
    <2>3. QED
      BY <1>1, <2>1, <2>2 DEF FreshReadings, WindowsInv
  <1>8. QED
    BY <1>1, <1>4, <1>5, <1>6, <1>7 DEF Next, WindowsInv

LEMMA WindowsStart ==
  ASSUME Init
  PROVE  WindowsInv
  <1>1. PICK gen, cur : gen = [q \in Requests |-> 0] /\ cur = [k \in Keys |-> 0]
    OBVIOUS
  <1>2. Allowed = {} /\ \A k, g : Passed(k, gen, g) = {}
    BY DEF Init, Allowed, Passed
  <1>3. \A k \in Keys : Limit[k.bucket] \in Nat
    <2> SUFFICES ASSUME NEW q \in Requests
                 PROVE  Limit[Key(q).bucket] \in Nat
      BY DEF Keys
    <2>1. Key(q).bucket = origin[q].bucket /\ origin[q] \in Origins
      BY DEF Key, Init
    <2>2. QED
      BY <2>1, LimiterAssumption
  <1>4. \A k \in Keys, g \in Nat : Cardinality(Passed(k, gen, g)) <= Limit[k.bucket]
    BY <1>2, <1>3, FS_EmptySet
  <1>5. DOMAIN windows = {}
    BY DEF Init
  <1>6. History(gen, cur, windows)
    BY <1>1, <1>2, <1>4, <1>5 DEF History
  <1>7. FreshReadings
    BY LimiterAssumption DEF Init, FreshReadings
  <1>8. QED
    BY <1>6, <1>7, LimiterStarts DEF WindowsInv, Told

\* What the windows say of one client's requests.
LEMMA BurstInTwoWindows ==
  ASSUME WindowsInv, NEW o \in Origins, NEW t \in Nat
  PROVE  Cardinality(Burst(o.bucket, o.client, t)) <= 2 * Limit[o.bucket]
  <1>1. PICK gen, cur : History(gen, cur, windows)
    BY DEF WindowsInv, Told
  <1>2. PICK burst : burst = Burst(o.bucket, o.client, t)
    OBVIOUS
  <1>3. PICK k : k = [bucket |-> o.bucket, address |-> o.client]
    OBVIOUS
  <1>4. /\ Limit[o.bucket] \in Nat \ {0} /\ Window \in Nat /\ MaxStale \in Nat
        /\ IsFiniteSet(Requests)
    BY LimiterAssumption
  <1>5. gen \in [Requests -> Nat] /\ cur \in [Keys -> Nat]
        /\ granted \in [Requests -> Nat] /\ origin \in [Requests -> Origins]
    BY <1>1 DEF History, WindowsInv, FreshReadings
  <1>6. ASSUME NEW q \in burst
        PROVE  /\ q \in Requests /\ q \in Allowed /\ Key(q) = k /\ gen[q] \in Nat
               /\ granted[q] \in Nat /\ t <= granted[q]
               /\ granted[q] <= t + Window - MaxStale - 1
    <2>1. /\ q \in Requests /\ verdict[q] = "allowed"
          /\ origin[q].bucket = o.bucket /\ origin[q].client = o.client
          /\ origin[q].header # Unusable \/ origin[q].proxies = <<>>
          /\ granted[q] \in t..(t + Window - MaxStale - 1)
      BY <1>2 DEF Burst
    <2>2. ClientAddress(origin[q]) = o.client
      BY <1>5, <2>1, AddressOfClient
    <2>3. QED
      BY <1>3, <1>4, <1>5, <2>1, <2>2 DEF Key, Allowed
  <1>7. CASE burst = {}
    BY <1>2, <1>4, <1>7, FS_EmptySet
  <1>8. CASE burst # {}
    <2>1. PICK gens : gens = {gen[q] : q \in burst}
      OBVIOUS
    <2>2. gens \subseteq Nat /\ gens # {}
      BY <1>6, <1>8, <2>1
    <2>3. PICK g \in gens : \A y \in gens : ~(<<y, g>> \in OpToRel(<, Nat))
      BY <2>2, WFMin, NatLessThanWellFounded
    <2>4. g \in Nat /\ \A y \in gens : y \in Nat /\ g <= y
      <3>1. \A y \in gens : ~(y < g)
        BY <2>2, <2>3, Zenon DEF OpToRel
      <3>2. QED
        BY <2>2, <3>1
    <2>5. PICK p \in burst : gen[p] = g
      BY <2>1, <2>3
    <2>6. ASSUME NEW q \in burst
          PROVE  gen[q] = g \/ gen[q] = g + 1
      <3>1. gen[q] \in Nat /\ g <= gen[q]
        BY <1>6, <2>1, <2>4
      <3>2. Apart(p, q, gen)
        BY <1>1, <1>6, <2>5 DEF History
      <3>3. ~(gen[p] + 2 <= gen[q])
        <4>1. SUFFICES ASSUME gen[p] + 2 <= gen[q]
                       PROVE  FALSE
          OBVIOUS
        <4>2. granted[p] + Window <= granted[q] + MaxStale
          BY <1>6, <2>5, <3>2, <4>1 DEF Apart
        <4>3. granted[p] \in Nat /\ t <= granted[p]
          BY <1>6, <2>5
        <4>4. granted[q] \in Nat /\ granted[q] <= t + Window - MaxStale - 1
          BY <1>6
        <4>5. QED
          BY <1>4, <4>2, <4>3, <4>4
      <3>4. QED
        BY <2>4, <2>5, <3>1, <3>3
    <2>7. k \in Keys /\ k.bucket = o.bucket /\ g + 1 \in Nat
      BY <1>3, <1>6, <2>4, <2>5, KeyFacts
    <2>8. PICK early, late : early = Passed(k, gen, g) /\ late = Passed(k, gen, g + 1)
      OBVIOUS
    <2>9. burst \subseteq early \cup late
      BY <1>6, <2>6, <2>8 DEF Passed, Allowed
    <2>10. early \subseteq Requests /\ late \subseteq Requests
      BY <2>8 DEF Passed
    <2>11. Cardinality(early) <= Limit[o.bucket] /\ Cardinality(late) <= Limit[o.bucket]
      BY <1>1, <2>4, <2>7, <2>8 DEF History
    <2>12. IsFiniteSet(early) /\ IsFiniteSet(late)
      BY <1>4, <2>10, FS_Subset
    <2>13. /\ Cardinality(early) \in Nat /\ Cardinality(late) \in Nat
           /\ Cardinality(early \cap late) \in Nat
      <3>1. IsFiniteSet(early \cap late)
        BY <2>12, FS_Intersection
      <3>2. QED
        BY <2>12, <3>1, FS_CardinalityType
    <2>14. /\ IsFiniteSet(early \cup late)
           /\ Cardinality(early \cup late)
                = Cardinality(early) + Cardinality(late) - Cardinality(early \cap late)
      BY <2>12, FS_Union
    <2>15. Cardinality(burst) <= Cardinality(early \cup late) /\ Cardinality(burst) \in Nat
      <3>1. IsFiniteSet(burst) /\ Cardinality(burst) <= Cardinality(early \cup late)
        BY <2>9, <2>14, FS_Subset
      <3>2. QED
        BY <3>1, FS_CardinalityType
    <2>16. QED
      BY <1>2, <1>4, <2>11, <2>13, <2>14, <2>15
  <1>9. QED
    BY <1>7, <1>8

\* The bound on a client's bursts holds for any number of clients, proxies, headers and
\* requests, and for any lag between clock readings and turns at the mutex.
THEOREM BurstsStayBounded == Spec => []BurstBounded
  <1>1. Init => WindowsInv
    BY WindowsStart
  <1>2. WindowsInv /\ [Next]_vars => WindowsInv'
    BY WindowsStep
  <1>3. WindowsInv => BurstBounded
    <2> SUFFICES ASSUME WindowsInv PROVE BurstBounded
      OBVIOUS
    <2>1. \A o \in Origins, t \in 0..clock :
            Cardinality(Burst(o.bucket, o.client, t)) <= 2 * Limit[o.bucket]
      BY BurstInTwoWindows DEF WindowsInv, LimiterInv
    <2>2. ASSUME NEW k \in Tracked
          PROVE  \E q \in Requests : k.address \in {origin[q].client, Peer(origin[q])}
      <3>1. k \in Keys
        BY KeyFacts DEF WindowsInv, LimiterInv
      <3>2. PICK q \in Requests : k = Key(q)
        BY <3>1 DEF Keys
      <3>3. origin[q] \in Origins
        BY DEF WindowsInv, FreshReadings
      <3>4. k.address = ClientAddress(origin[q])
        BY <3>2 DEF Key
      <3>5. QED
        BY <3>3, <3>4, AddressOfClient
    <2>3. QED
      BY <2>1, <2>2 DEF BurstBounded
  <1>4. QED
    BY <1>1, <1>2, <1>3, PTL DEF Spec
=============================================================================
