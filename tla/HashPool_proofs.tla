--------------------------- MODULE HashPool_proofs ---------------------------
(***************************************************************************)
(* No permit is lost and the counter is exact, for any number of callers.  *)
(* The counting rests on one lemma about a task that changes its stage; a  *)
(* permit that is handed on also needs the queue to hold queued tasks.     *)
(***************************************************************************)
EXTENDS HashPool, FiniteSetTheorems, SequenceTheorems, TLAPS

Population(st, S) == Cardinality({t \in Tasks : st[t] \in S})

In(x, S) == IF x \in S THEN 1 ELSE 0

LEMMA Populations ==
  ASSUME NEW st, NEW S
  PROVE  IsFiniteSet({t \in Tasks : st[t] \in S}) /\ Population(st, S) \in Nat
  BY PoolAssumption, FS_Subset, FS_CardinalityType DEF Population

\* In task moves: it leaves the stages of S, joins them, or neither.
LEMMA OneMoves ==
  ASSUME NEW st \in [Tasks -> Stages], NEW t \in Tasks, NEW to \in Stages, NEW S
  PROVE  Population([st EXCEPT ![t] = to], S) = Population(st, S) + In(to, S) - In(st[t], S)
  <1> DEFINE A == {u \in Tasks : st[u] \in S}
             B == {u \in Tasks : [st EXCEPT ![t] = to][u] \in S}
  <1>1. IsFiniteSet(A) /\ Cardinality(A) \in Nat
    BY Populations DEF Population
  <1>2. CASE to \in S
    <2>1. B = A \cup {t}
      BY <1>2
    <2>2. t \in A <=> st[t] \in S
      OBVIOUS
    <2>3. Cardinality(B) = IF t \in A THEN Cardinality(A) ELSE Cardinality(A) + 1
      BY <1>1, <2>1, FS_AddElement
    <2>4. QED
      BY <1>1, <1>2, <2>2, <2>3 DEF Population, In
  <1>3. CASE to \notin S
    <2>1. B = A \ {t}
      BY <1>3
    <2>2. t \in A <=> st[t] \in S
      OBVIOUS
    <2>3. Cardinality(B) = IF t \in A THEN Cardinality(A) - 1 ELSE Cardinality(A)
      BY <1>1, <2>1, FS_RemoveElement
    <2>4. QED
      BY <1>1, <1>3, <2>2, <2>3 DEF Population, In
  <1>4. QED
    BY <1>2, <1>3

Guarded == {"refused", "counted", "queued", "granted"}
Permitted == {"granted", "working"}

Shape == queue \in Seq(Tasks) /\ stage \in [Tasks -> Stages] /\ waiting \in Int /\ permits \in Nat

PoolInv ==
  /\ Shape
  /\ QueueHoldsQueued
  /\ waiting = Population(stage, Guarded)
  /\ permits + Population(stage, Permitted) = Concurrency

LEMMA InitPool == PoolInit => PoolInv
  <1> SUFFICES ASSUME PoolInit PROVE PoolInv
    OBVIOUS
  <1>1. Shape /\ QueueHoldsQueued
    BY PoolAssumption DEF PoolInit, Shape, Stages, QueueHoldsQueued
  <1>2. \A S \in {Guarded, Permitted} : {t \in Tasks : stage[t] \in S} = {}
    BY DEF PoolInit, Guarded, Permitted
  <1>3. Population(stage, Guarded) = 0 /\ Population(stage, Permitted) = 0
    BY <1>2, FS_EmptySet DEF Population
  <1>4. QED
    BY <1>1, <1>3, PoolAssumption DEF PoolInit, PoolInv

\* The head of the queue is a queued task, and the rest of the queue is in order.
LEMMA HeadIsQueued ==
  ASSUME Shape, QueueHoldsQueued, queue # <<>>
  PROVE  Head(queue) \in Tasks /\ stage[Head(queue)] = "queued"
  BY DEF Shape, QueueHoldsQueued

\* In task that is not queued moves to a stage that is not "queued" either.
LEMMA QueueUntouched ==
  ASSUME Shape, QueueHoldsQueued, queue' = queue,
         NEW t \in Tasks, stage[t] # "queued", NEW to \in Stages \ {"queued"},
         stage' = [stage EXCEPT ![t] = to]
  PROVE  QueueHoldsQueued'
  BY DEF Shape, QueueHoldsQueued

\* The k-th task leaves the queue, and with it the stage "queued".
LEMMA QueueShrinks ==
  ASSUME Shape, QueueHoldsQueued, NEW k \in 1..Len(queue),
         Len(queue') = Len(queue) - 1,
         \A i \in 1..Len(queue') : queue'[i] = IF i < k THEN queue[i] ELSE queue[i + 1],
         stage'[queue[k]] # "queued",
         \A u \in Tasks \ {queue[k]} : stage'[u] = "queued" <=> stage[u] = "queued"
  PROVE  QueueHoldsQueued'
  <1>l. Len(queue) \in Nat /\ \A i \in 1..Len(queue) : queue[i] \in Tasks
    BY DEF Shape
  <1> DEFINE Old(i) == IF i < k THEN i ELSE i + 1
  <1>1. \A i \in 1..Len(queue') : Old(i) \in 1..Len(queue) \ {k} /\ queue'[i] = queue[Old(i)]
    BY <1>l
  <1>2. \A i, j \in 1..Len(queue') : Old(i) = Old(j) => i = j
    BY <1>l
  <1>3. \A j \in 1..Len(queue) \ {k} : \E i \in 1..Len(queue') : Old(i) = j
    <2>1. SUFFICES ASSUME NEW j \in 1..Len(queue), j # k
                   PROVE  \E i \in 1..Len(queue') : Old(i) = j
      OBVIOUS
    <2>2. CASE j < k
      BY <1>l, <2>1, <2>2
    <2>3. CASE j > k
      <3>1. j - 1 \in 1..Len(queue') /\ Old(j - 1) = j
        BY <1>l, <2>1, <2>3
      <3>2. QED
        BY <3>1
    <2>4. QED
      BY <1>l, <2>1, <2>2, <2>3
  <1> HIDE DEF Old
  <1>4. \A i, j \in 1..Len(queue') : queue'[i] = queue'[j] => i = j
    BY <1>1, <1>2 DEF QueueHoldsQueued
  <1>5. ASSUME NEW u \in Tasks
        PROVE  stage'[u] = "queued" <=> \E i \in 1..Len(queue') : queue'[i] = u
    <2>1. CASE u = queue[k]
      BY <2>1, <1>1 DEF QueueHoldsQueued
    <2>2. CASE u # queue[k]
      <3>1. stage'[u] = "queued" <=> \E j \in 1..Len(queue) \ {k} : queue[j] = u
        BY <2>2 DEF QueueHoldsQueued
      <3>2. \A j \in 1..Len(queue) \ {k} : \E i \in 1..Len(queue') : queue'[i] = queue[j]
        BY <1>1, <1>3
      <3>3. \A i \in 1..Len(queue') : \E j \in 1..Len(queue) \ {k} : queue'[i] = queue[j]
        BY <1>1
      <3>4. ASSUME stage'[u] = "queued" PROVE \E i \in 1..Len(queue') : queue'[i] = u
        BY <3>1, <3>2, <3>4
      <3>5. ASSUME NEW i \in 1..Len(queue'), queue'[i] = u PROVE stage'[u] = "queued"
        BY <3>1, <3>3, <3>5
      <3>6. QED
        BY <3>4, <3>5
    <2>3. QED
      BY <2>1, <2>2
  <1>6. QED
    BY <1>4, <1>5 DEF QueueHoldsQueued

\* A task that holds a permit leaves, and its permit is handed on or free.
LEMMA Given ==
  ASSUME PoolInv, NEW t \in Tasks, stage[t] \in Permitted,
         GivePermit([stage EXCEPT ![t] = "out"])
  PROVE  /\ queue' \in Seq(Tasks) /\ stage' \in [Tasks -> Stages] /\ permits' \in Nat
         /\ QueueHoldsQueued'
         /\ Population(stage', Guarded) = Population(stage, Guarded) - In(stage[t], Guarded)
         /\ permits' + Population(stage', Permitted) = Concurrency
  <1> DEFINE left == [stage EXCEPT ![t] = "out"]
  <1>s. Shape /\ QueueHoldsQueued /\ permits + Population(stage, Permitted) = Concurrency
    BY DEF PoolInv
  <1>1. /\ left \in [Tasks -> Stages] /\ stage[t] # "queued" /\ left[t] = "out"
        /\ \A u \in Tasks \ {t} : left[u] = stage[u]
    BY <1>s DEF Shape, Stages, Permitted
  <1>2. /\ Population(left, Guarded) = Population(stage, Guarded) - In(stage[t], Guarded)
        /\ Population(left, Permitted) = Population(stage, Permitted) - 1
    <2>1. /\ Population(left, Guarded)
               = Population(stage, Guarded) + In("out", Guarded) - In(stage[t], Guarded)
          /\ Population(left, Permitted)
               = Population(stage, Permitted) + In("out", Permitted) - In(stage[t], Permitted)
      <3> "out" \in Stages /\ stage \in [Tasks -> Stages]
        BY <1>s DEF Shape, Stages
      <3>1. QED
        BY OneMoves
    <2>2. Population(stage, Guarded) \in Nat /\ Population(stage, Permitted) \in Nat
      BY Populations
    <2>3. In("out", Guarded) = 0 /\ In("out", Permitted) = 0 /\ In(stage[t], Permitted) = 1
      BY DEF In, Guarded, Permitted
    <2>4. In(stage[t], Guarded) \in Int
      BY DEF In
    <2>5. QED
      BY <2>1, <2>2, <2>3, <2>4
  <1>p. /\ Population(stage, Guarded) \in Nat /\ Population(left, Guarded) \in Nat
        /\ Population(stage, Permitted) \in Nat /\ Population(left, Permitted) \in Nat
    BY Populations
  <1>3. CASE queue = <<>>
    <2>1. permits' = permits + 1 /\ stage' = left /\ queue' = queue
      BY <1>3 DEF GivePermit
    <2>2. QueueHoldsQueued'
      BY <1>s, <1>1, <2>1, QueueUntouched DEF Stages
    <2>3. QED
      BY <1>s, <1>1, <1>2, <1>p, <2>1, <2>2 DEF Shape
  <1>4. CASE queue # <<>>
    <2> DEFINE h == Head(queue)
    <2>1. permits' = permits /\ stage' = [left EXCEPT ![h] = "granted"] /\ queue' = Tail(queue)
      BY <1>4 DEF GivePermit
    <2>2. h \in Tasks /\ stage[h] = "queued" /\ h # t /\ left[h] = "queued"
      BY <1>s, <1>1, <1>4, HeadIsQueued
    <2>3. stage' \in [Tasks -> Stages]
      BY <1>1, <2>1 DEF Stages
    <2>4. /\ queue' \in Seq(Tasks) /\ Len(queue') = Len(queue) - 1
          /\ \A i \in 1..Len(queue') : queue'[i] = queue[i + 1]
          /\ 1 \in 1..Len(queue) /\ queue[1] = h
      BY <1>4, <1>s, <2>1 DEF Shape
    <2>5. QueueHoldsQueued'
      <3>1. stage'[queue[1]] # "queued"
        BY <1>1, <2>1, <2>2, <2>4
      <3>2. \A u \in Tasks \ {queue[1]} : stage'[u] = "queued" <=> stage[u] = "queued"
        BY <1>1, <2>1, <2>2, <2>4
      <3>3. \A i \in 1..Len(queue') : queue'[i] = IF i < 1 THEN queue[i] ELSE queue[i + 1]
        BY <2>4
      <3>4. QED
        BY <1>s, <2>4, <3>1, <3>2, <3>3, QueueShrinks
    <2>6. Population(stage', Guarded) = Population(left, Guarded)
      <3>1. Population(stage', Guarded)
              = Population(left, Guarded) + In("granted", Guarded) - In(left[h], Guarded)
        BY <1>1, <2>1, <2>2, OneMoves DEF Stages
      <3>2. QED
        BY <3>1, <2>2, <1>p DEF Guarded, In
    <2>7. Population(stage', Permitted) = Population(left, Permitted) + 1
      <3>1. Population(stage', Permitted)
              = Population(left, Permitted) + In("granted", Permitted) - In(left[h], Permitted)
        BY <1>1, <2>1, <2>2, OneMoves DEF Stages
      <3>2. QED
        BY <3>1, <2>2, <1>p DEF Permitted, In
    <2>8. QED
      BY <1>s, <1>2, <1>p, <2>1, <2>3, <2>4, <2>5, <2>6, <2>7 DEF Shape
  <1>5. QED
    BY <1>3, <1>4

LEMMA NextPool == PoolInv /\ [PoolNext]_poolVars => PoolInv'
  <1> SUFFICES ASSUME PoolInv, [PoolNext]_poolVars PROVE PoolInv'
    OBVIOUS
  <1>s. Shape /\ QueueHoldsQueued
    BY DEF PoolInv
  <1>p. Population(stage, Guarded) \in Nat /\ Population(stage, Permitted) \in Nat
    BY Populations
  \* A step of one task whose place in the queue is not concerned.
  <1>m. ASSUME NEW t \in Tasks, stage[t] # "queued", NEW to \in Stages \ {"queued"},
               stage' = [stage EXCEPT ![t] = to], queue' = queue,
               waiting' = waiting + In(to, Guarded) - In(stage[t], Guarded),
               permits' = permits - In(to, Permitted) + In(stage[t], Permitted), permits' \in Nat
        PROVE  PoolInv'
    <2>1. /\ Population(stage', Guarded)
               = Population(stage, Guarded) + In(to, Guarded) - In(stage[t], Guarded)
          /\ Population(stage', Permitted)
               = Population(stage, Permitted) + In(to, Permitted) - In(stage[t], Permitted)
      BY <1>s, <1>m, OneMoves DEF Shape
    <2>2. QueueHoldsQueued'
      BY <1>s, <1>m, QueueUntouched
    <2>3. \A x, S : In(x, S) \in Int
      BY DEF In
    <2>4. Shape'
      BY <1>s, <1>m, <2>3 DEF Shape, Stages
    <2>5. /\ waiting' = Population(stage', Guarded)
          /\ permits' + Population(stage', Permitted) = Concurrency
      BY <1>s, <1>m, <1>p, <2>1, <2>3, PoolAssumption DEF PoolInv, Shape
    <2>6. QED
      BY <2>2, <2>4, <2>5 DEF PoolInv
  <1>1. ASSUME NEW t \in Tasks, Count(t) \/ Refuse(t) \/ Resume(t) PROVE PoolInv'
    <2> DEFINE to == stage'[t]
    <2>1. /\ stage[t] # "queued" /\ to \in Stages \ {"queued"} /\ queue' = queue
          /\ stage' = [stage EXCEPT ![t] = to]
          /\ waiting' = waiting + In(to, Guarded) - In(stage[t], Guarded)
          /\ permits' = permits - In(to, Permitted) + In(stage[t], Permitted) /\ permits' \in Nat
      BY <1>1, <1>s DEF Count, Refuse, Resume, Shape, Stages, Guarded, Permitted, In
    <2> HIDE DEF to
    <2>2. QED
      BY <2>1, <1>m
  <1>2. ASSUME NEW t \in Tasks, Acquire(t) PROVE PoolInv'
    <2>1. CASE permits > 0
      <3>1. /\ stage[t] = "counted" /\ stage' = [stage EXCEPT ![t] = "granted"]
            /\ queue' = queue /\ waiting' = waiting /\ permits' = permits - 1 /\ permits' \in Nat
        BY <1>2, <2>1, <1>s DEF Acquire, Shape
      <3>2. /\ waiting' = waiting + In("granted", Guarded) - In(stage[t], Guarded)
            /\ permits' = permits - In("granted", Permitted) + In(stage[t], Permitted)
        BY <3>1, <1>s DEF Shape, In, Guarded, Permitted
      <3>3. QED
        BY <3>1, <3>2, <1>m DEF Stages
    <2>2. CASE ~(permits > 0)
      <3>1. /\ stage[t] = "counted" /\ stage' = [stage EXCEPT ![t] = "queued"]
            /\ queue' = Append(queue, t) /\ waiting' = waiting /\ permits' = permits
        BY <1>2, <2>2 DEF Acquire
      <3>2. \A S \in {Guarded, Permitted} : Population(stage', S) = Population(stage, S)
        <4>1. \A S \in {Guarded, Permitted} :
                Population(stage', S) = Population(stage, S) + In("queued", S) - In("counted", S)
          <5> "queued" \in Stages /\ stage \in [Tasks -> Stages]
            BY <1>s DEF Shape, Stages
          <5>1. QED
            BY <3>1, OneMoves
        <4>2. \A S \in {Guarded, Permitted} : In("queued", S) = In("counted", S) /\ In("queued", S) \in Int
          BY DEF Guarded, Permitted, In
        <4>3. QED
          BY <4>1, <4>2, <1>p
      <3>3. Shape'
        BY <1>s, <3>1 DEF Shape, Stages
      <3>4. /\ Len(queue') = Len(queue) + 1 /\ queue'[Len(queue) + 1] = t /\ Len(queue) \in Nat
            /\ \A i \in 1..Len(queue) : queue'[i] = queue[i] /\ queue[i] # t
        BY <1>s, <3>1 DEF Shape, QueueHoldsQueued
      <3>5. \A u \in Tasks : stage'[u] = "queued" <=> stage[u] = "queued" \/ u = t
        BY <1>s, <3>1 DEF Shape
      <3>6. QueueHoldsQueued'
        <4>1. \A i \in 1..Len(queue') : i \in 1..Len(queue) \/ i = Len(queue) + 1
          BY <3>4
        <4>2. \A i, j \in 1..Len(queue') : queue'[i] = queue'[j] => i = j
          BY <1>s, <3>4, <4>1 DEF QueueHoldsQueued
        <4>3. Len(queue) + 1 \in 1..Len(queue') /\ 1..Len(queue) \subseteq 1..Len(queue')
          BY <3>4
        <4>4. \A u \in Tasks : stage'[u] = "queued" <=> \E i \in 1..Len(queue') : queue'[i] = u
          BY <1>s, <3>4, <3>5, <4>1, <4>3 DEF QueueHoldsQueued
        <4>5. QED
          BY <4>2, <4>4 DEF QueueHoldsQueued
      <3>7. QED
        BY <3>1, <3>2, <3>3, <3>6 DEF PoolInv
    <2>3. QED
      BY <2>1, <2>2
  <1>3. ASSUME NEW t \in Tasks, Release(t) PROVE PoolInv'
    <2>1. /\ stage[t] \in Permitted /\ In(stage[t], Guarded) = 0 /\ waiting' = waiting
          /\ GivePermit([stage EXCEPT ![t] = "out"])
      BY <1>3 DEF Release, Permitted, Guarded, In
    <2>2. /\ queue' \in Seq(Tasks) /\ stage' \in [Tasks -> Stages] /\ permits' \in Nat
          /\ QueueHoldsQueued'
          /\ Population(stage', Guarded) = Population(stage, Guarded) - In(stage[t], Guarded)
          /\ permits' + Population(stage', Permitted) = Concurrency
      BY <2>1, Given
    <2>3. waiting' = Population(stage', Guarded) /\ waiting' \in Int
      BY <2>1, <2>2, <1>p DEF PoolInv
    <2>4. QED
      BY <2>2, <2>3 DEF PoolInv, Shape
  <1>4. ASSUME NEW t \in Tasks, Abandon(t) PROVE PoolInv'
    <2>1. CASE stage[t] = "counted" /\ stage' = [stage EXCEPT ![t] = "out"] /\ UNCHANGED <<permits, queue>>
      <3>1. /\ waiting' = waiting + In("out", Guarded) - In(stage[t], Guarded)
            /\ permits' = permits - In("out", Permitted) + In(stage[t], Permitted) /\ permits' \in Nat
        BY <1>4, <2>1, <1>s DEF Abandon, Shape, In, Guarded, Permitted
      <3>2. QED
        BY <2>1, <3>1, <1>m DEF Stages
    <2>2. ASSUME NEW k \in 1..Len(queue), queue[k] = t, queue' = RemoveAt(queue, k),
                 stage' = [stage EXCEPT ![t] = "out"], permits' = permits
          PROVE  PoolInv'
      <3>1. stage[t] = "queued" /\ waiting' = waiting - 1
        BY <1>4, <2>2, <1>s DEF QueueHoldsQueued, Abandon
      <3>2. /\ queue' \in Seq(Tasks) /\ Len(queue') = Len(queue) - 1
            /\ \A i \in 1..Len(queue') : queue'[i] = IF i < k THEN queue[i] ELSE queue[i + 1]
        <4> DEFINE a == SubSeq(queue, 1, k - 1)
                   b == SubSeq(queue, k + 1, Len(queue))
        <4>1. queue \in Seq(Tasks) /\ Len(queue) \in Nat /\ k \in Int
          BY <1>s DEF Shape
        <4>2. a \in Seq(Tasks) /\ Len(a) = k - 1 /\ \A i \in 1..(k - 1) : a[i] = queue[i]
          BY <4>1, SubSeqProperties
        <4>3. b \in Seq(Tasks) /\ Len(b) = Len(queue) - k
          BY <4>1, SubSeqProperties
        <4>4. \A i \in 1..(Len(queue) - k) : b[i] = queue[k + i]
          BY <4>1, SubSeqProperties
        <4>5. queue' = a \o b
          BY <2>2 DEF RemoveAt
        <4> HIDE DEF a, b
        <4>6. /\ queue' \in Seq(Tasks) /\ Len(queue') = Len(a) + Len(b)
              /\ \A i \in 1..(Len(a) + Len(b)) :
                   queue'[i] = IF i <= Len(a) THEN a[i] ELSE b[i - Len(a)]
          BY <4>2, <4>3, <4>5, ConcatProperties
        <4>7. QED
          <5>1. Len(queue') = Len(queue) - 1
            BY <4>1, <4>2, <4>3, <4>6
          <5>2. ASSUME NEW i \in 1..Len(queue'), i < k PROVE queue'[i] = queue[i]
            <6>1. i \in 1..(Len(a) + Len(b)) /\ i <= Len(a) /\ i \in 1..(k - 1)
              BY <5>2, <4>1, <4>2, <4>3, <4>6
            <6>2. queue'[i] = a[i]
              BY <6>1, <4>6
            <6>3. QED
              BY <6>1, <6>2, <4>2
          <5>3. ASSUME NEW i \in 1..Len(queue'), ~(i < k) PROVE queue'[i] = queue[i + 1]
            <6>1. i - (k - 1) \in 1..(Len(queue) - k) /\ k + (i - (k - 1)) = i + 1
              BY <5>1, <5>3, <4>1
            <6>2. queue'[i] = b[i - (k - 1)]
              <7>1. i \in 1..(Len(a) + Len(b)) /\ ~(i <= Len(a)) /\ Len(a) = k - 1
                BY <5>3, <4>1, <4>2, <4>3, <4>6
              <7>2. queue'[i] = b[i - Len(a)]
                BY <7>1, <4>6
              <7>3. QED
                BY <7>1, <7>2
            <6>3. QED
              BY <6>1, <6>2, <4>4
          <5>4. QED
            BY <5>1, <5>2, <5>3, <4>6
      <3>3. /\ stage'[queue[k]] # "queued"
            /\ \A u \in Tasks \ {queue[k]} : stage'[u] = "queued" <=> stage[u] = "queued"
        BY <2>2, <1>s DEF Shape
      <3>4. QueueHoldsQueued'
        BY <1>s, <3>2, <3>3, QueueShrinks
      <3>5. /\ Population(stage', Guarded) = Population(stage, Guarded) - 1
            /\ Population(stage', Permitted) = Population(stage, Permitted)
        <4>1. \A S \in {Guarded, Permitted} :
                Population(stage', S) = Population(stage, S) + In("out", S) - In("queued", S)
          <5> "out" \in Stages /\ stage \in [Tasks -> Stages]
            BY <1>s DEF Shape, Stages
          <5>1. QED
            <6>1. stage' = [stage EXCEPT ![t] = "out"] /\ stage[t] = "queued"
              BY <2>2, <3>1
            <6>2. QED
              BY <6>1, OneMoves
        <4>2. /\ In("out", Guarded) = 0 /\ In("queued", Guarded) = 1
              /\ In("out", Permitted) = 0 /\ In("queued", Permitted) = 0
          BY DEF In, Guarded, Permitted
        <4>3. QED
          BY <4>1, <4>2, <1>p
      <3>6. Shape'
        BY <1>s, <2>2, <3>1, <3>2 DEF Shape, Stages
      <3>7. QED
        BY <1>p, <2>2, <3>1, <3>4, <3>5, <3>6 DEF PoolInv
    <2>3. CASE stage[t] = "granted" /\ GivePermit([stage EXCEPT ![t] = "out"])
      <3>1. stage[t] \in Permitted /\ In(stage[t], Guarded) = 1 /\ waiting' = waiting - 1
        BY <1>4, <2>3 DEF Abandon, Permitted, Guarded, In
      <3>2. /\ queue' \in Seq(Tasks) /\ stage' \in [Tasks -> Stages] /\ permits' \in Nat
            /\ QueueHoldsQueued'
            /\ Population(stage', Guarded) = Population(stage, Guarded) - In(stage[t], Guarded)
            /\ permits' + Population(stage', Permitted) = Concurrency
        BY <2>3, <3>1, Given
      <3>3. waiting' = Population(stage', Guarded) /\ waiting' \in Int
        BY <3>1, <3>2, <1>p DEF PoolInv
      <3>4. QED
        BY <3>2, <3>3 DEF PoolInv, Shape
    <2>4. QED
      BY <1>4, <2>1, <2>2, <2>3 DEF Abandon
  <1>5. CASE UNCHANGED poolVars
    BY <1>5 DEF poolVars, PoolInv, Shape, QueueHoldsQueued
  <1>6. QED
    BY <1>1, <1>2, <1>3, <1>4, <1>5 DEF PoolNext

LEMMA PoolInvHolds == PoolSpec => []PoolInv
  BY InitPool, NextPool, PTL DEF PoolSpec

\* The counter never goes below zero and the free permits stay between none and all.
THEOREM PoolTypeCorrect == PoolSpec => []PoolTypeOK
  <1>1. ASSUME PoolInv PROVE PoolTypeOK
    <2>1. Population(stage, Guarded) \in Nat /\ Population(stage, Permitted) \in Nat
      BY Populations
    <2>2. QED
      BY <1>1, <2>1, PoolAssumption DEF PoolInv, Shape, PoolTypeOK
  <1>2. QED
    BY PoolInvHolds, <1>1, PTL

\* However callers come, wait, are refused, cancelled or finish: free and used permits add
\* up to the pool's concurrency, so no permit is ever lost or made up.
THEOREM NoPermitLost == PoolSpec => []PermitsConserved
  <1>1. PoolInv => PermitsConserved
    BY DEF PoolInv, PermitsConserved, Population, InStage, Permitted
  <1>2. QED
    BY PoolInvHolds, <1>1, PTL

\* The waiting counter is exactly the number of callers that hold a guard, in every state.
THEOREM CounterExact == PoolSpec => []WaitingCounts
  <1>1. PoolInv => WaitingCounts
    BY DEF PoolInv, WaitingCounts, Population, InStage, Guarded
  <1>2. QED
    BY PoolInvHolds, <1>1, PTL

\* The semaphore's queue holds each queued caller once and nobody who left.
THEOREM QueueExact == PoolSpec => []QueueHoldsQueued
  <1>1. PoolInv => QueueHoldsQueued
    BY DEF PoolInv
  <1>2. QED
    BY PoolInvHolds, <1>1, PTL

-----------------------------------------------------------------------------
(* BoundedPool is what callers see of this: Where says where each of them is. *)

Where == [t \in Tasks |-> PlaceOf(stage[t])]

\* One task moves, and a queued one that is handed its permit still waits.
LEMMA PlaceMoves ==
  ASSUME stage \in [Tasks -> Stages], NEW t \in Tasks, NEW to \in Stages,
         stage' \in [Tasks -> Stages],
         \A u \in Tasks \ {t} : \/ stage'[u] = stage[u]
                                \/ stage[u] = "queued" /\ stage'[u] = "granted",
         stage'[t] = to
  PROVE  Where' = [Where EXCEPT ![t] = PlaceOf(to)]
  <1>1. \A u \in Tasks : Where'[u] = IF u = t THEN PlaceOf(to) ELSE Where[u]
    BY DEF Where, PlaceOf
  <1>2. QED
    BY <1>1 DEF Where

LEMMA GivenPlaces ==
  ASSUME PoolInv, NEW t \in Tasks, stage[t] \in Permitted,
         GivePermit([stage EXCEPT ![t] = "out"])
  PROVE  Where' = [Where EXCEPT ![t] = "out"]
  <1>1. stage \in [Tasks -> Stages] /\ stage' \in [Tasks -> Stages]
    BY Given DEF PoolInv, Shape
  <1>2. /\ stage'[t] = "out"
        /\ \A u \in Tasks \ {t} : \/ stage'[u] = stage[u]
                                  \/ stage[u] = "queued" /\ stage'[u] = "granted"
    <2> DEFINE left == [stage EXCEPT ![t] = "out"]
    <2>0. /\ left \in [Tasks -> Stages] /\ left[t] = "out"
          /\ \A u \in Tasks \ {t} : left[u] = stage[u]
      BY <1>1 DEF Stages
    <2>1. CASE queue = <<>>
      <3>1. stage' = left
        BY <2>1 DEF GivePermit
      <3>2. QED
        BY <2>0, <3>1
    <2>2. CASE queue # <<>>
      <3>1. Head(queue) \in Tasks /\ stage[Head(queue)] = "queued"
        BY <2>2, HeadIsQueued DEF PoolInv
      <3>2. Head(queue) # t
        BY <3>1 DEF Permitted
      <3>3. stage' = [left EXCEPT ![Head(queue)] = "granted"]
        BY <2>2 DEF GivePermit
      <3>4. QED
        BY <2>0, <3>1, <3>2, <3>3
    <2>3. QED
      BY <2>1, <2>2
  <1>3. "out" \in Stages /\ PlaceOf("out") = "out"
    BY DEF Stages, PlaceOf
  <1>4. QED
    BY <1>1, <1>2, <1>3, PlaceMoves

\* The instance has a Cardinality of its own, defined alike.
LEMMA SameCardinality == \A S : Bounded!Cardinality(S) = Cardinality(S)
  BY DEF Bounded!Cardinality, Cardinality

LEMMA StepBounded ==
  ASSUME PoolInv, [PoolNext]_poolVars
  PROVE  [Bounded!Next]_Where
  <1>s. /\ stage \in [Tasks -> Stages]
        /\ waiting = Population(stage, Guarded)
        /\ permits + Population(stage, Permitted) = Concurrency /\ permits \in Nat
    BY DEF PoolInv, Shape
  <1>p. \A t \in Tasks : Where[t] = PlaceOf(stage[t])
    BY DEF Where
  \* A step that moves one task and nobody else.
  <1>m. ASSUME NEW t \in Tasks, NEW to \in Stages, stage' = [stage EXCEPT ![t] = to]
        PROVE  Where' = [Where EXCEPT ![t] = PlaceOf(to)]
    BY <1>m, <1>s, PlaceMoves
  <1>x. \A t \in Tasks :
          Bounded!Enter(t) <=>
            /\ Where[t] = "out"
            /\ Where' = IF Cardinality(Bounded!At({"waiting", "refused"})) < MaxWaiting
                         THEN [Where EXCEPT ![t] = "waiting"]
                         ELSE [Where EXCEPT ![t] = "refused"]
    BY SameCardinality DEF Bounded!Enter, Bounded!Move, Where
  <1>1. ASSUME NEW t \in Tasks, Count(t) PROVE Bounded!Enter(t)
    <2>1. Cardinality(Bounded!At({"waiting", "refused"})) = waiting
      <3>1. Bounded!At({"waiting", "refused"}) = {u \in Tasks : stage[u] \in Guarded}
        BY <1>s DEF Bounded!At, PlaceOf, Guarded, Stages
      <3>2. QED
        BY <1>s, <3>1 DEF Population
    <2>2. waiting \in Int /\ MaxWaiting \in Nat
      BY PoolAssumption DEF PoolInv, Shape
    <2>3. Where[t] = "out"
      BY <1>1, <1>p DEF Count, PlaceOf
    <2>4. CASE waiting >= MaxWaiting
      <3>1. Where' = [Where EXCEPT ![t] = "refused"]
        BY <1>1, <1>m, <2>4 DEF Count, Stages, PlaceOf
      <3>2. ~(Cardinality(Bounded!At({"waiting", "refused"})) < MaxWaiting)
        BY <2>1, <2>2, <2>4
      <3>3. QED
        BY <2>3, <3>1, <3>2, <1>x
    <2>5. CASE ~(waiting >= MaxWaiting)
      <3>1. Where' = [Where EXCEPT ![t] = "waiting"]
        BY <1>1, <1>m, <2>5 DEF Count, Stages, PlaceOf
      <3>2. Cardinality(Bounded!At({"waiting", "refused"})) < MaxWaiting
        BY <2>1, <2>2, <2>5
      <3>3. QED
        BY <2>3, <3>1, <3>2, <1>x
    <2>6. QED
      BY <2>4, <2>5
  <1>2. ASSUME NEW t \in Tasks, Refuse(t) PROVE Bounded!TurnAway(t)
    <2>1. Where[t] = "refused" /\ Where' = [Where EXCEPT ![t] = "out"]
      BY <1>2, <1>m, <1>p DEF Refuse, Stages, PlaceOf
    <2>2. QED
      BY <2>1 DEF Bounded!TurnAway, Bounded!Move, Where
  <1>3. ASSUME NEW t \in Tasks, Acquire(t) PROVE Where' = Where
    <2>1. Where[t] = "waiting" /\ Where' = [Where EXCEPT ![t] = "waiting"]
      BY <1>3, <1>m, <1>p DEF Acquire, Stages, PlaceOf
    <2>2. QED
      BY <2>1 DEF Where
  <1>4. ASSUME NEW t \in Tasks, Resume(t) PROVE Bounded!Start(t)
    <2>1. Where[t] = "waiting" /\ Where' = [Where EXCEPT ![t] = "working"]
      BY <1>4, <1>m, <1>p DEF Resume, Stages, PlaceOf
    <2>2. Cardinality(Bounded!At({"working"})) < Concurrency
      <3> DEFINE Holding == {u \in Tasks : stage[u] \in Permitted}
                 Busy == Bounded!At({"working"})
      <3>1. Busy \subseteq Holding /\ t \in Holding /\ t \notin Busy
        BY <1>s, <1>4 DEF Resume, Bounded!At, PlaceOf, Permitted, Stages
      <3>p. Population(stage, Permitted) = Cardinality(Holding)
        BY DEF Population
      <3>q. IsFiniteSet(Holding) /\ Cardinality(Holding) \in Nat
        BY Populations, FS_Subset, FS_CardinalityType, PoolAssumption
      <3>2. IsFiniteSet(Holding) /\ Cardinality(Holding) \in Nat /\ Cardinality(Holding) <= Concurrency
        BY <1>s, <3>p, <3>q, PoolAssumption
      <3>3. IsFiniteSet(Busy) /\ Cardinality(Busy) \in Nat /\ Cardinality(Busy) <= Cardinality(Holding)
            /\ Cardinality(Busy) # Cardinality(Holding)
        <4> HIDE DEF Busy, Holding
        <4>1. QED
          BY <3>1, <3>2, FS_Subset, FS_CardinalityType
      <3>4. QED
        BY <3>2, <3>3, PoolAssumption
    <2>3. Bounded!Start(t) <=>
            /\ Cardinality(Bounded!At({"working"})) < Concurrency
            /\ Where[t] = "waiting" /\ Where' = [Where EXCEPT ![t] = "working"]
      BY SameCardinality DEF Bounded!Start, Bounded!Move, Where
    <2>4. QED
      BY <2>1, <2>2, <2>3
  <1>5. ASSUME NEW t \in Tasks, Release(t) PROVE Bounded!Finish(t)
    <2>1. Where[t] = "working" /\ Where' = [Where EXCEPT ![t] = "out"]
      BY <1>5, <1>p, GivenPlaces DEF Release, Permitted, PlaceOf
    <2>2. QED
      BY <2>1 DEF Bounded!Finish, Bounded!Move, Where
  <1>6. ASSUME NEW t \in Tasks, Abandon(t) PROVE Bounded!Leave(t)
    <2>1. Where[t] = "waiting" /\ Where' = [Where EXCEPT ![t] = "out"]
      <3>1. CASE stage[t] = "granted" /\ GivePermit([stage EXCEPT ![t] = "out"])
        BY <1>p, <3>1, GivenPlaces DEF Permitted, PlaceOf
      <3>2. CASE stage[t] \in {"counted", "queued"} /\ stage' = [stage EXCEPT ![t] = "out"]
        BY <1>m, <1>p, <3>2 DEF Stages, PlaceOf
      <3>3. ASSUME NEW k \in 1..Len(queue), queue[k] = t
            PROVE  stage[t] = "queued"
        BY <3>3 DEF PoolInv, QueueHoldsQueued
      <3>4. QED
        BY <1>6, <3>1, <3>2, <3>3 DEF Abandon
    <2>2. QED
      BY <2>1 DEF Bounded!Leave, Bounded!Move, Where
  <1>7. CASE UNCHANGED poolVars
    BY <1>7 DEF poolVars, Where
  <1>8. QED
    BY <1>1, <1>2, <1>3, <1>4, <1>5, <1>6, <1>7 DEF PoolNext, Bounded!Next

\* The counter and the semaphore, each changed on its own, are together one bounded waiting
\* room: what MessageService is built on.
THEOREM PoolIsBounded == PoolSpec => ImplementsBoundedPool
  <1>1. PoolInit => Bounded!Init
    BY DEF PoolInit, Bounded!Init, PlaceOf
  <1>2. PoolInv /\ [PoolNext]_poolVars => [Bounded!Next]_Where
    BY StepBounded
  <1>3. QED
    BY <1>1, <1>2, PoolInvHolds, PTL DEF PoolSpec, ImplementsBoundedPool, Bounded!Spec, Where
=============================================================================
