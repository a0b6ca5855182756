------------------------------ MODULE HashPool ------------------------------
(***************************************************************************)
(* The bounded pool that runs Argon2 work (service.rs, `HashPool`).  It is *)
(* built from two independent pieces of shared state: a counter `waiting`, *)
(* changed with fetch_add/fetch_sub, and tokio's FIFO semaphore, modelled  *)
(* from how the pool uses it (`permits` free permits and a `queue`).       *)
(* Nothing makes the two change together, so each access is its own step.  *)
(***************************************************************************)
EXTENDS Integers, FiniteSets, SequencesExt

CONSTANTS Tasks,        \* the callers of HashPool::run
          Concurrency,  \* hash permits (pin.hash_concurrency)
          MaxWaiting    \* pin.max_queued_hashes

ASSUME PoolAssumption ==
  /\ IsFiniteSet(Tasks)
  /\ Concurrency \in Nat \ {0}
  /\ MaxWaiting \in Nat \ {0}

VARIABLES waiting,  \* the AtomicUsize
          permits,  \* free permits of the semaphore
          queue,    \* tasks waiting in the semaphore, oldest first
          stage     \* where each task is inside run()

poolVars == <<waiting, permits, queue, stage>>

Stages == {"out", "refused", "counted", "queued", "granted", "working"}

InStage(S) == {t \in Tasks : stage[t] \in S}

PoolInit ==
  /\ waiting = 0
  /\ permits = Concurrency
  /\ queue = <<>>
  /\ stage = [t \in Tasks |-> "out"]

\* Lets one caller too many wait.
CountOneMore(t) ==
  /\ stage[t] = "out"
  /\ waiting' = waiting + 1
  /\ stage' = [stage EXCEPT ![t] = IF waiting > MaxWaiting THEN "refused" ELSE "counted"]
  /\ UNCHANGED <<permits, queue>>

\* `ahead = waiting.fetch_add(1)`, compared with max_waiting: the task is counted
\* even when it is about to be refused.
Count(t) ==
  /\ stage[t] = "out"
  /\ waiting' = waiting + 1
  /\ stage' = [stage EXCEPT ![t] = IF waiting >= MaxWaiting THEN "refused" ELSE "counted"]
  /\ UNCHANGED <<permits, queue>>

\* An early return without the guard.
RefuseStillCounted(t) ==
  /\ stage[t] = "refused"
  /\ stage' = [stage EXCEPT ![t] = "out"]
  /\ UNCHANGED <<waiting, permits, queue>>

\* The early return: the guard is dropped, the caller gets 503.
Refuse(t) ==
  /\ stage[t] = "refused"
  /\ waiting' = waiting - 1
  /\ stage' = [stage EXCEPT ![t] = "out"]
  /\ UNCHANGED <<permits, queue>>

\* The newest waiter goes first.
AcquireNewestFirst(t) ==
  /\ stage[t] = "counted"
  /\ IF permits > 0
     THEN /\ permits' = permits - 1
          /\ stage' = [stage EXCEPT ![t] = "granted"]
          /\ UNCHANGED queue
     ELSE /\ queue' = <<t>> \o queue
          /\ stage' = [stage EXCEPT ![t] = "queued"]
          /\ UNCHANGED permits
  /\ UNCHANGED waiting

\* One permit too many is given out.
AcquireOneMore(t) ==
  /\ stage[t] = "counted"
  /\ IF permits >= 0
     THEN permits' = permits - 1 /\ stage' = [stage EXCEPT ![t] = "granted"] /\ UNCHANGED queue
     ELSE queue' = Append(queue, t) /\ stage' = [stage EXCEPT ![t] = "queued"] /\ UNCHANGED permits
  /\ UNCHANGED waiting

\* acquire_owned: a free permit is taken at once, otherwise the task queues.
Acquire(t) ==
  /\ stage[t] = "counted"
  /\ IF permits > 0
     THEN /\ permits' = permits - 1
          /\ stage' = [stage EXCEPT ![t] = "granted"]
          /\ UNCHANGED queue
     ELSE /\ queue' = Append(queue, t)
          /\ stage' = [stage EXCEPT ![t] = "queued"]
          /\ UNCHANGED permits
  /\ UNCHANGED waiting

\* The task runs again with its permit: the guard is dropped, the work is spawned.
Resume(t) ==
  /\ stage[t] = "granted"
  /\ waiting' = waiting - 1
  /\ stage' = [stage EXCEPT ![t] = "working"]
  /\ UNCHANGED <<permits, queue>>

\* A permit that comes back goes to the oldest queued task, or is free again;
\* `left` is the stage of the tasks once the giver has gone.
GivePermit(left) ==
  IF queue = <<>>
  THEN /\ permits' = permits + 1
       /\ stage' = left
       /\ UNCHANGED queue
  ELSE /\ stage' = [left EXCEPT ![Head(queue)] = "granted"]
       /\ queue' = Tail(queue)
       /\ UNCHANGED permits

\* The work ends on its blocking thread, which owns the permit.
Release(t) ==
  /\ stage[t] = "working"
  /\ GivePermit([stage EXCEPT ![t] = "out"])
  /\ UNCHANGED waiting

\* A cancelled caller keeps its place in the queue.
AbandonInQueue(t) ==
  /\ waiting' = waiting - 1
  /\ stage[t] \in {"counted", "queued"}
  /\ stage' = [stage EXCEPT ![t] = "out"]
  /\ UNCHANGED <<permits, queue>>

\* A cancelled caller takes its permit with it.
AbandonWithPermit(t) ==
  /\ waiting' = waiting - 1
  /\ stage[t] \in {"counted", "granted"}
  /\ stage' = [stage EXCEPT ![t] = "out"]
  /\ UNCHANGED <<permits, queue>>

\* The caller's future is dropped while it waits: the guard's Drop uncounts it, and
\* the semaphore forgets it or hands its permit on.  The runtime may also make a task yield
\* before it has asked for a permit.  (Once the work is spawned, dropping the caller
\* changes nothing: the permit belongs to the work.)
Abandon(t) ==
  /\ waiting' = waiting - 1
  /\ \/ /\ stage[t] = "counted"
        /\ stage' = [stage EXCEPT ![t] = "out"]
        /\ UNCHANGED <<permits, queue>>
     \/ \E k \in 1..Len(queue) :
          /\ queue[k] = t
          /\ queue' = RemoveAt(queue, k)
          /\ stage' = [stage EXCEPT ![t] = "out"]
          /\ UNCHANGED permits
     \/ /\ stage[t] = "granted"
        /\ GivePermit([stage EXCEPT ![t] = "out"])

PoolNext ==
  \E t \in Tasks :
    Count(t) \/ Refuse(t) \/ Acquire(t) \/ Resume(t) \/ Release(t) \/ Abandon(t)

\* The runtime polls every runnable task and the Argon2 work ends, so every step but
\* the arrival of work and the loss of a caller is fair.
PoolFairness ==
  \A t \in Tasks : /\ WF_poolVars(Refuse(t)) /\ WF_poolVars(Acquire(t))
                   /\ WF_poolVars(Resume(t)) /\ WF_poolVars(Release(t))

PoolSpec == PoolInit /\ [][PoolNext]_poolVars /\ PoolFairness

-----------------------------------------------------------------------------
\* The counter never goes below zero, and no permit is made up.
PoolTypeOK ==
  /\ waiting \in Nat
  /\ permits \in 0..Concurrency
  /\ queue \in Seq(Tasks)
  /\ stage \in [Tasks -> Stages]

\* The queue holds each queued task once, and nothing else.  A task left behind in
\* the queue by a cancelled caller would be handed a permit nobody returns.
QueueHoldsQueued ==
  /\ \A i, j \in 1..Len(queue) : queue[i] = queue[j] => i = j
  /\ \A t \in Tasks : stage[t] = "queued" <=> \E i \in 1..Len(queue) : queue[i] = t

\* No permit is lost or made up, whichever way a caller leaves run().
PermitsConserved == permits + Cardinality(InStage({"granted", "working"})) = Concurrency

\* The counter is exactly the tasks that hold a Waiting guard, refused ones included.
WaitingCounts ==
  waiting = Cardinality(InStage({"refused", "counted", "queued", "granted"}))

\* Every task that is counted in leaves the waiting part of run(): it gets to work,
\* or its caller goes away.
WaitersServed == \A t \in Tasks : stage[t] = "queued" ~> stage[t] \in {"working", "out"}

PlaceOf(st) == IF st \in {"counted", "queued", "granted"} THEN "waiting" ELSE st
Bounded == INSTANCE BoundedPool WITH place <- [t \in Tasks |-> PlaceOf(stage[t])]

\* The pool implements BoundedPool: the two pieces of state, each changed on its own,
\* act as one bounded waiting room.
ImplementsBoundedPool == Bounded!Spec
=============================================================================
