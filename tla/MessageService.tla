--------------------------- MODULE MessageService ---------------------------
(***************************************************************************)
(* The server's message service: create and retrieve as axum handlers and  *)
(* their owned tasks (api.rs, service.rs), the per-id lock stripes, the    *)
(* hash pool they share, the expiry sweeper, and the store they race for.  *)
(*                                                                         *)
(* A store call, a read of the clock, a permit or lock operation is one    *)
(* step; everything a request does between two of them is local to it.     *)
(* Every request is made at most once; a reader's target and PIN are the   *)
(* client's and are chosen in Init.  Bounds: MaxTime, MaxCrashes.          *)
(***************************************************************************)
EXTENDS MessageStore, Sequences

CONSTANTS Readers,        \* the retrieval requests
          PinOf,          \* PinOf[m]: the PIN message m is posted with
          TtlOf,          \* TtlOf[m]: its time to live, within the policy's range
          Stripes, StripeOf,          \* lock stripes, and the stripe of each id
          Concurrency, MaxWaiting,    \* the hash pool's limits
          MaxUploads,                 \* server.max_concurrent_uploads
          MaxIdAttempts,              \* MAX_ID_ATTEMPTS
          Durable,        \* store.mode is sqlite: rows survive a restart
          Faults,         \* how a store call may fail, "none" included
          Impatient,      \* the requests whose client may disconnect
          MaxTime, MaxCrashes

Requests == Messages \cup Readers

ASSUME ServiceAssumption ==
  /\ Messages \cap Readers = {} /\ IsFiniteSet(Readers)
  /\ PinOf \in [Messages -> Pins]
  /\ TtlOf \in [Messages -> Nat \ {0}]
  /\ StripeOf \in [Ids -> Stripes]
  /\ MaxUploads \in Nat \ {0} /\ MaxIdAttempts \in Nat \ {0}
  /\ Concurrency \in Nat \ {0} /\ MaxWaiting \in Nat \ {0}
  /\ Durable \in BOOLEAN
  /\ Faults \subseteq {"none", "before", "after"}
  /\ MaxTime \in Nat /\ MaxCrashes \in Nat

VARIABLES
  now,                              \* the wall clock
  rows, generations,                \* the store: its rows, the generations given out
  place,                            \* the hash pool (BoundedPool, which HashPool implements)
  admission,                        \* free retrieval slots (Service.admission)
  uploads,                          \* free upload slots (AppState.uploads)
  holders,                          \* per stripe: the lock's holder, then its waiters
  pc, outcome, answer,              \* each request: its step, its result, what its client saw
  stamp, tries,                     \* creates: the time read before inserting; ids tried
  target, guess, arrived, seen, taken,  \* retrievals: see below
  crashes

\* A retrieval's locals: the id and PIN asked for, when it was admitted, the metadata it
\* read (at most one row; the handler uses its generation, pin and expires), and the
\* bytes the store gave it (at most one message's).
store == <<rows, generations>>
slots == <<admission, uploads>>
creates == <<stamp, tries>>
asks == <<target, guess>>
retrievals == <<arrived, seen, taken>>
vars == <<now, store, place, slots, holders, pc, outcome, answer, creates, asks,
          retrievals, crashes>>

Pool == INSTANCE BoundedPool WITH Tasks <- Requests

Capacity == Concurrency + MaxWaiting

CreateSteps == {"reading", "pooled", "insert", "finish"}
ReaderSteps == {"spawned", "locking", "check", "remove", "pooled", "record", "consume", "finish"}
Steps == {"idle", "done"} \cup CreateSteps \cup ReaderSteps

Results == {"none", "created", "ok", "refused", "wrongPin", "unavailable", "busy",
            "storage", "lost"}

Init ==
  /\ now = 0
  /\ rows = {} /\ generations = 0
  /\ Pool!Init
  /\ admission = Capacity
  /\ uploads = MaxUploads
  /\ holders = [s \in Stripes |-> <<>>]
  /\ pc = [q \in Requests |-> "idle"]
  /\ outcome = [q \in Requests |-> "none"]
  /\ answer = [q \in Requests |-> "none"]
  /\ stamp = [m \in Messages |-> 0]
  /\ tries = [m \in Messages |-> 0]
  /\ target \in [Readers -> Ids]
  /\ guess \in [Readers -> Pins]
  /\ arrived = [r \in Readers |-> 0]
  /\ seen = [r \in Readers |-> {}]
  /\ taken = [r \in Readers |-> {}]
  /\ crashes = 0

\* The request goes on to step `to`; or it has its result and only has to finish.
Goto(q, to) ==
  /\ pc' = [pc EXCEPT ![q] = to]
  /\ UNCHANGED <<outcome, answer>>

Decide(q, result) ==
  /\ pc' = [pc EXCEPT ![q] = "finish"]
  /\ outcome' = [outcome EXCEPT ![q] = result]
  /\ UNCHANGED answer

\* The request ends here: its client, unless it left, gets the result.
End(q, result) ==
  /\ pc' = [pc EXCEPT ![q] = "done"]
  /\ answer' = [answer EXCEPT ![q] = IF @ = "none" THEN result ELSE @]
  /\ UNCHANGED outcome

-----------------------------------------------------------------------------
(* Create: the handler, then the owned task that holds the upload slot.     *)

Upload(m) ==
  /\ pc[m] = "idle"
  /\ IF uploads > 0
     THEN uploads' = uploads - 1 /\ Goto(m, "reading")
     ELSE End(m, "busy") /\ UNCHANGED uploads
  /\ UNCHANGED <<now, store, place, admission, holders, creates, asks, retrievals, crashes>>

\* The body's parts and their values are valid, and the verifier is to be hashed; or the
\* request is refused (400, 413, 415).
Validate(m) ==
  \/ Decide(m, "refused") /\ UNCHANGED place
  \/ Goto(m, "pooled") /\ Pool!Enter(m)

\* The body is read to its end, and the slot moves into the owned task.
ReadBody(m) ==
  /\ pc[m] = "reading"
  /\ Validate(m)
  /\ UNCHANGED <<now, store, slots, holders, creates, asks, retrievals, crashes>>

\* The verifier is hashed: read the clock and compute the expiry, refused when it cannot
\* be written as a date.
HashedVerifier(m) ==
  /\ pc[m] = "pooled" /\ Pool!Finish(m)
  /\ \/ Decide(m, "refused") /\ UNCHANGED stamp
     \/ Goto(m, "insert") /\ stamp' = [stamp EXCEPT ![m] = now]
  /\ UNCHANGED <<now, store, slots, holders, tries, asks, retrievals, crashes>>

NewRow(m, id) ==
  [message |-> m, id |-> id, generation |-> generations + 1, pin |-> PinOf[m],
   expires |-> stamp[m] + TtlOf[m], failed |-> 0]

\* Off by one: a slip of the loop's bound.
TriesLeftInclusive(m) == tries[m] < MaxIdAttempts

TriesLeft(m) == tries[m] + 1 < MaxIdAttempts

\* One turn of the id loop: a fresh random id, and the store call with the time read
\* before the loop.  A taken id is retried, up to MAX_ID_ATTEMPTS.  A failure before the
\* commit also stands for an id source that fails.
InsertMessage(m) ==
  /\ pc[m] = "insert"
  /\ \E id \in Ids, fault \in Faults :
       LET call == Insert(rows, NewRow(m, id), stamp[m])
           commits == fault # "before"
       IN  /\ rows' = IF commits THEN call.rows ELSE rows
           /\ generations' = IF commits /\ call.result = "stored"
                             THEN generations + 1 ELSE generations
           /\ tries' = [tries EXCEPT ![m] = @ + 1]
           /\ \/ fault # "none" /\ Decide(m, "storage")
              \/ fault = "none" /\ call.result = "stored" /\ Decide(m, "created")
              \/ fault = "none" /\ call.result = "full" /\ Decide(m, "busy")
              \/ /\ fault = "none" /\ call.result = "idTaken"
                 /\ IF TriesLeft(m)
                    THEN Goto(m, "insert")
                    ELSE Decide(m, "busy")
  /\ UNCHANGED <<now, place, slots, holders, stamp, asks, retrievals, crashes>>

\* The handler or the task ends: the upload slot is free again, and the client gets its answer.
FinishCreate(m) ==
  /\ pc[m] = "finish"
  /\ uploads' = uploads + 1
  /\ End(m, outcome[m])
  /\ stamp' = [stamp EXCEPT ![m] = 0]
  /\ tries' = [tries EXCEPT ![m] = 0]
  /\ UNCHANGED <<now, store, place, admission, holders, asks, retrievals, crashes>>

-----------------------------------------------------------------------------
(* Retrieve.                                                                 *)

\* try_acquire on the admission slots, before anything waits; the slot moves into the task.
Arrive(r) ==
  /\ pc[r] = "idle"
  /\ arrived' = [arrived EXCEPT ![r] = now]
  /\ IF admission > 0
     THEN admission' = admission - 1 /\ Goto(r, "spawned")
     ELSE End(r, "busy") /\ UNCHANGED admission
  /\ UNCHANGED <<now, store, place, uploads, holders, creates, asks, seen, taken, crashes>>

\* The id's stripe, a fair (FIFO) async mutex.
LockOf(r) == StripeOf[target[r]]

\* No mutual exclusion between retrievals of one id.
HoldsAnyway(r) == holders[LockOf(r)] # <<>>

Holds(r) == holders[LockOf(r)] # <<>> /\ Head(holders[LockOf(r)]) = r

AskLock(r) ==
  /\ pc[r] = "spawned"
  /\ holders' = [holders EXCEPT ![LockOf(r)] = Append(@, r)]
  /\ Goto(r, "locking")
  /\ UNCHANGED <<now, store, place, slots, creates, asks, retrievals, crashes>>

\* With the lock, look the id up.
ReadMeta(r) ==
  /\ pc[r] = "locking" /\ Holds(r)
  /\ \E fault \in Faults :
       \/ fault # "none" /\ Decide(r, "storage") /\ UNCHANGED seen
       \/ /\ fault = "none"
          /\ seen' = [seen EXCEPT ![r] = Named(rows, target[r])]
          /\ IF Named(rows, target[r]) = {} THEN Decide(r, "unavailable") ELSE Goto(r, "check")
  /\ UNCHANGED <<now, store, place, slots, holders, creates, asks, arrived, taken, crashes>>

\* The clock is read after the lookup, and only here; then the hash pool is entered.
CheckExpiry(r) ==
  /\ pc[r] = "check"
  /\ IF \E row \in seen[r] : Expired(row, now)
     THEN Goto(r, "remove") /\ UNCHANGED place
     ELSE Goto(r, "pooled") /\ Pool!Enter(r)
  /\ UNCHANGED <<now, store, slots, holders, creates, asks, retrievals, crashes>>

\* Argon2 ends, with its verdict on the row that was read.
Verified(r) ==
  /\ pc[r] = "pooled" /\ Pool!Finish(r)
  /\ \E row \in seen[r] : Goto(r, IF guess[r] = row.pin THEN "consume" ELSE "record")
  /\ UNCHANGED <<now, store, slots, holders, creates, asks, retrievals, crashes>>

RemoveExpired(r) ==
  /\ pc[r] = "remove"
  /\ \E fault \in Faults, row \in seen[r] :
       /\ rows' = IF fault = "before" THEN rows ELSE Remove(rows, target[r], row.generation)
       /\ Decide(r, IF fault = "none" THEN "unavailable" ELSE "storage")
  /\ UNCHANGED <<now, generations, place, slots, holders, creates, asks, retrievals, crashes>>

\* The client is told before the count is known to be stored.
RecordWrongPinEarlyAnswer(r) ==
  /\ pc[r] = "record"
  /\ \E fault \in Faults, row \in seen[r] :
       LET call == RecordFailure(rows, target[r], row.generation)
       IN  /\ rows' = IF fault = "before" THEN rows ELSE call.rows
           /\ Decide(r, "wrongPin")
  /\ UNCHANGED <<now, generations, place, slots, holders, creates, asks, retrievals, crashes>>

\* The PIN does not match what was read: charge that generation.
RecordWrongPin(r) ==
  /\ pc[r] = "record"
  /\ \E fault \in Faults, row \in seen[r] :
       LET call == RecordFailure(rows, target[r], row.generation)
       IN  /\ rows' = IF fault = "before" THEN rows ELSE call.rows
           /\ Decide(r, IF fault # "none" THEN "storage"
                        ELSE IF call.result = "gone" THEN "unavailable" ELSE "wrongPin")
  /\ UNCHANGED <<now, generations, place, slots, holders, creates, asks, retrievals, crashes>>

\* The blob read in the transaction is handed out even when the transaction fails.
ConsumeMessageUnchecked(r) ==
  /\ pc[r] = "consume"
  /\ \E fault \in Faults, row \in seen[r] :
       LET call == Consume(rows, target[r], row.generation)
       IN  /\ rows' = IF fault = "before" THEN rows ELSE call.rows
           /\ taken' = [taken EXCEPT ![r] = call.blobs]
           /\ Decide(r, IF call.blobs = {} THEN "unavailable" ELSE "ok")
  /\ UNCHANGED <<now, generations, place, slots, holders, creates, asks, arrived, seen, crashes>>

\* It matches: take that generation.  Bytes leave the store only after a good commit.
ConsumeMessage(r) ==
  /\ pc[r] = "consume"
  /\ \E fault \in Faults, row \in seen[r] :
       LET call == Consume(rows, target[r], row.generation)
       IN  /\ rows' = IF fault = "before" THEN rows ELSE call.rows
           /\ taken' = [taken EXCEPT ![r] = IF fault = "none" THEN call.blobs ELSE {}]
           /\ Decide(r, IF fault # "none" THEN "storage"
                        ELSE IF call.blobs = {} THEN "unavailable" ELSE "ok")
  /\ UNCHANGED <<now, generations, place, slots, holders, creates, asks, arrived, seen, crashes>>

\* A path out of the task that forgets the lock.
FinishRetrieveLocked(r) ==
  /\ pc[r] = "finish"
  /\ admission' = admission + 1
  /\ End(r, outcome[r])
  /\ UNCHANGED <<now, store, place, uploads, holders, creates, asks, retrievals, crashes>>

\* The task ends: the lock, then the slot, are given up, and the client gets its answer.
FinishRetrieve(r) ==
  /\ pc[r] = "finish"
  /\ holders' = [holders EXCEPT ![LockOf(r)] = Tail(@)]
  /\ admission' = admission + 1
  /\ End(r, outcome[r])
  /\ UNCHANGED <<now, store, place, uploads, creates, asks, retrievals, crashes>>

-----------------------------------------------------------------------------
(* The hash pool, for both.                                                  *)

PoolBusy(q) ==
  /\ Pool!TurnAway(q)
  /\ Decide(q, "busy")
  /\ UNCHANGED <<now, store, slots, holders, creates, asks, retrievals, crashes>>

StartHash(q) ==
  /\ Pool!Start(q)
  /\ UNCHANGED <<now, store, slots, holders, pc, outcome, answer, creates, asks,
                 retrievals, crashes>>

-----------------------------------------------------------------------------
(* The sweeper, the clock, clients that leave, and restarts.                 *)

\* The clock is read once, when the sweeper starts.
SweepFromStart(t) ==
  /\ \E fault \in Faults : rows' = IF fault = "before" THEN rows ELSE Unexpired(rows, 0 * t)
  /\ UNCHANGED <<now, generations, place, slots, holders, pc, outcome, answer, creates, asks,
                 retrievals, crashes>>

\* The sweeper's store call, with the time t that it read before the call; a failure is
\* only logged.
Sweep(t) ==
  /\ \E fault \in Faults : rows' = IF fault = "before" THEN rows ELSE Unexpired(rows, t)
  /\ UNCHANGED <<now, generations, place, slots, holders, pc, outcome, answer, creates, asks,
                 retrievals, crashes>>

Tick ==
  /\ now < MaxTime
  /\ now' = now + 1
  /\ UNCHANGED <<store, place, slots, holders, pc, outcome, answer, creates, asks, retrievals, crashes>>

Active(q) == pc[q] \notin {"idle", "done"}

\* The slot belongs to the handler, not to the task: a disconnect frees it while the
\* create still runs.
DisconnectFreesSlot(q) ==
  /\ q \in Impatient
  /\ Active(q) /\ answer[q] = "none"
  /\ answer' = [answer EXCEPT ![q] = "lost"]
  /\ uploads' = IF q \in Messages THEN uploads + 1 ELSE uploads
  /\ pc' = IF pc[q] = "reading" THEN [pc EXCEPT ![q] = "done"] ELSE pc
  /\ UNCHANGED <<now, store, place, admission, holders, outcome, creates, asks, retrievals, crashes>>

\* The client goes away.  A create still reading its body is dropped with its slot; every
\* other request is in a task of its own, which carries on.
Disconnect(q) ==
  /\ q \in Impatient
  /\ Active(q) /\ answer[q] = "none"
  /\ answer' = [answer EXCEPT ![q] = "lost"]
  /\ IF pc[q] = "reading"
     THEN uploads' = uploads + 1 /\ pc' = [pc EXCEPT ![q] = "done"]
     ELSE UNCHANGED <<uploads, pc>>
  /\ UNCHANGED <<now, store, place, admission, holders, outcome, creates, asks, retrievals, crashes>>

\* The process dies and starts again: every task and permit is lost with it, and in
\* memory mode the store is too.
Crash ==
  /\ crashes < MaxCrashes
  /\ crashes' = crashes + 1
  /\ rows' = IF Durable THEN rows ELSE {}
  /\ generations' = IF Durable THEN generations ELSE 0
  /\ place' = [q \in Requests |-> "out"]
  /\ admission' = Capacity /\ uploads' = MaxUploads
  /\ holders' = [s \in Stripes |-> <<>>]
  /\ pc' = [q \in Requests |-> IF Active(q) THEN "done" ELSE pc[q]]
  /\ answer' = [q \in Requests |-> IF Active(q) /\ answer[q] = "none" THEN "lost" ELSE answer[q]]
  /\ UNCHANGED <<now, outcome, creates, asks, retrievals>>

\* A create whose body has arrived is in a task of its own; until then it is up to its client.
CreateTask(m) == HashedVerifier(m) \/ InsertMessage(m) \/ FinishCreate(m)
CreateStep(m) == ReadBody(m) \/ CreateTask(m)

RetrieveStep(r) ==
  \/ AskLock(r) \/ ReadMeta(r) \/ CheckExpiry(r) \/ Verified(r) \/ RemoveExpired(r)
  \/ RecordWrongPin(r) \/ ConsumeMessage(r) \/ FinishRetrieve(r)

Next ==
  \/ \E m \in Messages : Upload(m) \/ CreateStep(m)
  \/ \E r \in Readers : Arrive(r) \/ RetrieveStep(r)
  \/ \E q \in Requests : PoolBusy(q) \/ StartHash(q) \/ Disconnect(q)
  \/ \E t \in 0..now : Sweep(t)
  \/ Tick \/ Crash

Spec == Init /\ [][Next]_vars

\* A sweep whose store call works.
GoodSweep == Sweep(now) /\ rows' = Unexpired(rows, now)

\* The runtime keeps polling every task and running every blocking call, the semaphores
\* and the lock are FIFO, and the sweeper runs every minute and does not fail for ever; time
\* passes.  Nothing is assumed of clients, not even that a body is sent to its end, of new
\* requests, or of crashes.
Fairness ==
  /\ \A m \in Messages : WF_vars(CreateTask(m))
  /\ \A r \in Readers : WF_vars(RetrieveStep(r))
  /\ \A q \in Requests : WF_vars(PoolBusy(q)) /\ WF_vars(StartHash(q))
  /\ WF_vars(GoodSweep) /\ WF_vars(Tick)

FairSpec == Spec /\ Fairness

-----------------------------------------------------------------------------
\* Well-formed rows, known steps and results, and no id loop past MAX_ID_ATTEMPTS.
TypeOK ==
  /\ now \in Nat
  /\ rows \in SUBSET Row /\ generations \in Nat
  /\ place \in [Requests -> Pool!Places]
  /\ admission \in Int /\ uploads \in Int
  /\ holders \in [Stripes -> Seq(Readers)]
  /\ pc \in [Requests -> Steps]
  /\ outcome \in [Requests -> Results] /\ answer \in [Requests -> Results]
  /\ stamp \in [Messages -> Nat] /\ tries \in [Messages -> 0..MaxIdAttempts]
  /\ target \in [Readers -> Ids] /\ guess \in [Readers -> Pins]
  /\ arrived \in [Readers -> Nat]
  /\ seen \in [Readers -> SUBSET Row] /\ taken \in [Readers -> SUBSET Messages]
  /\ crashes \in Nat

\* The readers who looked message m up and found it.
Lookups(m) == {r \in Readers : \E row \in seen[r] : row.message = m}

\* A message's bytes leave the store for one retrieval, and then it is no longer stored,
\* whichever retrievals race for it (docs/threat-model.md, "opened at most once").
OpenedOnce ==
  \A r \in Readers : \A m \in taken[r] :
    /\ \A other \in Readers \ {r} : m \notin taken[other]
    /\ \A row \in rows : row.message # m

\* The bytes a reader gets are those of the message whose verifier its PIN was checked
\* against, even if that row expired meanwhile and another message took its id.
OpenedWithItsPin ==
  \A r \in Readers : \A m \in taken[r] : guess[r] = PinOf[m] /\ r \in Lookups(m)

\* A stored message is only ever charged for wrong PINs that were checked against it.
ChargedByItsOwnGuesses ==
  \A row \in rows :
    row.failed <= Cardinality({r \in Lookups(row.message) : guess[r] # row.pin})

\* At most MaxFailed wrong PINs are tested against a message, however many requests race:
\* those being charged and those told that their PIN was wrong.
GuessesBounded ==
  \A m \in Messages :
    Cardinality({r \in Lookups(m) :
      guess[r] # PinOf[m] /\ (pc[r] = "record" \/ outcome[r] = "wrongPin")}) <= MaxFailed

\* Ids and generations name one row each, and a create stores at most one; one that was
\* refused without a storage failure stored nothing.
StoredOnce ==
  /\ \A x, y \in rows :
       x.id = y.id \/ x.generation = y.generation \/ x.message = y.message => x = y
  /\ \A m \in Messages : outcome[m] \in {"refused", "busy"}
       => Lookups(m) = {} /\ \A row \in rows : row.message # m

\* No admission or upload slot is lost or returned twice, on any path out of a request.
SlotsConserved ==
  /\ admission + Cardinality({r \in Readers : Active(r)}) = Capacity
  /\ uploads + Cardinality({m \in Messages : Active(m)}) = MaxUploads

\* From its lookup to its commit a retrieval holds its id's lock, and no lock is left
\* held by a retrieval that ended.
LockHeld ==
  /\ \A r \in Readers : Active(r) /\ pc[r] \notin {"spawned", "locking"} => Holds(r)
  /\ \A s \in Stripes : \A i \in 1..Len(holders[s]) : Active(holders[s][i])

\* A reader is told that its PIN was wrong only once that wrong PIN is charged for good,
\* whatever fails or restarts: while the message is stored, the count is on its row.
ToldIsCharged ==
  \A row \in rows :
    Cardinality({r \in Lookups(row.message) : outcome[r] = "wrongPin"}) <= row.failed

\* A message that was already expired when a request arrived is never opened by that
\* request, and the request never learns whether its PIN was right.
ArrivedInTime ==
  \A r \in Readers : taken[r] # {} \/ outcome[r] = "wrongPin"
    => \E row \in seen[r] : arrived[r] < row.expires

Vanished == {x \in rows : \A y \in rows' : y.generation # x.generation}

\* A stored message disappears only when it has expired, when it is opened or burned by
\* a retrieval of its own, or when the server forgets everything.
NothingVanishesEarly ==
  [][\A x \in Vanished :
       \/ Expired(x, now)
       \/ crashes' > crashes /\ ~Durable
       \/ \E r \in Lookups(x.message) : pc[r] = "consume" /\ guess[r] = x.pin
       \/ \E r \in Lookups(x.message) :
            pc[r] = "record" /\ guess[r] # x.pin /\ x.failed + 1 >= MaxFailed]_vars

\* What each message has come to, for OneTimeMessages.
RowOf(m) == {row \in rows : row.message = m}
OpenersOf(m) == {r \in Readers : m \in taken[r]}
StatusOf(m) ==
  IF OpenersOf(m) # {} THEN "opened"
  ELSE IF RowOf(m) # {} THEN "stored"
  ELSE IF pc[m] \in {"finish", "done"} THEN "gone" ELSE "pending"

TheRow(R) == CHOOSE row \in R : TRUE
WrongOf(m) == IF RowOf(m) = {} THEN 0 ELSE TheRow(RowOf(m)).failed
ExpiryOf(m) == IF RowOf(m) = {} THEN 0 ELSE TheRow(RowOf(m)).expires

Promise == INSTANCE OneTimeMessages WITH
  clock <- now, restarts <- crashes, Forgets <- ~Durable, Fallible <- Faults # {"none"},
  status <- [m \in Messages |-> StatusOf(m)],
  wrong <- [m \in Messages |-> WrongOf(m)],
  expires <- [m \in Messages |-> ExpiryOf(m)],
  openers <- [m \in Messages |-> OpenersOf(m)]

\* The service keeps the promise of OneTimeMessages.
KeepsPromise == Promise!Spec

\* Every request whose body has arrived comes to its end, whoever stalls, leaves or fails: no
\* wait for a lock, a hash permit or a store call is for ever.
RequestsFinish == \A q \in Requests : Active(q) /\ pc[q] # "reading" ~> ~Active(q)

\* An expired message does not stay stored, whether anyone asks for it or not, and although
\* removals fail.
ExpiredRowsGo ==
  \A m \in Messages : (\E row \in RowOf(m) : Expired(row, now)) ~> RowOf(m) = {}

\* docs/threat-model.md: a message can't be opened after its expiry time.
NeverOpenedLate ==
  [][\A r \in Readers : \A m \in taken'[r] \ taken[r] : \A row \in RowOf(m) : ~Expired(row, now)]_vars
=============================================================================
