----------------------- MODULE MessageService_proofs -----------------------
(***************************************************************************)
(* The safety of MessageService for any number of messages, readers, ids,  *)
(* stripes and slots.  Base says where each request may be: its step, the  *)
(* pool, the lock queues.  Opening says what a row, a lookup and the bytes *)
(* taken tell about each other.  Both are inductive together (NextBase,    *)
(* NextOpening), and the first theorems follow from them; the slots are    *)
(* counted from Base alone; the second part is about what becomes of a     *)
(* message, and that it is what was promised.                              *)
(***************************************************************************)
EXTENDS MessageService, FiniteSetTheorems, TLAPS

\* The id loop: a create that may still insert has a try left.
TriesInv ==
  \A m \in Messages :
    pc[m] \in {"idle", "reading", "pooled", "insert"} => tries[m] < MaxIdAttempts

\* Only a request in the step "pooled" is in the pool.
PlaceInv == \A q \in Requests : pc[q] # "pooled" => place[q] = "out"

Kinds ==
  /\ \A m \in Messages : pc[m] \in {"idle", "done"} \cup CreateSteps
  /\ \A r \in Readers : pc[r] \in {"idle", "done"} \cup ReaderSteps

\* The lock queues: a retrieval that asked for its lock and has not ended is in its
\* stripe's queue, once, and only the first in a queue is past the wait.
Locking(r) == pc[r] \notin {"idle", "spawned", "done"}
LockInv ==
  /\ \A s \in Stripes : \A i \in 1..Len(holders[s]) :
       /\ LockOf(holders[s][i]) = s
       /\ Locking(holders[s][i])
       /\ i > 1 => pc[holders[s][i]] = "locking"
  /\ \A s \in Stripes : \A i, j \in 1..Len(holders[s]) : holders[s][i] = holders[s][j] => i = j
  /\ \A r \in Readers : Locking(r)
       => \E i \in 1..Len(holders[LockOf(r)]) : holders[LockOf(r)][i] = r

Base == TypeOK /\ TriesInv /\ PlaceInv /\ Kinds /\ LockInv

LEMMA InitBase == Init => Base
  <1> SUFFICES ASSUME Init PROVE Base
    OBVIOUS
  <1> USE DEF Init
  <1>1. TypeOK
    <2> USE DEF TypeOK
    <2>1. rows \in SUBSET Row /\ generations \in Nat /\ now \in Nat /\ crashes \in Nat
      OBVIOUS
    <2>2. place \in [Requests -> Pool!Places]
      BY DEF Pool!Init, Pool!Places
    <2>3. admission \in Int /\ uploads \in Int
      BY ServiceAssumption DEF Capacity
    <2>4. holders \in [Stripes -> Seq(Readers)]
      OBVIOUS
    <2>5. pc \in [Requests -> Steps] /\ outcome \in [Requests -> Results] /\ answer \in [Requests -> Results]
      BY DEF Steps, Results
    <2>6. stamp \in [Messages -> Nat] /\ tries \in [Messages -> 0..MaxIdAttempts]
      BY ServiceAssumption
    <2>7. target \in [Readers -> Ids] /\ guess \in [Readers -> Pins] /\ arrived \in [Readers -> Nat]
      OBVIOUS
    <2>8. seen \in [Readers -> SUBSET Row] /\ taken \in [Readers -> SUBSET Messages]
      OBVIOUS
    <2>9. QED
      BY <2>1, <2>2, <2>3, <2>4, <2>5, <2>6, <2>7, <2>8
  <1>2. TriesInv
    BY ServiceAssumption DEF TriesInv
  <1>3. PlaceInv
    BY DEF PlaceInv, Pool!Init
  <1>4. Kinds
    BY DEF Kinds, Requests
  <1>5. LockInv
    BY DEF LockInv, Locking, Requests
  <1>6. QED
    BY <1>1, <1>2, <1>3, <1>4, <1>5 DEF Base

-----------------------------------------------------------------------------
(* What the store's calls leave.                                            *)

LEMMA InsertLeaves ==
  ASSUME NEW R \in SUBSET Row, NEW new \in Row, NEW t \in Nat
  PROVE  LET call == Insert(R, new, t)
         IN  /\ call.rows \subseteq R \cup {new}
             /\ call.result # "stored" => call.rows \subseteq R
             /\ call.result = "stored" => \A x \in call.rows : x = new \/ x.id # new.id
             /\ call.result \in {"stored", "idTaken", "full"}
  BY DEF Insert, MakeRoom, Unexpired, Named, Expired, Row

LEMMA RecordFailureLeaves ==
  ASSUME NEW R \in SUBSET Row, NEW id \in Ids, NEW g \in Nat
  PROVE  LET call == RecordFailure(R, id, g)
         IN  /\ call.rows \subseteq Row
             /\ \A x \in call.rows : \E y \in R :
                  /\ x.message = y.message /\ x.id = y.id /\ x.generation = y.generation
                  /\ x.pin = y.pin /\ x.expires = y.expires
  BY DEF RecordFailure, Generation, Named, Row

-----------------------------------------------------------------------------
(* Every step keeps the types, the steps of each kind of request, and the   *)
(* pool's places.                                                           *)

LEMMA NewRowType ==
  ASSUME TypeOK, NEW m \in Messages, NEW id \in Ids
  PROVE  /\ NewRow(m, id) \in Row
         /\ NewRow(m, id).message = m /\ NewRow(m, id).id = id
         /\ NewRow(m, id).generation = generations + 1 /\ NewRow(m, id).pin = PinOf[m]
  BY ServiceAssumption DEF TypeOK, NewRow, Row

\* TypeOK in two halves: the requests' control, and the data.
ControlOK ==
  pc \in [Requests -> Steps] /\ outcome \in [Requests -> Results] /\ answer \in [Requests -> Results]

DataOK ==
  /\ now \in Nat /\ crashes \in Nat
  /\ rows \in SUBSET Row /\ generations \in Nat
  /\ place \in [Requests -> Pool!Places]
  /\ admission \in Int /\ uploads \in Int
  /\ holders \in [Stripes -> Seq(Readers)]
  /\ stamp \in [Messages -> Nat] /\ tries \in [Messages -> 0..MaxIdAttempts]
  /\ target \in [Readers -> Ids] /\ guess \in [Readers -> Pins]
  /\ arrived \in [Readers -> Nat]
  /\ seen \in [Readers -> SUBSET Row] /\ taken \in [Readers -> SUBSET Messages]

LEMMA Halves == TypeOK <=> ControlOK /\ DataOK
  BY DEF TypeOK, ControlOK, DataOK

LEMMA ControlMoves ==
  ASSUME ControlOK, NEW q \in Requests
  PROVE  /\ \A to \in Steps : Goto(q, to) => ControlOK'
         /\ \A result \in Results : Decide(q, result) => ControlOK'
         /\ \A result \in Results : End(q, result) => ControlOK'
  BY DEF ControlOK, Goto, Decide, End, Steps, CreateSteps

LEMMA PoolMoves ==
  ASSUME DataOK, NEW q \in Requests
  PROVE  Pool!Enter(q) \/ Pool!TurnAway(q) \/ Pool!Start(q) \/ Pool!Finish(q)
           => place' \in [Requests -> Pool!Places]
  BY DEF DataOK, Pool!Enter, Pool!TurnAway, Pool!Start, Pool!Finish, Pool!Move, Pool!Places

LEMMA NextControl == ControlOK /\ [Next]_vars => ControlOK'
  <1> SUFFICES ASSUME ControlOK, [Next]_vars PROVE ControlOK'
    OBVIOUS
  <1> Messages \subseteq Requests /\ Readers \subseteq Requests
    BY DEF Requests
  <1>s. {"done", "reading", "pooled", "insert", "finish", "spawned", "locking", "check",
         "remove", "record", "consume"} \subseteq Steps
    BY DEF Steps, CreateSteps, ReaderSteps
  <1>r. {"none", "created", "ok", "refused", "wrongPin", "unavailable", "busy", "storage",
         "lost"} \subseteq Results
    BY DEF Results
  <1>o. \A q \in Requests : outcome[q] \in Results
    BY DEF ControlOK
  <1> USE ControlMoves, <1>s, <1>r, <1>o
  <1>1. ASSUME NEW m \in Messages, Upload(m) \/ CreateStep(m) PROVE ControlOK'
    <2>1. CASE Upload(m)
      BY <2>1 DEF Upload
    <2>2. CASE ReadBody(m)
      BY <2>2 DEF ReadBody, Validate
    <2>3. CASE HashedVerifier(m)
      BY <2>3 DEF HashedVerifier
    <2>4. CASE InsertMessage(m)
      BY <2>4 DEF InsertMessage
    <2>5. CASE FinishCreate(m)
      BY <2>5 DEF FinishCreate
    <2>6. QED
      BY <1>1, <2>1, <2>2, <2>3, <2>4, <2>5 DEF CreateStep, CreateTask
  <1>2. ASSUME NEW r \in Readers, Arrive(r) \/ RetrieveStep(r) PROVE ControlOK'
    <2>1. CASE Arrive(r)
      BY <2>1 DEF Arrive
    <2>2. CASE AskLock(r)
      BY <2>2 DEF AskLock
    <2>3. CASE ReadMeta(r)
      BY <2>3 DEF ReadMeta
    <2>4. CASE CheckExpiry(r)
      BY <2>4 DEF CheckExpiry
    <2>5. CASE Verified(r)
      BY <2>5 DEF Verified
    <2>6. CASE RemoveExpired(r)
      BY <2>6 DEF RemoveExpired
    <2>7. CASE RecordWrongPin(r)
      BY <2>7 DEF RecordWrongPin
    <2>8. CASE ConsumeMessage(r)
      BY <2>8 DEF ConsumeMessage
    <2>9. CASE FinishRetrieve(r)
      BY <2>9 DEF FinishRetrieve
    <2>10. QED
      BY <1>2, <2>1, <2>2, <2>3, <2>4, <2>5, <2>6, <2>7, <2>8, <2>9 DEF RetrieveStep
  <1>3. ASSUME NEW q \in Requests, PoolBusy(q) \/ StartHash(q) \/ Disconnect(q) PROVE ControlOK'
    <2>1. CASE PoolBusy(q)
      BY <2>1 DEF PoolBusy
    <2>2. CASE StartHash(q)
      BY <2>2 DEF StartHash, ControlOK
    <2>3. CASE Disconnect(q)
      BY <2>3 DEF Disconnect, ControlOK
    <2>4. QED
      BY <1>3, <2>1, <2>2, <2>3
  <1>4. ASSUME NEW t \in 0..now, Sweep(t) PROVE ControlOK'
    BY <1>4 DEF Sweep, ControlOK
  <1>5. CASE Tick
    BY <1>5 DEF Tick, ControlOK
  <1>6. CASE Crash
    BY <1>6 DEF Crash, ControlOK
  <1>7. CASE UNCHANGED vars
    BY <1>7 DEF vars, ControlOK
  <1>8. QED
    BY <1>1, <1>2, <1>3, <1>4, <1>5, <1>6, <1>7 DEF Next

\* A retrieval that is past the wait holds its lock.
LEMMA FirstInLine ==
  ASSUME TypeOK, LockInv, NEW r \in Readers, Locking(r), pc[r] # "locking"
  PROVE  /\ LockOf(r) \in Stripes
         /\ Len(holders[LockOf(r)]) > 0 /\ holders[LockOf(r)][1] = r
         /\ Holds(r)
  <1>1. LockOf(r) \in Stripes
    BY ServiceAssumption DEF LockOf, TypeOK
  <1>2. holders[LockOf(r)] \in Seq(Readers)
    BY <1>1 DEF TypeOK
  <1>3. PICK i \in 1..Len(holders[LockOf(r)]) : holders[LockOf(r)][i] = r
    BY DEF LockInv
  <1>4. i = 1
    BY <1>1, <1>2, <1>3 DEF LockInv
  <1>5. QED
    BY <1>1, <1>2, <1>3, <1>4 DEF Holds

LEMMA NextData == TypeOK /\ TriesInv /\ LockInv /\ [Next]_vars => DataOK'
  <1> SUFFICES ASSUME TypeOK, TriesInv, LockInv, [Next]_vars PROVE DataOK'
    OBVIOUS
  <1>d. DataOK
    BY Halves
  <1>k. \A r \in Readers : LockOf(r) \in Stripes
    BY <1>d, ServiceAssumption DEF LockOf, DataOK
  <1> USE <1>d DEF DataOK, store, slots, creates, asks, retrievals
  <1>1. ASSUME NEW m \in Messages, Upload(m) \/ CreateStep(m) PROVE DataOK'
    <2> m \in Requests
      BY DEF Requests
    <2>1. CASE Upload(m)
      BY <2>1 DEF Upload
    <2>2. CASE ReadBody(m)
      BY <2>2, PoolMoves DEF ReadBody, Validate
    <2>3. CASE HashedVerifier(m)
      BY <2>3, PoolMoves DEF HashedVerifier
    <2>4. CASE InsertMessage(m)
      <3>1. PICK id \in Ids, fault \in Faults :
              /\ rows' = IF fault # "before" THEN Insert(rows, NewRow(m, id), stamp[m]).rows ELSE rows
              /\ generations' \in {generations, generations + 1}
              /\ tries' = [tries EXCEPT ![m] = @ + 1]
        BY <2>4 DEF InsertMessage
      <3>2. rows' \in SUBSET Row
        <4>1. NewRow(m, id) \in Row /\ stamp[m] \in Nat
          BY NewRowType
        <4>2. Insert(rows, NewRow(m, id), stamp[m]).rows \subseteq rows \cup {NewRow(m, id)}
          BY <4>1, InsertLeaves
        <4>3. QED
          BY <3>1, <4>1, <4>2
      <3>3. tries' \in [Messages -> 0..MaxIdAttempts]
        BY <3>1, <2>4, ServiceAssumption DEF InsertMessage, TriesInv
      <3>4. QED
        BY <3>1, <3>2, <3>3, <2>4 DEF InsertMessage
    <2>5. CASE FinishCreate(m)
      BY <2>5, ServiceAssumption DEF FinishCreate
    <2>6. QED
      BY <1>1, <2>1, <2>2, <2>3, <2>4, <2>5 DEF CreateStep, CreateTask
  <1>2. ASSUME NEW r \in Readers, Arrive(r) \/ RetrieveStep(r) PROVE DataOK'
    <2> r \in Requests
      BY DEF Requests
    <2>1. CASE Arrive(r)
      BY <2>1 DEF Arrive
    <2>2. CASE AskLock(r)
      <3>1. holders' \in [Stripes -> Seq(Readers)]
        BY <1>k, <2>2 DEF AskLock
      <3>2. QED
        BY <3>1, <2>2 DEF AskLock
    <2>3. CASE ReadMeta(r)
      BY <2>3 DEF ReadMeta, Named
    <2>4. CASE CheckExpiry(r)
      BY <2>4, PoolMoves DEF CheckExpiry
    <2>5. CASE Verified(r)
      BY <2>5, PoolMoves DEF Verified
    <2>6. CASE RemoveExpired(r)
      BY <2>6 DEF RemoveExpired, Remove
    <2>7. CASE RecordWrongPin(r)
      <3>1. PICK row \in seen[r] : rows' \in {rows, RecordFailure(rows, target[r], row.generation).rows}
        BY <2>7 DEF RecordWrongPin
      <3>2. rows' \in SUBSET Row
        <4>1. target[r] \in Ids /\ row \in Row /\ row.generation \in Nat
          BY DEF Row
        <4>2. RecordFailure(rows, target[r], row.generation).rows \subseteq Row
          BY <4>1, RecordFailureLeaves
        <4>3. QED
          BY <3>1, <4>2
      <3>3. QED
        BY <3>2, <2>7 DEF RecordWrongPin
    <2>8. CASE ConsumeMessage(r)
      <3>1. PICK row \in seen[r] :
              /\ rows' \in {rows, Consume(rows, target[r], row.generation).rows}
              /\ \/ taken' = [taken EXCEPT ![r] = Consume(rows, target[r], row.generation).blobs]
                 \/ taken' = [taken EXCEPT ![r] = {}]
        BY <2>8 DEF ConsumeMessage
      <3>2. rows' \in SUBSET Row
        BY <3>1 DEF Consume
      <3>3. Consume(rows, target[r], row.generation).blobs \subseteq Messages
        BY DEF Consume, Generation, Named, Row
      <3>4. taken' \in [Readers -> SUBSET Messages]
        BY <3>1, <3>3
      <3>5. QED
        BY <3>2, <3>4, <2>8 DEF ConsumeMessage
    <2>9. CASE FinishRetrieve(r)
      <3>1. holders[LockOf(r)] # <<>>
        BY <2>9, FirstInLine DEF FinishRetrieve, Locking, Holds
      <3>2. holders' \in [Stripes -> Seq(Readers)]
        BY <1>k, <2>9, <3>1 DEF FinishRetrieve
      <3>3. QED
        BY <3>2, <2>9 DEF FinishRetrieve
    <2>10. QED
      BY <1>2, <2>1, <2>2, <2>3, <2>4, <2>5, <2>6, <2>7, <2>8, <2>9 DEF RetrieveStep
  <1>3. ASSUME NEW q \in Requests, PoolBusy(q) \/ StartHash(q) \/ Disconnect(q) PROVE DataOK'
    <2>1. CASE PoolBusy(q)
      BY <2>1, PoolMoves DEF PoolBusy
    <2>2. CASE StartHash(q)
      BY <2>2, PoolMoves DEF StartHash
    <2>3. CASE Disconnect(q)
      BY <2>3 DEF Disconnect
    <2>4. QED
      BY <1>3, <2>1, <2>2, <2>3
  <1>4. ASSUME NEW t \in 0..now, Sweep(t) PROVE DataOK'
    BY <1>4 DEF Sweep, Unexpired
  <1>5. CASE Tick
    BY <1>5 DEF Tick
  <1>6. CASE Crash
    BY <1>6, ServiceAssumption DEF Crash, Capacity, Pool!Places
  <1>7. CASE UNCHANGED vars
    BY <1>7 DEF vars
  <1>8. QED
    BY <1>1, <1>2, <1>3, <1>4, <1>5, <1>6, <1>7 DEF Next

LEMMA NextKinds == ControlOK /\ Kinds /\ [Next]_vars => Kinds'
  <1> SUFFICES ASSUME ControlOK, Kinds, [Next]_vars PROVE Kinds'
    OBVIOUS
  <1> Messages \cap Readers = {}
    BY ServiceAssumption
  <1> USE DEF Kinds, ControlOK, CreateSteps, ReaderSteps, Requests, Goto, Decide, End
  <1>1. ASSUME NEW m \in Messages, Upload(m) \/ CreateStep(m) PROVE Kinds'
    BY <1>1 DEF Upload, CreateStep, CreateTask, ReadBody, Validate, HashedVerifier, InsertMessage, FinishCreate
  <1>2. ASSUME NEW r \in Readers, Arrive(r) \/ RetrieveStep(r) PROVE Kinds'
    <2>1. pc' = [pc EXCEPT ![r] = pc'[r]] /\ pc'[r] \in {"idle", "done"} \cup ReaderSteps
      BY <1>2 DEF Arrive, RetrieveStep, AskLock, ReadMeta, CheckExpiry, Verified, RemoveExpired,
                  RecordWrongPin, ConsumeMessage, FinishRetrieve
    <2>2. QED
      BY <2>1
  <1>3. ASSUME NEW q \in Requests, PoolBusy(q) \/ StartHash(q) \/ Disconnect(q) PROVE Kinds'
    BY <1>3 DEF PoolBusy, StartHash, Disconnect
  <1>4. CASE UNCHANGED pc
    BY <1>4
  <1>5. CASE Crash
    BY <1>5 DEF Crash
  <1>6. QED
    BY <1>1, <1>2, <1>3, <1>4, <1>5 DEF Next, Sweep, Tick, vars

LEMMA NextTries == TypeOK /\ Kinds /\ TriesInv /\ [Next]_vars => TriesInv'
  <1> SUFFICES ASSUME TypeOK, Kinds, TriesInv, [Next]_vars PROVE TriesInv'
    OBVIOUS
  <1> Messages \cap Readers = {}
    BY ServiceAssumption
  <1> USE DEF TypeOK, TriesInv, Requests, Goto, Decide, End, creates
  <1>1. ASSUME NEW m \in Messages, Upload(m) \/ CreateStep(m) PROVE TriesInv'
    <2>1. CASE Upload(m) \/ ReadBody(m) \/ HashedVerifier(m)
      BY <2>1 DEF Upload, ReadBody, Validate, HashedVerifier
    <2>2. CASE InsertMessage(m)
      BY <2>2 DEF InsertMessage, TriesLeft
    <2>3. CASE FinishCreate(m)
      BY <2>3 DEF FinishCreate
    <2>4. QED
      BY <1>1, <2>1, <2>2, <2>3 DEF CreateStep, CreateTask
  <1>2. ASSUME NEW r \in Readers, Arrive(r) \/ RetrieveStep(r) PROVE TriesInv'
    <2>1. tries' = tries /\ pc' = [pc EXCEPT ![r] = pc'[r]]
      BY <1>2 DEF Arrive, RetrieveStep, AskLock, ReadMeta, CheckExpiry, Verified, RemoveExpired,
                  RecordWrongPin, ConsumeMessage, FinishRetrieve
    <2>2. QED
      BY <2>1
  <1>3. ASSUME NEW q \in Requests, PoolBusy(q) \/ StartHash(q) \/ Disconnect(q) PROVE TriesInv'
    BY <1>3 DEF PoolBusy, StartHash, Disconnect
  <1>4. CASE UNCHANGED <<pc, tries>>
    BY <1>4
  <1>5. CASE Crash
    BY <1>5 DEF Crash, Active
  <1>6. QED
    BY <1>1, <1>2, <1>3, <1>4, <1>5 DEF Next, Sweep, Tick, vars

LEMMA NextPlace == TypeOK /\ PlaceInv /\ [Next]_vars => PlaceInv'
  <1> SUFFICES ASSUME TypeOK, PlaceInv, [Next]_vars PROVE PlaceInv'
    OBVIOUS
  <1> USE DEF TypeOK, PlaceInv, Requests, Goto, Decide, End
  <1>1. ASSUME NEW m \in Messages, Upload(m) \/ CreateStep(m) PROVE PlaceInv'
    BY <1>1 DEF Upload, CreateStep, CreateTask, ReadBody, Validate, HashedVerifier, InsertMessage, FinishCreate,
                Pool!Enter, Pool!Finish, Pool!Move
  <1>2. ASSUME NEW r \in Readers, Arrive(r) \/ RetrieveStep(r) PROVE PlaceInv'
    <2>1. CASE CheckExpiry(r)
      BY <2>1 DEF CheckExpiry, Pool!Enter, Pool!Move
    <2>2. CASE Verified(r)
      BY <2>2 DEF Verified, Pool!Finish, Pool!Move
    <2>3. CASE /\ place' = place /\ pc[r] # "pooled"
               /\ pc' = [pc EXCEPT ![r] = pc'[r]] /\ pc'[r] # "pooled"
      BY <2>3
    <2>4. QED
      BY <1>2, <2>1, <2>2, <2>3
      DEF Arrive, RetrieveStep, AskLock, ReadMeta, RemoveExpired, RecordWrongPin,
          ConsumeMessage, FinishRetrieve
  <1>3. ASSUME NEW q \in Requests, PoolBusy(q) \/ StartHash(q) \/ Disconnect(q) PROVE PlaceInv'
    BY <1>3 DEF PoolBusy, StartHash, Disconnect, Pool!TurnAway, Pool!Start, Pool!Move
  <1>4. CASE UNCHANGED <<pc, place>>
    BY <1>4
  <1>5. CASE Crash
    BY <1>5 DEF Crash
  <1>6. QED
    BY <1>1, <1>2, <1>3, <1>4, <1>5 DEF Next, Sweep, Tick, vars

\* A retrieval that moves on without giving its lock up leaves the queues in order.
LEMMA LockFrame ==
  ASSUME TypeOK, LockInv, holders' = holders, target' = target,
         \A r \in Readers :
           \/ pc'[r] = pc[r]
           \/ ~Locking(r) /\ ~Locking(r)'
           \/ Locking(r) /\ Locking(r)' /\ (pc[r] # "locking" \/ Holds(r))
  PROVE  LockInv'
  <1>1. \A r \in Readers : Locking(r)' <=> Locking(r)
    BY DEF Locking
  <1>2. ASSUME NEW s \in Stripes, NEW i \in 1..Len(holders[s]), i > 1
        PROVE  pc'[holders[s][i]] = "locking"
    <2>1. holders[s] \in Seq(Readers) /\ holders[s][i] \in Readers /\ 1 \in 1..Len(holders[s])
      BY <1>2 DEF TypeOK
    <2>2. pc[holders[s][i]] = "locking" /\ LockOf(holders[s][i]) = s
      BY <1>2 DEF LockInv
    <2>3. ~Holds(holders[s][i])
      BY <1>2, <2>1, <2>2 DEF Holds, LockInv
    <2>4. QED
      BY <2>1, <2>2, <2>3 DEF Locking
  <1>3. \A s \in Stripes : \A i \in 1..Len(holders[s]) : holders[s][i] \in Readers
    BY DEF TypeOK
  <1>4. QED
    BY <1>1, <1>2, <1>3 DEF LockInv, LockOf

LEMMA NextLock == Base /\ [Next]_vars => LockInv'
  <1> SUFFICES ASSUME Base, [Next]_vars PROVE LockInv'
    OBVIOUS
  <1>b. TypeOK /\ PlaceInv /\ Kinds /\ LockInv /\ ControlOK /\ DataOK
    BY Halves DEF Base
  <1> Messages \cap Readers = {} /\ Readers \subseteq Requests
    BY ServiceAssumption DEF Requests
  <1>k. \A r \in Readers : LockOf(r) \in Stripes
    BY <1>b, ServiceAssumption DEF LockOf, TypeOK
  <1>1. ASSUME NEW m \in Messages, Upload(m) \/ CreateStep(m) PROVE LockInv'
    <2>1. holders' = holders /\ target' = target /\ pc' = [pc EXCEPT ![m] = pc'[m]]
      BY <1>1, <1>b DEF Upload, CreateStep, CreateTask, ReadBody, Validate, HashedVerifier, InsertMessage, FinishCreate,
           Goto, Decide, End, ControlOK, asks
    <2>2. \A r \in Readers : pc'[r] = pc[r]
      BY <2>1, <1>b DEF ControlOK
    <2>3. QED
      BY <1>b, <2>1, <2>2, LockFrame
  <1>2. ASSUME NEW r \in Readers, Arrive(r) PROVE LockInv'
    BY <1>2, <1>b, LockFrame DEF Arrive, Goto, End, ControlOK, asks, Locking
  <1>3. ASSUME NEW r \in Readers, AskLock(r) PROVE LockInv'
    <2> DEFINE k == LockOf(r)
    <2>1. /\ pc[r] = "spawned" /\ target' = target
          /\ pc' = [pc EXCEPT ![r] = "locking"]
          /\ holders' = [holders EXCEPT ![k] = Append(@, r)]
      BY <1>3 DEF AskLock, Goto, asks
    <2>2. /\ k \in Stripes /\ holders[k] \in Seq(Readers)
          /\ holders'[k] = Append(holders[k], r) /\ Len(holders'[k]) = Len(holders[k]) + 1
          /\ holders'[k][Len(holders[k]) + 1] = r
          /\ \A i \in 1..Len(holders[k]) : holders'[k][i] = holders[k][i]
          /\ \A s \in Stripes \ {k} : holders'[s] = holders[s]
      BY <2>1, <1>k, <1>b DEF DataOK
    <2>3. \A s \in Stripes : \A i \in 1..Len(holders[s]) :
            holders[s][i] \in Readers /\ holders[s][i] # r
      BY <2>1, <1>b DEF LockInv, Locking, DataOK
    <2>4. pc'[r] = "locking" /\ \A q \in Readers \ {r} : pc'[q] = pc[q]
      BY <2>1, <1>b DEF ControlOK
    <2>5. ASSUME NEW s \in Stripes, NEW i \in 1..Len(holders'[s])
          PROVE  \/ i \in 1..Len(holders[s]) /\ holders'[s][i] = holders[s][i]
                 \/ s = k /\ i = Len(holders[k]) + 1 /\ holders'[s][i] = r
      <3>1. CASE s = k
        BY <2>2, <3>1
      <3>2. CASE s # k
        BY <2>2, <3>2
      <3>3. QED
        BY <3>1, <3>2
    <2>6. \A s \in Stripes : \A i \in 1..Len(holders'[s]) :
            /\ LockOf(holders'[s][i]) = s
            /\ pc'[holders'[s][i]] \notin {"idle", "spawned", "done"}
            /\ i > 1 => pc'[holders'[s][i]] = "locking"
      <3>1. SUFFICES ASSUME NEW s \in Stripes, NEW i \in 1..Len(holders'[s])
                     PROVE  /\ LockOf(holders'[s][i]) = s
                            /\ pc'[holders'[s][i]] \notin {"idle", "spawned", "done"}
                            /\ i > 1 => pc'[holders'[s][i]] = "locking"
        OBVIOUS
      <3>2. CASE i \in 1..Len(holders[s]) /\ holders'[s][i] = holders[s][i]
        <4>1. holders[s][i] \in Readers /\ pc'[holders[s][i]] = pc[holders[s][i]]
          BY <3>2, <2>3, <2>4
        <4>2. QED
          BY <3>2, <4>1, <1>b DEF LockInv, Locking
      <3>3. CASE s = k /\ i = Len(holders[k]) + 1 /\ holders'[s][i] = r
        BY <3>3, <2>4
      <3>4. QED
        BY <3>2, <3>3, <2>5
    <2>7. \A s \in Stripes : \A i, j \in 1..Len(holders'[s]) : holders'[s][i] = holders'[s][j] => i = j
      <3>1. \A s \in Stripes : \A i \in 1..Len(holders'[s]) :
              holders'[s][i] = r => s = k /\ i = Len(holders[k]) + 1
        BY <2>3, <2>5
      <3>2. \A s \in Stripes : \A i \in 1..Len(holders'[s]) :
              holders'[s][i] # r => i \in 1..Len(holders[s]) /\ holders'[s][i] = holders[s][i]
        BY <2>5
      <3>3. \A s \in Stripes : \A i, j \in 1..Len(holders[s]) : holders[s][i] = holders[s][j] => i = j
        BY <1>b DEF LockInv
      <3>4. QED
        BY <3>1, <3>2, <3>3
    <2>8. \A q \in Readers : Locking(q)'
            => \E i \in 1..Len(holders'[LockOf(q)]) : holders'[LockOf(q)][i] = q
      <3>1. SUFFICES ASSUME NEW q \in Readers, Locking(q)'
                     PROVE  \E i \in 1..Len(holders'[LockOf(q)]) : holders'[LockOf(q)][i] = q
        OBVIOUS
      <3>2. CASE q = r
        <4>1. Len(holders[k]) + 1 \in 1..Len(holders'[k])
          BY <2>2
        <4>2. QED
          BY <4>1, <3>2, <2>2
      <3>3. CASE q # r
        <4>1. PICK i \in 1..Len(holders[LockOf(q)]) : holders[LockOf(q)][i] = q
          BY <3>1, <3>3, <2>4, <1>b DEF LockInv, Locking
        <4>2. i \in 1..Len(holders'[LockOf(q)]) /\ holders'[LockOf(q)][i] = q
          BY <4>1, <2>2, <1>k
        <4>3. QED
          BY <4>2
      <3>4. QED
        BY <3>2, <3>3
    <2>9. target' = target
      BY <2>1
    <2>10. QED
      BY <2>6, <2>7, <2>8, <2>9 DEF LockInv, LockOf, Locking
  <1>4. ASSUME NEW r \in Readers,
               ReadMeta(r) \/ CheckExpiry(r) \/ Verified(r) \/ RemoveExpired(r)
                 \/ RecordWrongPin(r) \/ ConsumeMessage(r)
        PROVE  LockInv'
    <2>1. /\ holders' = holders /\ target' = target
          /\ pc' = [pc EXCEPT ![r] = pc'[r]] /\ Locking(r)' /\ Locking(r)
          /\ pc[r] # "locking" \/ Holds(r)
      BY <1>4, <1>b DEF ReadMeta, CheckExpiry, Verified, RemoveExpired, RecordWrongPin,
           ConsumeMessage, Goto, Decide, ControlOK, asks, Locking
    <2>2. \A q \in Readers \ {r} : pc'[q] = pc[q]
      BY <2>1, <1>b DEF ControlOK
    <2>3. QED
      BY <1>b, <2>1, <2>2, LockFrame
  <1>5. ASSUME NEW r \in Readers, FinishRetrieve(r) PROVE LockInv'
    <2> DEFINE k == LockOf(r)
    <2>1. /\ pc[r] = "finish" /\ target' = target
          /\ pc' = [pc EXCEPT ![r] = "done"]
          /\ holders' = [holders EXCEPT ![k] = Tail(holders[k])]
      BY <1>5 DEF FinishRetrieve, End, asks
    <2>2. Len(holders[k]) > 0 /\ holders[k][1] = r
      BY <2>1, <1>b, FirstInLine DEF Locking
    <2>3. /\ k \in Stripes /\ holders[k] \in Seq(Readers) /\ holders[k] # <<>>
          /\ holders'[k] = Tail(holders[k])
      BY <2>1, <2>2, <1>k, <1>b DEF DataOK
    <2>4. /\ Len(holders'[k]) = Len(holders[k]) - 1
          /\ \A i \in 1..Len(holders'[k]) : holders'[k][i] = holders[k][i + 1]
          /\ \A s \in Stripes \ {k} : holders'[s] = holders[s]
      BY <2>1, <2>3, <1>b DEF DataOK
    <2>5. pc'[r] = "done" /\ \A q \in Readers \ {r} : pc'[q] = pc[q]
      BY <2>1, <1>b DEF ControlOK
    <2>6. ASSUME NEW s \in Stripes, NEW i \in 1..Len(holders'[s])
          PROVE  \/ s # k /\ i \in 1..Len(holders[s]) /\ holders'[s][i] = holders[s][i]
                 \/ s = k /\ i + 1 \in 1..Len(holders[s]) /\ holders'[s][i] = holders[s][i + 1]
      <3>1. CASE s = k
        <4>1. Len(holders[k]) \in Nat
          BY <2>3
        <4>2. i \in 1..Len(holders'[k])
          BY <3>1
        <4>3. i \in 1..(Len(holders[k]) - 1)
          BY <4>2, <2>4
        <4>4. i + 1 \in 1..Len(holders[k])
          BY <4>1, <4>3
        <4>5. holders'[k][i] = holders[k][i + 1]
          BY <4>2, <2>4
        <4>6. QED
          BY <4>4, <4>5, <3>1
      <3>2. CASE s # k
        BY <2>4, <3>2
      <3>3. QED
        BY <3>1, <3>2
    <2>7. ASSUME NEW s \in Stripes, NEW i \in 1..Len(holders'[s])
          PROVE  /\ LockOf(holders'[s][i]) = s /\ holders'[s][i] \in Readers \ {r}
                 /\ Locking(holders'[s][i])
                 /\ i > 1 => pc[holders'[s][i]] = "locking"
      <3>s. holders[s] \in Seq(Readers)
        BY <1>b DEF DataOK
      <3>1. CASE s = k
        <4>1. i + 1 \in 1..Len(holders[k]) /\ holders'[k][i] = holders[k][i + 1] /\ i + 1 > 1
          BY <3>1, <2>6
        <4>2. holders[k][i + 1] \in Readers /\ holders[k][i + 1] # r
          <5>1. 1 \in 1..Len(holders[k]) /\ i + 1 # 1
            BY <4>1
          <5>2. QED
            BY <3>s, <3>1, <4>1, <5>1, <2>2, <2>3, <1>b DEF LockInv
        <4>3. QED
          BY <3>1, <4>1, <4>2, <2>3, <1>b DEF LockInv
      <3>2. CASE s # k
        <4>1. i \in 1..Len(holders[s]) /\ holders'[s][i] = holders[s][i] /\ LockOf(holders[s][i]) = s
          BY <3>2, <2>6, <1>b DEF LockInv
        <4>2. QED
          BY <3>s, <3>2, <4>1, <1>b DEF LockInv
      <3>3. QED
        BY <3>1, <3>2
    <2>8. \A s \in Stripes : \A i, j \in 1..Len(holders'[s]) : holders'[s][i] = holders'[s][j] => i = j
      <3>1. SUFFICES ASSUME NEW s \in Stripes,
                            NEW i \in 1..Len(holders'[s]), NEW j \in 1..Len(holders'[s]),
                            holders'[s][i] = holders'[s][j]
                     PROVE  i = j
        OBVIOUS
      <3>2. CASE s = k
        <4>1. i + 1 = j + 1
          BY <3>1, <3>2, <2>6, <1>b DEF LockInv
        <4>2. i \in Int /\ j \in Int
          OBVIOUS
        <4>3. QED
          BY <4>1, <4>2
      <3>3. CASE s # k
        BY <3>1, <3>3, <2>6, <1>b DEF LockInv
      <3>4. QED
        BY <3>2, <3>3
    <2>9. \A q \in Readers : Locking(q)'
            => \E i \in 1..Len(holders'[LockOf(q)]) : holders'[LockOf(q)][i] = q
      <3>1. SUFFICES ASSUME NEW q \in Readers, Locking(q)'
                     PROVE  \E i \in 1..Len(holders'[LockOf(q)]) : holders'[LockOf(q)][i] = q
        OBVIOUS
      <3>2. q # r /\ Locking(q)
        BY <3>1, <2>5 DEF Locking
      <3>3. PICK i \in 1..Len(holders[LockOf(q)]) : holders[LockOf(q)][i] = q
        BY <3>2, <1>b DEF LockInv
      <3>4. CASE LockOf(q) = k
        <4>1. i # 1 /\ i \in Int /\ Len(holders[k]) \in Nat
          BY <3>2, <3>3, <3>4, <2>2, <2>3
        <4>2. i - 1 \in 1..Len(holders'[k]) /\ (i - 1) + 1 = i
          BY <4>1, <3>3, <3>4, <2>4
        <4>3. holders'[k][i - 1] = q
          BY <4>2, <2>4, <3>3, <3>4
        <4>4. QED
          BY <4>2, <4>3, <3>4
      <3>5. CASE LockOf(q) # k
        BY <3>3, <3>5, <2>4, <1>k
      <3>6. QED
        BY <3>4, <3>5
    <2>10. \A s \in Stripes : \A i \in 1..Len(holders'[s]) :
             /\ LockOf(holders'[s][i]) = s
             /\ pc'[holders'[s][i]] \notin {"idle", "spawned", "done"}
             /\ i > 1 => pc'[holders'[s][i]] = "locking"
      BY <2>5, <2>7 DEF Locking
    <2>11. target' = target
      BY <2>1
    <2>12. QED
      BY <2>8, <2>9, <2>10, <2>11 DEF LockInv, LockOf, Locking
  <1>6. ASSUME NEW q \in Requests, PoolBusy(q) \/ StartHash(q) \/ Disconnect(q) PROVE LockInv'
    <2>1. CASE PoolBusy(q)
      <3>1. /\ pc[q] = "pooled" /\ holders' = holders /\ target' = target
            /\ pc' = [pc EXCEPT ![q] = "finish"]
        BY <2>1, <1>b DEF PoolBusy, Decide, Pool!TurnAway, Pool!Move, PlaceInv, asks
      <3>2. QED
        BY <3>1, <1>b, LockFrame DEF ControlOK, Locking
    <2>2. CASE StartHash(q)
      BY <2>2, <1>b, LockFrame DEF StartHash, asks
    <2>3. CASE Disconnect(q)
      <3>1. holders' = holders /\ target' = target /\ \A r \in Readers : pc'[r] = pc[r]
        BY <2>3, <1>b DEF Disconnect, Kinds, ReaderSteps, ControlOK, asks
      <3>2. QED
        BY <3>1, <1>b, LockFrame
    <2>4. QED
      BY <1>6, <2>1, <2>2, <2>3
  <1>7. CASE UNCHANGED <<pc, holders, asks>>
    BY <1>7, <1>b, LockFrame DEF asks
  <1>8. CASE Crash
    <2>1. holders' = [s \in Stripes |-> <<>>] /\ \A r \in Readers : ~Locking(r)'
      BY <1>8, <1>b DEF Crash, Active, Locking, ControlOK
    <2>2. QED
      BY <2>1 DEF LockInv
  <1>9. QED
    BY <1>1, <1>2, <1>3, <1>4, <1>5, <1>6, <1>7, <1>8 DEF Next, RetrieveStep, Sweep, Tick, vars

LEMMA NextBase == Base /\ [Next]_vars => Base'
  <1> SUFFICES ASSUME Base, [Next]_vars PROVE Base'
    OBVIOUS
  <1>1. ControlOK' /\ DataOK'
    BY Halves, NextControl, NextData DEF Base
  <1>2. TypeOK'
    BY <1>1 DEF TypeOK, ControlOK, DataOK
  <1>3. TriesInv' /\ PlaceInv' /\ Kinds'
    BY Halves, NextKinds, NextTries, NextPlace DEF Base
  <1>4. LockInv'
    BY NextLock
  <1>5. QED
    BY <1>2, <1>3, <1>4 DEF Base

\* In every state the variables have their types: no step of any request, no failure and
\* no restart leaves an ill-formed row, an unknown step, or a create past its last id.
THEOREM TypeCorrect == Spec => []TypeOK
  <1>1. Base /\ [Next]_vars => Base'
    BY NextBase
  <1>2. Base => TypeOK
    BY DEF Base
  <1>3. QED
    BY InitBase, <1>1, <1>2, PTL DEF Spec

\* A retrieval past the wait holds its id's lock until it ends, whichever way it ends, and
\* nobody that ended is left in a lock's queue, so no id stays locked.
THEOREM LocksKept == Spec => []LockHeld
  <1>1. ASSUME Base PROVE LockHeld
    <2>1. \A r \in Readers : Active(r) /\ pc[r] \notin {"spawned", "locking"} => Holds(r)
      BY <1>1, FirstInLine DEF Base, Active, Locking
    <2>2. \A s \in Stripes : \A i \in 1..Len(holders[s]) : Active(holders[s][i])
      BY <1>1 DEF Base, LockInv, Locking, Active
    <2>3. QED
      BY <2>1, <2>2 DEF LockHeld
  <1>2. QED
    BY InitBase, NextBase, <1>1, PTL DEF Spec

-----------------------------------------------------------------------------
(* Rows, lookups and openings.  A row belongs to a create that has done its *)
(* insert; a retrieval between its lookup and its commit knows a generation *)
(* that names the same message as long as it is stored.                     *)

Kept(m) == pc[m] \in {"finish", "done"} /\ outcome[m] \in {"created", "storage"}

Unique(R) ==
  \A x, y \in R : x.id = y.id \/ x.generation = y.generation \/ x.message = y.message => x = y

Past == {"check", "remove", "pooled", "record", "consume"}

StoreInv ==
  /\ Unique(rows)
  /\ \A x \in rows : Kept(x.message) /\ x.pin = PinOf[x.message] /\ x.generation <= generations

SeenInv ==
  \A r \in Readers :
    /\ \A x, y \in seen[r] : x = y
    /\ \A x \in seen[r] : Kept(x.message) /\ x.pin = PinOf[x.message]
    /\ pc[r] \in Past => \A x \in seen[r] :
         /\ x.generation <= generations
         /\ \A y \in rows : y.generation = x.generation => y.message = x.message
    /\ pc[r] = "consume" => \A x \in seen[r] : guess[r] = x.pin

TakenInv ==
  \A r \in Readers : \A m \in taken[r] :
    /\ pc[r] \in {"finish", "done"} /\ Kept(m)
    /\ guess[r] = PinOf[m] /\ \E x \in seen[r] : x.message = m
    /\ \A x \in rows : x.message # m
    /\ \A other \in Readers \ {r} : m \notin taken[other]

Opening == StoreInv /\ SeenInv /\ TakenInv

LEMMA InitOpening == Init => Opening
  BY DEF Init, Opening, StoreInv, SeenInv, TakenInv, Unique

\* What is stored was stored for good: a create's result does not change later.
LEMMA KeptStays ==
  ASSUME Base, [Next]_vars, NEW m \in Messages, Kept(m)
  PROVE  Kept(m)'
  <1> USE DEF Kept, Goto, Decide, End
  <1>b. ControlOK /\ PlaceInv /\ m \in Requests /\ Messages \cap Readers = {}
    BY Halves, ServiceAssumption DEF Base, Requests
  <1>1. ASSUME NEW n \in Messages, Upload(n) \/ CreateStep(n) PROVE Kept(m)'
    BY <1>1, <1>b DEF ControlOK, Requests, Upload, CreateStep, CreateTask, ReadBody, Validate, HashedVerifier,
                      InsertMessage, FinishCreate
  <1>2. ASSUME NEW r \in Readers, Arrive(r) \/ RetrieveStep(r) PROVE Kept(m)'
    BY <1>2, <1>b DEF ControlOK, Arrive, RetrieveStep, AskLock, ReadMeta, CheckExpiry, Verified,
                      RemoveExpired, RecordWrongPin, ConsumeMessage, FinishRetrieve
  <1>3. ASSUME NEW q \in Requests, PoolBusy(q) \/ StartHash(q) \/ Disconnect(q) PROVE Kept(m)'
    BY <1>3, <1>b DEF ControlOK, PlaceInv, PoolBusy, StartHash, Disconnect, Pool!TurnAway, Pool!Move
  <1>4. CASE UNCHANGED <<pc, outcome>>
    BY <1>4
  <1>5. CASE Crash
    BY <1>5, <1>b DEF Crash, Active
  <1>6. QED
    BY <1>1, <1>2, <1>3, <1>4, <1>5 DEF Next, Sweep, Tick, vars

\* A step that stores nothing new, and lets a retrieval reach "consume" only with the PIN
\* of the row it looked up.
LEMMA Quiet ==
  ASSUME Base, Opening, \A m \in Messages : Kept(m) => Kept(m)',
         UNCHANGED <<generations, seen, taken, guess>>, Unique(rows'), rows' \subseteq Row,
         \A x \in rows' : \E y \in rows :
           x.message = y.message /\ x.generation = y.generation /\ x.pin = y.pin,
         \A r \in Readers :
           /\ pc[r] \in {"finish", "done"} => pc'[r] \in {"finish", "done"}
           /\ pc'[r] \in Past => pc[r] \in Past
           /\ pc'[r] = "consume" => pc[r] = "consume" \/ \A x \in seen[r] : guess[r] = x.pin
  PROVE  Opening'
  <1>1. \A x \in Row : x.message \in Messages /\ x.generation \in Nat
    BY DEF Row
  <1>2. /\ rows \subseteq Row /\ seen \in [Readers -> SUBSET Row]
        /\ taken \in [Readers -> SUBSET Messages]
    BY DEF Base, TypeOK
  <1>3. StoreInv'
    BY <1>1, <1>2 DEF Opening, StoreInv, Unique
  <1>4. SeenInv'
    BY <1>1, <1>2 DEF Opening, SeenInv
  <1>5. TakenInv'
    BY <1>1, <1>2 DEF Opening, TakenInv
  <1>6. QED
    BY <1>3, <1>4, <1>5 DEF Opening

LEMMA RecordFailureUnique ==
  ASSUME NEW R \in SUBSET Row, NEW id \in Ids, NEW g \in Nat, Unique(R)
  PROVE  Unique(RecordFailure(R, id, g).rows)
  <1> DEFINE hit == Generation(R, id, g)
             after == RecordFailure(R, id, g).rows
             Of(x, y) == IF y \in hit THEN x = [y EXCEPT !.failed = @ + 1] ELSE x = y
  <1>1. \A x \in after : \E y \in R : Of(x, y)
    BY DEF RecordFailure, Generation, Named
  <1>2. \A x, y : y \in R /\ Of(x, y)
          => x.id = y.id /\ x.generation = y.generation /\ x.message = y.message
    BY DEF Row
  <1>3. \A x1, x2, y : y \in R /\ Of(x1, y) /\ Of(x2, y) => x1 = x2
    OBVIOUS
  <1>4. SUFFICES ASSUME NEW x1 \in after, NEW x2 \in after,
                        x1.id = x2.id \/ x1.generation = x2.generation \/ x1.message = x2.message
                 PROVE  x1 = x2
    BY DEF Unique
  <1> HIDE DEF after, Of
  <1>5. PICK y1 \in R : Of(x1, y1)
    BY <1>1
  <1>6. PICK y2 \in R : Of(x2, y2)
    BY <1>1
  <1>7. y1 = y2
    BY <1>2, <1>4, <1>5, <1>6 DEF Unique
  <1>8. QED
    BY <1>3, <1>5, <1>6, <1>7

LEMMA NextOpening == Base /\ Opening /\ [Next]_vars => Opening'
  <1> SUFFICES ASSUME Base, Opening, [Next]_vars PROVE Opening'
    OBVIOUS
  <1>b. /\ ControlOK /\ DataOK /\ PlaceInv /\ Kinds
        /\ Messages \cap Readers = {} /\ Messages \subseteq Requests /\ Readers \subseteq Requests
    BY Halves, ServiceAssumption DEF Base, Requests
  <1>k. \A m \in Messages : Kept(m) => Kept(m)'
    BY KeptStays
  <1>u. Unique(rows) /\ rows \subseteq Row
    BY <1>b DEF Opening, StoreInv, DataOK
  <1>t. \A x \in Row : x.message \in Messages /\ x.generation \in Nat
    BY DEF Row
  <1> USE DEF Goto, Decide, End, store, asks, retrievals
  <1>1. ASSUME NEW m \in Messages, Upload(m) \/ ReadBody(m) \/ HashedVerifier(m) \/ FinishCreate(m)
        PROVE  Opening'
    <2>1. /\ UNCHANGED <<rows, generations, seen, taken, guess>> /\ \A r \in Readers : pc'[r] = pc[r]
      BY <1>1, <1>b DEF Upload, ReadBody, Validate, HashedVerifier, FinishCreate, ControlOK
    <2>2. QED
      BY <1>b, <1>k, <1>u, <2>1, Quiet
  <1>2. ASSUME NEW m \in Messages, InsertMessage(m) PROVE Opening'
    <2>0. /\ UNCHANGED <<seen, taken, guess>> /\ \A r \in Readers : pc'[r] = pc[r]
          /\ pc[m] = "insert" /\ ~Kept(m) /\ stamp[m] \in Nat /\ generations \in Nat
      BY <1>2, <1>b DEF InsertMessage, ControlOK, DataOK, Kept
    <2>1. CASE rows' \subseteq rows /\ generations' = generations
      BY <2>0, <2>1, <1>k, <1>u, Quiet DEF Unique
    <2>2. ASSUME NEW id \in Ids, NEW fault \in Faults,
                 LET call == Insert(rows, NewRow(m, id), stamp[m])
                 IN  /\ call.result = "stored" /\ rows' = call.rows
                     /\ generations' = generations + 1
                     /\ outcome'[m] \in {"created", "storage"} /\ pc'[m] = "finish"
          PROVE Opening'
      <3> DEFINE new == NewRow(m, id)
      <3>1. /\ new \in Row /\ new.message = m /\ new.id = id
            /\ new.generation = generations + 1 /\ new.pin = PinOf[m]
        BY NewRowType DEF Base
      <3>2. rows' \subseteq rows \cup {new} /\ \A x \in rows' : x = new \/ x.id # id
        <4>1. LET call == Insert(rows, new, stamp[m])
              IN  /\ call.rows \subseteq rows \cup {new}
                  /\ call.result = "stored" => \A x \in call.rows : x = new \/ x.id # new.id
          <5>1. rows \in SUBSET Row /\ stamp[m] \in Nat /\ new \in Row
            BY <3>1, <2>0, <1>u
          <5> HIDE DEF new
          <5>2. QED
            BY ONLY <5>1, InsertLeaves
        <4>2. QED
          BY <3>1, <4>1, <2>2
      <3> HIDE DEF new
      <3>3. \A x \in rows : x.message # m /\ x.generation # generations + 1
        BY <2>0, <1>t, <1>u DEF Opening, StoreInv
      <3>4. Kept(m)'
        BY <2>2 DEF Kept
      <3>5. StoreInv'
        <4>1. Unique(rows')
          BY <3>1, <3>2, <3>3, <1>u DEF Unique
        <4>2. \A x \in rows' : Kept(x.message)' /\ x.pin = PinOf[x.message] /\ x.generation <= generations'
          BY <3>1, <3>2, <3>4, <2>0, <2>2, <1>k, <1>t, <1>u DEF Opening, StoreInv
        <4>3. QED
          BY <4>1, <4>2 DEF StoreInv
      <3>6. SeenInv'
        <4>1. \A r \in Readers : \A x \in seen[r] : x \in Row
          BY <1>b DEF DataOK
        <4>2. \A r \in Readers : pc'[r] \in Past => \A x \in seen[r] :
                /\ x.generation <= generations'
                /\ \A y \in rows' : y.generation = x.generation => y.message = x.message
          BY <4>1, <3>1, <3>2, <2>0, <2>2, <1>t DEF Opening, SeenInv
        <4>3. QED
          BY <4>1, <4>2, <2>0, <1>k, <1>t DEF Opening, SeenInv
      <3>7. TakenInv'
        <4>1. \A r \in Readers : \A n \in taken[r] : n \in Messages /\ n # m
          BY <2>0, <1>b DEF Opening, TakenInv, DataOK
        <4>2. QED
          BY <4>1, <3>1, <3>2, <2>0, <1>k DEF Opening, TakenInv
      <3>8. QED
        BY <3>5, <3>6, <3>7 DEF Opening
    <2>3. QED
      <3>1. PICK id \in Ids, fault \in Faults :
              LET call == Insert(rows, NewRow(m, id), stamp[m])
                  commits == fault # "before"
              IN  /\ rows' = IF commits THEN call.rows ELSE rows
                  /\ generations' = IF commits /\ call.result = "stored"
                                    THEN generations + 1 ELSE generations
                  /\ \/ fault # "none" /\ Decide(m, "storage")
                     \/ fault = "none" /\ call.result = "stored" /\ Decide(m, "created")
                     \/ fault = "none" /\ call.result # "stored"
        BY <1>2 DEF InsertMessage
      <3>2. NewRow(m, id) \in Row
        BY NewRowType DEF Base
      <3>3. Insert(rows, NewRow(m, id), stamp[m]).result # "stored"
              => Insert(rows, NewRow(m, id), stamp[m]).rows \subseteq rows
        BY <3>2, <2>0, <1>u, InsertLeaves
      <3>4. CASE fault = "before" \/ Insert(rows, NewRow(m, id), stamp[m]).result # "stored"
        BY <3>1, <3>3, <3>4, <2>1
      <3>5. CASE fault # "before" /\ Insert(rows, NewRow(m, id), stamp[m]).result = "stored"
        <4>1. outcome'[m] \in {"created", "storage"} /\ pc'[m] = "finish"
          BY <3>1, <3>5, <1>b DEF ControlOK
        <4>2. QED
          BY <3>1, <3>5, <4>1, <2>2
      <3>6. QED
        BY <3>4, <3>5
  <1>3. ASSUME NEW r \in Readers, Arrive(r) \/ AskLock(r) \/ CheckExpiry(r) \/ FinishRetrieve(r)
        PROVE  Opening'
    <2>1. /\ UNCHANGED <<rows, generations, seen, taken, guess>>
          /\ \A q \in Readers \ {r} : pc'[q] = pc[q]
          /\ pc[r] \in {"finish", "done"} => pc'[r] \in {"finish", "done"}
          /\ pc'[r] \in Past => pc[r] \in Past
          /\ pc'[r] # "consume"
      BY <1>3, <1>b DEF Arrive, AskLock, CheckExpiry, FinishRetrieve, ControlOK, Past
    <2>2. QED
      BY <1>b, <1>k, <1>u, <2>1, Quiet
  <1>4. ASSUME NEW r \in Readers, ReadMeta(r) PROVE Opening'
    <2>1. /\ pc[r] = "locking" /\ UNCHANGED <<rows, generations, taken, guess>>
          /\ pc'[r] \in {"check", "finish"} /\ \A q \in Readers \ {r} : pc'[q] = pc[q]
          /\ seen'[r] \in {seen[r], Named(rows, target[r])}
          /\ pc'[r] = "check" => seen'[r] = Named(rows, target[r])
          /\ \A q \in Readers \ {r} : seen'[q] = seen[q]
      BY <1>4, <1>b DEF ReadMeta, ControlOK, DataOK
    <2>2. taken[r] = {}
      BY <2>1, <1>b DEF Opening, TakenInv, DataOK
    <2>3. StoreInv'
      BY <2>1, <1>k, <1>t, <1>u DEF Opening, StoreInv
    <2>4. SeenInv'
      <3>1. \A x \in Named(rows, target[r]) :
              /\ x \in rows /\ x \in Row /\ Kept(x.message)' /\ x.pin = PinOf[x.message]
              /\ x.generation <= generations
              /\ \A y \in Named(rows, target[r]) : x = y
              /\ \A y \in rows : y.generation = x.generation => y.message = x.message
        BY <1>k, <1>t, <1>u DEF Named, Opening, StoreInv, Unique
      <3>2. \A q \in Readers : \A x \in seen[q] : x \in Row
        BY <1>b DEF DataOK
      <3>3. ASSUME NEW q \in Readers, q # r
            PROVE  /\ \A x, y \in seen'[q] : x = y
                   /\ \A x \in seen'[q] : Kept(x.message)' /\ x.pin = PinOf[x.message]
                   /\ pc'[q] \in Past => \A x \in seen'[q] :
                        /\ x.generation <= generations'
                        /\ \A y \in rows' : y.generation = x.generation => y.message = x.message
                   /\ pc'[q] = "consume" => \A x \in seen'[q] : guess'[q] = x.pin
        BY <3>2, <3>3, <2>1, <1>k, <1>t DEF Opening, SeenInv
      <3>4. /\ \A x, y \in seen'[r] : x = y
            /\ \A x \in seen'[r] : Kept(x.message)' /\ x.pin = PinOf[x.message]
            /\ pc'[r] \in Past => \A x \in seen'[r] :
                 /\ x.generation <= generations'
                 /\ \A y \in rows' : y.generation = x.generation => y.message = x.message
            /\ pc'[r] # "consume"
        <4>1. CASE seen'[r] = Named(rows, target[r])
          BY <4>1, <3>1, <2>1
        <4>2. CASE seen'[r] = seen[r] /\ pc'[r] = "finish"
          BY <4>2, <3>2, <1>k, <1>t DEF Opening, SeenInv, Past
        <4>3. QED
          BY <4>1, <4>2, <2>1
      <3>5. QED
        BY <3>3, <3>4 DEF SeenInv
    <2>5. TakenInv'
      <3>1. \A q \in Readers : \A n \in taken[q] : n \in Messages /\ q # r
        BY <2>2, <1>b DEF DataOK
      <3>2. QED
        BY <3>1, <2>1, <1>k DEF Opening, TakenInv
    <2>6. QED
      BY <2>3, <2>4, <2>5 DEF Opening
  <1>5. ASSUME NEW r \in Readers, Verified(r) PROVE Opening'
    <2>1. PICK row \in seen[r] : Goto(r, IF guess[r] = row.pin THEN "consume" ELSE "record")
      BY <1>5 DEF Verified
    <2>2. /\ UNCHANGED <<rows, generations, seen, taken, guess>> /\ pc[r] = "pooled"
          /\ pc'[r] = IF guess[r] = row.pin THEN "consume" ELSE "record"
          /\ \A q \in Readers \ {r} : pc'[q] = pc[q]
      BY <1>5, <2>1, <1>b DEF Verified, ControlOK
    <2>3. \A x \in seen[r] : x = row
      BY <2>1 DEF Opening, SeenInv
    <2>4. QED
      BY <1>b, <1>k, <1>u, <2>2, <2>3, Quiet DEF Past
  <1>6. ASSUME NEW r \in Readers, RemoveExpired(r) \/ RecordWrongPin(r) PROVE Opening'
    <2>1. /\ UNCHANGED <<generations, seen, taken, guess>> /\ pc'[r] = "finish"
          /\ \A q \in Readers \ {r} : pc'[q] = pc[q]
      BY <1>6, <1>b DEF RemoveExpired, RecordWrongPin, ControlOK
    <2>2. PICK row \in seen[r] :
            \/ rows' \subseteq rows
            \/ rows' = RecordFailure(rows, target[r], row.generation).rows
      BY <1>6 DEF RemoveExpired, RecordWrongPin, Remove
    <2>3. /\ Unique(rows') /\ rows' \subseteq Row
          /\ \A x \in rows' : \E y \in rows :
               x.message = y.message /\ x.generation = y.generation /\ x.pin = y.pin
      <3>1. CASE rows' \subseteq rows
        BY <3>1, <1>u DEF Unique
      <3>2. CASE rows' = RecordFailure(rows, target[r], row.generation).rows
        <4>1. target[r] \in Ids /\ row \in Row /\ row.generation \in Nat
          BY <1>b, <1>t DEF DataOK
        <4>2. QED
          BY <3>2, <4>1, <1>u, RecordFailureLeaves, RecordFailureUnique
      <3>3. QED
        BY <2>2, <3>1, <3>2
    <2>4. QED
      BY <1>b, <1>k, <2>1, <2>3, Quiet DEF Past
  <1>7. ASSUME NEW r \in Readers, ConsumeMessage(r) PROVE Opening'
    <2>1. PICK row \in seen[r], fault \in Faults :
            LET call == Consume(rows, target[r], row.generation)
            IN  /\ rows' = IF fault = "before" THEN rows ELSE call.rows
                /\ taken' = [taken EXCEPT ![r] = IF fault = "none" THEN call.blobs ELSE {}]
      BY <1>7 DEF ConsumeMessage
    <2>2. /\ UNCHANGED <<generations, seen, guess>> /\ pc[r] = "consume" /\ pc'[r] = "finish"
          /\ \A q \in Readers \ {r} : pc'[q] = pc[q]
      BY <1>7, <1>b DEF ConsumeMessage, ControlOK
    <2>3. /\ rows' \subseteq rows /\ \A q \in Readers \ {r} : taken'[q] = taken[q]
          /\ \A m \in taken'[r] : \E x \in rows \ rows' :
               x.message = m /\ x.generation = row.generation
      BY <2>1, <1>b DEF Consume, Generation, Named, DataOK
    <2>4. /\ taken[r] = {}
          /\ \A q \in Readers : taken[q] \subseteq Messages /\ \A x \in seen[q] : x \in Row
      BY <2>2, <1>b DEF Opening, TakenInv, DataOK
    <2>5. StoreInv'
      BY <2>2, <2>3, <1>k, <1>t, <1>u DEF Opening, StoreInv, Unique
    <2>6. SeenInv'
      BY <2>2, <2>3, <2>4, <1>k, <1>t, <1>u DEF Opening, SeenInv, Past
    <2>7. \A m \in taken'[r] :
            /\ m \in Messages /\ Kept(m)' /\ guess[r] = PinOf[m] /\ row.message = m
            /\ \A x \in rows' : x.message # m
            /\ \A q \in Readers : m \notin taken[q]
      <3>1. SUFFICES ASSUME NEW m \in taken'[r]
                     PROVE  /\ m \in Messages /\ Kept(m)' /\ guess[r] = PinOf[m] /\ row.message = m
                            /\ \A x \in rows' : x.message # m
                            /\ \A q \in Readers : m \notin taken[q]
        OBVIOUS
      <3>2. PICK x \in rows \ rows' : x.message = m /\ x.generation = row.generation
        BY <2>3
      <3>3. m \in Messages /\ Kept(m) /\ \A y \in rows' : y.message # m
        BY <3>2, <2>3, <1>t, <1>u DEF Opening, StoreInv, Unique
      <3>4. row.message = m /\ guess[r] = PinOf[m]
        BY <3>2, <2>1, <2>2 DEF Opening, SeenInv, Past
      <3>5. \A q \in Readers : m \notin taken[q]
        BY <3>2 DEF Opening, TakenInv
      <3>6. QED
        BY <3>3, <3>4, <3>5, <1>k
    <2>8. TakenInv'
      <3>1. \A q \in Readers \ {r} : \A m \in taken'[q] : m \in taken[q] /\ m \in Messages
        BY <2>3, <2>4
      <3>2. \A q \in Readers \ {r} : \A m \in taken'[q] :
              /\ pc'[q] \in {"finish", "done"} /\ Kept(m)'
              /\ guess'[q] = PinOf[m] /\ \E x \in seen'[q] : x.message = m
              /\ \A x \in rows' : x.message # m
              /\ \A other \in Readers \ {q} : m \notin taken'[other]
        BY <3>1, <2>2, <2>3, <2>7, <1>k DEF Opening, TakenInv
      <3>3. \A m \in taken'[r] :
              /\ pc'[r] \in {"finish", "done"} /\ Kept(m)'
              /\ guess'[r] = PinOf[m] /\ \E x \in seen'[r] : x.message = m
              /\ \A x \in rows' : x.message # m
              /\ \A other \in Readers \ {r} : m \notin taken'[other]
        BY <2>1, <2>2, <2>3, <2>7
      <3>4. QED
        BY <3>2, <3>3 DEF TakenInv
    <2>9. QED
      BY <2>5, <2>6, <2>8 DEF Opening
  <1>8. ASSUME NEW q \in Requests, PoolBusy(q) \/ StartHash(q) \/ Disconnect(q) PROVE Opening'
    <2>1. UNCHANGED <<rows, generations, seen, taken, guess>>
      BY <1>8 DEF PoolBusy, StartHash, Disconnect
    <2>2. \A r \in Readers : pc'[r] = pc[r] \/ (pc[r] = "pooled" /\ pc'[r] = "finish")
      <3>1. CASE PoolBusy(q)
        <4>1. pc[q] = "pooled" /\ pc' = [pc EXCEPT ![q] = "finish"]
          BY <3>1, <1>b DEF PoolBusy, Pool!TurnAway, Pool!Move, PlaceInv
        <4>2. QED
          BY <4>1, <1>b DEF ControlOK
      <3>2. CASE StartHash(q)
        BY <3>2 DEF StartHash
      <3>3. CASE Disconnect(q)
        BY <3>3, <1>b DEF Disconnect, ControlOK, Kinds, ReaderSteps
      <3>4. QED
        BY <1>8, <3>1, <3>2, <3>3
    <2>3. QED
      BY <1>b, <1>k, <1>u, <2>1, <2>2, Quiet DEF Past
  <1>9. CASE \/ \E t \in 0..now : Sweep(t)
             \/ Tick \/ UNCHANGED vars
    <2>1. /\ UNCHANGED <<generations, seen, taken, guess, pc>> /\ rows' \subseteq rows
      BY <1>9 DEF Sweep, Unexpired, Tick, vars
    <2>2. QED
      BY <1>b, <1>k, <1>u, <2>1, Quiet DEF Unique
  <1>10. CASE Crash
    <2>1. /\ UNCHANGED <<seen, taken, guess>>
          /\ \A r \in Readers : pc'[r] \notin Past
          /\ \A r \in Readers : pc[r] \in {"finish", "done"} => pc'[r] \in {"finish", "done"}
          /\ \/ rows' = rows /\ generations' = generations
             \/ rows' = {}
      BY <1>10, <1>b DEF Crash, Active, Past
    <2>2. \A r \in Readers : taken[r] \subseteq Messages /\ \A x \in seen[r] : x \in Row
      BY <1>b DEF DataOK
    <2>3. StoreInv'
      BY <2>1, <1>k, <1>t, <1>u DEF Opening, StoreInv, Unique
    <2>4. SeenInv'
      <3>1. \A r \in Readers : \A x, y \in seen'[r] : x = y
        BY <2>1 DEF Opening, SeenInv
      <3>2. \A r \in Readers : \A x \in seen'[r] : Kept(x.message)' /\ x.pin = PinOf[x.message]
        BY <2>1, <2>2, <1>k, <1>t DEF Opening, SeenInv
      <3>3. \A r \in Readers : pc'[r] \notin Past /\ pc'[r] # "consume"
        BY <2>1 DEF Past
      <3>4. QED
        BY <3>1, <3>2, <3>3 DEF SeenInv
    <2>5. TakenInv'
      <3>1. rows' \subseteq rows
        BY <2>1
      <3>2. \A r \in Readers : \A m \in taken[r] : m \in Messages /\ Kept(m)'
        BY <2>2, <1>k DEF Opening, TakenInv
      <3>3. \A r \in Readers : pc[r] \in {"finish", "done"} => pc'[r] \in {"finish", "done"}
        BY <2>1
      <3>4. UNCHANGED <<seen, taken, guess>>
        BY <2>1
      <3>5. QED
        BY <3>1, <3>2, <3>3, <3>4 DEF Opening, TakenInv
    <2>6. QED
      BY <2>3, <2>4, <2>5 DEF Opening
  <1>11. QED
    BY <1>1, <1>2, <1>3, <1>4, <1>5, <1>6, <1>7, <1>8, <1>9, <1>10
    DEF Next, CreateStep, CreateTask, RetrieveStep

LEMMA OpeningHolds == Spec => [](Base /\ Opening)
  <1>1. Init => Base /\ Opening
    BY InitBase, InitOpening
  <1>2. Base /\ Opening /\ [Next]_vars => (Base /\ Opening)'
    BY NextBase, NextOpening
  <1>3. QED
    BY <1>1, <1>2, PTL DEF Spec

\* Whatever the requests, their order, the failures of the store and the restarts: a
\* message's bytes leave the store for one retrieval at most, and it is stored no more.
THEOREM AtMostOnce == Spec => []OpenedOnce
  <1>1. Base /\ Opening => OpenedOnce
    BY DEF Opening, TakenInv, OpenedOnce
  <1>2. QED
    BY OpeningHolds, <1>1, PTL

\* The bytes a retrieval gets are those of the message its PIN was checked against, however
\* long the hash took and whatever took the id meanwhile.
THEOREM OnlyWithItsPin == Spec => []OpenedWithItsPin
  <1>1. Base /\ Opening => OpenedWithItsPin
    BY DEF Opening, TakenInv, OpenedWithItsPin, Lookups
  <1>2. QED
    BY OpeningHolds, <1>1, PTL

\* Ids, generations and creates name one row each, and a create that was refused without a
\* storage failure never stored anything.
THEOREM NothingStoredTwice == Spec => []StoredOnce
  <1>1. Base /\ Opening => StoredOnce
    BY DEF Base, TypeOK, Row, Opening, StoreInv, SeenInv, Unique, Kept, StoredOnce, Lookups
  <1>2. QED
    BY OpeningHolds, <1>1, PTL

-----------------------------------------------------------------------------
(* The slots: each request that is under way has one, and nobody else.       *)

Live(S) == {q \in S : Active(q)}
One(b) == IF b THEN 1 ELSE 0

LEMMA LiveCounted ==
  ASSUME NEW S \in {Messages, Readers}
  PROVE  /\ IsFiniteSet(Live(S)) /\ Cardinality(Live(S)) \in Nat
         /\ IsFiniteSet(Live(S)') /\ Cardinality(Live(S)') \in Nat
  BY ServiceAssumption, StoreAssumption, FS_Subset, FS_CardinalityType DEF Live

LEMMA NobodyMoves ==
  ASSUME NEW S, \A p \in S : Active(p)' <=> Active(p)
  PROVE  Live(S)' = Live(S)
  BY DEF Live

LEMMA OneMoves ==
  ASSUME NEW S \in {Messages, Readers}, NEW q \in S,
         \A p \in S \ {q} : Active(p)' <=> Active(p)
  PROVE  Cardinality(Live(S)') = Cardinality(Live(S)) + One(Active(q)') - One(Active(q))
  <1>1. /\ IsFiniteSet(Live(S)) /\ Cardinality(Live(S)) \in Nat
    BY LiveCounted
  <1>2. CASE Active(q)'
    <2>1. Live(S)' = Live(S) \cup {q} /\ (q \in Live(S) <=> Active(q))
      BY <1>2 DEF Live
    <2>2. Cardinality(Live(S)') = IF q \in Live(S) THEN Cardinality(Live(S))
                                                   ELSE Cardinality(Live(S)) + 1
      BY <1>1, <2>1, FS_AddElement
    <2>3. QED
      BY <1>1, <1>2, <2>1, <2>2 DEF One
  <1>3. CASE ~Active(q)'
    <2>1. Live(S)' = Live(S) \ {q} /\ (q \in Live(S) <=> Active(q))
      BY <1>3 DEF Live
    <2>2. Cardinality(Live(S)') = IF q \in Live(S) THEN Cardinality(Live(S)) - 1
                                                   ELSE Cardinality(Live(S))
      BY <1>1, <2>1, FS_RemoveElement
    <2>3. QED
      BY <1>1, <1>3, <2>1, <2>2 DEF One
  <1>4. QED
    BY <1>2, <1>3

\* A step of one request that takes its slot, gives it back, or does neither.
LEMMA SlotsMove ==
  ASSUME Base, SlotsConserved, NEW q \in Requests,
         \A p \in Requests \ {q} : pc'[p] = pc[p],
         IF q \in Messages
         THEN /\ uploads' = uploads - One(Active(q)') + One(Active(q))
              /\ admission' = admission
         ELSE /\ admission' = admission - One(Active(q)') + One(Active(q))
              /\ uploads' = uploads
  PROVE  SlotsConserved'
  <1> Messages \cap Readers = {} /\ Requests = Messages \cup Readers
    BY ServiceAssumption DEF Requests
  <1>1. \A p \in Requests \ {q} : Active(p)' <=> Active(p)
    BY DEF Active
  <1>2. admission \in Int /\ uploads \in Int
    BY DEF Base, TypeOK
  <1>3. \A b : One(b) \in Int
    BY DEF One
  <1>4. /\ Cardinality(Live(Messages)) \in Nat /\ Cardinality(Live(Readers)) \in Nat
        /\ admission + Cardinality(Live(Readers)) = Capacity
        /\ uploads + Cardinality(Live(Messages)) = MaxUploads
    BY LiveCounted DEF SlotsConserved, Live
  <1>5. CASE q \in Messages
    <2>1. Live(Readers)' = Live(Readers)
      BY <1>1, <1>5, NobodyMoves
    <2>2. Cardinality(Live(Messages)')
            = Cardinality(Live(Messages)) + One(Active(q)') - One(Active(q))
      BY <1>1, <1>5, OneMoves
    <2>3. /\ admission' + Cardinality(Live(Readers)') = Capacity
          /\ uploads' + Cardinality(Live(Messages)') = MaxUploads
      BY <1>2, <1>3, <1>4, <1>5, <2>1, <2>2
    <2>4. QED
      BY <2>3 DEF SlotsConserved, Live, Capacity
  <1>6. CASE q \in Readers
    <2>1. Live(Messages)' = Live(Messages)
      BY <1>1, <1>6, NobodyMoves
    <2>2. Cardinality(Live(Readers)')
            = Cardinality(Live(Readers)) + One(Active(q)') - One(Active(q))
      BY <1>1, <1>6, OneMoves
    <2>3. /\ admission' + Cardinality(Live(Readers)') = Capacity
          /\ uploads' + Cardinality(Live(Messages)') = MaxUploads
      BY <1>2, <1>3, <1>4, <1>6, <2>1, <2>2
    <2>4. QED
      BY <2>3 DEF SlotsConserved, Live, Capacity
  <1>7. QED
    BY <1>5, <1>6

LEMMA NextSlots == Base /\ SlotsConserved /\ [Next]_vars => SlotsConserved'
  <1> SUFFICES ASSUME Base, SlotsConserved, [Next]_vars PROVE SlotsConserved'
    OBVIOUS
  <1>b. pc \in [Requests -> Steps] /\ admission \in Int /\ uploads \in Int /\ Kinds /\ PlaceInv
    BY DEF Base, TypeOK
  <1>r. Messages \subseteq Requests /\ Readers \subseteq Requests /\ Messages \cap Readers = {}
    BY ServiceAssumption DEF Requests
  \* What one request's step does to the others' steps, and to its own.
  <1>o. ASSUME NEW q \in Requests
        PROVE  /\ \A to : Goto(q, to) => pc'[q] = to /\ \A p \in Requests \ {q} : pc'[p] = pc[p]
               /\ \A result : Decide(q, result)
                    => pc'[q] = "finish" /\ \A p \in Requests \ {q} : pc'[p] = pc[p]
               /\ \A result : End(q, result)
                    => pc'[q] = "done" /\ \A p \in Requests \ {q} : pc'[p] = pc[p]
    BY <1>b DEF Goto, Decide, End
  <1>1. ASSUME NEW m \in Messages, Upload(m) \/ CreateStep(m) PROVE SlotsConserved'
    <2>1. /\ \A p \in Requests \ {m} : pc'[p] = pc[p]
          /\ uploads' = uploads - One(Active(m)') + One(Active(m)) /\ admission' = admission
      <3>1. CASE Upload(m)
        BY <1>b, <1>r, <1>o, <3>1 DEF Upload, Active, One, slots
      <3>2. CASE ReadBody(m) \/ HashedVerifier(m) \/ InsertMessage(m)
        BY <1>b, <1>r, <1>o, <3>2
        DEF ReadBody, Validate, HashedVerifier, InsertMessage, Active, One, slots
      <3>3. CASE FinishCreate(m)
        BY <1>b, <1>r, <1>o, <3>3 DEF FinishCreate, Active, One
      <3>4. QED
        BY <1>1, <3>1, <3>2, <3>3 DEF CreateStep, CreateTask
    <2>2. QED
      BY <1>r, <2>1, SlotsMove
  <1>2. ASSUME NEW r \in Readers, Arrive(r) \/ RetrieveStep(r) PROVE SlotsConserved'
    <2>1. /\ \A p \in Requests \ {r} : pc'[p] = pc[p]
          /\ admission' = admission - One(Active(r)') + One(Active(r)) /\ uploads' = uploads
      <3>1. CASE Arrive(r)
        BY <1>b, <1>r, <1>o, <3>1 DEF Arrive, Active, One, slots
      <3>2. CASE AskLock(r) \/ ReadMeta(r) \/ CheckExpiry(r) \/ Verified(r)
        BY <1>b, <1>r, <1>o, <3>2
        DEF AskLock, ReadMeta, CheckExpiry, Verified, Active, One, slots
      <3>3. CASE RemoveExpired(r) \/ RecordWrongPin(r) \/ ConsumeMessage(r)
        BY <1>b, <1>r, <1>o, <3>3
        DEF RemoveExpired, RecordWrongPin, ConsumeMessage, Active, One, slots
      <3>4. CASE FinishRetrieve(r)
        BY <1>b, <1>r, <1>o, <3>4 DEF FinishRetrieve, Active, One
      <3>5. QED
        BY <1>2, <3>1, <3>2, <3>3, <3>4 DEF RetrieveStep
    <2>2. r \notin Messages
      BY <1>r
    <2>3. QED
      BY <1>r, <2>1, <2>2, SlotsMove
  <1>3. ASSUME NEW q \in Requests, PoolBusy(q) PROVE SlotsConserved'
    <2>1. pc[q] = "pooled"
      BY <1>b, <1>3 DEF PoolBusy, PlaceInv, Pool!TurnAway, Pool!Move
    <2>2. /\ \A p \in Requests \ {q} : pc'[p] = pc[p]
          /\ UNCHANGED slots /\ Active(q) /\ Active(q)'
      BY <1>o, <1>3, <2>1 DEF PoolBusy, Active
    <2>3. QED
      BY <1>b, <2>2, SlotsMove DEF slots, One
  <1>4. ASSUME NEW q \in Requests, Disconnect(q) PROVE SlotsConserved'
    <2>1. \A p \in Requests \ {q} : pc'[p] = pc[p]
      BY <1>b, <1>4 DEF Disconnect
    <2>2. CASE pc[q] = "reading"
      <3>1. q \in Messages
        BY <1>b, <2>2 DEF Kinds, ReaderSteps, Requests
      <3>2. uploads' = uploads + 1 /\ admission' = admission /\ Active(q) /\ ~Active(q)'
        BY <1>b, <1>4, <2>2 DEF Disconnect, Active
      <3>3. QED
        BY <1>b, <2>1, <3>1, <3>2, SlotsMove DEF One
    <2>3. CASE pc[q] # "reading"
      BY <1>4, <2>3, NobodyMoves DEF Disconnect, Active, SlotsConserved
    <2>4. QED
      BY <2>2, <2>3
  <1>5. CASE (\E q \in Requests : StartHash(q)) \/ (\E t \in 0..now : Sweep(t)) \/ Tick \/ UNCHANGED vars
    BY <1>5 DEF StartHash, Sweep, Tick, vars, slots, SlotsConserved, Active
  <1>6. CASE Crash
    <2>1. \A q \in Requests : ~Active(q)'
      BY <1>b, <1>6 DEF Crash, Active
    <2>2. Live(Messages)' = {} /\ Live(Readers)' = {}
      BY <1>r, <2>1 DEF Live
    <2>3. Cardinality(Live(Messages)') = 0 /\ Cardinality(Live(Readers)') = 0
      BY <2>2, FS_EmptySet
    <2>4. admission' = Capacity /\ uploads' = MaxUploads /\ Capacity \in Int /\ MaxUploads \in Int
      BY <1>6, ServiceAssumption DEF Crash, Capacity
    <2>5. /\ admission' + Cardinality(Live(Readers)') = Capacity
          /\ uploads' + Cardinality(Live(Messages)') = MaxUploads
      BY <2>3, <2>4
    <2>6. QED
      BY <2>5 DEF Live, SlotsConserved, Capacity
  <1>7. QED
    BY <1>1, <1>2, <1>3, <1>4, <1>5, <1>6 DEF Next

\* No admission or upload slot is lost or given back twice, for any number of requests, on
\* any path: refusals, failures, clients that leave, and restarts.
THEOREM NoSlotLost == Spec => []SlotsConserved
  <1>1. Init => SlotsConserved
    <2>1. ASSUME Init
          PROVE  SlotsConserved
      <3>1. {r \in Readers : Active(r)} = {} /\ {m \in Messages : Active(m)} = {}
        BY <2>1 DEF Init, Active, Requests
      <3>2. Cardinality(Live(Messages)) = 0 /\ Cardinality(Live(Readers)) = 0
        BY <3>1, FS_EmptySet DEF Live
      <3>3. admission = Capacity /\ uploads = MaxUploads /\ Capacity \in Int /\ MaxUploads \in Int
        BY <2>1, ServiceAssumption DEF Init, Capacity
      <3>4. /\ admission + Cardinality(Live(Readers)) = Capacity
            /\ uploads + Cardinality(Live(Messages)) = MaxUploads
        BY <3>2, <3>3
      <3>5. QED
        BY <3>4 DEF Live, SlotsConserved
    <2>2. QED
      BY <2>1
  <1>2. Base /\ SlotsConserved /\ [Next]_vars => (Base /\ SlotsConserved)'
    BY NextBase, NextSlots
  <1>3. QED
    BY InitBase, <1>1, <1>2, PTL DEF Spec

-----------------------------------------------------------------------------
(***************************************************************************)
(* What becomes of a message, for any clock, times to live and requests.   *)
(* TimesInv: who may open it arrived before it expired, and what vanishes  *)
(* had expired or was opened or burned.  GuessInv: the wrong PINs that are *)
(* counted, told and tested.  At the end, the refinement of                *)
(* OneTimeMessages.  All rest on Base and Opening, and on what a           *)
(* retrieval's step tells of its row (Onward).                             *)
(***************************************************************************)

\* Clock readings have been.
Readings ==
  /\ \A m \in Messages : stamp[m] <= now
  /\ \A r \in Readers : arrived[r] <= now

\* A row that was looked up has the same expiry for as long as it is stored.
SameExpiry ==
  \A r \in Readers : pc[r] \in Past =>
    \A x \in seen[r], y \in rows : y.generation = x.generation => y.expires = x.expires

\* The way a retrieval went tells what it found.
InTime(r) == \E row \in seen[r] : arrived[r] < row.expires
Way(r) ==
  /\ pc[r] = "remove" => \A x \in seen[r] : Expired(x, now)
  /\ pc[r] = "record" => \A x \in seen[r] : guess[r] # x.pin
  /\ pc[r] \notin {"finish", "done"} => outcome[r] # "wrongPin" /\ taken[r] = {}
  /\ pc[r] \in Past => seen[r] # {}
  /\ pc[r] \in {"pooled", "record", "consume"} => InTime(r)
  /\ taken[r] # {} \/ outcome[r] = "wrongPin" => InTime(r)
Onward == \A r \in Readers : Way(r)

TimesInv == Base /\ Opening /\ Readings /\ SameExpiry /\ Onward

LEMMA NextReadings ==
  ASSUME TimesInv, [Next]_vars
  PROVE  Readings'
  <1>b. DataOK
    BY Halves DEF TimesInv, Base
  <1>1. now' \in Nat /\ now <= now'
    <2>1. CASE Tick
      BY <1>b, <2>1 DEF DataOK, Tick
    <2>2. CASE now' = now
      BY <1>b, <2>2 DEF DataOK
    <2>3. Tick \/ now' = now
      BY DEF Next, vars, Upload, CreateStep, CreateTask, ReadBody, HashedVerifier, InsertMessage, FinishCreate,
             Arrive, RetrieveStep, AskLock, ReadMeta, CheckExpiry, Verified, RemoveExpired,
             RecordWrongPin, ConsumeMessage, FinishRetrieve, PoolBusy, StartHash, Disconnect, Sweep, Crash
    <2>4. QED
      BY <2>1, <2>2, <2>3
  <1>2. \A m \in Messages : stamp'[m] \in {stamp[m], now, 0}
    BY <1>b DEF DataOK, Next, vars, creates, Upload, CreateStep, CreateTask, ReadBody, HashedVerifier, InsertMessage,
           FinishCreate, Arrive, RetrieveStep, AskLock, ReadMeta, CheckExpiry, Verified,
           RemoveExpired, RecordWrongPin, ConsumeMessage, FinishRetrieve, PoolBusy, StartHash,
           Disconnect, Sweep, Tick, Crash
  <1>3. \A r \in Readers : arrived'[r] \in {arrived[r], now}
    BY <1>b DEF DataOK, Next, vars, retrievals, Upload, CreateStep, CreateTask, ReadBody, HashedVerifier, InsertMessage,
           FinishCreate, Arrive, RetrieveStep, AskLock, ReadMeta, CheckExpiry, Verified,
           RemoveExpired, RecordWrongPin, ConsumeMessage, FinishRetrieve, PoolBusy, StartHash,
           Disconnect, Sweep, Tick, Crash
  <1>4. /\ \A m \in Messages : stamp[m] <= now /\ stamp[m] \in Nat
        /\ \A r \in Readers : arrived[r] <= now /\ arrived[r] \in Nat
        /\ now \in Nat
    BY <1>b DEF DataOK, TimesInv, Readings
  <1>5. QED
    BY <1>1, <1>2, <1>3, <1>4 DEF Readings

\* What is stored after a step was stored before it, with the same expiry, or is new.
LEMMA RowsFrom ==
  ASSUME TimesInv, [Next]_vars
  PROVE  \A y \in rows' : \/ y.generation = generations + 1
                          \/ \E x \in rows : x.generation = y.generation /\ x.expires = y.expires
  <1>b. DataOK
    BY Halves DEF TimesInv, Base
  <1>0. rows \subseteq Row /\ \A x \in Row : x.failed \in Nat
    BY <1>b DEF DataOK, Row
  <1>1. CASE rows' \subseteq rows
    BY <1>1
  <1>2. ASSUME NEW m \in Messages, InsertMessage(m)
        PROVE  \A y \in rows' : y \in rows \/ y.generation = generations + 1
    <2>1. PICK id \in Ids, fault \in Faults :
            rows' = IF fault # "before" THEN Insert(rows, NewRow(m, id), stamp[m]).rows ELSE rows
      BY <1>2 DEF InsertMessage
    <2>2. Insert(rows, NewRow(m, id), stamp[m]).rows \subseteq rows \cup {NewRow(m, id)}
      BY DEF Insert, MakeRoom, Unexpired
    <2>3. NewRow(m, id).generation = generations + 1
      BY DEF NewRow
    <2>4. QED
      BY <2>1, <2>2, <2>3
  <1>3. ASSUME NEW r \in Readers, RecordWrongPin(r)
        PROVE  \A y \in rows' : \E x \in rows : x.generation = y.generation /\ x.expires = y.expires
    <2>1. PICK fault \in Faults, row \in seen[r] :
            rows' = IF fault = "before" THEN rows
                    ELSE RecordFailure(rows, target[r], row.generation).rows
      BY <1>3 DEF RecordWrongPin
    <2>2. SUFFICES ASSUME NEW y \in RecordFailure(rows, target[r], row.generation).rows, y \notin rows
                   PROVE  \E x \in rows : x.generation = y.generation /\ x.expires = y.expires
      BY <2>1
    <2>3. PICK x \in rows : y = [x EXCEPT !.failed = @ + 1]
      BY <2>2 DEF RecordFailure, Generation, Named
    <2>4. y.generation = x.generation /\ y.expires = x.expires
      BY <1>0, <2>3 DEF Row
    <2>5. QED
      BY <2>4
  <1>4. \/ rows' \subseteq rows
        \/ \E m \in Messages : InsertMessage(m)
        \/ \E r \in Readers : RecordWrongPin(r)
    <2>1. ASSUME NEW r \in Readers, RemoveExpired(r) \/ ConsumeMessage(r)
          PROVE  rows' \subseteq rows
      BY <2>1 DEF RemoveExpired, ConsumeMessage, Remove, Consume
    <2>2. ASSUME NEW t \in 0..now, Sweep(t)
          PROVE  rows' \subseteq rows
      BY <2>2 DEF Sweep, Unexpired
    <2>3. CASE Crash
      BY <2>3 DEF Crash
    <2>4. QED
      BY <2>1, <2>2, <2>3
      DEF Next, vars, store, Upload, CreateStep, CreateTask, ReadBody, HashedVerifier, FinishCreate,
          Arrive, RetrieveStep, AskLock, ReadMeta, CheckExpiry, Verified, FinishRetrieve,
          PoolBusy, StartHash, Disconnect, Tick
  <1>5. QED
    BY <1>1, <1>2, <1>3, <1>4

\* A retrieval reaches a step between lookup and commit from another such step, with what it
\* has seen unchanged, or by its lookup.
LEMMA PastFrom ==
  ASSUME TimesInv, [Next]_vars, NEW r \in Readers, pc'[r] \in Past
  PROVE  ReadMeta(r) \/ (pc[r] \in Past /\ seen'[r] = seen[r])
  <1>b. ControlOK /\ DataOK /\ Kinds /\ PlaceInv /\ r \in Requests /\ r \notin Messages
        /\ Messages \subseteq Requests /\ Readers \subseteq Requests
    BY Halves, ServiceAssumption DEF TimesInv, Base, Requests
  <1> USE DEF Goto, Decide, End, Past
  <1>1. ASSUME NEW m \in Messages, Upload(m) \/ CreateStep(m)
        PROVE  pc'[r] = pc[r] /\ seen' = seen
    BY <1>1, <1>b DEF Upload, CreateStep, CreateTask, ReadBody, Validate, HashedVerifier, InsertMessage,
                      FinishCreate, ControlOK, retrievals
  <1>2. ASSUME NEW s \in Readers, Arrive(s) \/ RetrieveStep(s), s # r
        PROVE  pc'[r] = pc[r] /\ seen'[r] = seen[r]
    BY <1>2, <1>b DEF Arrive, RetrieveStep, AskLock, ReadMeta, CheckExpiry, Verified,
                      RemoveExpired, RecordWrongPin, ConsumeMessage, FinishRetrieve, ControlOK,
                      DataOK, retrievals
  <1>3. ASSUME Arrive(r) \/ RetrieveStep(r), ~ReadMeta(r)
        PROVE  pc[r] \in Past /\ seen' = seen
    BY <1>3, <1>b DEF Arrive, RetrieveStep, AskLock, CheckExpiry, Verified,
                      RemoveExpired, RecordWrongPin, ConsumeMessage, FinishRetrieve, ControlOK,
                      retrievals
  <1>4. ASSUME NEW q \in Requests, PoolBusy(q) \/ StartHash(q) \/ Disconnect(q)
        PROVE  pc'[r] \in {pc[r], "finish", "done"} /\ seen' = seen
    BY <1>4, <1>b DEF PoolBusy, StartHash, Disconnect, ControlOK, retrievals
  <1>5. CASE Crash
    BY <1>5, <1>b DEF Crash, Active
  <1>6. CASE (\E t \in 0..now : Sweep(t)) \/ Tick \/ UNCHANGED vars
    BY <1>6 DEF Sweep, Tick, vars, retrievals
  <1>7. QED
    BY <1>1, <1>2, <1>3, <1>4, <1>5, <1>6 DEF Next

LEMMA NextSameExpiry ==
  ASSUME TimesInv, [Next]_vars
  PROVE  SameExpiry'
  <1> SUFFICES ASSUME NEW r \in Readers, pc'[r] \in Past, NEW x \in seen'[r], NEW y \in rows',
                      y.generation = x.generation
               PROVE  y.expires = x.expires
    BY DEF SameExpiry
  <1>b. rows \subseteq Row /\ seen \in [Readers -> SUBSET Row] /\ generations \in Nat
        /\ pc \in [Requests -> Steps] /\ r \in Requests /\ \A z \in Row : z.generation \in Nat
    BY Halves DEF TimesInv, Base, DataOK, ControlOK, Row, Requests
  <1>1. CASE ReadMeta(r)
    <2>1. rows' = rows /\ pc[r] = "locking" /\ seen'[r] \subseteq rows
      BY <1>1, <1>b DEF ReadMeta, Decide, Named, Past, store
    <2>2. QED
      BY <2>1 DEF TimesInv, Opening, StoreInv, Unique
  <1>2. CASE pc[r] \in Past /\ seen'[r] = seen[r]
    <2>1. x.generation <= generations /\ x.generation \in Nat
      BY <1>2, <1>b DEF TimesInv, Opening, SeenInv
    <2>2. PICK z \in rows : z.generation = y.generation /\ z.expires = y.expires
      BY <1>b, <2>1, RowsFrom
    <2>3. QED
      BY <1>2, <2>2 DEF TimesInv, SameExpiry
  <1>3. QED
    BY <1>1, <1>2, PastFrom

LEMMA NextOnward ==
  ASSUME TimesInv, [Next]_vars
  PROVE  Onward'
  <1>b. ControlOK /\ DataOK /\ Kinds /\ PlaceInv
        /\ Messages \subseteq Requests /\ Readers \subseteq Requests /\ Messages \cap Readers = {}
    BY Halves, ServiceAssumption DEF TimesInv, Base, Requests
  <1>t. /\ \A r \in Readers : arrived[r] <= now /\ arrived[r] \in Nat /\ seen[r] \subseteq Row
        /\ now \in Nat /\ now' \in Nat /\ now <= now' /\ \A x \in Row : x.expires \in Nat
    <2>1. TypeOK'
      BY NextBase DEF TimesInv, Base
    <2>2. now <= now'
      <3>1. Tick \/ now' = now
        BY DEF Next, vars, Upload, CreateStep, CreateTask, ReadBody, HashedVerifier, InsertMessage, FinishCreate,
               Arrive, RetrieveStep, AskLock, ReadMeta, CheckExpiry, Verified, RemoveExpired,
               RecordWrongPin, ConsumeMessage, FinishRetrieve, PoolBusy, StartHash, Disconnect, Sweep,
               Crash
      <3>2. QED
        BY <1>b, <3>1 DEF DataOK, Tick
    <2>3. QED
      BY <1>b, <2>1, <2>2 DEF DataOK, TypeOK, TimesInv, Readings, Row
  <1> SUFFICES ASSUME NEW r \in Readers PROVE Way(r)'
    BY DEF Onward
  <1>o. Way(r)
    BY DEF TimesInv, Onward
  <1> USE DEF Goto, Decide, End, asks, retrievals
  \* A step after which r is where it was, or has ended, with what it had.
  <1>0. ASSUME pc'[r] \in {pc[r], "finish", "done"}, outcome'[r] \in {outcome[r], "busy"},
               guess'[r] = guess[r], seen'[r] = seen[r], arrived'[r] = arrived[r], taken'[r] = taken[r]
        PROVE  Way(r)'
    BY <1>0, <1>o, <1>t DEF Way, InTime, Expired, Past
  <1>1. ASSUME NEW m \in Messages, Upload(m) \/ CreateStep(m) PROVE Way(r)'
    <2>1. /\ pc'[r] = pc[r] /\ outcome'[r] = outcome[r]
          /\ UNCHANGED <<guess, seen, arrived, taken>>
      BY <1>1, <1>b DEF Upload, CreateStep, CreateTask, ReadBody, Validate, HashedVerifier, InsertMessage,
                        FinishCreate, ControlOK
    <2>2. QED
      BY <1>0, <2>1
  <1>2. ASSUME NEW p \in Readers, Arrive(p) \/ RetrieveStep(p), p # r PROVE Way(r)'
    <2>1. /\ pc'[r] = pc[r] /\ outcome'[r] = outcome[r] /\ guess' = guess
          /\ seen'[r] = seen[r] /\ arrived'[r] = arrived[r] /\ taken'[r] = taken[r]
      BY <1>2, <1>b DEF Arrive, RetrieveStep, AskLock, ReadMeta, CheckExpiry, Verified,
                        RemoveExpired, RecordWrongPin, ConsumeMessage, FinishRetrieve, ControlOK,
                        DataOK
    <2>2. QED
      BY <1>0, <2>1
  <1>3. ASSUME Arrive(r) \/ AskLock(r) \/ FinishRetrieve(r) PROVE Way(r)'
    <2>1. CASE Arrive(r)
      <3>1. /\ pc[r] = "idle" /\ pc'[r] \in {"spawned", "done"} /\ outcome'[r] = outcome[r]
            /\ taken'[r] = taken[r]
        BY <1>b, <2>1 DEF Arrive, ControlOK
      <3>2. QED
        BY <1>o, <3>1 DEF Way, Past
    <2>2. CASE AskLock(r)
      <3>1. /\ pc[r] = "spawned" /\ pc'[r] = "locking" /\ outcome'[r] = outcome[r]
            /\ taken'[r] = taken[r]
        BY <1>b, <2>2 DEF AskLock, ControlOK
      <3>2. QED
        BY <1>o, <3>1 DEF Way, Past
    <2>3. CASE FinishRetrieve(r)
      <3>1. /\ pc'[r] = "done" /\ outcome'[r] = outcome[r]
            /\ UNCHANGED <<guess, seen, arrived, taken>>
        BY <1>b, <2>3 DEF FinishRetrieve, ControlOK
      <3>2. QED
        BY <1>0, <3>1
    <2>4. QED
      BY <1>3, <2>1, <2>2, <2>3
  <1>4. CASE ReadMeta(r)
    <2>1. /\ pc[r] = "locking" /\ taken'[r] = taken[r]
          /\ \/ pc'[r] = "finish" /\ outcome'[r] \in {"storage", "unavailable"}
             \/ pc'[r] = "check" /\ outcome'[r] = outcome[r] /\ seen'[r] # {}
      BY <1>b, <1>4 DEF ReadMeta, ControlOK, DataOK
    <2>2. QED
      BY <1>o, <2>1 DEF Way, Past
  <1>5. CASE CheckExpiry(r)
    <2>1. /\ pc[r] = "check" /\ UNCHANGED <<now, guess, seen, arrived, taken>>
          /\ outcome'[r] = outcome[r]
          /\ IF \E row \in seen[r] : Expired(row, now) THEN pc'[r] = "remove" ELSE pc'[r] = "pooled"
      BY <1>b, <1>5 DEF CheckExpiry, ControlOK
    <2>2. \A x, y \in seen[r] : x = y
      BY DEF TimesInv, Opening, SeenInv
    <2>3. (\A row \in seen[r] : ~Expired(row, now)) => \A row \in seen[r] : arrived[r] < row.expires
      BY <1>t DEF Expired
    <2>4. QED
      BY <1>o, <2>1, <2>2, <2>3 DEF Way, InTime, Past
  <1>6. CASE Verified(r)
    <2>1. PICK row \in seen[r] : pc'[r] = IF guess[r] = row.pin THEN "consume" ELSE "record"
      BY <1>b, <1>6 DEF Verified, ControlOK
    <2>2. /\ pc[r] = "pooled" /\ UNCHANGED <<now, guess, seen, arrived, taken>>
          /\ outcome'[r] = outcome[r]
      BY <1>b, <1>6 DEF Verified, ControlOK
    <2>3. \A x, y \in seen[r] : x = y
      BY DEF TimesInv, Opening, SeenInv
    <2>4. QED
      BY <1>o, <2>1, <2>2, <2>3 DEF Way, InTime, Past
  <1>7. CASE RemoveExpired(r) \/ RecordWrongPin(r)
    <2>1. /\ pc'[r] = "finish" /\ UNCHANGED <<now, guess, seen, arrived, taken>>
          /\ \/ pc[r] = "remove" /\ outcome'[r] \in {"unavailable", "storage"}
             \/ pc[r] = "record" /\ outcome'[r] \in {"unavailable", "storage", "wrongPin"}
      BY <1>b, <1>7 DEF RemoveExpired, RecordWrongPin, ControlOK
    <2>2. QED
      BY <1>o, <2>1 DEF Way, InTime, Past
  <1>8. CASE ConsumeMessage(r)
    <2>1. /\ pc'[r] = "finish" /\ UNCHANGED <<now, guess, seen, arrived>> /\ pc[r] = "consume"
          /\ outcome'[r] \in {"unavailable", "storage", "ok"}
      BY <1>b, <1>8 DEF ConsumeMessage, ControlOK
    <2>2. QED
      BY <1>o, <2>1 DEF Way, InTime, Past
  <1>9. ASSUME NEW q \in Requests, PoolBusy(q) \/ StartHash(q) \/ Disconnect(q) PROVE Way(r)'
    <2>1. /\ pc'[r] \in {pc[r], "finish", "done"} /\ outcome'[r] \in {outcome[r], "busy"}
          /\ UNCHANGED <<guess, seen, arrived, taken>>
      BY <1>9, <1>b DEF PoolBusy, StartHash, Disconnect, ControlOK
    <2>2. QED
      BY <1>0, <2>1
  <1>10. CASE Crash \/ Tick \/ (\E t \in 0..now : Sweep(t)) \/ UNCHANGED vars
    <2>1. /\ pc'[r] \in {pc[r], "done"} /\ outcome' = outcome
          /\ UNCHANGED <<guess, seen, arrived, taken>>
      BY <1>10, <1>b DEF Crash, Tick, Sweep, vars, ControlOK
    <2>2. QED
      BY <1>0, <2>1
  <1>11. QED
    BY <1>1, <1>2, <1>3, <1>4, <1>5, <1>6, <1>7, <1>8, <1>9, <1>10 DEF Next, RetrieveStep

LEMMA TimesHold == Spec => []TimesInv
  <1>1. Init => TimesInv
    <2>1. ASSUME Init PROVE Readings /\ SameExpiry /\ Onward
      BY <2>1 DEF Init, Readings, SameExpiry, Onward, Way, Past, Requests
    <2>2. QED
      BY <2>1, InitBase, InitOpening DEF TimesInv
  <1>2. TimesInv /\ [Next]_vars => TimesInv'
    BY NextBase, NextOpening, NextReadings, NextSameExpiry, NextOnward DEF TimesInv
  <1>3. QED
    BY <1>1, <1>2, PTL DEF Spec

\* A retrieval that arrives after a message's expiry neither opens it nor learns whether its
\* PIN was right, however the hash pool and the clock delay it.
THEOREM NeverTooLate == Spec => []ArrivedInTime
  <1>1. TimesInv => ArrivedInTime
    BY DEF TimesInv, Onward, Way, InTime, ArrivedInTime
  <1>2. QED
    BY <1>1, TimesHold, PTL

\* What NothingVanishesEarly says of one step.
RightlyGone(x) ==
  \/ Expired(x, now)
  \/ crashes' > crashes /\ ~Durable
  \/ \E r \in Lookups(x.message) : pc[r] = "consume" /\ guess[r] = x.pin
  \/ \E r \in Lookups(x.message) :
       pc[r] = "record" /\ guess[r] # x.pin /\ x.failed + 1 >= MaxFailed

\* The row that a retrieval names by its generation is the one that it looked up.
LEMMA NamesWhatItSaw ==
  ASSUME TimesInv, NEW r \in Readers, pc[r] \in Past, NEW row \in seen[r],
         NEW x \in rows, x.generation = row.generation
  PROVE  /\ x.message = row.message /\ x.expires = row.expires /\ x.pin = row.pin
         /\ r \in Lookups(x.message)
  <1>1. x.message = row.message /\ row.pin = PinOf[row.message] /\ x.pin = PinOf[x.message]
    BY DEF TimesInv, Opening, SeenInv, StoreInv
  <1>2. x.expires = row.expires
    BY DEF TimesInv, SameExpiry
  <1>3. QED
    BY <1>1, <1>2 DEF Lookups

LEMMA NextVanished ==
  ASSUME TimesInv, [Next]_vars, NEW x \in Vanished
  PROVE  RightlyGone(x)
  <1>b. /\ rows \subseteq Row /\ now \in Nat /\ crashes \in Nat
        /\ \A m \in Messages : stamp[m] \in Nat /\ stamp[m] <= now
        /\ \A y \in Row : y.expires \in Nat /\ y.failed \in Nat
    BY Halves DEF TimesInv, Base, DataOK, Readings, Row
  <1>x. x \in rows /\ \A y \in rows' : y.generation # x.generation
    BY DEF Vanished
  <1>e. \A t \in Nat : t <= now /\ Expired(x, t) => RightlyGone(x)
    BY <1>b, <1>x DEF Expired, RightlyGone
  <1>1. ASSUME NEW m \in Messages, InsertMessage(m) PROVE RightlyGone(x)
    <2>1. PICK id \in Ids, fault \in Faults :
            rows' = IF fault # "before" THEN Insert(rows, NewRow(m, id), stamp[m]).rows ELSE rows
      BY <1>1 DEF InsertMessage
    <2>2. \A y \in rows : Expired(y, stamp[m]) \/ y \in Insert(rows, NewRow(m, id), stamp[m]).rows
      BY DEF Insert, MakeRoom, Unexpired
    <2>3. Expired(x, stamp[m])
      BY <1>x, <2>1, <2>2
    <2>4. QED
      BY <1>b, <1>e, <2>3
  <1>2. ASSUME NEW r \in Readers, RemoveExpired(r) PROVE RightlyGone(x)
    <2>1. pc[r] = "remove"
      BY <1>2 DEF RemoveExpired
    <2>2. PICK row \in seen[r] : x \notin Remove(rows, target[r], row.generation)
      BY <1>2, <1>x DEF RemoveExpired
    <2>3. x.generation = row.generation
      BY <1>x, <2>2 DEF Remove, Generation, Named
    <2>4. x.expires = row.expires /\ Expired(row, now)
      BY <1>x, <2>1, <2>3, NamesWhatItSaw DEF Past, TimesInv, Onward, Way
    <2>5. QED
      BY <1>b, <1>e, <2>4 DEF Expired
  <1>3. ASSUME NEW r \in Readers, ConsumeMessage(r) PROVE RightlyGone(x)
    <2>1. pc[r] = "consume"
      BY <1>3 DEF ConsumeMessage
    <2>2. PICK row \in seen[r] : x \notin Consume(rows, target[r], row.generation).rows
      BY <1>3, <1>x DEF ConsumeMessage
    <2>3. x.generation = row.generation
      BY <1>x, <2>2 DEF Consume, Generation, Named
    <2>4. guess[r] = row.pin
      BY <2>1 DEF TimesInv, Opening, SeenInv
    <2>5. x.pin = row.pin /\ r \in Lookups(x.message)
      BY <1>x, <2>1, <2>3, NamesWhatItSaw DEF Past
    <2>6. QED
      BY <2>1, <2>4, <2>5 DEF RightlyGone
  <1>4. ASSUME NEW r \in Readers, RecordWrongPin(r) PROVE RightlyGone(x)
    <2>1. pc[r] = "record"
      BY <1>4 DEF RecordWrongPin
    <2>2. PICK row \in seen[r] :
            \A y \in RecordFailure(rows, target[r], row.generation).rows : y.generation # x.generation
      BY <1>4, <1>x DEF RecordWrongPin
    <2>3. x \in Generation(rows, target[r], row.generation)
      BY <1>x, <2>2 DEF RecordFailure
    <2>4. x.generation = row.generation
      BY <2>3 DEF Generation
    <2>5. x.failed + 1 >= MaxFailed
      <3> DEFINE more == [x EXCEPT !.failed = @ + 1]
      <3>1. more.generation = x.generation /\ more.failed = x.failed + 1
        BY <1>b, <1>x DEF Row
      <3>2. more.failed < MaxFailed => more \in RecordFailure(rows, target[r], row.generation).rows
        BY <2>3 DEF RecordFailure
      <3>3. ~(more.failed < MaxFailed)
        BY <2>2, <3>1, <3>2
      <3>4. QED
        BY <1>b, <1>x, <3>1, <3>3, StoreAssumption
    <2>6. guess[r] # row.pin
      BY <2>1 DEF TimesInv, Onward, Way
    <2>7. x.pin = row.pin /\ r \in Lookups(x.message)
      BY <1>x, <2>1, <2>4, NamesWhatItSaw DEF Past
    <2>8. QED
      BY <2>1, <2>5, <2>6, <2>7 DEF RightlyGone
  <1>5. ASSUME NEW t \in 0..now, Sweep(t) PROVE RightlyGone(x)
    <2>1. Expired(x, t) /\ t \in Nat /\ t <= now
      BY <1>5, <1>b, <1>x DEF Sweep, Unexpired
    <2>2. QED
      BY <1>e, <2>1
  <1>6. CASE Crash
    BY <1>6, <1>b, <1>x DEF Crash, RightlyGone
  <1>7. CASE rows' = rows
    BY <1>7, <1>x
  <1>8. \/ \E m \in Messages : InsertMessage(m)
        \/ \E r \in Readers : RemoveExpired(r) \/ ConsumeMessage(r) \/ RecordWrongPin(r)
        \/ (\E t \in 0..now : Sweep(t)) \/ Crash \/ rows' = rows
    BY DEF Next, vars, store, Upload, CreateStep, CreateTask, ReadBody, HashedVerifier, FinishCreate,
           Arrive, RetrieveStep, AskLock, ReadMeta, CheckExpiry, Verified, FinishRetrieve,
           PoolBusy, StartHash, Disconnect, Tick
  <1>9. QED
    BY <1>1, <1>2, <1>3, <1>4, <1>5, <1>6, <1>7, <1>8

\* Whatever the requests, failures and restarts: a message goes only at its end, by a
\* retrieval with its PIN, by its last wrong PIN, or with a store that is kept in memory.
THEOREM GoneForAReason == Spec => NothingVanishesEarly
  <1>1. TimesInv /\ [Next]_vars => [\A x \in Vanished : RightlyGone(x)]_vars
    BY NextVanished
  <1>2. QED
    BY <1>1, TimesHold, PTL DEF Spec, NothingVanishesEarly, RightlyGone

-----------------------------------------------------------------------------
(* The wrong PINs.  Those that readers were told of are at most the row's   *)
(* count, and that at most those that were tried and are done with; and     *)
(* while a retrieval that found the message is under way, one more may be   *)
(* counted.  The lock makes it one: TwoNeverPast.                           *)

Told(m) == {r \in Lookups(m) : outcome[r] = "wrongPin"}
Tried(m) == {r \in Lookups(m) : guess[r] # PinOf[m] /\ pc[r] \in {"finish", "done"}}

\* A message has one id for good, and a retrieval sees it by the id it asks for.
IdsInv ==
  /\ \A r \in Readers : \A x \in seen[r] : x.id = target[r]
  /\ \A r \in Readers : \A x \in seen[r], y \in rows : x.message = y.message => x.id = y.id
  /\ \A r, p \in Readers : \A x \in seen[r], y \in seen[p] : x.message = y.message => x.id = y.id

Between(m) == {r \in Lookups(m) : pc[r] \in Past}

CountsInv ==
  /\ \A x \in rows : /\ x.failed < MaxFailed
                     /\ Cardinality(Told(x.message)) <= x.failed
                     /\ x.failed <= Cardinality(Tried(x.message))
  /\ \A m \in Messages : Cardinality(Told(m)) <= MaxFailed
  /\ \A m \in Messages : Between(m) # {} => Cardinality(Told(m)) < MaxFailed

GuessInv == TimesInv /\ IdsInv /\ CountsInv

LEMMA LookupsFinite ==
  ASSUME NEW S, S \subseteq Readers
  PROVE  IsFiniteSet(S) /\ Cardinality(S) \in Nat
  BY ServiceAssumption, FS_Subset, FS_CardinalityType

LEMMA ToldFinite ==
  ASSUME NEW m
  PROVE  /\ IsFiniteSet(Told(m)) /\ Cardinality(Told(m)) \in Nat
         /\ IsFiniteSet(Tried(m)) /\ Cardinality(Tried(m)) \in Nat
         /\ IsFiniteSet(Told(m)') /\ Cardinality(Told(m)') \in Nat
         /\ IsFiniteSet(Tried(m)') /\ Cardinality(Tried(m)') \in Nat
  <1>1. /\ Told(m) \subseteq Readers /\ Tried(m) \subseteq Readers
        /\ Told(m)' \subseteq Readers /\ Tried(m)' \subseteq Readers
    BY DEF Told, Tried, Lookups
  <1>2. QED
    BY <1>1, LookupsFinite

LEMMA OneMoreTold ==
  ASSUME NEW m, NEW p
  PROVE  /\ IsFiniteSet(Told(m) \cup {p}) /\ Cardinality(Told(m) \cup {p}) \in Nat
         /\ Cardinality(Told(m) \cup {p}) <= Cardinality(Told(m)) + 1
  <1>1. /\ IsFiniteSet(Told(m) \cup {p})
        /\ Cardinality(Told(m) \cup {p}) = IF p \in Told(m) THEN Cardinality(Told(m))
                                           ELSE Cardinality(Told(m)) + 1
    BY ToldFinite, FS_AddElement
  <1>2. QED
    BY <1>1, ToldFinite

\* Two retrievals that found one message are not between lookup and commit at once.
LEMMA TwoNeverPast ==
  ASSUME Base, IdsInv, NEW m \in Messages, NEW r \in Between(m), NEW p \in Between(m)
  PROVE  r = p
  <1>1. r \in Readers /\ p \in Readers /\ pc[r] \in Past /\ pc[p] \in Past
    BY DEF Between, Lookups
  <1>2. target[r] = target[p]
    BY DEF Between, Lookups, IdsInv
  <1>3. Holds(r) /\ Holds(p)
    BY <1>1, FirstInLine DEF Base, Locking, Past
  <1>4. QED
    BY <1>2, <1>3 DEF Holds, LockOf

\* What a step leaves that counts no wrong PIN: its rows are old ones, or have a message that
\* nobody has found; nobody is newly told, or taken back; and whoever was done stays so.
LEMMA NothingCounted ==
  ASSUME GuessInv,
         \A y \in rows' : \/ \E x \in rows : x.message = y.message /\ x.failed = y.failed
                          \/ y.failed = 0 /\ Lookups(y.message)' = {},
         \A m \in Messages : Told(m)' = Told(m) /\ Tried(m) \subseteq Tried(m)',
         \A m \in Messages : Between(m)' # {} => Between(m) # {} \/ \E x \in rows : x.message = m,
         \A y \in rows' : y.message \in Messages
  PROVE  CountsInv'
  <1>1. \A m \in Messages : Cardinality(Tried(m)) <= Cardinality(Tried(m)')
    BY ToldFinite, FS_Subset
  <1>2. ASSUME NEW y \in rows'
        PROVE  y.failed < MaxFailed /\ Cardinality(Told(y.message)') <= y.failed
               /\ y.failed <= Cardinality(Tried(y.message)')
    <2>1. CASE \E x \in rows : x.message = y.message /\ x.failed = y.failed
      <3>1. PICK x \in rows : x.message = y.message /\ x.failed = y.failed
        BY <2>1
      <3>2. x.failed \in Nat
        BY <3>1 DEF GuessInv, TimesInv, Base, TypeOK, Row
      <3>3. /\ x.failed < MaxFailed /\ Cardinality(Told(x.message)) <= x.failed
            /\ x.failed <= Cardinality(Tried(x.message))
        BY DEF GuessInv, CountsInv
      <3>4. /\ Cardinality(Told(y.message)') = Cardinality(Told(y.message))
            /\ Cardinality(Tried(y.message)) <= Cardinality(Tried(y.message)')
        BY <1>1
      <3>5. QED
        BY <3>1, <3>2, <3>3, <3>4, ToldFinite
    <2>2. CASE y.failed = 0 /\ Lookups(y.message)' = {}
      <3>1. Told(y.message)' = {}
        BY <2>2 DEF Told
      <3>2. Cardinality(Told(y.message)') = 0
        BY <3>1, FS_EmptySet
      <3>3. QED
        BY <2>2, <3>2, ToldFinite, StoreAssumption
    <2>3. QED
      BY <2>1, <2>2
  <1>3. ASSUME NEW m \in Messages
        PROVE  /\ Cardinality(Told(m)') <= MaxFailed
               /\ Between(m)' # {} => Cardinality(Told(m)') < MaxFailed
    <2>1. Cardinality(Told(m)') = Cardinality(Told(m))
      OBVIOUS
    <2>2. ASSUME NEW x \in rows, x.message = m
          PROVE  Cardinality(Told(m)) < MaxFailed
      <3>1. x.failed \in Nat
        BY DEF GuessInv, TimesInv, Base, TypeOK, Row
      <3>2. QED
        BY <2>2, <3>1, ToldFinite, StoreAssumption DEF GuessInv, CountsInv
    <2>3. QED
      BY <2>1, <2>2 DEF GuessInv, CountsInv
  <1>4. QED
    BY <1>2, <1>3 DEF CountsInv

\* A row after any step but the record of a wrong PIN: an old one, or one just posted.
Posted(y) == \E m \in Messages : y.message = m /\ pc[m] = "insert" /\ y.failed = 0

LEMMA RowsSource ==
  ASSUME TimesInv, [Next]_vars
  PROVE  \/ \E r \in Readers : RecordWrongPin(r)
         \/ \A y \in rows' : y \in rows \/ Posted(y)
  <1>1. ASSUME NEW m \in Messages, InsertMessage(m)
        PROVE  \A y \in rows' : y \in rows \/ Posted(y)
    <2>1. pc[m] = "insert" /\ \E id \in Ids, fault \in Faults :
            rows' = IF fault # "before" THEN Insert(rows, NewRow(m, id), stamp[m]).rows ELSE rows
      BY <1>1 DEF InsertMessage
    <2>2. PICK id \in Ids : rows' \subseteq rows \cup {NewRow(m, id)}
      BY <2>1 DEF Insert, MakeRoom, Unexpired
    <2>3. NewRow(m, id).message = m /\ NewRow(m, id).failed = 0
      BY DEF NewRow
    <2>4. QED
      BY <2>1, <2>2, <2>3 DEF Posted
  <1>2. ASSUME NEW r \in Readers, RemoveExpired(r) \/ ConsumeMessage(r)
        PROVE  rows' \subseteq rows
    BY <1>2 DEF RemoveExpired, ConsumeMessage, Remove, Consume
  <1>3. ASSUME NEW t \in 0..now, Sweep(t)
        PROVE  rows' \subseteq rows
    BY <1>3 DEF Sweep, Unexpired
  <1>4. CASE Crash
    BY <1>4 DEF Crash
  <1>5. QED
    BY <1>1, <1>2, <1>3, <1>4
    DEF Next, vars, store, Upload, CreateStep, CreateTask, ReadBody, HashedVerifier, FinishCreate,
        Arrive, RetrieveStep, AskLock, ReadMeta, CheckExpiry, Verified, FinishRetrieve,
        PoolBusy, StartHash, Disconnect, Tick

\* What the record of a wrong PIN leaves: the row that was looked up, counted once more or
\* burned, and every other row as it was.
LEMMA Recorded ==
  ASSUME TimesInv, NEW r \in Readers, RecordWrongPin(r)
  PROVE  /\ pc[r] = "record" /\ pc' = [pc EXCEPT ![r] = "finish"]
         /\ UNCHANGED <<seen, target, guess>>
         /\ \/ rows' = rows /\ outcome'[r] # "wrongPin"
            \/ \E x \in rows, row \in seen[r] :
                 /\ x.message = row.message
                 /\ \A y \in rows' : \/ y \in rows /\ y # x
                                     \/ /\ y.message = x.message /\ y.id = x.id
                                        /\ y.failed = x.failed + 1 /\ y.failed < MaxFailed
         /\ \A q \in Requests \ {r} : outcome'[q] = outcome[q]
  <1>b. rows \subseteq Row /\ outcome \in [Requests -> Results] /\ r \in Requests
        /\ \A x \in rows : x.failed \in Nat
    BY DEF TimesInv, Base, TypeOK, Row, Requests
  <1>1. /\ pc[r] = "record" /\ pc' = [pc EXCEPT ![r] = "finish"]
        /\ UNCHANGED <<seen, target, guess>>
        /\ \A q \in Requests \ {r} : outcome'[q] = outcome[q]
    BY <1>b DEF RecordWrongPin, Decide, asks, retrievals
  <1>2. PICK fault \in Faults, row \in seen[r] :
          /\ rows' = IF fault = "before" THEN rows
                     ELSE RecordFailure(rows, target[r], row.generation).rows
          /\ outcome'[r] = IF fault # "none" THEN "storage"
                           ELSE IF RecordFailure(rows, target[r], row.generation).result = "gone"
                                THEN "unavailable" ELSE "wrongPin"
    BY <1>b DEF RecordWrongPin, Decide
  <1> DEFINE hit == Generation(rows, target[r], row.generation)
  <1>3. CASE fault = "before" \/ hit = {}
    <2>1. hit = {} => /\ RecordFailure(rows, target[r], row.generation).rows = rows
                      /\ RecordFailure(rows, target[r], row.generation).result = "gone"
      BY DEF RecordFailure
    <2>2. rows' = rows /\ outcome'[r] # "wrongPin"
      BY <1>2, <1>3, <2>1
    <2>3. QED
      BY <1>1, <2>2
  <1>4. CASE fault # "before" /\ hit # {}
    <2>1. PICK x \in rows : x \in hit
      BY <1>4 DEF Generation, Named
    <2>2. x.generation = row.generation
      BY <2>1 DEF Generation
    <2>3. x.message = row.message
      BY <1>1, <2>2, NamesWhatItSaw DEF Past
    <2>4. hit = {x}
      BY <2>1, <2>2 DEF Generation, Named, TimesInv, Opening, StoreInv, Unique
    <2>5. \A y \in rows' : \/ y \in rows /\ y # x
                           \/ y = [x EXCEPT !.failed = @ + 1] /\ y.failed < MaxFailed
      BY <1>2, <1>4, <2>4 DEF RecordFailure
    <2>6. /\ [x EXCEPT !.failed = @ + 1].message = x.message
          /\ [x EXCEPT !.failed = @ + 1].id = x.id
          /\ [x EXCEPT !.failed = @ + 1].failed = x.failed + 1
      BY <1>b DEF Row
    <2>7. \A y \in rows' : \/ y \in rows /\ y # x
                           \/ /\ y.message = x.message /\ y.id = x.id
                              /\ y.failed = x.failed + 1 /\ y.failed < MaxFailed
      BY <2>5, <2>6
    <2>8. QED
      BY <1>1, <2>3, <2>7
  <1>5. QED
    BY <1>3, <1>4

\* Nobody has found a message that is still to be posted.
LEMMA NotFoundYet ==
  ASSUME TimesInv, NEW m \in Messages, pc[m] = "insert"
  PROVE  Lookups(m) = {} /\ \A r \in Readers : \A x \in seen[r] : x.message # m
  BY DEF TimesInv, Opening, SeenInv, Kept, Lookups

LEMMA NextIds ==
  ASSUME GuessInv, [Next]_vars
  PROVE  IdsInv'
  <1>b. seen \in [Readers -> SUBSET Row] /\ rows \subseteq Row
    BY DEF GuessInv, TimesInv, Base, TypeOK
  <1>0. TimesInv /\ IdsInv
    BY DEF GuessInv
  <1>g. target' = target
    BY DEF Next, vars, asks, Upload, CreateStep, CreateTask, ReadBody, HashedVerifier, InsertMessage, FinishCreate,
           Arrive, RetrieveStep, AskLock, ReadMeta, CheckExpiry, Verified, RemoveExpired,
           RecordWrongPin, ConsumeMessage, FinishRetrieve, PoolBusy, StartHash, Disconnect, Sweep,
           Tick, Crash
  <1>1. ASSUME NEW r \in Readers, ReadMeta(r) PROVE IdsInv'
    <2>1. rows' = rows /\ \A p \in Readers \ {r} : seen'[p] = seen[p]
      BY <1>1, <1>b DEF ReadMeta, store
    <2>2. seen'[r] = seen[r] \/ seen'[r] = Named(rows, target[r])
      BY <1>1, <1>b DEF ReadMeta
    <2>3. \A x, y \in rows : x.message = y.message => x = y
      BY DEF GuessInv, TimesInv, Opening, StoreInv, Unique
    <2>4. \A x \in Named(rows, target[r]) : x \in rows /\ x.id = target[r]
      BY DEF Named
    <2>5. QED
      BY <1>0, <1>g, <2>1, <2>2, <2>3, <2>4 DEF IdsInv
  <1>2. ASSUME NEW r \in Readers, RecordWrongPin(r) PROVE IdsInv'
    <2>1. seen' = seen /\ \A y \in rows' : \E x \in rows : x.message = y.message /\ x.id = y.id
      BY <1>0, <1>2, Recorded
    <2>2. QED
      BY <1>0, <1>g, <2>1 DEF IdsInv
  <1>3. ASSUME seen' = seen, \A y \in rows' : y \in rows \/ Posted(y)
        PROVE  IdsInv'
    <2>1. \A r \in Readers : \A x \in seen[r] : \A y \in rows' : x.message = y.message => y \in rows
      BY <1>0, <1>3, NotFoundYet DEF Posted
    <2>2. QED
      BY <1>0, <1>g, <1>3, <2>1 DEF IdsInv
  <1>4. (\E r \in Readers : ReadMeta(r)) \/ seen' = seen
    BY DEF Next, vars, retrievals, Upload, CreateStep, CreateTask, ReadBody, HashedVerifier, InsertMessage,
           FinishCreate, Arrive, RetrieveStep, AskLock, CheckExpiry, Verified, RemoveExpired,
           RecordWrongPin, ConsumeMessage, FinishRetrieve, PoolBusy, StartHash, Disconnect, Sweep,
           Tick, Crash
  <1>5. QED
    BY <1>0, <1>1, <1>2, <1>3, <1>4, RowsSource

\* Only the record of a wrong PIN tells a reader of one, nobody is told twice, and who is done
\* stays done.
LEMMA ToldFrom ==
  ASSUME TimesInv, [Next]_vars, NEW r \in Readers, ~RecordWrongPin(r)
  PROVE  /\ outcome'[r] = "wrongPin" <=> outcome[r] = "wrongPin"
         /\ pc[r] \in {"finish", "done"} => pc'[r] \in {"finish", "done"}
         /\ guess' = guess
  <1>b. ControlOK /\ DataOK /\ PlaceInv /\ r \in Requests
        /\ Messages \subseteq Requests /\ Readers \subseteq Requests /\ Messages \cap Readers = {}
    BY Halves, ServiceAssumption DEF TimesInv, Base, Requests
  <1>o. pc[r] \notin {"finish", "done"} => outcome[r] # "wrongPin"
    BY DEF TimesInv, Onward, Way
  <1> USE DEF Goto, Decide, End, asks
  <1>1. ASSUME NEW m \in Messages, Upload(m) \/ CreateStep(m)
        PROVE  pc'[r] = pc[r] /\ outcome'[r] = outcome[r] /\ guess' = guess
    BY <1>1, <1>b DEF Upload, CreateStep, CreateTask, ReadBody, Validate, HashedVerifier, InsertMessage,
                      FinishCreate, ControlOK
  <1>2. ASSUME NEW p \in Readers, Arrive(p) \/ RetrieveStep(p), p # r
        PROVE  pc'[r] = pc[r] /\ outcome'[r] = outcome[r] /\ guess' = guess
    BY <1>2, <1>b DEF Arrive, RetrieveStep, AskLock, ReadMeta, CheckExpiry, Verified,
                      RemoveExpired, RecordWrongPin, ConsumeMessage, FinishRetrieve, ControlOK
  <1>3. CASE Arrive(r) \/ AskLock(r) \/ CheckExpiry(r) \/ Verified(r) \/ FinishRetrieve(r)
    <2>1. /\ outcome' = outcome /\ guess' = guess
          /\ pc[r] \in {"finish", "done"} => pc'[r] \in {"finish", "done"}
      BY <1>3, <1>b DEF Arrive, AskLock, CheckExpiry, Verified, FinishRetrieve, ControlOK
    <2>2. QED
      BY <2>1
  <1>4. CASE ReadMeta(r) \/ RemoveExpired(r) \/ ConsumeMessage(r)
    <2>1. /\ outcome'[r] \in {outcome[r], "storage", "unavailable", "ok"} /\ guess' = guess
          /\ pc[r] \notin {"finish", "done"}
      BY <1>4, <1>b DEF ReadMeta, RemoveExpired, ConsumeMessage, ControlOK
    <2>2. QED
      BY <1>o, <2>1
  <1>5. ASSUME NEW q \in Requests, PoolBusy(q)
        PROVE  /\ outcome'[r] = "wrongPin" <=> outcome[r] = "wrongPin"
               /\ pc[r] \in {"finish", "done"} => pc'[r] \in {"finish", "done"}
               /\ guess' = guess
    <2>1. pc[q] = "pooled"
      BY <1>5, <1>b DEF PoolBusy, PlaceInv, Pool!TurnAway, Pool!Move
    <2>2. /\ guess' = guess
          /\ IF q = r THEN pc'[r] = "finish" /\ outcome'[r] = "busy"
                      ELSE pc'[r] = pc[r] /\ outcome'[r] = outcome[r]
      BY <1>5, <1>b DEF PoolBusy, ControlOK
    <2>3. QED
      BY <1>o, <2>1, <2>2
  <1>6. ASSUME NEW q \in Requests, StartHash(q) \/ Disconnect(q)
        PROVE  outcome' = outcome /\ guess' = guess /\ pc'[r] \in {pc[r], "done"}
    BY <1>6, <1>b DEF StartHash, Disconnect, ControlOK
  <1>7. CASE Crash \/ Tick \/ (\E t \in 0..now : Sweep(t)) \/ UNCHANGED vars
    <2>1. outcome' = outcome /\ guess' = guess /\ pc'[r] \in {pc[r], "done"}
      BY <1>7, <1>b DEF Crash, Tick, Sweep, vars
    <2>2. QED
      BY <2>1
  <1>8. QED
    BY <1>1, <1>2, <1>3, <1>4, <1>5, <1>6, <1>7 DEF Next, RetrieveStep

LEMMA BetweenFrom ==
  ASSUME TimesInv, [Next]_vars, NEW m \in Messages, Between(m)' # {}
  PROVE  Between(m) # {} \/ \E x \in rows : x.message = m
  <1>1. PICK r \in Readers : pc'[r] \in Past /\ \E x \in seen'[r] : x.message = m
    BY DEF Between, Lookups
  <1>2. CASE ReadMeta(r)
    <2>1. pc \in [Requests -> Steps] /\ r \in Requests /\ seen \in [Readers -> SUBSET Row]
      BY DEF TimesInv, Base, TypeOK, Requests
    <2>2. seen'[r] \subseteq rows
      BY <1>1, <1>2, <2>1 DEF ReadMeta, Decide, Named, Past
    <2>3. QED
      BY <1>1, <2>2
  <1>3. CASE pc[r] \in Past /\ seen'[r] = seen[r]
    BY <1>1, <1>3 DEF Between, Lookups
  <1>4. QED
    BY <1>1, <1>2, <1>3, PastFrom

\* A step of a retrieval that looks up, or of anybody else, that does not record.
LEMMA NothingRecorded ==
  ASSUME GuessInv, [Next]_vars, ~(\E r \in Readers : RecordWrongPin(r))
  PROVE  CountsInv'
  <1>0. TimesInv /\ TimesInv' /\ Base
    BY NextBase, NextOpening, NextReadings, NextSameExpiry, NextOnward DEF GuessInv, TimesInv
  <1>1. \A y \in rows' : y.message \in Messages
    BY <1>0 DEF TimesInv, Base, TypeOK, Row
  <1>2. ASSUME NEW r \in Readers
        PROVE  \/ seen'[r] = seen[r]
               \/ pc[r] = "locking" /\ seen'[r] \subseteq rows
    <2>1. seen \in [Readers -> SUBSET Row]
      BY <1>0 DEF Base, TypeOK
    <2>2. (\E p \in Readers : ReadMeta(p)) \/ seen' = seen
      BY DEF Next, vars, retrievals, Upload, CreateStep, CreateTask, ReadBody, HashedVerifier, InsertMessage,
             FinishCreate, Arrive, RetrieveStep, AskLock, CheckExpiry, Verified, RemoveExpired,
             RecordWrongPin, ConsumeMessage, FinishRetrieve, PoolBusy, StartHash, Disconnect,
             Sweep, Tick, Crash
    <2>3. ASSUME NEW p \in Readers, ReadMeta(p)
          PROVE  \/ seen'[r] = seen[r]
                 \/ pc[r] = "locking" /\ seen'[r] \subseteq rows
      BY <2>1, <2>3 DEF ReadMeta, Named
    <2>4. QED
      BY <2>2, <2>3
  <1>3. ASSUME NEW r \in Readers, pc[r] = "locking"
        PROVE  outcome[r] # "wrongPin" /\ outcome'[r] # "wrongPin"
    BY <1>0, <1>3, ToldFrom DEF TimesInv, Onward, Way
  <1>4. ASSUME NEW m \in Messages
        PROVE  Told(m)' = Told(m) /\ Tried(m) \subseteq Tried(m)'
    BY <1>0, <1>2, <1>3, ToldFrom DEF Told, Tried, Lookups
  <1>5. \A m \in Messages : Between(m)' # {} => Between(m) # {} \/ \E x \in rows : x.message = m
    BY <1>0, BetweenFrom
  <1>6. ASSUME NEW y \in rows'
        PROVE  \/ \E x \in rows : x.message = y.message /\ x.failed = y.failed
               \/ y.failed = 0 /\ Lookups(y.message)' = {}
    <2>1. CASE y \in rows
      BY <2>1
    <2>2. CASE Posted(y)
      <3>1. /\ y.failed = 0 /\ y.message \in Messages /\ pc[y.message] = "insert"
        BY <2>2 DEF Posted
      <3>2. \A r \in Readers : \A x \in seen[r] : x.message # y.message
        BY <1>0, <3>1, NotFoundYet
      <3>3. \A x \in rows : x.message # y.message
        BY <1>0, <3>1 DEF TimesInv, Opening, StoreInv, Kept
      <3>4. QED
        BY <1>2, <3>1, <3>2, <3>3 DEF Lookups
    <2>3. QED
      BY <1>0, <2>1, <2>2, RowsSource
  <1>7. QED
    BY <1>1, <1>4, <1>5, <1>6, NothingCounted

\* The record of a wrong PIN: one more told at most, and one more counted and tried.
LEMMA OneRecorded ==
  ASSUME GuessInv, [Next]_vars, NEW r \in Readers, RecordWrongPin(r)
  PROVE  CountsInv'
  <1>0. TimesInv /\ TimesInv' /\ Base /\ IdsInv /\ CountsInv
    BY NextBase, NextOpening, NextReadings, NextSameExpiry, NextOnward DEF GuessInv, TimesInv
  <1>b. /\ rows \subseteq Row /\ pc \in [Requests -> Steps] /\ Readers \subseteq Requests
        /\ \A y \in Row : y.failed \in Nat /\ y.message \in Messages
        /\ \A y \in rows' : y.message \in Messages
        /\ MaxFailed \in Nat
    BY <1>0, StoreAssumption DEF TimesInv, Base, TypeOK, Row, Requests
  <1>1. /\ pc[r] = "record" /\ pc' = [pc EXCEPT ![r] = "finish"]
        /\ UNCHANGED <<seen, target, guess>>
        /\ \A q \in Requests \ {r} : outcome'[q] = outcome[q]
    BY <1>0, Recorded
  <1>2. outcome[r] # "wrongPin" /\ \A x \in seen[r] : guess[r] # x.pin /\ x.pin = PinOf[x.message]
    BY <1>0, <1>1 DEF TimesInv, Onward, Way, Opening, SeenInv
  <1>3. \A m \in Messages : /\ Lookups(m)' = Lookups(m)
                            /\ Told(m) \subseteq Told(m)' /\ Told(m)' \subseteq Told(m) \cup {r}
                            /\ Tried(m) \subseteq Tried(m)'
                            /\ Between(m)' = Between(m) \ {r}
    BY <1>b, <1>1, <1>2 DEF Told, Tried, Lookups, Between, Past
  <1>4. CASE rows' = rows /\ outcome'[r] # "wrongPin"
    <2>1. \A m \in Messages : Told(m)' = Told(m)
      BY <1>3, <1>4 DEF Told
    <2>2. QED
      BY <1>b, <1>3, <1>4, <2>1, NothingCounted
  <1>5. ASSUME NEW x \in rows, NEW row \in seen[r], x.message = row.message,
               \A y \in rows' : \/ y \in rows /\ y # x
                                \/ /\ y.message = x.message /\ y.id = x.id
                                   /\ y.failed = x.failed + 1 /\ y.failed < MaxFailed
        PROVE  CountsInv'
    <2> DEFINE m == x.message
    <2>1. m \in Messages /\ x.failed \in Nat /\ r \in Lookups(m) /\ r \in Between(m)
      BY <1>b, <1>1, <1>5 DEF Lookups, Between, Past
    <2>2. Between(m)' = {}
      BY <1>0, <1>3, <2>1, TwoNeverPast
    <2>3. Cardinality(Told(m)') <= Cardinality(Told(m)) + 1
      <3>1. /\ IsFiniteSet(Told(m) \cup {r})
            /\ Cardinality(Told(m) \cup {r}) <= Cardinality(Told(m)) + 1
            /\ Cardinality(Told(m) \cup {r}) \in Nat
        BY OneMoreTold
      <3>2. Cardinality(Told(m)') <= Cardinality(Told(m) \cup {r})
        BY <1>3, <2>1, <3>1, FS_Subset
      <3>3. QED
        BY <3>1, <3>2, ToldFinite
    <2>4. Cardinality(Tried(m)') >= Cardinality(Tried(m)) + 1
      <3>1. r \notin Tried(m) /\ r \in Tried(m)'
        <4>1. guess[r] # PinOf[m]
          BY <1>2, <1>5
        <4>2. r \in Lookups(m)' /\ pc'[r] = "finish" /\ guess'[r] = guess[r]
          BY <1>b, <1>1, <1>3, <2>1
        <4>3. QED
          BY <1>1, <4>1, <4>2 DEF Tried
      <3>2. /\ IsFiniteSet(Tried(m) \cup {r})
            /\ Cardinality(Tried(m) \cup {r}) = Cardinality(Tried(m)) + 1
        BY <3>1, ToldFinite, FS_AddElement
      <3>3. Cardinality(Tried(m) \cup {r}) <= Cardinality(Tried(m)')
        BY <1>3, <2>1, <3>1, ToldFinite, FS_Subset
      <3>4. QED
        BY <3>2, <3>3, ToldFinite
    <2>5. ASSUME NEW n \in Messages, n # m
          PROVE  Told(n)' = Told(n) /\ Between(n)' = Between(n)
      <3>1. r \notin Lookups(n)
        BY <1>0, <1>5, <2>5 DEF Lookups, TimesInv, Opening, SeenInv
      <3>2. QED
        BY <1>3, <3>1 DEF Told, Between
    <2>6. ASSUME NEW y \in rows'
          PROVE  /\ y.failed < MaxFailed
                 /\ Cardinality(Told(y.message)') <= y.failed
                 /\ y.failed <= Cardinality(Tried(y.message)')
      <3>1. CASE y \in rows /\ y # x
        <4>1. y.message # m /\ y.message \in Messages /\ y.failed \in Nat
          BY <1>0, <1>b, <3>1 DEF TimesInv, Opening, StoreInv, Unique
        <4>2. Cardinality(Tried(y.message)) <= Cardinality(Tried(y.message)')
          BY <1>3, <4>1, ToldFinite, FS_Subset
        <4>3. /\ y.failed < MaxFailed /\ Cardinality(Told(y.message)) <= y.failed
              /\ y.failed <= Cardinality(Tried(y.message))
          BY <1>0, <3>1 DEF CountsInv
        <4>4. Cardinality(Told(y.message)') = Cardinality(Told(y.message))
          BY <2>5, <4>1
        <4>5. QED
          BY <4>1, <4>2, <4>3, <4>4, ToldFinite
      <3>2. CASE /\ y.message = m
                 /\ y.failed = x.failed + 1 /\ y.failed < MaxFailed
        <4>1. Cardinality(Told(m)) <= x.failed /\ x.failed <= Cardinality(Tried(m))
          BY <1>0 DEF CountsInv
        <4>2. QED
          BY <2>1, <2>3, <2>4, <3>2, <4>1, ToldFinite
      <3>3. QED
        BY <1>5, <3>1, <3>2
    <2>7. Cardinality(Told(m)) < MaxFailed
      BY <1>0, <2>1 DEF CountsInv
    <2>8. Cardinality(Told(m)') <= MaxFailed
      BY <1>b, <2>3, <2>7, ToldFinite
    <2>9. ASSUME NEW n \in Messages
          PROVE  /\ Cardinality(Told(n)') <= MaxFailed
                 /\ Between(n)' # {} => Cardinality(Told(n)') < MaxFailed
      BY <1>0, <2>2, <2>5, <2>8 DEF CountsInv
    <2>10. QED
      BY <2>6, <2>9 DEF CountsInv
  <1>6. QED
    BY <1>0, <1>4, <1>5, Recorded

LEMMA GuessesHold == Spec => []GuessInv
  <1>1. Init => GuessInv
    <2>1. ASSUME Init PROVE GuessInv
      <3>1. TimesInv /\ IdsInv
        <4>1. Readings /\ SameExpiry /\ Onward
          BY <2>1 DEF Init, Readings, SameExpiry, Onward, Way, Past, Requests
        <4>2. QED
          BY <2>1, <4>1, InitBase, InitOpening DEF TimesInv, IdsInv, Init
      <3>2. \A m \in Messages : Told(m) = {} /\ Between(m) = {}
        BY <2>1 DEF Init, Told, Between, Lookups
      <3>3. \A m \in Messages : Cardinality(Told(m)) = 0
        BY <3>2, FS_EmptySet
      <3>4. QED
        BY <2>1, <3>1, <3>2, <3>3, StoreAssumption DEF Init, GuessInv, CountsInv
    <2>2. QED
      BY <2>1
  <1>2. GuessInv /\ [Next]_vars => GuessInv'
    <2>1. ASSUME GuessInv, [Next]_vars PROVE GuessInv'
      <3>1. TimesInv'
        BY <2>1, NextBase, NextOpening, NextReadings, NextSameExpiry, NextOnward DEF GuessInv, TimesInv
      <3>2. QED
        BY <2>1, <3>1, NextIds, NothingRecorded, OneRecorded DEF GuessInv
    <2>2. QED
      BY <2>1
  <1>3. QED
    BY <1>1, <1>2, PTL DEF Spec

\* Whoever is told that a PIN was wrong is on the count of the stored row, through failures
\* and restarts.
THEOREM ToldMeansCharged == Spec => []ToldIsCharged
  <1>1. GuessInv => ToldIsCharged
    BY DEF GuessInv, CountsInv, ToldIsCharged, Told
  <1>2. QED
    BY <1>1, GuessesHold, PTL

\* A row's count is made of wrong PINs that were checked against that very message.
THEOREM ChargedFairly == Spec => []ChargedByItsOwnGuesses
  <1>1. ASSUME GuessInv, NEW x \in rows
        PROVE  x.failed <= Cardinality({r \in Lookups(x.message) : guess[r] # x.pin})
    <2> DEFINE Wrong == {r \in Lookups(x.message) : guess[r] # x.pin}
    <2>1. x.pin = PinOf[x.message]
      BY <1>1 DEF GuessInv, TimesInv, Opening, StoreInv
    <2>2. Tried(x.message) \subseteq Wrong /\ Wrong \subseteq Readers
      BY <2>1 DEF Tried, Lookups
    <2>3. Cardinality(Tried(x.message)) <= Cardinality(Wrong) /\ Cardinality(Wrong) \in Nat
      BY <2>2, LookupsFinite, FS_Subset
    <2>4. x.failed \in Nat /\ x.failed <= Cardinality(Tried(x.message))
      BY <1>1 DEF GuessInv, CountsInv, TimesInv, Base, TypeOK, Row
    <2>5. QED
      BY <2>3, <2>4, ToldFinite
  <1>2. GuessInv => ChargedByItsOwnGuesses
    BY <1>1 DEF ChargedByItsOwnGuesses
  <1>3. QED
    BY <1>2, GuessesHold, PTL

\* However many retrievals race, at most MaxFailed wrong PINs are tested against a message.
THEOREM FewGuesses == Spec => []GuessesBounded
  <1>1. ASSUME GuessInv, NEW m \in Messages
        PROVE  Cardinality({r \in Lookups(m) :
                 guess[r] # PinOf[m] /\ (pc[r] = "record" \/ outcome[r] = "wrongPin")}) <= MaxFailed
    <2> DEFINE Tests == {r \in Lookups(m) :
                 guess[r] # PinOf[m] /\ (pc[r] = "record" \/ outcome[r] = "wrongPin")}
    <2>0. /\ Cardinality(Told(m)) <= MaxFailed /\ MaxFailed \in Nat
          /\ Between(m) # {} => Cardinality(Told(m)) < MaxFailed
      BY <1>1, StoreAssumption DEF GuessInv, CountsInv
    <2>1. Tests \subseteq Told(m) \cup Between(m)
      BY DEF Told, Between, Past
    <2>2. CASE Between(m) = {}
      <3>1. Cardinality(Tests) <= Cardinality(Told(m)) /\ Cardinality(Tests) \in Nat
        BY <2>1, <2>2, ToldFinite, FS_Subset, FS_CardinalityType
      <3>2. QED
        BY <2>0, <3>1, ToldFinite
    <2>3. ASSUME NEW p \in Between(m)
          PROVE  Cardinality(Tests) <= MaxFailed
      <3>1. Tests \subseteq Told(m) \cup {p}
        BY <1>1, <2>1, <2>3, TwoNeverPast DEF GuessInv, TimesInv
      <3>2. /\ IsFiniteSet(Told(m) \cup {p})
            /\ Cardinality(Told(m) \cup {p}) <= Cardinality(Told(m)) + 1
            /\ Cardinality(Told(m) \cup {p}) \in Nat
        BY OneMoreTold
      <3>3. Cardinality(Tests) <= Cardinality(Told(m) \cup {p}) /\ Cardinality(Tests) \in Nat
        BY <3>1, <3>2, FS_Subset, FS_CardinalityType
      <3>4. QED
        BY <2>0, <2>3, <3>2, <3>3, ToldFinite
    <2>4. QED
      BY <2>2, <2>3
  <1>2. GuessInv => GuessesBounded
    BY <1>1 DEF GuessesBounded
  <1>3. QED
    BY <1>2, GuessesHold, PTL

-----------------------------------------------------------------------------
(* The promise of OneTimeMessages, with these for its variables.             *)

Became == [m \in Messages |-> StatusOf(m)]
Charged == [m \in Messages |-> WrongOf(m)]
Expiries == [m \in Messages |-> ExpiryOf(m)]
Opened == [m \in Messages |-> OpenersOf(m)]
promised == <<now, guess, Became, Charged, Expiries, Opened, crashes>>

Ended(m) == pc[m] \in {"finish", "done"}

\* A step that has nothing to do with message m, and one after which it is gone.
Untouched(m) == RowOf(m)' = RowOf(m) /\ OpenersOf(m)' = OpenersOf(m) /\ (Ended(m)' <=> Ended(m))
LeavesFor(m) == RowOf(m)' = {} /\ OpenersOf(m)' = {} /\ Ended(m)'

LEMMA UntouchedSame ==
  ASSUME NEW m \in Messages, Untouched(m)
  PROVE  Became'[m] = Became[m] /\ Charged'[m] = Charged[m] /\ Expiries'[m] = Expiries[m]
  BY DEF Untouched, Ended, Became, Charged, Expiries, StatusOf, WrongOf, ExpiryOf

LEMMA LeftGone ==
  ASSUME NEW m \in Messages, LeavesFor(m)
  PROVE  Became'[m] = "gone" /\ Charged'[m] = 0 /\ Expiries'[m] = 0
  BY DEF LeavesFor, Ended, Became, Charged, Expiries, StatusOf, WrongOf, ExpiryOf

\* What a row says of its message.
LEMMA RowSays ==
  ASSUME TimesInv, NEW x \in rows
  PROVE  /\ RowOf(x.message) = {x} /\ OpenersOf(x.message) = {} /\ Ended(x.message)
         /\ x.message \in Messages /\ x.failed \in Nat /\ x.expires \in Nat
         /\ Became[x.message] = "stored" /\ Charged[x.message] = x.failed
         /\ Expiries[x.message] = x.expires
  <1>1. x.message \in Messages /\ x.failed \in Nat /\ x.expires \in Nat
    BY DEF TimesInv, Base, TypeOK, Row
  <1>2. RowOf(x.message) = {x} /\ TheRow({x}) = x
    BY DEF RowOf, TheRow, TimesInv, Opening, StoreInv, Unique
  <1>3. OpenersOf(x.message) = {} /\ Ended(x.message)
    BY <1>1 DEF OpenersOf, Ended, TimesInv, Opening, StoreInv, TakenInv, Kept
  <1>4. QED
    BY <1>1, <1>2, <1>3 DEF Became, Charged, Expiries, StatusOf, WrongOf, ExpiryOf

\* A create that has not ended has left nothing anywhere.
LEMMA NotYet ==
  ASSUME TimesInv, NEW m \in Messages, ~Ended(m)
  PROVE  /\ RowOf(m) = {} /\ OpenersOf(m) = {}
         /\ Became[m] = "pending" /\ Charged[m] = 0 /\ Expiries[m] = 0
  <1>1. RowOf(m) = {} /\ OpenersOf(m) = {}
    BY DEF RowOf, OpenersOf, Ended, TimesInv, Opening, StoreInv, TakenInv, Kept
  <1>2. QED
    BY <1>1 DEF Ended, Became, Charged, Expiries, StatusOf, WrongOf, ExpiryOf

LEMMA Goes ==
  ASSUME NEW S \in SUBSET Messages, \A m \in S : LeavesFor(m),
         \A m \in Messages \ S : Untouched(m)
  PROVE  Promise!Gone(S, "gone")
  <1>1. \A m \in Messages :
          /\ Became'[m] = IF m \in S THEN "gone" ELSE Became[m]
          /\ Charged'[m] = IF m \in S THEN 0 ELSE Charged[m]
          /\ Expiries'[m] = IF m \in S THEN 0 ELSE Expiries[m]
    BY UntouchedSame, LeftGone
  <1>2. /\ Became' = [m \in Messages |-> IF m \in S THEN "gone" ELSE Became[m]]
        /\ Charged' = [m \in Messages |-> IF m \in S THEN 0 ELSE Charged[m]]
        /\ Expiries' = [m \in Messages |-> IF m \in S THEN 0 ELSE Expiries[m]]
    BY <1>1 DEF Became, Charged, Expiries
  <1>3. QED
    BY <1>2 DEF Promise!Gone, Became, Charged, Expiries

LEMMA NothingGoes ==
  ASSUME \A m \in Messages : Untouched(m)
  PROVE  UNCHANGED <<Became, Charged, Expiries>>
  BY UntouchedSame DEF Became, Charged, Expiries

\* The promise's actions, over Became, Charged, Expiries and Opened.
LEMMA PromiseSets ==
  /\ Promise!Stored = {m \in Messages : Became[m] = "stored"}
  /\ Promise!Pending = {m \in Messages : Became[m] = "pending"}
  /\ Promise!Stale = {m \in Messages : Became[m] = "stored" /\ Expiries[m] <= now}
  BY DEF Promise!Stored, Promise!Pending, Promise!Stale, Became, Expiries

LEMMA PromiseOfTime ==
  /\ Promise!Tick <=>
       now' = now + 1 /\ UNCHANGED <<guess, Became, Charged, Expiries, Opened, crashes>>
  /\ Promise!Discard <=>
       /\ \E S \in SUBSET Promise!Stale : Promise!Gone(S, "gone")
       /\ UNCHANGED <<now, guess, Opened, crashes>>
  /\ Promise!Restart <=>
       /\ \E S \in SUBSET Promise!Pending :
            Promise!Gone(S \cup (IF ~Durable THEN Promise!Stored ELSE {}), "gone")
       /\ crashes' = crashes + 1
       /\ UNCHANGED <<now, guess, Opened>>
  BY DEF Promise!Tick, Promise!Discard, Promise!Restart, Became, Charged, Expiries, Opened

LEMMA PromiseOfCreates ==
  ASSUME NEW m \in Messages
  PROVE  /\ Promise!Refuse(m) <=>
              /\ Became[m] = "pending"
              /\ \E S \in SUBSET Promise!Stale : Promise!Gone(S \cup {m}, "gone")
              /\ UNCHANGED <<now, guess, Opened, crashes>>
         /\ Promise!Post(m) <=>
              /\ Became[m] = "pending"
              /\ Expiries'[m] \in Nat
              /\ \E S \in SUBSET Promise!Stale :
                   /\ Became' = [n \in Messages |-> IF n = m THEN "stored"
                                                    ELSE IF n \in S THEN "gone" ELSE Became[n]]
                   /\ Charged' = [n \in Messages |-> IF n \in S THEN 0 ELSE Charged[n]]
                   /\ \A n \in Messages \ {m} : Expiries'[n] = IF n \in S THEN 0 ELSE Expiries[n]
              /\ UNCHANGED <<now, guess, Opened, crashes>>
  BY DEF Promise!Refuse, Promise!Post, Became, Charged, Expiries, Opened

LEMMA PromiseOfRetrievals ==
  ASSUME NEW m \in Messages, NEW r \in Readers
  PROVE  /\ Promise!WrongPin(m, r) <=>
              /\ Became[m] = "stored" /\ guess[r] # PinOf[m]
              /\ IF Charged[m] + 1 >= MaxFailed
                 THEN Promise!Gone({m}, "gone")
                 ELSE /\ Charged' = [Charged EXCEPT ![m] = @ + 1]
                      /\ UNCHANGED <<Became, Expiries>>
              /\ UNCHANGED <<now, guess, Opened, crashes>>
         /\ Promise!Open(m, r) <=>
              /\ Became[m] = "stored" /\ guess[r] = PinOf[m]
              /\ Promise!Gone({m}, "opened")
              /\ Opened' = [Opened EXCEPT ![m] = {r}]
              /\ UNCHANGED <<now, guess, crashes>>
         /\ Promise!Spoil(m, r) <=>
              /\ Faults # {"none"}
              /\ Became[m] = "stored" /\ guess[r] = PinOf[m]
              /\ Promise!Gone({m}, "gone")
              /\ UNCHANGED <<now, guess, Opened, crashes>>
  BY DEF Promise!WrongPin, Promise!Open, Promise!Spoil, Became, Charged, Expiries, Opened

\* Only expired rows go, and only the creates of T end.
LEMMA Swept ==
  ASSUME TimesInv, NEW T \in SUBSET Messages,
         rows' \subseteq rows, \A x \in rows : x \in rows' \/ Expired(x, now), taken' = taken,
         \A m \in T : ~Ended(m) /\ Ended(m)',
         \A m \in Messages \ T : Ended(m)' <=> Ended(m)
  PROVE  \E S \in SUBSET Promise!Stale : Promise!Gone(S \cup T, "gone")
  <1> DEFINE S == {m \in Messages : RowOf(m) # {} /\ RowOf(m)' = {}}
  <1>1. S \subseteq Promise!Stale
    <2>1. SUFFICES ASSUME NEW m \in S PROVE Became[m] = "stored" /\ Expiries[m] <= now
      BY PromiseSets
    <2>2. PICK x \in rows : x.message = m /\ x \notin rows'
      BY DEF RowOf
    <2>3. QED
      BY <2>2, RowSays DEF Expired
  <1>2. \A m \in Messages : OpenersOf(m)' = OpenersOf(m)
    BY DEF OpenersOf
  <1>3. ASSUME NEW m \in S \cup T PROVE LeavesFor(m)
    <2>1. CASE m \in T
      <3>1. RowOf(m) = {} /\ OpenersOf(m) = {}
        BY <2>1, NotYet
      <3>2. RowOf(m)' = {}
        BY <3>1 DEF RowOf
      <3>3. QED
        BY <1>2, <2>1, <3>1, <3>2 DEF LeavesFor
    <2>2. CASE m \in S \ T
      <3>1. PICK x \in rows : x.message = m
        BY <2>2 DEF RowOf
      <3>2. OpenersOf(m) = {} /\ Ended(m)
        BY <3>1, RowSays
      <3>3. QED
        BY <1>2, <2>2, <3>2 DEF LeavesFor
    <2>3. QED
      BY <2>1, <2>2
  <1>4. ASSUME NEW m \in Messages \ (S \cup T) PROVE Untouched(m)
    <2>1. RowOf(m)' = RowOf(m)
      <3>1. RowOf(m)' \subseteq RowOf(m) /\ (RowOf(m) = {} \/ RowOf(m)' # {})
        BY DEF RowOf
      <3>2. \A x, y \in RowOf(m) : x = y
        BY DEF RowOf, TimesInv, Opening, StoreInv, Unique
      <3>3. QED
        BY <3>1, <3>2
    <2>2. QED
      BY <1>2, <2>1 DEF Untouched
  <1>5. Promise!Gone(S \cup T, "gone")
    BY <1>3, <1>4, Goes
  <1>6. QED
    BY <1>1, <1>5

LEMMA Discards ==
  ASSUME TimesInv, rows' \subseteq rows, \A x \in rows : x \in rows' \/ Expired(x, now),
         UNCHANGED <<taken, now, guess, crashes>>, \A m \in Messages : Ended(m)' <=> Ended(m)
  PROVE  Promise!Discard
  <1>1. PICK S \in SUBSET Promise!Stale : Promise!Gone(S \cup {}, "gone")
    BY Swept
  <1>2. S \cup {} = S /\ Opened' = Opened
    BY DEF Opened, OpenersOf
  <1>3. QED
    BY <1>1, <1>2, PromiseOfTime

LEMMA Refuses ==
  ASSUME TimesInv, NEW m \in Messages,
         rows' \subseteq rows, \A x \in rows : x \in rows' \/ Expired(x, now),
         UNCHANGED <<taken, now, guess, crashes>>,
         Ended(m) => Ended(m)', \A n \in Messages \ {m} : Ended(n)' <=> Ended(n)
  PROVE  Promise!Refuse(m) \/ Promise!Discard
  <1>1. CASE ~Ended(m) /\ Ended(m)'
    <2>1. PICK S \in SUBSET Promise!Stale : Promise!Gone(S \cup {m}, "gone")
      BY <1>1, Swept
    <2>2. Became[m] = "pending"
      BY <1>1, NotYet
    <2>3. Opened' = Opened
      BY DEF Opened, OpenersOf
    <2>4. QED
      BY <2>1, <2>2, <2>3, PromiseOfCreates
  <1>2. CASE Ended(m)' <=> Ended(m)
    BY <1>2, Discards
  <1>3. QED
    BY <1>1, <1>2

\* The rows of every message but m stay or, expired, go; and m's appears.
LEMMA Posts ==
  ASSUME TimesInv, NEW m \in Messages, ~Ended(m), Ended(m)',
         NEW new, new.message = m, new.expires \in Nat, new.failed = 0,
         NEW R \in SUBSET rows, rows' = R \cup {new}, \A x \in rows : x \in R \/ Expired(x, now),
         UNCHANGED <<taken, now, guess, crashes>>,
         \A n \in Messages \ {m} : Ended(n)' <=> Ended(n)
  PROVE  Promise!Post(m)
  <1> DEFINE S == {n \in Messages : RowOf(n) # {} /\ RowOf(n)' = {}}
  <1>1. /\ RowOf(m) = {} /\ OpenersOf(m) = {}
        /\ Became[m] = "pending" /\ Charged[m] = 0 /\ Expiries[m] = 0
    BY NotYet
  <1>2. S \subseteq Promise!Stale
    <2>1. SUFFICES ASSUME NEW n \in S PROVE Became[n] = "stored" /\ Expiries[n] <= now
      BY PromiseSets
    <2>2. PICK x \in rows : x.message = n /\ x \notin rows'
      BY DEF RowOf
    <2>3. QED
      BY <2>2, RowSays DEF Expired
  <1>3. \A n \in Messages : OpenersOf(n)' = OpenersOf(n)
    BY DEF OpenersOf
  <1>4. ASSUME NEW n \in S PROVE LeavesFor(n)
    <2>1. PICK x \in rows : x.message = n
      BY DEF RowOf
    <2>2. OpenersOf(n) = {} /\ Ended(n) /\ n # m
      BY <2>1, RowSays
    <2>3. QED
      BY <1>3, <2>2 DEF LeavesFor
  <1>5. ASSUME NEW n \in Messages \ (S \cup {m}) PROVE Untouched(n)
    <2>1. RowOf(n)' = RowOf(n)
      <3>1. RowOf(n)' \subseteq RowOf(n) /\ (RowOf(n) = {} \/ RowOf(n)' # {})
        BY DEF RowOf
      <3>2. \A x, y \in RowOf(n) : x = y
        BY DEF RowOf, TimesInv, Opening, StoreInv, Unique
      <3>3. QED
        BY <3>1, <3>2
    <2>2. QED
      BY <1>3, <2>1 DEF Untouched
  <1>6. m \notin S
    BY <1>1
  <1>7. Became'[m] = "stored" /\ Charged'[m] = 0 /\ Expiries'[m] = new.expires
    <2>1. RowOf(m)' = {new} /\ OpenersOf(m)' = {}
      BY <1>1, <1>3 DEF RowOf
    <2>2. TheRow({new}) = new
      BY DEF TheRow
    <2>3. QED
      BY <2>1, <2>2 DEF Became, Charged, Expiries, StatusOf, WrongOf, ExpiryOf
  <1>8. \A n \in Messages \ {m} :
          /\ Became'[n] = IF n \in S THEN "gone" ELSE Became[n]
          /\ Charged'[n] = IF n \in S THEN 0 ELSE Charged[n]
          /\ Expiries'[n] = IF n \in S THEN 0 ELSE Expiries[n]
    BY <1>4, <1>5, UntouchedSame, LeftGone
  <1> HIDE DEF S
  <1>9. /\ Became' = [n \in Messages |-> IF n = m THEN "stored"
                                         ELSE IF n \in S THEN "gone" ELSE Became[n]]
        /\ Charged' = [n \in Messages |-> IF n \in S THEN 0 ELSE Charged[n]]
    BY <1>1, <1>6, <1>7, <1>8 DEF Became, Charged
  <1>10. Opened' = Opened
    BY DEF Opened, OpenersOf
  <1>11. \E Z \in SUBSET Promise!Stale :
           /\ Became' = [n \in Messages |-> IF n = m THEN "stored"
                                            ELSE IF n \in Z THEN "gone" ELSE Became[n]]
           /\ Charged' = [n \in Messages |-> IF n \in Z THEN 0 ELSE Charged[n]]
           /\ \A n \in Messages \ {m} : Expiries'[n] = IF n \in Z THEN 0 ELSE Expiries[n]
    <2>1. S \in SUBSET Promise!Stale
      BY <1>2
    <2>2. \A n \in Messages \ {m} : Expiries'[n] = IF n \in S THEN 0 ELSE Expiries[n]
      BY <1>8
    <2>3. QED
      BY <1>9, <2>1, <2>2
  <1>12. Expiries'[m] \in Nat
    BY <1>7
  <1>13. QED
    BY <1>1, <1>10, <1>11, <1>12, PromiseOfCreates

\* One stored message goes and no other is touched.
LEMMA OneGoes ==
  ASSUME TimesInv, NEW x \in rows, rows' = rows \ {x},
         \A m \in Messages : Ended(m)' <=> Ended(m),
         \A m \in Messages \ {x.message} : OpenersOf(m)' = OpenersOf(m)
  PROVE  /\ \A m \in Messages \ {x.message} : Untouched(m)
         /\ RowOf(x.message)' = {} /\ Ended(x.message)'
  <1>1. \A m \in Messages \ {x.message} : RowOf(m)' = RowOf(m)
    BY DEF RowOf
  <1>2. RowOf(x.message)' = {}
    BY RowSays DEF RowOf
  <1>3. Ended(x.message)'
    BY RowSays
  <1>4. QED
    BY <1>1, <1>2, <1>3 DEF Untouched

LEMMA WrongPins ==
  ASSUME TimesInv, NEW r \in Readers, RecordWrongPin(r)
  PROVE  Promise!Discard \/ \E m \in Messages : Promise!WrongPin(m, r)
  <1>1. /\ pc[r] = "record" /\ UNCHANGED <<taken, now, guess, crashes>>
        /\ \A m \in Messages : Ended(m)' <=> Ended(m)
    <2>1. \A m \in Messages : m # r /\ r \in Requests /\ pc \in [Requests -> Steps]
      BY ServiceAssumption DEF Requests, TimesInv, Base, TypeOK
    <2>2. QED
      BY <2>1 DEF RecordWrongPin, Decide, Ended, asks, retrievals
  <1>2. PICK fault \in Faults, row \in seen[r] :
          rows' = IF fault = "before" THEN rows ELSE RecordFailure(rows, target[r], row.generation).rows
    BY DEF RecordWrongPin
  <1> DEFINE hit == Generation(rows, target[r], row.generation)
  <1>3. CASE fault = "before" \/ hit = {}
    <2>1. rows' = rows
      BY <1>2, <1>3 DEF RecordFailure
    <2>2. QED
      BY <1>1, <2>1, Discards
  <1>4. CASE fault # "before" /\ hit # {}
    <2>1. PICK x \in rows : x \in hit
      BY <1>4 DEF Generation, Named
    <2>2. x.generation = row.generation
      BY <2>1 DEF Generation
    <2>3. hit = {x}
      BY <2>1, <2>2 DEF Generation, Named, TimesInv, Opening, StoreInv, Unique
    <2> DEFINE m == x.message
               more == [x EXCEPT !.failed = @ + 1]
    <2>4. m \in Messages /\ Became[m] = "stored" /\ Charged[m] = x.failed /\ x.failed \in Nat
      BY RowSays
    <2>5. guess[r] # PinOf[m]
      <3>1. guess[r] # row.pin
        BY <1>1 DEF TimesInv, Onward, Way
      <3>2. x.pin = row.pin
        BY <1>1, <2>2, NamesWhatItSaw DEF Past
      <3>3. QED
        BY <3>1, <3>2 DEF TimesInv, Opening, StoreInv
    <2>6. more.message = m /\ more.failed = x.failed + 1 /\ more.expires = x.expires
      BY DEF TimesInv, Base, TypeOK, Row
    <2>7. rows' = (rows \ {x}) \cup {y \in {more} : y.failed < MaxFailed}
      BY <1>2, <1>4, <2>3 DEF RecordFailure
    <2>8. Opened' = Opened /\ \A n \in Messages : OpenersOf(n)' = OpenersOf(n)
      BY <1>1 DEF Opened, OpenersOf
    <2>9. CASE x.failed + 1 >= MaxFailed
      <3>1. rows' = rows \ {x}
        <4>1. ~(more.failed < MaxFailed)
          BY <2>4, <2>6, <2>9, StoreAssumption
        <4> HIDE DEF more
        <4>2. QED
          BY <2>7, <4>1
      <3>2. \A n \in Messages \ {m} : Untouched(n)
        BY <1>1, <2>8, <3>1, OneGoes
      <3>3. LeavesFor(m)
        BY <1>1, <2>4, <2>8, <3>1, OneGoes, RowSays DEF LeavesFor
      <3>4. Promise!Gone({m}, "gone")
        <4> HIDE DEF m
        <4>1. QED
          BY <2>4, <3>2, <3>3, Goes
      <3>5. QED
        BY <1>1, <2>4, <2>5, <2>8, <2>9, <3>4, PromiseOfRetrievals
    <2>10. CASE ~(x.failed + 1 >= MaxFailed)
      <3>1. rows' = (rows \ {x}) \cup {more}
        <4>1. more.failed < MaxFailed
          BY <2>4, <2>6, <2>10, StoreAssumption
        <4> HIDE DEF more
        <4>2. QED
          BY <2>7, <4>1
      <3>2. ASSUME NEW n \in Messages \ {m} PROVE Untouched(n)
        <4>1. RowOf(n)' = RowOf(n)
          BY <2>6, <3>1 DEF RowOf
        <4>2. QED
          BY <1>1, <2>8, <4>1 DEF Untouched
      <3>3. Became'[m] = "stored" /\ Charged'[m] = x.failed + 1 /\ Expiries'[m] = Expiries[m]
        <4>1. RowOf(m) = {x} /\ OpenersOf(m) = {} /\ Expiries[m] = x.expires
          BY RowSays
        <4>2. RowOf(m)' = {more}
          <5>1. \A y : y \in rows /\ y.message = m <=> y = x
            BY <4>1 DEF RowOf
          <5> HIDE DEF more, m
          <5>2. QED
            BY <2>6, <3>1, <5>1 DEF RowOf
        <4>3. TheRow({more}) = more
          BY DEF TheRow
        <4> HIDE DEF more
        <4>4. QED
          BY <2>4, <2>6, <2>8, <4>1, <4>2, <4>3 DEF Became, Charged, Expiries, StatusOf, WrongOf, ExpiryOf
      <3> HIDE DEF m
      <3>4. \A n \in Messages :
              /\ Became'[n] = Became[n] /\ Expiries'[n] = Expiries[n]
              /\ Charged'[n] = IF n = m THEN x.failed + 1 ELSE Charged[n]
        BY <2>4, <3>2, <3>3, UntouchedSame
      <3>5. UNCHANGED <<Became, Expiries>> /\ Charged' = [Charged EXCEPT ![m] = @ + 1]
        BY <2>4, <3>4 DEF Became, Charged, Expiries
      <3>6. QED
        BY <1>1, <2>4, <2>5, <2>8, <2>10, <3>5, PromiseOfRetrievals
    <2>11. QED
      BY <2>9, <2>10
  <1>5. QED
    BY <1>3, <1>4

LEMMA Consumptions ==
  ASSUME TimesInv, NEW r \in Readers, ConsumeMessage(r)
  PROVE  Promise!Discard \/ \E m \in Messages : Promise!Open(m, r) \/ Promise!Spoil(m, r)
  <1>1. /\ pc[r] = "consume" /\ taken[r] = {} /\ taken \in [Readers -> SUBSET Messages]
        /\ UNCHANGED <<now, guess, crashes>>
        /\ \A m \in Messages : Ended(m)' <=> Ended(m)
    <2>1. \A m \in Messages : m # r /\ r \in Requests /\ pc \in [Requests -> Steps]
      BY ServiceAssumption DEF Requests, TimesInv, Base, TypeOK
    <2>2. pc[r] = "consume" /\ taken[r] = {}
      BY DEF ConsumeMessage, TimesInv, Opening, TakenInv
    <2>3. QED
      BY <2>1, <2>2 DEF ConsumeMessage, Decide, Ended, asks, TimesInv, Base, TypeOK
  <1>2. PICK fault \in Faults, row \in seen[r] :
          /\ rows' = IF fault = "before" THEN rows ELSE Consume(rows, target[r], row.generation).rows
          /\ taken' = [taken EXCEPT ![r] =
                         IF fault = "none" THEN Consume(rows, target[r], row.generation).blobs ELSE {}]
    BY DEF ConsumeMessage
  <1> DEFINE hit == Generation(rows, target[r], row.generation)
  <1>3. CASE fault = "before" \/ hit = {}
    <2>1. rows' = rows /\ taken' = taken
      BY <1>1, <1>2, <1>3 DEF Consume
    <2>2. QED
      BY <1>1, <2>1, Discards
  <1>4. CASE fault # "before" /\ hit # {}
    <2>1. PICK x \in rows : x \in hit
      BY <1>4 DEF Generation, Named
    <2>2. x.generation = row.generation
      BY <2>1 DEF Generation
    <2>3. hit = {x}
      BY <2>1, <2>2 DEF Generation, Named, TimesInv, Opening, StoreInv, Unique
    <2> DEFINE m == x.message
    <2>4. m \in Messages /\ Became[m] = "stored" /\ OpenersOf(m) = {}
      BY RowSays
    <2>5. guess[r] = PinOf[m]
      <3>1. guess[r] = row.pin
        BY <1>1 DEF TimesInv, Opening, SeenInv
      <3>2. x.pin = row.pin
        BY <1>1, <2>2, NamesWhatItSaw DEF Past
      <3>3. QED
        BY <3>1, <3>2 DEF TimesInv, Opening, StoreInv
    <2>6. rows' = rows \ {x} /\ taken' = [taken EXCEPT ![r] = IF fault = "none" THEN {m} ELSE {}]
      BY <1>2, <1>4, <2>3 DEF Consume
    <2>7. \A n \in Messages \ {m} : OpenersOf(n)' = OpenersOf(n)
      BY <1>1, <2>6 DEF OpenersOf
    <2>8. /\ \A n \in Messages \ {m} : Untouched(n)
          /\ RowOf(m)' = {} /\ Ended(m)'
      BY <1>1, <2>6, <2>7, OneGoes
    <2> HIDE DEF m
    <2>9. CASE fault = "none"
      <3>1. OpenersOf(m)' = {r}
        BY <1>1, <2>4, <2>6, <2>9 DEF OpenersOf
      <3>2. Opened' = [Opened EXCEPT ![m] = {r}]
        BY <2>4, <2>7, <3>1 DEF Opened
      <3>3. Became'[m] = "opened" /\ Charged'[m] = 0 /\ Expiries'[m] = 0
        BY <2>4, <2>8, <3>1 DEF Became, Charged, Expiries, StatusOf, WrongOf, ExpiryOf
      <3>4. \A n \in Messages :
              /\ Became'[n] = IF n \in {m} THEN "opened" ELSE Became[n]
              /\ Charged'[n] = IF n \in {m} THEN 0 ELSE Charged[n]
              /\ Expiries'[n] = IF n \in {m} THEN 0 ELSE Expiries[n]
        BY <2>8, <3>3, UntouchedSame
      <3>5. /\ Became' = [n \in Messages |-> IF n \in {m} THEN "opened" ELSE Became[n]]
            /\ Charged' = [n \in Messages |-> IF n \in {m} THEN 0 ELSE Charged[n]]
            /\ Expiries' = [n \in Messages |-> IF n \in {m} THEN 0 ELSE Expiries[n]]
        BY <3>4 DEF Became, Charged, Expiries
      <3>6. Promise!Gone({m}, "opened")
        BY <3>5 DEF Promise!Gone, Became, Charged, Expiries
      <3>7. QED
        BY <1>1, <2>4, <2>5, <3>2, <3>6, PromiseOfRetrievals
    <2>10. CASE fault # "none"
      <3>1. taken' = taken
        BY <1>1, <2>6, <2>10
      <3>2. Opened' = Opened /\ OpenersOf(m)' = {}
        BY <2>4, <3>1 DEF Opened, OpenersOf
      <3>3. LeavesFor(m)
        BY <2>8, <3>2 DEF LeavesFor
      <3>4. Promise!Gone({m}, "gone")
        BY <2>4, <2>8, <3>3, Goes
      <3>5. Faults # {"none"}
        BY <2>10
      <3>6. QED
        BY <1>1, <2>4, <2>5, <3>2, <3>4, <3>5, PromiseOfRetrievals
    <2>11. QED
      BY <2>9, <2>10
  <1>5. QED
    BY <1>3, <1>4

LEMMA Inserts ==
  ASSUME TimesInv, NEW m \in Messages, InsertMessage(m)
  PROVE  Promise!Post(m) \/ Promise!Refuse(m) \/ Promise!Discard
  <1>1. /\ pc[m] = "insert" /\ ~Ended(m) /\ UNCHANGED <<taken, now, guess, crashes>>
        /\ \A n \in Messages \ {m} : Ended(n)' <=> Ended(n)
    <2>1. m \in Requests /\ pc \in [Requests -> Steps]
      BY DEF Requests, TimesInv, Base, TypeOK
    <2>2. pc[m] = "insert" /\ UNCHANGED <<taken, now, guess, crashes>>
      BY DEF InsertMessage, asks, retrievals
    <2>3. Decide(m, "storage") \/ Decide(m, "created") \/ Decide(m, "busy") \/ Goto(m, "insert")
      BY DEF InsertMessage
    <2>4. \A n \in Messages \ {m} : pc'[n] = pc[n]
      BY <2>1, <2>3 DEF Decide, Goto, Requests
    <2>5. QED
      BY <2>2, <2>4 DEF Ended
  <1>2. PICK id \in Ids, fault \in Faults :
          /\ rows' = IF fault # "before" THEN Insert(rows, NewRow(m, id), stamp[m]).rows ELSE rows
          /\ fault # "none" \/ Insert(rows, NewRow(m, id), stamp[m]).result = "stored"
               => pc' = [pc EXCEPT ![m] = "finish"]
    <2>1. PICK id \in Ids, fault \in Faults :
            LET call == Insert(rows, NewRow(m, id), stamp[m])
            IN  /\ rows' = IF fault # "before" THEN call.rows ELSE rows
                /\ \/ fault # "none" /\ Decide(m, "storage")
                   \/ fault = "none" /\ call.result = "stored" /\ Decide(m, "created")
                   \/ fault = "none" /\ call.result # "stored"
      BY DEF InsertMessage
    <2>2. QED
      BY <2>1 DEF Decide
  <1> DEFINE new == NewRow(m, id)
             call == Insert(rows, new, stamp[m])
  <1>3. /\ new.message = m /\ new.failed = 0 /\ new.expires \in Nat
        /\ stamp[m] \in Nat /\ stamp[m] <= now /\ now \in Nat
        /\ \A x \in rows : x.expires \in Nat
    <2>1. stamp[m] \in Nat /\ stamp[m] <= now /\ now \in Nat /\ TtlOf[m] \in Nat
      BY ServiceAssumption DEF TimesInv, Base, TypeOK, Readings
    <2>2. new.expires = stamp[m] + TtlOf[m]
      BY DEF NewRow
    <2>3. new.message = m /\ new.failed = 0 /\ new.expires \in Nat
      BY <2>1, <2>2 DEF NewRow
    <2>4. \A x \in rows : x.expires \in Nat
      BY DEF TimesInv, Base, TypeOK, Row
    <2>5. QED
      BY <2>1, <2>3, <2>4
  <1> DEFINE room == MakeRoom(rows, new, stamp[m])
  <1>4. room \subseteq rows /\ \A x \in rows : x \in room \/ Expired(x, now)
    BY <1>3 DEF MakeRoom, Unexpired, Expired
  <1>5. \/ call.result = "stored" /\ call.rows = room \cup {new}
        \/ call.result # "stored" /\ call.rows \in {rows, room}
    BY DEF Insert
  <1>6. CASE fault # "before" /\ call.result = "stored"
    <2>1. rows' = room \cup {new}
      BY <1>2, <1>5, <1>6
    <2>2. Ended(m)'
      <3>1. m \in Requests /\ pc \in [Requests -> Steps]
        BY DEF Requests, TimesInv, Base, TypeOK
      <3>2. QED
        BY <1>2, <1>6, <3>1 DEF Ended
    <2> HIDE DEF room, new
    <2>3. QED
      BY <1>1, <1>3, <1>4, <2>1, <2>2, Posts
  <1>7. CASE ~(fault # "before" /\ call.result = "stored")
    <2>1. rows' = rows \/ rows' = room
      BY <1>2, <1>5, <1>7
    <2> HIDE DEF room
    <2>2. rows' \subseteq rows /\ \A x \in rows : x \in rows' \/ Expired(x, now)
      BY <1>4, <2>1
    <2>3. QED
      BY <1>1, <2>2, Refuses
  <1>8. QED
    BY <1>6, <1>7

LEMMA Removals ==
  ASSUME TimesInv, NEW r \in Readers, RemoveExpired(r)
  PROVE  Promise!Discard
  <1>1. /\ pc[r] = "remove" /\ UNCHANGED <<taken, now, guess, crashes>>
        /\ \A m \in Messages : Ended(m)' <=> Ended(m)
    <2>1. \A m \in Messages : m # r /\ r \in Requests /\ pc \in [Requests -> Steps]
      BY ServiceAssumption DEF Requests, TimesInv, Base, TypeOK
    <2>2. QED
      BY <2>1 DEF RemoveExpired, Decide, Ended, asks, retrievals
  <1>2. PICK fault \in Faults, row \in seen[r] :
          rows' = IF fault = "before" THEN rows ELSE Remove(rows, target[r], row.generation)
    BY DEF RemoveExpired
  <1>3. rows' \subseteq rows
    BY <1>2 DEF Remove
  <1>4. ASSUME NEW x \in rows, x \notin rows' PROVE Expired(x, now)
    <2>1. x.generation = row.generation
      BY <1>2, <1>4 DEF Remove, Generation
    <2>2. x.expires = row.expires /\ Expired(row, now)
      BY <1>1, <2>1, NamesWhatItSaw DEF Past, TimesInv, Onward, Way
    <2>3. QED
      BY <2>2 DEF Expired
  <1>5. QED
    BY <1>1, <1>3, <1>4, Discards

\* A restart ends the requests under way, and with a store in memory every message.
LEMMA Restarts ==
  ASSUME TimesInv, Crash
  PROVE  Promise!Restart
  <1> DEFINE S == {m \in Messages : ~Ended(m) /\ pc[m] # "idle"}
             Lost == IF ~Durable THEN Promise!Stored ELSE {}
  <1>1. /\ UNCHANGED <<taken, now, guess>> /\ crashes' = crashes + 1
        /\ rows' = (IF Durable THEN rows ELSE {})
        /\ \A m \in Messages : pc'[m] = IF pc[m] \in {"idle", "done"} THEN pc[m] ELSE "done"
    BY DEF Crash, asks, retrievals, Active, Requests
  <1>2. \A m \in Messages : OpenersOf(m)' = OpenersOf(m)
    BY <1>1 DEF OpenersOf
  <1>3. S \subseteq Promise!Pending
    BY NotYet, PromiseSets
  <1>4. ASSUME NEW m \in Lost PROVE ~Durable /\ m \in Messages /\ OpenersOf(m) = {} /\ Ended(m)
    <2>1. ~Durable /\ m \in Messages /\ Became[m] = "stored"
      BY PromiseSets
    <2>2. OpenersOf(m) = {}
      BY <2>1 DEF Became, StatusOf
    <2>3. RowOf(m) # {}
      BY <2>1 DEF Became, StatusOf
    <2>4. PICK x \in rows : x.message = m
      BY <2>3 DEF RowOf
    <2>5. QED
      BY <2>1, <2>2, <2>4, RowSays
  <1>5. ASSUME NEW m \in S \cup Lost PROVE m \in Messages /\ LeavesFor(m)
    <2>1. CASE m \in S
      <3>1. RowOf(m) = {} /\ OpenersOf(m) = {}
        BY <2>1, NotYet
      <3>2. RowOf(m)' = {} /\ Ended(m)'
        BY <1>1, <2>1, <3>1 DEF RowOf, Ended
      <3>3. QED
        BY <1>2, <2>1, <3>1, <3>2 DEF LeavesFor
    <2>2. CASE m \in Lost
      <3>1. m \in Messages /\ RowOf(m)' = {} /\ Ended(m)'
        BY <1>1, <1>4, <2>2 DEF RowOf, Ended
      <3>2. QED
        BY <1>2, <1>4, <2>2, <3>1 DEF LeavesFor
    <2>3. QED
      BY <2>1, <2>2
  <1>6. ASSUME NEW m \in Messages \ (S \cup Lost) PROVE Untouched(m)
    <2>1. Ended(m)' <=> Ended(m)
      BY <1>1 DEF Ended
    <2>2. RowOf(m)' = RowOf(m)
      <3>1. CASE Durable
        BY <1>1, <3>1 DEF RowOf
      <3>2. CASE ~Durable
        <4>1. Became[m] # "stored"
          BY <3>2, PromiseSets
        <4>2. RowOf(m) = {}
          BY <4>1, RowSays DEF RowOf
        <4>3. QED
          BY <1>1, <3>2, <4>2 DEF RowOf
      <3>3. QED
        BY <3>1, <3>2
    <2>3. QED
      BY <1>2, <2>1, <2>2 DEF Untouched
  <1>7. Opened' = Opened
    BY <1>2 DEF Opened
  <1> HIDE DEF S
  <1>8. Promise!Gone(S \cup Lost, "gone")
    <2> HIDE DEF Lost
    <2>1. S \cup Lost \in SUBSET Messages
      BY <1>5
    <2>2. QED
      BY <1>5, <1>6, <2>1, Goes
  <1>9. QED
    BY <1>1, <1>3, <1>7, <1>8, PromiseOfTime

LEMMA NextPromise ==
  ASSUME TimesInv, [Next]_vars
  PROVE  [Promise!Next]_promised
  <1>t. /\ ControlOK /\ PlaceInv /\ Messages \subseteq Requests /\ Readers \subseteq Requests
        /\ \A m \in Messages, r \in Readers : m # r
    BY Halves, ServiceAssumption DEF TimesInv, Base, Requests
  <1>n. /\ Promise!Tick \/ Promise!Discard \/ Promise!Restart => Promise!Next
        /\ \A m \in Messages : Promise!Post(m) \/ Promise!Refuse(m) => Promise!Next
        /\ \A m \in Messages, r \in Readers :
             Promise!WrongPin(m, r) \/ Promise!Open(m, r) \/ Promise!Spoil(m, r) => Promise!Next
    BY DEF Promise!Next
  <1>1. ASSUME NEW m \in Messages, Upload(m) \/ ReadBody(m) \/ HashedVerifier(m) \/ FinishCreate(m)
        PROVE  Promise!Next
    <2>1. UNCHANGED <<rows, taken, now, guess, crashes>>
      BY <1>1 DEF Upload, ReadBody, HashedVerifier, FinishCreate, store, asks, retrievals
    <2>2. /\ Ended(m) => Ended(m)'
          /\ \A n \in Messages \ {m} : Ended(n)' <=> Ended(n)
      BY <1>1, <1>t DEF ControlOK, Ended, Upload, ReadBody, Validate, HashedVerifier, FinishCreate,
                        Goto, Decide, End
    <2>3. QED
      BY <1>n, <2>1, <2>2, Refuses
  <1>2. ASSUME NEW m \in Messages, InsertMessage(m) PROVE Promise!Next
    BY <1>2, <1>n, Inserts
  <1>3. ASSUME NEW r \in Readers,
               \/ Arrive(r) \/ AskLock(r) \/ ReadMeta(r) \/ CheckExpiry(r) \/ Verified(r)
               \/ FinishRetrieve(r)
        PROVE  Promise!Next
    <2>1. UNCHANGED <<rows, taken, now, guess, crashes>>
      BY <1>3 DEF Arrive, AskLock, ReadMeta, CheckExpiry, Verified, FinishRetrieve, store, asks,
                  retrievals
    <2>2. \A n \in Messages : Ended(n)' <=> Ended(n)
      BY <1>3, <1>t DEF ControlOK, Ended, Arrive, AskLock, ReadMeta, CheckExpiry, Verified,
                        FinishRetrieve, Goto, Decide, End
    <2>3. QED
      BY <1>n, <2>1, <2>2, Discards
  <1>4. ASSUME NEW r \in Readers, RemoveExpired(r) \/ RecordWrongPin(r) \/ ConsumeMessage(r)
        PROVE  Promise!Next
    BY <1>4, <1>n, Removals, WrongPins, Consumptions
  <1>5. ASSUME NEW q \in Requests, PoolBusy(q) \/ StartHash(q) \/ Disconnect(q) PROVE Promise!Next
    <2>1. UNCHANGED <<rows, taken, now, guess, crashes>>
      BY <1>5 DEF PoolBusy, StartHash, Disconnect, store, asks, retrievals
    <2>2. /\ \A n \in Messages \ {q} : Ended(n)' <=> Ended(n)
          /\ q \in Messages /\ Ended(q) => Ended(q)'
      BY <1>5, <1>t DEF ControlOK, PlaceInv, Ended, PoolBusy, StartHash, Disconnect, Decide,
                        Pool!TurnAway, Pool!Move
    <2>3. CASE q \in Messages
      BY <1>n, <2>1, <2>2, <2>3, Refuses
    <2>4. CASE q \notin Messages
      BY <1>n, <2>1, <2>2, <2>4, Discards
    <2>5. QED
      BY <2>3, <2>4
  <1>6. ASSUME NEW t \in 0..now, Sweep(t) PROVE Promise!Next
    <2>1. /\ UNCHANGED <<taken, now, guess, crashes>> /\ rows' \subseteq rows
          /\ \A x \in rows : x \in rows' \/ Expired(x, t)
          /\ \A n \in Messages : Ended(n)' <=> Ended(n)
      BY <1>6 DEF Sweep, Unexpired, Ended, asks, retrievals
    <2>2. \A x \in rows : Expired(x, t) => Expired(x, now)
      BY DEF Expired, TimesInv, Base, TypeOK, Row
    <2>3. QED
      BY <1>n, <2>1, <2>2, Discards
  <1>7. CASE Tick
    <2>1. \A m \in Messages : Untouched(m)
      BY <1>7 DEF Tick, Untouched, RowOf, OpenersOf, Ended, store, retrievals
    <2>2. now' = now + 1 /\ UNCHANGED <<taken, guess, crashes>>
      BY <1>7 DEF Tick, asks, retrievals
    <2>3. Opened' = Opened
      BY <2>2 DEF Opened, OpenersOf
    <2>4. QED
      BY <1>n, <2>1, <2>2, <2>3, NothingGoes, PromiseOfTime
  <1>8. CASE Crash
    BY <1>8, <1>n, Restarts
  <1>9. CASE UNCHANGED vars
    <2>1. UNCHANGED <<now, guess, crashes, taken>> /\ \A m \in Messages : Untouched(m)
      BY <1>9 DEF vars, Untouched, RowOf, OpenersOf, Ended, store, asks, retrievals
    <2>2. Opened' = Opened
      BY <2>1 DEF Opened, OpenersOf
    <2>3. QED
      BY <2>1, <2>2, NothingGoes DEF promised
  <1>10. QED
    BY <1>1, <1>2, <1>3, <1>4, <1>5, <1>6, <1>7, <1>8, <1>9 DEF Next, CreateStep, CreateTask, RetrieveStep

\* The service, with its locks, pools, generations, sweeper, failures and restarts, does nothing
\* to a message that OneTimeMessages does not promise.
THEOREM PromiseKept == Spec => KeepsPromise
  <1>1. Init => Promise!Init
    BY DEF Init, Promise!Init, StatusOf, WrongOf, ExpiryOf, RowOf, OpenersOf, Requests
  <1>2. TimesInv /\ [Next]_vars => [Promise!Next]_promised
    BY NextPromise
  <1>3. QED
    BY <1>1, <1>2, TimesHold, PTL
    DEF Spec, KeepsPromise, Promise!Spec, Promise!mvars, promised, Became, Charged, Expiries, Opened
=============================================================================
