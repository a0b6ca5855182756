---------------------------- MODULE MessageStore ----------------------------
(***************************************************************************)
(* The contract of the `Store` trait (store.rs), which MemoryStore and     *)
(* SqliteStore both implement: every method is one atomic step on the set  *)
(* of stored rows.  An operator takes the rows and gives the rows that the *)
(* call leaves, with its result where the caller looks at it.              *)
(***************************************************************************)
EXTENDS Integers, FiniteSets, FiniteSetsExt

CONSTANTS Messages,     \* the create requests, each with one blob to store
          Ids,          \* message ids
          Pins,
          SizeOf,       \* SizeOf[m]: the bytes of m's blob
          MaxMessages,  \* store.max_messages
          MaxBytes,     \* store.max_bytes
          MaxFailed     \* pin.max_failed_attempts

ASSUME StoreAssumption ==
  /\ IsFiniteSet(Messages)
  /\ SizeOf \in [Messages -> Nat \ {0}]
  /\ MaxMessages \in Nat /\ MaxBytes \in Nat
  /\ MaxFailed \in Nat \ {0}

\* A stored row: its blob is named by the request that posted it, and its salted
\* verifier by the one PIN it accepts.
Row == [message : Messages, id : Ids, generation : Nat, pin : Pins,
        expires : Nat, failed : Nat]

\* The boundary on the wrong side.
ExpiredAfter(row, t) == row.expires < t

Expired(row, t) == row.expires <= t

\* Everything a sweep at t leaves.
Unexpired(rows, t) == {x \in rows : ~Expired(x, t)}

Named(rows, id) == {x \in rows : x.id = id}

Generation(rows, id, g) == {x \in Named(rows, id) : x.generation = g}

Bytes(rows) == MapThenSumSet(LAMBDA x : SizeOf[x.message], rows)

Admits(rows, len) ==
  /\ Cardinality(rows) < MaxMessages
  /\ Bytes(rows) + len <= MaxBytes

\* The rows an insert at t competes with: an expired row gives up its id at once, and
\* every expired row goes when a cap would otherwise refuse the message.
MakeRoom(rows, new, t) ==
  LET freed == {x \in rows : x.id = new.id => ~Expired(x, t)}
  IN  IF Admits(freed, SizeOf[new.message]) THEN freed ELSE Unexpired(rows, t)

\* Never looks whether the id is taken.
InsertUnchecked(rows, new, t) ==
  [result |-> "stored", rows |-> MakeRoom(rows, new, t) \cup {new}]

Insert(rows, new, t) ==
  LET room == MakeRoom(rows, new, t)
  IN  IF Named(Unexpired(rows, t), new.id) # {}
      THEN [result |-> "idTaken", rows |-> rows]
      ELSE IF Admits(room, SizeOf[new.message])
      THEN [result |-> "stored", rows |-> room \cup {new}]
      ELSE [result |-> "full", rows |-> room]

\* Charges whatever row has the id now.
RecordFailureById(rows, id, g) ==
  LET hit == Named(rows, id)
      counted == {[x EXCEPT !.failed = @ + 1] : x \in hit}
  IN  [result |-> IF hit = {} THEN "gone" ELSE "counted",
       rows |-> (rows \ hit) \cup {x \in counted : x.failed < MaxFailed}]

\* A wrong PIN counts against one generation; the last one allowed burns the row.
RecordFailure(rows, id, g) ==
  LET hit == Generation(rows, id, g)
      counted == {[x EXCEPT !.failed = @ + 1] : x \in hit}
  IN  [result |-> IF hit = {} THEN "gone" ELSE "counted",
       rows |-> (rows \ hit) \cup {x \in counted : x.failed < MaxFailed}]

\* Takes whatever row has the id now.
ConsumeById(rows, id, g) ==
  [blobs |-> {x.message : x \in Named(rows, id)}, rows |-> rows \ Named(rows, id)]

\* Reads the blob and leaves the row.
ConsumeLeavesRow(rows, id, g) ==
  [blobs |-> {x.message : x \in Generation(rows, id, g)}, rows |-> rows]

\* Removes one generation and hands its blob out.
Consume(rows, id, g) ==
  [blobs |-> {x.message : x \in Generation(rows, id, g)},
   rows |-> rows \ Generation(rows, id, g)]

\* Removes whatever row has the id now.
RemoveById(rows, id, g) == rows \ Named(rows, id)

\* Removes one generation.
Remove(rows, id, g) == rows \ Generation(rows, id, g)
=============================================================================
