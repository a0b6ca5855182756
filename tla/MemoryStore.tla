---------------------------- MODULE MemoryStore ----------------------------
(***************************************************************************)
(* MemoryStore (store.rs): a map from ids to entries and, beside it, a     *)
(* running total of the bytes in it, both behind one mutex that every      *)
(* method takes for its whole body.  The caps are enforced from the total, *)
(* never by adding the entries up.  Bound: MaxGenerations inserts.         *)
(***************************************************************************)
EXTENDS Integers, FiniteSets, FiniteSetsExt

CONSTANTS Messages, Ids, Pins, PinOf, SizeOf, MaxMessages, MaxBytes, MaxFailed,
          Times, Ttls,
          MaxGenerations

ASSUME MemoryAssumption ==
  /\ PinOf \in [Messages -> Pins] /\ SizeOf \in [Messages -> Nat \ {0}]
  /\ IsFiniteSet(Ids) /\ Times \subseteq Nat /\ Ttls \subseteq Nat \ {0}
  /\ MaxMessages \in Nat /\ MaxBytes \in Nat /\ MaxFailed \in Nat \ {0}

VARIABLES messages,        \* the HashMap: a function from the ids in use to their entries
          bytes,           \* Inner.bytes
          next_generation,
          last             \* history: the last call, with its answer

storeVars == <<messages, bytes, next_generation, last>>

Init ==
  /\ messages = <<>>
  /\ bytes = 0
  /\ next_generation = 0
  /\ last = <<"none">>

Stored == DOMAIN messages
Without(map, ids) == [i \in DOMAIN map \ ids |-> map[i]]
Length(entry) == SizeOf[entry.blob]
Freed(map, ids) == MapThenSumSet(LAMBDA i : Length(map[i]), DOMAIN map \cap ids)

\* Forgets the total when entries leave.
TakeLeavesBytes(inner, ids) == [map |-> Without(inner.map, ids), bytes |-> inner.bytes]

\* take: entries leave the map with their bytes.
Take(inner, ids) ==
  [map |-> Without(inner.map, ids), bytes |-> inner.bytes - Freed(inner.map, ids)]

Inner == [map |-> messages, bytes |-> bytes]

IsExpired(entry, t) == entry.expires_at <= t

ExpiredIds(map, t) == {i \in DOMAIN map : IsExpired(map[i], t)}

Admits(inner, len) ==
  /\ Cardinality(DOMAIN inner.map) < MaxMessages
  /\ inner.bytes + len <= MaxBytes

Becomes(inner) == messages' = inner.map /\ bytes' = inner.bytes

\* An expired entry of the same id is dropped first; expired entries are swept when the
\* message would not fit, and the sweep stays when it does not fit even so.
Insert(id, m, t, ttl) ==
  LET first == Take(Inner, {id} \cap ExpiredIds(messages, t))
      room == IF Admits(first, SizeOf[m]) THEN first ELSE Take(first, ExpiredIds(first.map, t))
      entry == [blob |-> m, generation |-> next_generation + 1, pin |-> PinOf[m],
                expires_at |-> t + ttl, failed_attempts |-> 0]
      Answers(result) == last' = <<"insert", id, result>>
  IN  \/ /\ id \in DOMAIN first.map
         /\ Becomes(first) /\ Answers("idTaken")
         /\ UNCHANGED next_generation
      \/ /\ id \notin DOMAIN first.map /\ ~Admits(room, SizeOf[m])
         /\ Becomes(room) /\ Answers("full")
         /\ UNCHANGED next_generation
      \/ /\ id \notin DOMAIN first.map /\ Admits(room, SizeOf[m])
         /\ bytes' = room.bytes + SizeOf[m]
         /\ next_generation' = next_generation + 1
         /\ messages' = [i \in DOMAIN room.map \cup {id} |->
                           IF i = id THEN entry ELSE room.map[i]]
         /\ Answers("stored")

Is(id, g) == id \in Stored /\ messages[id].generation = g

\* The ids that a call with this id and generation may touch: one or none.
Meant(id, g) == {i \in {id} : Is(i, g)}

\* Takes whatever entry has the id now.
TakeGenerationById(id, g) ==
  LET taken == {id} \cap Stored
  IN  /\ Becomes(Take(Inner, taken))
      /\ \/ last' = <<"consume", id, g, {messages[i].blob : i \in taken}>>
         \/ last' = <<"remove", id, g, taken # {}>>
      /\ UNCHANGED next_generation

\* consume and remove: take_generation, with and without the blob.
TakeGeneration(id, g) ==
  LET taken == Meant(id, g)
  IN  /\ Becomes(Take(Inner, taken))
      /\ \/ last' = <<"consume", id, g, {messages[i].blob : i \in taken}>>
         \/ last' = <<"remove", id, g, taken # {}>>
      /\ UNCHANGED next_generation

\* Burns one wrong PIN too late.
RecordFailureLate(id, g) ==
  LET hit == Meant(id, g)
      counted == [i \in Stored |-> IF i \in hit THEN [messages[i] EXCEPT !.failed_attempts = @ + 1]
                                   ELSE messages[i]]
      burned == {i \in hit : counted[i].failed_attempts > MaxFailed}
  IN  /\ Becomes(Take([map |-> counted, bytes |-> bytes], burned))
      /\ last' = <<"record_failure", id, g, IF hit = {} THEN "gone" ELSE "counted">>
      /\ UNCHANGED next_generation

RecordFailure(id, g) ==
  LET hit == Meant(id, g)
      counted == [i \in Stored |-> IF i \in hit THEN [messages[i] EXCEPT !.failed_attempts = @ + 1]
                                   ELSE messages[i]]
      burned == {i \in hit : counted[i].failed_attempts >= MaxFailed}
  IN  /\ Becomes(Take([map |-> counted, bytes |-> bytes], burned))
      /\ last' = <<"record_failure", id, g, IF hit = {} THEN "gone" ELSE "counted">>
      /\ UNCHANGED next_generation

Sweep(t) ==
  /\ Becomes(Take(Inner, ExpiredIds(messages, t)))
  /\ last' = <<"sweep", t, Cardinality(ExpiredIds(messages, t))>>
  /\ UNCHANGED next_generation

Next ==
  \/ /\ next_generation < MaxGenerations
     /\ \E id \in Ids, m \in Messages, t \in Times, ttl \in Ttls : Insert(id, m, t, ttl)
  \/ \E id \in Ids, g \in 1..next_generation : TakeGeneration(id, g) \/ RecordFailure(id, g)
  \/ \E t \in Times : Sweep(t)

Spec == Init /\ [][Next]_storeVars

-----------------------------------------------------------------------------
\* The entries' types; no entry that has used up its wrong PINs is still there.
MemoryTypeOK ==
  /\ Stored \subseteq Ids
  /\ \A i \in Stored :
       /\ messages[i].blob \in Messages /\ messages[i].pin \in Pins
       /\ messages[i].generation \in 1..next_generation
       /\ messages[i].expires_at \in Nat
       /\ messages[i].failed_attempts \in 0..(MaxFailed - 1)
  /\ bytes \in Nat /\ next_generation \in Nat

\* The running total is the bytes really stored after any sequence of calls: it never
\* drifts, the usize subtraction in take never wraps, and neither cap (store.max_messages,
\* store.max_bytes) is ever exceeded.
BytesExact ==
  /\ bytes = Freed(messages, Stored)
  /\ bytes <= MaxBytes /\ Cardinality(Stored) <= MaxMessages

Contract == INSTANCE StoreContract WITH
  generations <- next_generation,
  rows <- {[message |-> messages[i].blob, id |-> i, generation |-> messages[i].generation,
            pin |-> messages[i].pin, expires |-> messages[i].expires_at,
            failed |-> messages[i].failed_attempts] : i \in Stored}

\* MemoryStore is the store that MessageService runs on.
KeepsContract == Contract!Spec
=============================================================================
