--------------------------- MODULE StoreContract ---------------------------
(***************************************************************************)
(* The `Store` trait as a state machine: any caller, any call, in any      *)
(* order, with any time (a caller may hold a clock value it read long      *)
(* ago).  What an implementation must look like from outside, answers      *)
(* included.                                                               *)
(***************************************************************************)
EXTENDS MessageStore

CONSTANTS PinOf, Times, Ttls

VARIABLES rows, generations,
          last    \* the last call, with its answer

Init == rows = {} /\ generations = 0 /\ last = <<"none">>

NewRow(m, id, t, ttl) ==
  [message |-> m, id |-> id, generation |-> generations + 1, pin |-> PinOf[m],
   expires |-> t + ttl, failed |-> 0]

DoInsert(m, id, t, ttl) ==
  LET call == Insert(rows, NewRow(m, id, t, ttl), t)
  IN  /\ rows' = call.rows
      /\ generations' = IF call.result = "stored" THEN generations + 1 ELSE generations
      /\ last' = <<"insert", id, call.result>>

\* The calls that name a generation.
DoCall(id, g) ==
  /\ \/ LET call == RecordFailure(rows, id, g)
        IN  rows' = call.rows /\ last' = <<"record_failure", id, g, call.result>>
     \/ LET call == Consume(rows, id, g)
        IN  rows' = call.rows /\ last' = <<"consume", id, g, call.blobs>>
     \/ /\ rows' = Remove(rows, id, g)
        /\ last' = <<"remove", id, g, rows' # rows>>
  /\ UNCHANGED generations

DoSweep(t) ==
  /\ rows' = Unexpired(rows, t)
  /\ last' = <<"sweep", t, Cardinality(rows \ rows')>>
  /\ UNCHANGED generations

Next ==
  \/ \E m \in Messages, id \in Ids, t \in Times, ttl \in Ttls : DoInsert(m, id, t, ttl)
  \/ \E id \in Ids, g \in 1..generations : DoCall(id, g)
  \/ \E t \in Times : DoSweep(t)

Spec == Init /\ [][Next]_<<rows, generations, last>>
=============================================================================
