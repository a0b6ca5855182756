---------------------------- MODULE BoundedPool ----------------------------
(***************************************************************************)
(* What HashPool::run promises its callers (service.rs): at most           *)
(* Concurrency pieces of work run, at most MaxWaiting callers wait, and a  *)
(* caller is turned away only when MaxWaiting others are on their way in   *)
(* or out.  HashPool implements it.                                        *)
(***************************************************************************)
EXTENDS Integers, FiniteSets

CONSTANTS Tasks, Concurrency, MaxWaiting

VARIABLE place   \* where each caller is: out, waiting, working, or being turned away

Places == {"out", "waiting", "working", "refused"}

At(S) == {t \in Tasks : place[t] \in S}

Move(t, from, to) == place[t] = from /\ place' = [place EXCEPT ![t] = to]

Init == place = [t \in Tasks |-> "out"]

Enter(t) ==
  IF Cardinality(At({"waiting", "refused"})) < MaxWaiting
  THEN Move(t, "out", "waiting")
  ELSE Move(t, "out", "refused")

TurnAway(t) == Move(t, "refused", "out")

Start(t) == Cardinality(At({"working"})) < Concurrency /\ Move(t, "waiting", "working")

Finish(t) == Move(t, "working", "out")

Leave(t) == Move(t, "waiting", "out")

Next == \E t \in Tasks : Enter(t) \/ TurnAway(t) \/ Start(t) \/ Finish(t) \/ Leave(t)

Spec == Init /\ [][Next]_place
=============================================================================
