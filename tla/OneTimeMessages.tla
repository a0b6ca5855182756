--------------------------- MODULE OneTimeMessages ---------------------------
(***************************************************************************)
(* What the service promises of each message, whatever requests race for   *)
(* it (APP.md, invariants 5 to 9): it is posted at most once, opened at    *)
(* most once and by a reader who gave its PIN, destroyed by MaxFailed      *)
(* wrong PINs, and otherwise discarded only after its expiry, or in a      *)
(* restart.  There is no store, lock, queue or generation here.            *)
(***************************************************************************)
EXTENDS Integers, FiniteSets

CONSTANTS Messages, Readers, Pins, PinOf, MaxFailed,
          Forgets,    \* a restart loses the messages
          Fallible    \* storage may fail

VARIABLES clock,
          guess,    \* the PIN each reader gives
          status,   \* what has become of each message
          wrong,    \* wrong PINs counted against a stored message
          expires,  \* its expiry, 0 when it is not stored
          openers,  \* the readers who got its bytes
          restarts

mvars == <<clock, guess, status, wrong, expires, openers, restarts>>

Init ==
  /\ clock = 0
  /\ guess \in [Readers -> Pins]
  /\ status = [m \in Messages |-> "pending"]
  /\ wrong = [m \in Messages |-> 0]
  /\ expires = [m \in Messages |-> 0]
  /\ openers = [m \in Messages |-> {}]
  /\ restarts = 0

Stored == {m \in Messages : status[m] = "stored"}
Pending == {m \in Messages : status[m] = "pending"}
Stale == {m \in Stored : expires[m] <= clock}

\* The messages of S leave the system; what was kept about them is forgotten.
Gone(S, becomes) ==
  /\ status' = [m \in Messages |-> IF m \in S THEN becomes ELSE status[m]]
  /\ wrong' = [m \in Messages |-> IF m \in S THEN 0 ELSE wrong[m]]
  /\ expires' = [m \in Messages |-> IF m \in S THEN 0 ELSE expires[m]]

Tick ==
  /\ clock' = clock + 1
  /\ UNCHANGED <<guess, status, wrong, expires, openers, restarts>>

Discard ==
  /\ \E S \in SUBSET Stale : Gone(S, "gone")
  /\ UNCHANGED <<clock, guess, openers, restarts>>

Post(m) ==
  /\ status[m] = "pending"
  /\ expires'[m] \in Nat
  /\ \E S \in SUBSET Stale :
       /\ status' = [n \in Messages |-> IF n = m THEN "stored"
                                        ELSE IF n \in S THEN "gone" ELSE status[n]]
       /\ wrong' = [n \in Messages |-> IF n \in S THEN 0 ELSE wrong[n]]
       /\ \A n \in Messages \ {m} : expires'[n] = IF n \in S THEN 0 ELSE expires[n]
  /\ UNCHANGED <<clock, guess, openers, restarts>>

Refuse(m) ==
  /\ status[m] = "pending"
  /\ \E S \in SUBSET Stale : Gone(S \cup {m}, "gone")
  /\ UNCHANGED <<clock, guess, openers, restarts>>

WrongPin(m, r) ==
  /\ status[m] = "stored" /\ guess[r] # PinOf[m]
  /\ IF wrong[m] + 1 >= MaxFailed
     THEN Gone({m}, "gone")
     ELSE /\ wrong' = [wrong EXCEPT ![m] = @ + 1]
          /\ UNCHANGED <<status, expires>>
  /\ UNCHANGED <<clock, guess, openers, restarts>>

Open(m, r) ==
  /\ status[m] = "stored" /\ guess[r] = PinOf[m]
  /\ Gone({m}, "opened")
  /\ openers' = [openers EXCEPT ![m] = {r}]
  /\ UNCHANGED <<clock, guess, restarts>>

\* A storage failure after the commit: the message is gone and nobody gets it.
Spoil(m, r) ==
  /\ Fallible
  /\ status[m] = "stored" /\ guess[r] = PinOf[m]
  /\ Gone({m}, "gone")
  /\ UNCHANGED <<clock, guess, openers, restarts>>

\* A restart drops the requests under way and, with a store that forgets, every message.
Restart ==
  /\ \E S \in SUBSET Pending : Gone(S \cup (IF Forgets THEN Stored ELSE {}), "gone")
  /\ restarts' = restarts + 1
  /\ UNCHANGED <<clock, guess, openers>>

Next ==
  \/ Tick \/ Discard \/ Restart
  \/ \E m \in Messages :
       \/ Post(m) \/ Refuse(m)
       \/ \E r \in Readers : WrongPin(m, r) \/ Open(m, r) \/ Spoil(m, r)

Spec == Init /\ [][Next]_mvars
=============================================================================
