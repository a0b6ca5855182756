------------------------------ MODULE Exchange ------------------------------
(***************************************************************************)
(* Recipients, the network and the server, for one message.  A request may *)
(* be lost on its way, arrive long after its client gave up, or be served  *)
(* with the answer lost.  What the server does with it is the service      *)
(* module's (MessageService), here in one step per request.                *)
(***************************************************************************)
EXTENDS Integers

CONSTANTS Clients, Nobody, MaxFailed,
          MaxAttempts    \* bound: the requests of one client

ASSUME ExchangeAssumption == MaxFailed \in Nat \ {0} /\ MaxAttempts \in Nat

VARIABLES message,     \* stored, opened, or gone for another reason
          wrong,       \* wrong PINs counted
          attempt,     \* each client's last request
          waiting,     \* the clients that wait for an answer to it
          requests,    \* on their way to the server
          answers,     \* the status lines on their way back
          opener,      \* history: the client whose request opened the message
          heard        \* history: the clients that have seen a 200

exchangeVars == <<message, wrong, attempt, waiting, requests, answers, opener, heard>>

ExchangeInit ==
  /\ message = "stored" /\ wrong = 0
  /\ attempt = [c \in Clients |-> 0]
  /\ waiting = {} /\ requests = {} /\ answers = {}
  /\ opener = Nobody /\ heard = {}

\* A client asks for the message with a PIN that has six digits.
Ask(c) ==
  /\ attempt[c] < MaxAttempts
  /\ attempt' = [attempt EXCEPT ![c] = @ + 1]
  /\ waiting' = waiting \cup {c}
  /\ \E right \in BOOLEAN :
       requests' = requests \cup {[from |-> c, n |-> attempt[c] + 1, right |-> right]}
  /\ UNCHANGED <<message, wrong, answers, opener, heard>>

\* The status line of the client's last request; 200 means that the message is deleted.
Receive(c, status) ==
  /\ [to |-> c, status |-> status] \in answers
  /\ answers' = answers \ {[to |-> c, status |-> status]}
  /\ waiting' = waiting \ {c}
  /\ heard' = IF status = 200 THEN heard \cup {c} ELSE heard
  /\ UNCHANGED <<message, wrong, attempt, requests, opener>>

\* A client gives up: nobody listens to the answer any more, but the request may arrive.
GiveUp(c) ==
  /\ answers' = {a \in answers : a.to # c}
  /\ waiting' = waiting \ {c}
  /\ UNCHANGED <<message, wrong, attempt, requests, opener, heard>>

Reply(r, status) ==
  /\ requests' = requests \ {r}
  /\ answers' = IF r.from \in waiting /\ r.n = attempt[r.from]
                THEN answers \cup {[to |-> r.from, status |-> status]}
                ELSE answers

Open(r) ==
  /\ message = "stored" /\ r.right
  /\ message' = "opened" /\ opener' = r.from /\ Reply(r, 200)
  /\ UNCHANGED wrong

\* record_failure: the wrong PIN that reaches the limit removes the message.
Charge == wrong' = wrong + 1 /\ message' = IF wrong + 1 >= MaxFailed THEN "gone" ELSE message

WrongPin(r) ==
  /\ message = "stored" /\ ~r.right
  /\ Charge /\ Reply(r, 403) /\ UNCHANGED opener

Missing(r) ==
  /\ message # "stored"
  /\ Reply(r, 404) /\ UNCHANGED <<message, wrong, opener>>

\* Rate limited, busy, or a failure of the store, which may come after its commit.
Rejected(r) ==
  /\ Reply(r, 503)
  /\ \/ UNCHANGED <<message, wrong>>
     \/ message = "stored" /\ r.right /\ message' = "gone" /\ UNCHANGED wrong
     \/ message = "stored" /\ ~r.right /\ Charge
  /\ UNCHANGED opener

Serve ==
  /\ \E r \in requests : Open(r) \/ WrongPin(r) \/ Missing(r) \/ Rejected(r)
  /\ UNCHANGED <<attempt, waiting, heard>>

Expire ==
  /\ message = "stored" /\ message' = "gone"
  /\ UNCHANGED <<wrong, attempt, waiting, requests, answers, opener, heard>>

Lose ==
  /\ \/ \E r \in requests : requests' = requests \ {r} /\ UNCHANGED answers
     \/ \E a \in answers : answers' = answers \ {a} /\ UNCHANGED requests
  /\ UNCHANGED <<message, wrong, attempt, waiting, opener, heard>>
=============================================================================
