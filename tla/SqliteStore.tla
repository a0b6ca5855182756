----------------------------- MODULE SqliteStore -----------------------------
(***************************************************************************)
(* SqliteStore::open (sqlite.rs): servers start, crash and stop on the     *)
(* databases of one machine, under any of their names, with any pepper.    *)
(* What the rows of an open store go through is MessageStore's.            *)
(*                                                                         *)
(* The operator makes hard links, but not in the moment between a server's *)
(* look at the link count and its opening of the file, and deletes a       *)
(* database only while no server runs, as the operator guide says.         *)
(***************************************************************************)
EXTENDS Integers, FiniteSets

CONSTANTS Servers,
          Paths,       \* resolved paths
          Names,       \* what store.path may say: a resolved path or a symlink to one
          Resolved,    \* Resolved[n]: the resolved path of a name
          Files,       \* the files that may be at a path, each with its hard links
          Peppers,
          None         \* no file, no server

\* A database without objects; one that is not a version 1 store (another version, other
\* tables); and a version 1 store whose fingerprint is missing or damaged.
Unusable == {"foreign", "damaged"}
Contents == {"empty"} \cup Unusable \cup Peppers

ASSUME OpenAssumption ==
  /\ Paths \subseteq Names
  /\ Resolved \in [Names -> Paths]
  /\ None \notin Files /\ None \notin Servers
  /\ Peppers \cap ({"empty"} \cup Unusable) = {}

VARIABLES inode,    \* the file at each path, or None
          db,       \* what each file contains; for a store, its fingerprint's pepper
          made,     \* history: the peppers that the verifiers in a file were hashed with
          lock,     \* per path: the server that holds <path>.lock
          step, path, pepper    \* each server: how far it is, its resolved path, its pepper

vars == <<inode, db, made, lock, step, path, pepper>>

\* A server that is not off is opening the store, or it has opened it.
Steps == {"off", "identified", "locked", "connected", "blank", "serving"}
Running(s) == step[s] # "off"
Connected(s) == step[s] \in {"connected", "blank", "serving"}

File(s) == inode[path[s]]
Links(p) == {q \in Paths : inode[q] # None /\ inode[q] = inode[p]}

\* Any databases may be there already, each store with messages of its own pepper.
Init ==
  /\ inode \in [Paths -> Files \cup {None}]
  /\ db \in [Files -> Contents]
  /\ made \in [Files -> SUBSET Peppers]
  /\ \A f \in Files : /\ db[f] = "empty" => made[f] = {}
                      /\ db[f] \in Peppers => made[f] \subseteq {db[f]}
  /\ lock = [p \in Paths |-> None]
  /\ step = [s \in Servers |-> "off"]
  /\ path \in [Servers -> Paths]
  /\ pepper \in [Servers -> Peppers]

Goto(s, to) == step' = [step EXCEPT ![s] = to]

\* Lets a file with several hard links pass.
IdentifyLinked(s, n, p) ==
  /\ step[s] = "off"
  /\ inode[Resolved[n]] = None => n = Resolved[n]
  /\ path' = [path EXCEPT ![s] = Resolved[n]]
  /\ pepper' = [pepper EXCEPT ![s] = p]
  /\ Goto(s, "identified")
  /\ UNCHANGED <<inode, db, made, lock>>

\* A server starts: the name is resolved (a symlink must lead to a file), and a file with
\* several hard links is refused.
Identify(s, n, p) ==
  /\ step[s] = "off"
  /\ inode[Resolved[n]] = None => n = Resolved[n]
  /\ \A q \in Links(Resolved[n]) : q = Resolved[n]
  /\ path' = [path EXCEPT ![s] = Resolved[n]]
  /\ pepper' = [pepper EXCEPT ![s] = p]
  /\ Goto(s, "identified")
  /\ UNCHANGED <<inode, db, made, lock>>

\* The exclusive lock on the sidecar of the resolved path, or a refusal.
TryLock(s) ==
  /\ step[s] = "identified"
  /\ IF lock[path[s]] = None
     THEN lock' = [lock EXCEPT ![path[s]] = s] /\ Goto(s, "locked")
     ELSE Goto(s, "off") /\ UNCHANGED lock
  /\ UNCHANGED <<inode, db, made, path, pepper>>

\* Opens without creating: the store has no file.
ConnectExisting(s) ==
  /\ step[s] = "locked"
  /\ Goto(s, "connected")
  /\ UNCHANGED <<inode, db, made, lock, path, pepper>>

\* The connection, which creates the file, and the pragmas.
Connect(s) ==
  /\ step[s] = "locked"
  /\ Goto(s, "connected")
  /\ \/ File(s) # None /\ UNCHANGED <<inode, db, made>>
     \/ /\ File(s) = None
        /\ \E f \in Files :
             /\ \A p \in Paths : inode[p] # f
             /\ inode' = [inode EXCEPT ![path[s]] = f]
             /\ db' = [db EXCEPT ![f] = "empty"]
             /\ made' = [made EXCEPT ![f] = {}]
  /\ UNCHANGED <<lock, path, pepper>>

\* A refusal or a failure, a stop, a crash: the process ends, and its lock with it.
Exit(s) ==
  /\ Running(s)
  /\ Goto(s, "off")
  /\ lock' = [p \in Paths |-> IF lock[p] = s THEN None ELSE lock[p]]
  /\ UNCHANGED <<inode, db, made, path, pepper>>

\* A store without a good fingerprint is taken over.
PrepareAdopting(s) ==
  /\ step[s] = "connected"
  /\ \/ db[File(s)] = "empty" /\ Goto(s, "blank")
     \/ db[File(s)] \in {pepper[s], "damaged"} /\ Goto(s, "serving")
  /\ UNCHANGED <<inode, db, made, lock, path, pepper>>

\* The schema is read.  A database without objects is to be initialized; a version 1 store
\* with this pepper's fingerprint is used; anything else is refused (Exit).
Prepare(s) ==
  /\ step[s] = "connected"
  /\ \/ db[File(s)] = "empty" /\ Goto(s, "blank")
     \/ db[File(s)] = pepper[s] /\ Goto(s, "serving")
  /\ UNCHANGED <<inode, db, made, lock, path, pepper>>

\* The tables first, the fingerprint in a transaction of its own.
InitialiseInSteps(s) ==
  /\ step[s] = "blank"
  /\ \/ db[File(s)] = "empty" /\ db' = [db EXCEPT ![File(s)] = "damaged"] /\ UNCHANGED step
     \/ db[File(s)] = "damaged" /\ db' = [db EXCEPT ![File(s)] = pepper[s]] /\ Goto(s, "serving")
  /\ UNCHANGED <<inode, made, lock, path, pepper>>

\* Schema, version and fingerprint in one transaction, which fails if another server has
\* created the tables meanwhile.
Initialise(s) ==
  /\ step[s] = "blank"
  /\ db[File(s)] = "empty"
  /\ db' = [db EXCEPT ![File(s)] = pepper[s]]
  /\ Goto(s, "serving")
  /\ UNCHANGED <<inode, made, lock, path, pepper>>

\* A create stores a verifier hashed with this server's pepper.
Post(s) ==
  /\ step[s] = "serving"
  /\ made' = [made EXCEPT ![File(s)] = @ \cup {pepper[s]}]
  /\ UNCHANGED <<inode, db, lock, step, path, pepper>>

HardLink(p, q) ==
  /\ inode[p] # None /\ inode[q] = None
  /\ \A s \in Servers : step[s] \notin {"identified", "locked"}
  /\ inode' = [inode EXCEPT ![q] = inode[p]]
  /\ UNCHANGED <<db, made, lock, step, path, pepper>>

Delete(p) ==
  /\ \A s \in Servers : ~Running(s)
  /\ inode' = [inode EXCEPT ![p] = None]
  /\ UNCHANGED <<db, made, lock, step, path, pepper>>

Next ==
  \/ \E s \in Servers :
       \/ \E n \in Names, p \in Peppers : Identify(s, n, p)
       \/ TryLock(s) \/ Connect(s) \/ Prepare(s) \/ Initialise(s) \/ Post(s) \/ Exit(s)
  \/ \E p, q \in Paths : HardLink(p, q)
  \/ \E p \in Paths : Delete(p)

Spec == Init /\ [][Next]_vars

-----------------------------------------------------------------------------
\* The types; a server that has connected has a file, and from its lock to its end a
\* server holds the lock of its path.
OpenTypeOK ==
  /\ inode \in [Paths -> Files \cup {None}]
  /\ db \in [Files -> Contents] /\ made \in [Files -> SUBSET Peppers]
  /\ lock \in [Paths -> Servers \cup {None}]
  /\ step \in [Servers -> Steps] /\ path \in [Servers -> Paths] /\ pepper \in [Servers -> Peppers]
  /\ \A s \in Servers : Connected(s) => File(s) # None
  /\ \A s \in Servers : Connected(s) \/ step[s] = "locked" => lock[path[s]] = s

\* One database, one server, by whatever symlinks and hard links it is reached (APP.md,
\* "Store modes"): not only once both serve, but as soon as both have connected.
OneServer ==
  \A s, t \in Servers : Connected(s) /\ Connected(t) /\ File(s) = File(t) => s = t

\* A server never serves messages whose verifiers were hashed with another pepper: every
\* right PIN would count as a wrong one and burn them.
OwnPepper ==
  \A s \in Servers : step[s] = "serving" => made[File(s)] \subseteq {pepper[s]}

\* Whatever starts, refusals and crashes there are, a database that has anything in it is
\* left as it is, and an empty one becomes a whole store in one step: nothing is ever
\* filled in.
NothingFilledIn ==
  [][\A p \in Paths : inode[p] # None /\ inode'[p] = inode[p] /\ db'[inode[p]] # db[inode[p]]
       => db[inode[p]] = "empty" /\ db'[inode[p]] \in Peppers]_vars
=============================================================================
