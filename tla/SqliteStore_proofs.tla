------------------------- MODULE SqliteStore_proofs -------------------------
(***************************************************************************)
(* One server per database, with its own pepper, for any number of         *)
(* servers, paths, names and files.  The lock is per path: that it is one  *)
(* per database rests on Unshared, which the link check establishes.       *)
(***************************************************************************)
EXTENDS SqliteStore, TLAPS

\* Two servers that passed the link check and have the same file know it by one path.
Unshared ==
  \A s, t \in Servers :
    Running(s) /\ Running(t) /\ File(s) # None /\ File(s) = File(t) => path[s] = path[t]

\* The fingerprint of a store tells with which pepper its verifiers were hashed.
Marked ==
  \A f \in Files : /\ db[f] = "empty" => made[f] = {}
                   /\ db[f] \in Peppers => made[f] \subseteq {db[f]}

\* A server serves a store with its own pepper's fingerprint.
ServesOwn == \A s \in Servers : step[s] = "serving" => db[File(s)] = pepper[s]

OpenInv == OpenTypeOK /\ Unshared /\ Marked /\ ServesOwn

LEMMA InitOpen == Init => OpenInv
  BY OpenAssumption
  DEF Init, OpenInv, OpenTypeOK, Unshared, Marked, ServesOwn, Connected, Running, Steps, Contents

LEMMA IdentifyKeeps ==
  ASSUME OpenInv, NEW s \in Servers, NEW n \in Names, NEW p \in Peppers, Identify(s, n, p)
  PROVE  OpenInv'
  <1> USE OpenAssumption DEF Identify, Goto, OpenInv
  <1>1. Resolved[n] \in Paths
    OBVIOUS
  <1>2. OpenTypeOK'
    BY <1>1 DEF OpenTypeOK, Connected, File, Steps
  <1>3. Unshared'
    BY <1>1 DEF OpenTypeOK, Unshared, Links, Running, File
  <1>4. Marked' /\ ServesOwn'
    BY <1>1 DEF OpenTypeOK, Marked, ServesOwn, File
  <1>5. QED
    BY <1>2, <1>3, <1>4

LEMMA TryLockKeeps ==
  ASSUME OpenInv, NEW s \in Servers, TryLock(s)
  PROVE  OpenInv'
  <1> USE OpenAssumption DEF TryLock, Goto, OpenInv
  <1>1. OpenTypeOK'
    BY DEF OpenTypeOK, Connected, File, Steps
  <1>2. Unshared'
    BY DEF OpenTypeOK, Unshared, Running, File
  <1>3. Marked' /\ ServesOwn'
    BY DEF OpenTypeOK, Marked, ServesOwn, File
  <1>4. QED
    BY <1>1, <1>2, <1>3

LEMMA ConnectKeeps ==
  ASSUME OpenInv, NEW s \in Servers, Connect(s)
  PROVE  OpenInv'
  <1> USE OpenAssumption DEF Connect, Goto, OpenInv
  <1>1. CASE File(s) # None /\ UNCHANGED <<inode, db, made>>
    <2>1. OpenTypeOK'
      BY <1>1 DEF OpenTypeOK, Connected, File, Steps
    <2>2. Unshared'
      BY <1>1 DEF OpenTypeOK, Unshared, Running, File
    <2>3. Marked' /\ ServesOwn'
      BY <1>1 DEF OpenTypeOK, Marked, ServesOwn, File
    <2>4. QED
      BY <2>1, <2>2, <2>3
  <1>2. ASSUME File(s) = None, NEW f \in Files, \A p \in Paths : inode[p] # f,
               inode' = [inode EXCEPT ![path[s]] = f],
               db' = [db EXCEPT ![f] = "empty"], made' = [made EXCEPT ![f] = {}]
        PROVE  OpenInv'
    <2>1. OpenTypeOK'
      BY <1>2 DEF OpenTypeOK, Connected, File, Steps, Contents
    <2>2. Unshared'
      BY <1>2 DEF OpenTypeOK, Unshared, Running, File
    <2>3. Marked'
      BY <1>2 DEF OpenTypeOK, Marked, Contents
    <2>4. ServesOwn'
      BY <1>2 DEF OpenTypeOK, ServesOwn, Connected, File
    <2>5. QED
      BY <2>1, <2>2, <2>3, <2>4
  <1>3. QED
    BY <1>1, <1>2

LEMMA ExitKeeps ==
  ASSUME OpenInv, NEW s \in Servers, Exit(s)
  PROVE  OpenInv'
  <1> USE OpenAssumption DEF Exit, Goto, OpenInv
  <1>1. OpenTypeOK'
    BY DEF OpenTypeOK, Connected, File, Steps
  <1>2. Unshared'
    BY DEF OpenTypeOK, Unshared, Running, File
  <1>3. Marked' /\ ServesOwn'
    BY DEF OpenTypeOK, Marked, ServesOwn, File
  <1>4. QED
    BY <1>1, <1>2, <1>3

LEMMA PrepareKeeps ==
  ASSUME OpenInv, NEW s \in Servers, Prepare(s)
  PROVE  OpenInv'
  <1> USE OpenAssumption DEF Prepare, Goto, OpenInv
  <1>1. OpenTypeOK'
    BY DEF OpenTypeOK, Connected, File, Steps
  <1>2. Unshared'
    BY DEF OpenTypeOK, Unshared, Running, File
  <1>3. Marked' /\ ServesOwn'
    BY DEF OpenTypeOK, Marked, ServesOwn, File
  <1>4. QED
    BY <1>1, <1>2, <1>3

LEMMA InitialiseKeeps ==
  ASSUME OpenInv, NEW s \in Servers, Initialise(s)
  PROVE  OpenInv'
  <1> USE OpenAssumption DEF Initialise, Goto, OpenInv
  <1>1. File(s) \in Files
    BY DEF OpenTypeOK, Connected, File
  <1>2. OpenTypeOK'
    BY <1>1 DEF OpenTypeOK, Connected, File, Steps, Contents
  <1>3. Unshared'
    BY DEF OpenTypeOK, Unshared, Running, File
  <1>4. Marked'
    BY <1>1 DEF OpenTypeOK, Marked
  <1>5. ASSUME NEW t \in Servers, step'[t] = "serving"
        PROVE  db'[File(t)'] = pepper'[t]
    <2>1. CASE t = s
      BY <1>1, <2>1 DEF OpenTypeOK, File
    <2>2. CASE t # s
      <3>1. db[File(t)] = pepper[t] /\ pepper[t] # "empty"
        BY <1>5, <2>2 DEF OpenTypeOK, ServesOwn
      <3>2. File(t)' = File(t) /\ File(t) # File(s)
        BY <3>1 DEF File
      <3>3. QED
        BY <1>1, <3>1, <3>2 DEF OpenTypeOK
    <2>3. QED
      BY <2>1, <2>2
  <1>6. QED
    BY <1>2, <1>3, <1>4, <1>5 DEF ServesOwn

LEMMA PostKeeps ==
  ASSUME OpenInv, NEW s \in Servers, Post(s)
  PROVE  OpenInv'
  <1> USE OpenAssumption DEF Post, OpenInv
  <1>1. File(s) \in Files /\ db[File(s)] = pepper[s] /\ pepper[s] \in Peppers
    BY DEF OpenTypeOK, Connected, File, ServesOwn
  <1>2. OpenTypeOK'
    BY <1>1 DEF OpenTypeOK, Connected, File
  <1>3. Unshared' /\ ServesOwn'
    BY DEF OpenTypeOK, Unshared, ServesOwn, Running, File
  <1>4. Marked'
    BY <1>1 DEF OpenTypeOK, Marked
  <1>5. QED
    BY <1>2, <1>3, <1>4

\* Whoever runs while a link is made has a file, so its path is not the new link.
LEMMA HardLinkKeeps ==
  ASSUME OpenInv, NEW p \in Paths, NEW q \in Paths, HardLink(p, q)
  PROVE  OpenInv'
  <1> USE OpenAssumption DEF HardLink, OpenInv
  <1>1. \A s \in Servers : Running(s) => Connected(s) /\ path[s] # q /\ File(s)' = File(s)
    BY DEF OpenTypeOK, Running, Connected, Steps, File
  <1>2. OpenTypeOK'
    BY <1>1 DEF OpenTypeOK, Running, Connected
  <1>3. Unshared'
    BY <1>1 DEF Unshared, Running
  <1>4. Marked' /\ ServesOwn'
    BY <1>1 DEF Marked, ServesOwn, Running
  <1>5. QED
    BY <1>2, <1>3, <1>4

LEMMA DeleteKeeps ==
  ASSUME OpenInv, NEW p \in Paths, Delete(p)
  PROVE  OpenInv'
  BY OpenAssumption
  DEF Delete, OpenInv, OpenTypeOK, Unshared, Marked, ServesOwn, Running, Connected, File

LEMMA NextOpen == OpenInv /\ [Next]_vars => OpenInv'
  <1> SUFFICES ASSUME OpenInv, [Next]_vars PROVE OpenInv'
    OBVIOUS
  <1>1. CASE UNCHANGED vars
    BY <1>1 DEF vars, OpenInv, OpenTypeOK, Unshared, Marked, ServesOwn, Running, Connected, File
  <1>2. CASE Next
    BY <1>2, IdentifyKeeps, TryLockKeeps, ConnectKeeps, ExitKeeps, PrepareKeeps,
       InitialiseKeeps, PostKeeps, HardLinkKeeps, DeleteKeeps
    DEF Next
  <1>3. QED
    BY <1>1, <1>2

LEMMA OpenAlways == Spec => []OpenInv
  BY InitOpen, NextOpen, PTL DEF Spec

\* Every reachable state is well-formed: whoever has connected has a file, and holds the
\* lock of its path from try_lock until its process ends.
THEOREM OpenTypeCorrect == Spec => []OpenTypeOK
  <1>1. OpenInv => OpenTypeOK
    BY DEF OpenInv
  <1>2. QED
    BY <1>1, OpenAlways, PTL

\* Whatever names, symlinks and hard links there are, no database is ever opened by two
\* servers: identity's link check and the lock together see to it.
THEOREM OneServerEach == Spec => []OneServer
  <1>1. OpenInv => OneServer
    <2>1. SUFFICES ASSUME OpenInv, NEW s \in Servers, NEW t \in Servers,
                          Connected(s), Connected(t), File(s) = File(t)
                   PROVE  s = t
      BY DEF OneServer
    <2>2. path[s] = path[t]
      BY <2>1 DEF OpenInv, OpenTypeOK, Unshared, Running, Connected
    <2>3. QED
      BY <2>1, <2>2 DEF OpenInv, OpenTypeOK
  <1>2. QED
    BY <1>1, OpenAlways, PTL

\* No server ever serves messages of another pepper, however servers and peppers follow
\* each other on a database: prepare's fingerprint check sees to it.
THEOREM OwnPepperOnly == Spec => []OwnPepper
  <1>1. OpenInv => OwnPepper
    <2>1. SUFFICES ASSUME OpenInv, NEW s \in Servers, step[s] = "serving"
                   PROVE  made[File(s)] \subseteq {pepper[s]}
      BY DEF OwnPepper
    <2>2. File(s) \in Files /\ db[File(s)] = pepper[s] /\ pepper[s] \in Peppers
      BY <2>1 DEF OpenInv, OpenTypeOK, ServesOwn, Connected, File
    <2>3. QED
      BY <2>1, <2>2 DEF OpenInv, Marked
  <1>2. QED
    BY <1>1, OpenAlways, PTL

\* A step changes the contents of a database that stays where it is only from empty to a
\* whole store: prepare fills nothing in.
THEOREM NeverFilledIn == Spec => NothingFilledIn
  <1> DEFINE Whole == \A p \in Paths :
               inode[p] # None /\ inode'[p] = inode[p] /\ db'[inode[p]] # db[inode[p]]
                 => db[inode[p]] = "empty" /\ db'[inode[p]] \in Peppers
  <1>1. ASSUME OpenInv, Next PROVE Whole
    <2>1. SUFFICES ASSUME NEW p \in Paths, inode[p] # None, inode'[p] = inode[p],
                          db'[inode[p]] # db[inode[p]]
                   PROVE  db[inode[p]] = "empty" /\ db'[inode[p]] \in Peppers
      OBVIOUS
    <2>2. PICK s \in Servers : Connect(s) \/ Initialise(s)
      BY <1>1, <2>1
      DEF Next, Identify, TryLock, Prepare, Post, Exit, HardLink, Delete
    <2>3. CASE Connect(s)
      BY <1>1, <2>1, <2>3 DEF OpenInv, OpenTypeOK, Connect
    <2>4. CASE Initialise(s)
      BY <1>1, <2>1, <2>4 DEF OpenInv, OpenTypeOK, Initialise
    <2>5. QED
      BY <2>2, <2>3, <2>4
  <1>2. OpenInv /\ [Next]_vars => [Whole]_vars
    BY <1>1
  <1>3. QED
    BY <1>2, OpenAlways, PTL DEF Spec, NothingFilledIn
=============================================================================
