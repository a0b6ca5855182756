-------------------------- MODULE Profiles_proofs --------------------------
(***************************************************************************)
(* For any number of commands, profiles and fields: no command spoils the  *)
(* profiles file, and only a command that overlapped with a save undoes a  *)
(* change.  The second rests on Fresh: what a command is about to save is  *)
(* its own change of the file as it is, unless the file was saved since.   *)
(***************************************************************************)
EXTENDS Profiles, TLAPS

Changed(f, a) == IF a.kind = "set" THEN WithSet(f, a) ELSE WithoutProfile(f, a.name)

Fresh ==
  \A c \in Commands :
    step[c] = "save" => /\ args[c] \in SetArgs \cup RemoveArgs
                        /\ stale[c] \/ (file \in File /\ mem[c] = Changed(file, args[c]))

ProfilesInv == ProfilesTypeOK /\ Fresh

\* What a file is, without the union of function sets.
LEMMA FileParts ==
  ASSUME NEW f \in File
  PROVE  /\ f = [default |-> f.default, profiles |-> f.profiles]
         /\ f.default \in Names \cup {None}
         /\ DOMAIN f.profiles \in SUBSET Names
         /\ f.profiles \in [DOMAIN f.profiles -> Profile]
  BY DEF File

\* set keeps the file's shape; what it gives the profile it names is checked, the rest was.
LEMMA SetShape ==
  ASSUME NEW f \in File, NEW a \in SetArgs
  PROVE  WithSet(f, a) \in File
  <1> DEFINE old == IF Has(f, a.name) THEN f.profiles[a.name] ELSE Blank
             new == WithSet(f, a)
  <1>1. a.name \in Names /\ a.given \in Profile /\ a.default \in BOOLEAN
    BY DEF SetArgs
  <1>2. Merged(old, a.given) \in Profile
    <2>1. old \in Profile
      BY FileParts DEF Has, Blank, Profile
    <2>2. QED
      BY <1>1, <2>1 DEF Merged, Profile
  <1>3. new.profiles \in [DOMAIN f.profiles \cup {a.name} -> Profile]
    BY <1>2, FileParts DEF WithSet
  <1>4. new.default \in Names \cup {None}
    BY <1>1, FileParts DEF WithSet
  <1>5. DOMAIN f.profiles \cup {a.name} \in SUBSET Names
    BY <1>1, FileParts
  <1>6. new = [default |-> new.default, profiles |-> new.profiles]
    BY DEF WithSet
  <1>7. QED
    BY <1>3, <1>4, <1>5, <1>6 DEF File

LEMMA SetValid ==
  ASSUME NEW f \in File, NEW a \in SetArgs, ValidAll(f), Valid(WithSet(f, a).profiles[a.name])
  PROVE  ValidAll(WithSet(f, a))
  <1>1. DOMAIN WithSet(f, a).profiles = DOMAIN f.profiles \cup {a.name}
    BY DEF WithSet
  <1>2. ASSUME NEW n \in DOMAIN f.profiles, n # a.name
        PROVE  WithSet(f, a).profiles[n] = f.profiles[n]
    BY <1>2 DEF WithSet
  <1>3. WithSet(f, a).default \in {a.name, f.default}
    BY DEF WithSet
  <1>4. QED
    BY <1>1, <1>2, <1>3 DEF ValidAll

LEMMA RemoveShape ==
  ASSUME NEW f \in File, NEW n \in Names
  PROVE  WithoutProfile(f, n) \in File
  <1> DEFINE new == WithoutProfile(f, n)
  <1>1. new.profiles \in [DOMAIN f.profiles \ {n} -> Profile]
    BY FileParts DEF WithoutProfile
  <1>2. new.default \in Names \cup {None}
    BY FileParts DEF WithoutProfile
  <1>3. DOMAIN f.profiles \ {n} \in SUBSET Names
    BY FileParts
  <1>4. new = [default |-> new.default, profiles |-> new.profiles]
    BY DEF WithoutProfile
  <1>5. QED
    BY <1>1, <1>2, <1>3, <1>4 DEF File

\* A command changes the values it was asked to change and no others.
LEMMA ChangedAsAsked ==
  ASSUME NEW f \in File, NEW a \in SetArgs \cup RemoveArgs, Changed(f, a) # Broken, f # Broken,
         NEW n \in Names, NEW k \in Fields, ~Asked(a, n, k)
  PROVE  ValueOf(Changed(f, a), n, k) = ValueOf(f, n, k)
  <1>1. CASE a.kind = "set"
    <2>1. Changed(f, a) = WithSet(f, a)
      BY <1>1 DEF Changed
    <2>2. CASE n # a.name
      BY <2>1, <2>2 DEF WithSet, ValueOf, Has
    <2>3. CASE n = a.name
      <3>1. a.given[k] = None
        BY <1>1, <2>3 DEF Asked
      <3>2. WithSet(f, a).profiles[n] = Merged(IF Has(f, n) THEN f.profiles[n] ELSE Blank, a.given)
        BY <2>3 DEF WithSet
      <3>3. WithSet(f, a).profiles[n][k] = IF Has(f, n) THEN f.profiles[n][k] ELSE None
        BY <3>1, <3>2 DEF Merged, Blank
      <3>4. Has(WithSet(f, a), n)
        BY <2>3 DEF WithSet, Has
      <3>5. QED
        BY <2>1, <3>3, <3>4 DEF ValueOf
    <2>4. QED
      BY <2>2, <2>3
  <1>2. CASE a.kind # "set"
    <2>1. Changed(f, a) = WithoutProfile(f, a.name) /\ n # a.name
      BY <1>2 DEF Changed, Asked
    <2>2. QED
      BY <2>1 DEF WithoutProfile, ValueOf, Has
  <1>3. QED
    BY <1>1, <1>2

LEMMA BrokenIsNoFile == Broken \notin File
  BY ProfilesAssumption DEF File, Profile

LEMMA InitProfiles == Init => ProfilesInv
  BY DEF Init, ProfilesInv, ProfilesTypeOK, Fresh

LEMMA RefuseKeeps ==
  ASSUME ProfilesInv, NEW c \in Commands, Refuse(c) \/ Use(c) \/ Fail(c)
  PROVE  ProfilesInv'
  <1> USE DEF ProfilesInv, Refuse, Use, Fail, Goto
  <1>1. ProfilesTypeOK'
    BY DEF ProfilesTypeOK, Ended
  <1>2. Fresh'
    BY DEF ProfilesTypeOK, Fresh
  <1>3. QED
    BY <1>1, <1>2

LEMMA SetKeeps ==
  ASSUME ProfilesInv, NEW c \in Commands, Set(c)
  PROVE  ProfilesInv'
  <1> DEFINE new == WithSet(file, args[c])
  <1>1. file \in File /\ ValidAll(file) /\ Valid(new.profiles[args[c].name])
    BY DEF ProfilesInv, ProfilesTypeOK, Set, CanSet, Loads
  <1>2. args[c] \in SetArgs
    BY DEF ProfilesInv, ProfilesTypeOK, Set, ProfileArgs, RemoveArgs, UseArgs
  <1>3. new \in File /\ ValidAll(new)
    BY <1>1, <1>2, SetShape, SetValid
  <1>4. ProfilesTypeOK'
    BY <1>3 DEF ProfilesInv, ProfilesTypeOK, Set, Goto
  <1>5. new = Changed(file, args[c])
    BY DEF Set, Changed
  <1>6. Fresh'
    BY <1>1, <1>2, <1>5 DEF ProfilesInv, ProfilesTypeOK, Fresh, Set, Goto
  <1>7. QED
    BY <1>4, <1>6 DEF ProfilesInv

LEMMA RemoveKeeps ==
  ASSUME ProfilesInv, NEW c \in Commands, Remove(c)
  PROVE  ProfilesInv'
  <1> DEFINE new == WithoutProfile(file, args[c].name)
  <1>1. file \in File /\ ValidAll(new)
    BY DEF ProfilesInv, ProfilesTypeOK, Remove, CanRemove
  <1>2. args[c] \in RemoveArgs
    BY DEF ProfilesInv, ProfilesTypeOK, Remove, ProfileArgs, SetArgs, UseArgs
  <1>3. new \in File
    BY <1>1, <1>2, RemoveShape DEF RemoveArgs
  <1>4. ProfilesTypeOK'
    BY <1>1, <1>3 DEF ProfilesInv, ProfilesTypeOK, Remove, Goto
  <1>5. new = Changed(file, args[c])
    BY DEF Remove, Changed
  <1>6. Fresh'
    BY <1>1, <1>2, <1>5 DEF ProfilesInv, ProfilesTypeOK, Fresh, Remove, Goto
  <1>7. QED
    BY <1>4, <1>6 DEF ProfilesInv

LEMMA SaveKeeps ==
  ASSUME ProfilesInv, NEW c \in Commands, Save(c)
  PROVE  ProfilesInv'
  <1>1. mem[c] \in File
    BY DEF ProfilesInv, ProfilesTypeOK, Save
  <1>2. ProfilesTypeOK'
    BY <1>1 DEF ProfilesInv, ProfilesTypeOK, Save, Goto, Ended
  <1>3. Fresh'
    BY DEF ProfilesInv, ProfilesTypeOK, Fresh, Save, Goto
  <1>4. QED
    BY <1>2, <1>3 DEF ProfilesInv

LEMMA StepKeeps == ProfilesInv /\ [Next]_vars => ProfilesInv'
  <1> SUFFICES ASSUME ProfilesInv, [Next]_vars PROVE ProfilesInv'
    OBVIOUS
  <1>1. CASE UNCHANGED vars
    BY <1>1 DEF ProfilesInv, ProfilesTypeOK, Fresh, vars
  <1>2. ASSUME NEW c \in Commands, Refuse(c) \/ Use(c) \/ Fail(c)
        PROVE  ProfilesInv'
    BY <1>2, RefuseKeeps
  <1>3. ASSUME NEW c \in Commands, Set(c) \/ Remove(c) \/ Save(c)
        PROVE  ProfilesInv'
    BY <1>3, SetKeeps, RemoveKeeps, SaveKeeps
  <1>4. QED
    BY <1>1, <1>2, <1>3 DEF Next

LEMMA Inductive == Spec => []ProfilesInv
  BY InitProfiles, StepKeeps, PTL DEF Spec

\* Only valid profiles are ever about to be saved, also from an invalid file
\* (Profiles::load, remove).
THEOREM SavedValid == Spec => []ProfilesTypeOK
  BY Inductive, PTL DEF ProfilesInv

\* Nothing the commands do, at once, failing or killed, makes a file that does not load of
\* one that does (Profiles::save).
THEOREM FileNeverSpoiled == Spec => NeverSpoiled
  <1>1. ProfilesInv /\ [Next]_vars => [Loads(file) => Loads(file')]_vars
    <2> SUFFICES ASSUME ProfilesInv, Next, Loads(file)
                 PROVE  Loads(file')
      BY DEF Loads
    <2>1. ASSUME NEW c \in Commands, Save(c)
          PROVE  Loads(file')
      BY <2>1, BrokenIsNoFile DEF ProfilesInv, ProfilesTypeOK, Save, Loads
    <2>2. ASSUME NEW c \in Commands, Refuse(c) \/ Use(c) \/ Set(c) \/ Remove(c) \/ Fail(c)
          PROVE  file' = file
      BY <2>2 DEF Refuse, Use, Set, Remove, Fail
    <2>3. QED
      BY <2>1, <2>2 DEF Next
  <1>2. QED
    BY <1>1, Inductive, PTL DEF Spec, NeverSpoiled

\* A field that was not asked for changes only under a command that loaded the file before
\* another's save (run, remove: load, change, save without a lock).
THEOREM OnlyOverlapUndoes == Spec => UndoneOnlyByOverlap
  <1> DEFINE Overlap ==
        \A n \in Names, k \in Fields :
          ValueOf(file', n, k) # ValueOf(file, n, k)
            => \E c \in Commands : /\ step[c] = "save" /\ step'[c] = "saved"
                                   /\ stale[c] \/ Asked(args[c], n, k)
  <1>1. ProfilesInv /\ [Next]_vars => [Overlap]_vars
    <2> SUFFICES ASSUME ProfilesInv, Next,
                        NEW n \in Names, NEW k \in Fields,
                        ValueOf(file', n, k) # ValueOf(file, n, k)
                 PROVE  \E c \in Commands : /\ step[c] = "save" /\ step'[c] = "saved"
                                            /\ stale[c] \/ Asked(args[c], n, k)
      OBVIOUS
    <2>1. PICK c \in Commands : Save(c)
      BY DEF Next, Refuse, Use, Set, Remove, Fail
    <2>2. step[c] = "save" /\ step'[c] = "saved"
      BY <2>1 DEF Save, Goto, ProfilesInv, ProfilesTypeOK
    <2>3. ASSUME ~stale[c], ~Asked(args[c], n, k)
          PROVE  FALSE
      <3>1. file \in File /\ file' = Changed(file, args[c]) /\ file' \in File
        BY <2>1, <2>2, <2>3 DEF Save, ProfilesInv, ProfilesTypeOK, Fresh
      <3>2. args[c] \in SetArgs \cup RemoveArgs
        BY <2>2 DEF ProfilesInv, Fresh
      <3>3. QED
        BY <2>3, <3>1, <3>2, ChangedAsAsked, BrokenIsNoFile
    <2>4. QED
      BY <2>2, <2>3
  <1>2. QED
    BY <1>1, Inductive, PTL DEF Spec, UndoneOnlyByOverlap
=============================================================================
