------------------------------ MODULE Profiles ------------------------------
(***************************************************************************)
(* The profiles file of the command line (profile.rs): commands load it,   *)
(* change their copy and save it, without a lock between them.  A file is  *)
(* written to a temporary name and renamed, so a crash never shows half of *)
(* one.  The file may have been edited by hand before.                     *)
(***************************************************************************)
EXTENDS Integers

CONSTANTS Commands,
          Names,
          Fields,      \* server, ttl and out
          Values,      \* what a field may say, in any of them
          Bad,         \* Bad[k]: the values that validate refuses (none of out's)
          None,        \* a field or a default that is not set
          Broken       \* a file with a syntax error, an unknown key or a wrong type

ASSUME ProfilesAssumption ==
  /\ Bad \in [Fields -> SUBSET Values] /\ None \notin Values /\ None \notin Names
  /\ Broken \notin [default : Names \cup {None},
                    profiles : UNION {[S -> [Fields -> Values \cup {None}]] : S \in SUBSET Names}]

Profile == [Fields -> Values \cup {None}]
Blank == [k \in Fields |-> None]

\* A file that parses; an absent one counts as one with nothing in it.
File == [default : Names \cup {None}, profiles : UNION {[S -> Profile] : S \in SUBSET Names}]

SetArgs == [kind : {"set"}, name : Names, given : Profile, default : BOOLEAN]
RemoveArgs == [kind : {"remove"}, name : Names]
UseArgs == [kind : {"use"}, name : Names \cup {None}]    \* list, show, send, get
ProfileArgs == SetArgs \cup RemoveArgs \cup UseArgs

VARIABLES file,     \* the profiles file
          args,     \* each command's arguments
          step,     \* each command: start, save, or how it ended
          mem,      \* the contents that a command is about to save
          stale     \* history: the file was saved since the command loaded it

vars == <<file, args, step, mem, stale>>

Ended == {"used", "saved", "refused", "failed"}
Has(f, n) == n \in DOMAIN f.profiles

\* validate: the shape of a server URL, and a TTL with a known unit, above 0 and within u64.
Valid(p) == \A k \in Fields : p[k] \notin Bad[k]

\* validate_all, which every load but remove's applies.
ValidAll(f) ==
  /\ \A n \in DOMAIN f.profiles : Valid(f.profiles[n])
  /\ f.default \in DOMAIN f.profiles \cup {None}

Init ==
  /\ file \in File \cup {Broken}
  /\ args \in [Commands -> ProfileArgs]
  /\ step = [c \in Commands |-> "start"]
  /\ mem = [c \in Commands |-> None]
  /\ stale = [c \in Commands |-> FALSE]

\* What set makes of a profile: the given fields over the old ones.
Merged(old, given) == [k \in Fields |-> IF given[k] = None THEN old[k] ELSE given[k]]

\* The profile is replaced by what was given.
WithSetAnew(f, a) ==
  [default |-> IF a.default THEN a.name ELSE f.default,
   profiles |-> [n \in DOMAIN f.profiles \cup {a.name} |->
                   IF n = a.name THEN a.given ELSE f.profiles[n]]]

WithSet(f, a) ==
  [default |-> IF a.default THEN a.name ELSE f.default,
   profiles |-> [n \in DOMAIN f.profiles \cup {a.name} |->
                   IF n = a.name
                   THEN Merged(IF Has(f, n) THEN f.profiles[n] ELSE Blank, a.given)
                   ELSE f.profiles[n]]]

WithoutProfile(f, name) ==
  [default |-> IF f.default = name THEN None ELSE f.default,
   profiles |-> [n \in DOMAIN f.profiles \ {name} |-> f.profiles[n]]]

Loads(f) == f # Broken /\ ValidAll(f)

\* The load and the checks that let a command go on.
CanUse(a) ==
  /\ Loads(file)
  /\ a.name = None \/ Has(file, a.name)

CanSet(a) ==
  /\ Loads(file)
  /\ Valid(WithSet(file, a).profiles[a.name])

\* Only the profile that is removed may be invalid.
CanRemoveUnchecked(a) ==
  /\ file # Broken
  /\ Has(file, a.name)

CanRemove(a) ==
  /\ file # Broken
  /\ Has(file, a.name)
  /\ ValidAll(WithoutProfile(file, a.name))

Accepted(a) ==
  \/ a.kind = "use" /\ CanUse(a)
  \/ a.kind = "set" /\ CanSet(a)
  \/ a.kind = "remove" /\ CanRemove(a)

Goto(c, to) == step' = [step EXCEPT ![c] = to]

Refuse(c) ==
  /\ step[c] = "start" /\ ~Accepted(args[c])
  /\ Goto(c, "refused")
  /\ UNCHANGED <<file, args, mem, stale>>

Use(c) ==
  /\ step[c] = "start" /\ args[c].kind = "use" /\ CanUse(args[c])
  /\ Goto(c, "used")
  /\ UNCHANGED <<file, args, mem, stale>>

Set(c) ==
  /\ step[c] = "start" /\ args[c].kind = "set" /\ CanSet(args[c])
  /\ mem' = [mem EXCEPT ![c] = WithSet(file, args[c])]
  /\ Goto(c, "save")
  /\ UNCHANGED <<file, args, stale>>

Remove(c) ==
  /\ step[c] = "start" /\ args[c].kind = "remove" /\ CanRemove(args[c])
  /\ mem' = [mem EXCEPT ![c] = WithoutProfile(file, args[c].name)]
  /\ Goto(c, "save")
  /\ UNCHANGED <<file, args, stale>>

\* The rename of the temporary file over the old one.
Save(c) ==
  /\ step[c] = "save"
  /\ file' = mem[c]
  /\ stale' = [d \in Commands |-> stale[d] \/ (d # c /\ step[d] = "save")]
  /\ Goto(c, "saved")
  /\ UNCHANGED <<args, mem>>

\* The file is written in place.
FailInPlace(c) ==
  /\ step[c] = "save"
  /\ Goto(c, "failed")
  /\ file' \in {file, Broken}
  /\ UNCHANGED <<args, mem, stale>>

\* The directory, the temporary file or the rename fails, or the command is killed.
Fail(c) ==
  /\ step[c] = "save"
  /\ Goto(c, "failed")
  /\ UNCHANGED <<file, args, mem, stale>>

Next == \E c \in Commands : Refuse(c) \/ Use(c) \/ Set(c) \/ Remove(c) \/ Save(c) \/ Fail(c)

Spec == Init /\ [][Next]_vars

-----------------------------------------------------------------------------
\* The types; what is about to be saved loads again: "an invalid one can't be used, shown,
\* or saved again" (profile.rs, load), also when the file on disk is invalid now.
ProfilesTypeOK ==
  /\ file \in File \cup {Broken}
  /\ args \in [Commands -> ProfileArgs]
  /\ step \in [Commands -> {"start", "save"} \cup Ended]
  /\ mem \in [Commands -> File \cup {None}]
  /\ stale \in [Commands -> BOOLEAN]
  /\ \A c \in Commands : step[c] = "save" => mem[c] \in File /\ ValidAll(mem[c])

\* A file that loads goes on loading, whatever commands change it at once, fail or are
\* killed: there is never half a file, a dangling default or an invalid profile.
NeverSpoiled == [][Loads(file) => Loads(file')]_vars

ValueOf(f, n, k) == IF f # Broken /\ Has(f, n) THEN f.profiles[n][k] ELSE None
Asked(a, n, k) == a.name = n /\ (a.kind = "set" => a.given[k] # None)

\* Commands are not serialized, so one can undo another's change.  But only a command that
\* overlapped with a save does: any other one changes the fields it was asked to change and
\* leaves every other field of every profile as it was.
UndoneOnlyByOverlap ==
  [][\A n \in Names, k \in Fields :
       ValueOf(file', n, k) # ValueOf(file, n, k)
         => \E c \in Commands : /\ step[c] = "save" /\ step'[c] = "saved"
                                /\ stale[c] \/ Asked(args[c], n, k)]_vars

\* APP.md, "Profiles": "`profile remove` still works on an invalid profile."
RemoveWorks ==
  [][\A c \in Commands :
       (/\ step[c] = "start" /\ args[c].kind = "remove"
        /\ file # Broken /\ Has(file, args[c].name)
        /\ ~Valid(file.profiles[args[c].name])
        /\ file.default \in DOMAIN file.profiles \cup {None})
       => step'[c] # "refused"]_vars
=============================================================================
