----------------------------- MODULE FileOutput -----------------------------
(***************************************************************************)
(* The command line writes the files of an opened message into a directory *)
(* (output.rs over pinveil-fs's Dir), while other processes create,        *)
(* replace and delete entries there.  The file systems ignore case.  The   *)
(* directory stays the one that was opened, whatever is done to its path.  *)
(***************************************************************************)
EXTENDS ExportNames, FiniteSets

CONSTANTS Payloads,    \* the original names of the files, in order, per message
          Dirs,
          None,
          MaxForeign   \* bound: how often other processes change an entry

\* MAX_FILES_CEILING; like the length of a name, the decoder has checked it.
MaxFiles == 256

ASSUME FileOutputAssumption ==
  /\ MaxForeign \in Nat
  /\ \A p \in Payloads : /\ p \in Seq(Seq(Characters)) /\ Len(p) <= MaxFiles
                         /\ \A i \in DOMAIN p : Bytes(p[i]) <= MaxNameBytes

VARIABLES payload,     \* the message's file names
          key,         \* what the directory goes by: their export names, in lower case
          disk,        \* what each directory has under each name: nothing, a folder, another
                       \* process's file or link, or file i, made anew or put over an entry
          force,       \* --force
          dir,         \* the directory that is open
          outStep, next, existed,
          replace,     \* whether entries may be replaced
          created,     \* the files this run made anew and has not yet tried to remove
          stuck,       \* history: the files whose removal failed
          wrote,       \* history: the entry that each file was written to
          foreign      \* history: how often other processes changed an entry

outVars == <<payload, key, disk, force, dir, outStep, next, existed, replace, created, stuck, wrote, foreign>>

OutSteps == {"idle", "scan", "ask", "look", "put", "cleanup", "saved", "quit", "failed"}
SaveEnded == outStep \in {"saved", "quit", "failed"}

Entries == {[kind |-> k] : k \in {"none", "folder", "theirs"}}
Absent == [kind |-> "none"]
Folder == [kind |-> "folder"]
Theirs == [kind |-> "theirs"]
Fresh(i) == [kind |-> "fresh", file |-> i]
Over(i) == [kind |-> "over", file |-> i]

\* What the directories already hold, other processes have put there.
OutInit ==
  /\ payload \in Payloads
  /\ key = [i \in DOMAIN payload |-> Lower(Exported(payload)[i])]
  /\ disk = [d \in Dirs |-> [k \in Range(key) |-> Absent]]
  /\ force \in BOOLEAN
  /\ dir \in Dirs
  /\ outStep = "idle" /\ next = 1 /\ existed = FALSE /\ replace = FALSE
  /\ created = {} /\ stuck = {} /\ wrote = <<>> /\ foreign = 0

At(i) == disk[dir][key[i]]
Put(i, entry) == disk' = [disk EXCEPT ![dir][key[i]] = entry]

\* save: the directory is opened.
OpenDir ==
  /\ outStep = "idle"
  /\ outStep' \in {"scan", "failed"}
  /\ UNCHANGED <<payload, key, disk, force, dir, next, existed, replace, created, stuck, wrote, foreign>>

\* Which of the names are taken, if it can be told; links and folders count.
Scan ==
  /\ outStep = "scan"
  /\ \/ IF force \/ \A i \in DOMAIN payload : At(i) = Absent
        THEN outStep' = "look" /\ replace' = force
        ELSE outStep' = "ask" /\ UNCHANGED replace
     \/ outStep' = "failed" /\ UNCHANGED replace
  /\ UNCHANGED <<payload, key, disk, force, dir, next, existed, created, stuck, wrote, foreign>>

\* The user's answer, or none where there is no terminal; another directory may not open.
Answer ==
  /\ outStep = "ask"
  /\ \/ outStep' = "look" /\ replace' = TRUE /\ UNCHANGED dir
     \/ outStep' = "scan" /\ dir' \in Dirs /\ UNCHANGED replace
     \/ outStep' \in {"quit", "failed"} /\ UNCHANGED <<dir, replace>>
  /\ UNCHANGED <<payload, key, disk, force, next, existed, created, stuck, wrote, foreign>>

\* The look whether the next entry exists decides between replace and create_new.
Look ==
  /\ outStep = "look"
  /\ existed' = (At(next) # Absent)
  /\ outStep' = "put"
  /\ UNCHANGED <<payload, key, disk, force, dir, next, replace, created, stuck, wrote, foreign>>

Written(i, entry) ==
  /\ Put(i, entry)
  /\ wrote' = Append(wrote, <<dir, key[i]>>)
  /\ next' = i + 1 /\ existed' = FALSE
  /\ outStep' = IF i = Len(payload) THEN "saved" ELSE "look"

\* A temporary file renamed over whatever has the name, except a folder.
Replace ==
  /\ outStep = "put" /\ existed /\ replace
  /\ At(next) # Folder
  /\ Written(next, Over(next))
  /\ UNCHANGED <<payload, key, force, dir, replace, created, stuck, foreign>>

\* Made without looking whether the entry is still free.
CreateAnyway ==
  /\ outStep = "put" /\ ~(existed /\ replace)
  /\ Written(next, Fresh(next))
  /\ created' = created \cup {next}
  /\ UNCHANGED <<payload, key, force, dir, replace, stuck, foreign>>

\* Not noted for the clean-up where entries may be replaced.
CreateUnlisted ==
  /\ outStep = "put" /\ ~(existed /\ replace)
  /\ At(next) = Absent
  /\ Written(next, Fresh(next))
  /\ created' = IF replace THEN created ELSE created \cup {next}
  /\ UNCHANGED <<payload, key, force, dir, replace, stuck, foreign>>

\* Exclusive: it fails if anything has the name by now.
CreateNew ==
  /\ outStep = "put" /\ ~(existed /\ replace)
  /\ At(next) = Absent
  /\ Written(next, Fresh(next))
  /\ created' = created \cup {next}
  /\ UNCHANGED <<payload, key, force, dir, replace, stuck, foreign>>

\* The look or the write fails: the name is taken, or the disk is full.  A file that
\* create_new had already made is then to be removed too.
WriteFails ==
  /\ outStep \in {"look", "put"}
  /\ outStep' = "cleanup" /\ existed' = FALSE
  /\ \/ UNCHANGED <<disk, created>>
     \/ /\ outStep = "put" /\ ~(existed /\ replace) /\ At(next) = Absent
        /\ Put(next, Fresh(next))
        /\ created' = created \cup {next}
  /\ UNCHANGED <<payload, key, force, dir, next, replace, stuck, wrote, foreign>>

\* The files made by this run are removed by their names, one by one, first the one that
\* could not be written.  A removal that fails, whyever, is ignored.
CleanUp ==
  /\ outStep = "cleanup"
  /\ IF created = {}
     THEN outStep' = "failed" /\ UNCHANGED <<disk, created, stuck>>
     ELSE \E i \in created :
            /\ next \in created => i = next
            /\ \/ At(i) # Folder /\ Put(i, Absent) /\ UNCHANGED stuck
               \/ stuck' = stuck \cup {i} /\ UNCHANGED disk
            /\ created' = created \ {i}
            /\ UNCHANGED outStep
  /\ UNCHANGED <<payload, key, force, dir, next, existed, replace, wrote, foreign>>

\* Another process makes an entry, replaces a file or a link, or deletes an entry.
Interfere ==
  /\ foreign < MaxForeign /\ ~SaveEnded
  /\ foreign' = foreign + 1
  /\ \E d \in Dirs, k \in Range(key), entry \in Entries :
       /\ entry # disk[d][k]
       /\ entry = Folder => disk[d][k] = Absent
       /\ disk[d][k] = Folder => entry = Absent
       /\ disk' = [disk EXCEPT ![d][k] = entry]
  /\ UNCHANGED <<payload, key, force, dir, outStep, next, existed, replace, created, stuck, wrote>>

Save == OpenDir \/ Scan \/ Answer \/ Look \/ Replace \/ CreateNew \/ WriteFails \/ CleanUp
-----------------------------------------------------------------------------
\* The types; the names are ones that every platform can create, and no two of them are one
\* entry where case is ignored, so nothing in a message reaches outside the directory or
\* over another of its files.
OutTypeOK ==
  /\ payload \in Payloads /\ dir \in Dirs /\ outStep \in OutSteps
  /\ disk \in [Dirs -> [Range(key) -> Entries \cup {Fresh(i) : i \in DOMAIN payload}
                                        \cup {Over(i) : i \in DOMAIN payload}]]
  /\ {force, existed, replace} \subseteq BOOLEAN
  /\ next \in 1..Len(payload) + 1 /\ created \cup stuck \subseteq DOMAIN payload
  /\ outStep = "idle" => /\ \A i \in DOMAIN payload : Portable(Exported(payload)[i])
                         /\ \A i, j \in DOMAIN payload : key[i] = key[j] => i = j

\* Entries of others are safe, however they come and go between the look, the question and
\* the write: a step of this program loses one only where the user let it replace, or at a
\* name that it had made anew and is now removing.
OthersKept ==
  \A d \in Dirs, k \in Range(key) :
    disk[d][k] \in {Theirs, Folder} /\ disk'[d][k] # disk[d][k] /\ foreign' = foreign
      => /\ d = dir /\ disk[d][k] = Theirs
         /\ replace \/ \E i \in created : k = key[i]
ForeignKept == [][OthersKept]_outVars

\* All or nothing, as far as the file system lets it (APP.md, "File output"): saved means that
\* every file was written to an entry of its own, in one directory, and after a quit nothing
\* was written.  After a failure each file that this run made anew, the one half written
\* included, has been removed or its removal has failed; what it replaced stays replaced.
AllOrNothing ==
  /\ outStep = "saved" => /\ Len(wrote) = Len(payload)
                          /\ \A i, j \in DOMAIN wrote : wrote[i] = wrote[j] => i = j
                          /\ \A i \in DOMAIN wrote : wrote[i][1] = dir
  /\ outStep = "quit" => wrote = <<>>
  /\ outStep \in {"quit", "failed"} =>
       \A d \in Dirs, k \in Range(key), i \in DOMAIN payload :
         disk[d][k] = Fresh(i) => i \in stuck /\ d = dir /\ k = key[i]
=============================================================================
