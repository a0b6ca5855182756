---------------------------- MODULE ExportNames ----------------------------
(***************************************************************************)
(* The export-name policy (export_names.rs, and its twin export-names.js): *)
(* the names under which the command line writes a message's files, and    *)
(* the browser saves and zips them.                                        *)
(*                                                                         *)
(* A name is a sequence of characters.  A run of characters that the       *)
(* policy never looks into counts as one: a device name, and the mark      *)
(* " (n)" that numbers a copy.                                             *)
(***************************************************************************)
EXTENDS Integers, FiniteSets, SequencesExt

CONSTANTS Invalid,     \* the characters that no platform's names may have, and controls
          Devices,     \* the reserved device names, in lower case
          LowerOf,     \* the lower case of each character that has another one
          WidthOf,     \* the bytes of each character that has more than one
          MaxNameBytes

Dot == "."
Space == " "
Char(c) == <<c, 0>>
Mark(n) == <<"copy", n>>    \* " (n)"

LowerChar(c) == IF c[1] \in DOMAIN LowerOf THEN Char(LowerOf[c[1]]) ELSE c
Lower(name) == [i \in DOMAIN name |-> LowerChar(name[i])]

Characters == STRING \X Nat
Underscore == Char("_")
FileNumber(i) == <<"file-", i>>

\* No character of a mark, or of a name that the policy makes up, is replaced, folded or
\* reserved.
MadeUp == {"copy", "file-", "_"}

ASSUME NamesAssumption ==
  /\ MadeUp \subseteq STRING /\ Invalid \subseteq STRING \ (MadeUp \cup {Dot, Space})
  /\ "_" \notin Devices
  /\ DOMAIN LowerOf \subseteq STRING \ MadeUp
  /\ DOMAIN WidthOf \subseteq STRING \ MadeUp
  /\ \A c \in DOMAIN WidthOf : WidthOf[c] \in Nat \ {0}
  /\ MaxNameBytes \in Nat /\ MaxNameBytes > 6

\* The mark of a copy is its number with three characters around it.
Digits(n) == IF n < 10 THEN 1 ELSE IF n < 100 THEN 2 ELSE 3
Width(c) ==
  IF c[1] = "copy" THEN 3 + Digits(c[2]) ELSE IF c[1] \in DOMAIN WidthOf THEN WidthOf[c[1]] ELSE 1
Bytes(name) == Cardinality(UNION {{i} \X (1..Width(name[i])) : i \in DOMAIN name})

Truncate(name, room) ==
  LET fits == {n \in 0..Len(name) : Bytes(SubSeq(name, 1, n)) <= room}
  IN SubSeq(name, 1, CHOOSE n \in fits : \A k \in fits : k <= n)

\* Without the trailing characters of the set.
Trim(name, chars) ==
  LET kept == {n \in 0..Len(name) : n = 0 \/ name[n][1] \notin chars}
  IN SubSeq(name, 1, CHOOSE n \in kept : \A k \in kept : k <= n)
TrimEnd(name) == Trim(name, {Dot, Space})

Dots(name) == {i \in DOMAIN name : name[i] = Char(Dot)}

\* Up to the first dot: what Windows takes for a device, with or without an extension.
DeviceStem(name) ==
  LET stem == {n \in 0..Len(name) : \A i \in Dots(name) : n < i}
  IN Trim(SubSeq(name, 1, CHOOSE n \in stem : \A k \in stem : k <= n), {Space})
IsDevice(name) == Lower(DeviceStem(name)) \in {<<Char(d)>> : d \in Devices}

Sanitize(name, index) ==
  LET replaced == [i \in DOMAIN name |-> IF name[i][1] \in Invalid THEN Underscore ELSE name[i]]
      safe == TrimEnd(replaced)
      escaped == IF IsDevice(safe) THEN <<Underscore>> \o safe ELSE safe
  IN IF safe = <<>> THEN <<FileNumber(index)>> ELSE TrimEnd(Truncate(escaped, MaxNameBytes))

\* The extension from the last dot, unless that is the first character.
Extension(name) ==
  IF \E i \in Dots(name) : i > 1
  THEN SubSeq(name, CHOOSE i \in Dots(name) : \A k \in Dots(name) : k <= i, Len(name))
  ELSE <<>>

\* Copy n of a name; the extension is kept if a byte of the stem still fits beside it.
Copy(name, n) ==
  LET mark == <<Mark(n)>>
      extension == Extension(name)
      stem == SubSeq(name, 1, Len(name) - Len(extension))
  IN IF Bytes(mark) + Bytes(extension) < MaxNameBytes
     THEN Truncate(stem, MaxNameBytes - Bytes(mark) - Bytes(extension)) \o mark \o extension
     ELSE Truncate(name, MaxNameBytes - Bytes(mark)) \o mark

\* The code tries every number; a message's files, 256 at most, never need more.
Numbers == 2..999

\* Names are compared as they are written.
DisambiguateExact(name, used) ==
  IF name \notin used
  THEN name
  ELSE Copy(name, CHOOSE n \in Numbers : /\ Copy(name, n) \notin used
                                        /\ \A k \in 2..n - 1 : Copy(name, k) \in used)

\* The name itself or its first copy that is not in use, in whatever case.
Disambiguate(name, used) ==
  LET taken == {Lower(u) : u \in used}
  IN IF Lower(name) \notin taken
     THEN name
     ELSE Copy(name, CHOOSE n \in Numbers : /\ Lower(Copy(name, n)) \notin taken
                                           /\ \A k \in 2..n - 1 : Lower(Copy(name, k)) \in taken)

\* The export names of a list of original names, in order.
Exported(originals) ==
  LET names[i \in 0..Len(originals)] ==
        IF i = 0 THEN <<>>
        ELSE Append(names[i - 1],
                    Disambiguate(Sanitize(originals[i], i), ToSet(names[i - 1])))
  IN names[Len(originals)]

\* What every platform can create as one file in the directory it is given.
Portable(name) ==
  /\ name # <<>> /\ Bytes(name) <= MaxNameBytes
  /\ \A i \in DOMAIN name : name[i][1] \notin Invalid
  /\ name[Len(name)][1] \notin {Dot, Space}
  /\ ~IsDevice(name)
=============================================================================
