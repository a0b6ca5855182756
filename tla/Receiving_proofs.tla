-------------------------- MODULE Receiving_proofs --------------------------
(***************************************************************************)
(* For any number of pages, requests and files: recipients are told the    *)
(* truth, and the files of a message are saved all or not at all, over     *)
(* nothing that others left there.                                         *)
(***************************************************************************)
EXTENDS Receiving, FiniteSetTheorems, SequenceTheorems, WellFoundedInduction, TLAPS

-----------------------------------------------------------------------------
(***************************************************************************)
(* Export names: whatever the original names are, each export name is one  *)
(* that every platform can create, and no two of a message are one entry   *)
(* where case is ignored.                                                  *)
(***************************************************************************)
\* Every number, from zero on.
LEMMA EveryNumber ==
  ASSUME NEW S, 0 \in S, \A n \in Nat : n \in S => n + 1 \in S
  PROVE  Nat \subseteq S
  <1>1. SUFFICES ASSUME Nat \ S # {}
                 PROVE  FALSE
    OBVIOUS
  <1>2. PICK n \in Nat \ S : \A m \in Nat \ S : ~(<<m, n>> \in OpToRel(<, Nat))
    BY <1>1, WFMin, NatLessThanWellFounded
  <1>3. \A m \in Nat \ S : ~(m < n)
    BY <1>2, Zenon DEF OpToRel
  <1>4. n - 1 \in Nat /\ n - 1 < n /\ (n - 1) + 1 = n
    <2>1. n \in Nat /\ n # 0
      BY <1>2
    <2>2. QED
      BY <2>1
  <1>5. n - 1 \in S
    BY <1>3, <1>4
  <1>6. QED
    BY <1>2, <1>4, <1>5

LEMMA LeastOne ==
  ASSUME NEW S, S \subseteq Nat, S # {}
  PROVE  \E n \in S : \A m \in S : n <= m
  <1>1. PICK n \in S : \A m \in S : ~(<<m, n>> \in OpToRel(<, Nat))
    BY WFMin, NatLessThanWellFounded
  <1>2. \A m \in S : ~(m < n)
    BY <1>1, Zenon DEF OpToRel
  <1>3. QED
    BY <1>2

LEMMA GreatestOne ==
  ASSUME NEW top \in Nat, NEW S, S \subseteq 0..top, S # {}
  PROVE  LET g == CHOOSE m \in S : \A k \in S : k <= m
         IN  g \in S /\ \A k \in S : k <= g
  <1> DEFINE below == {top - k : k \in S}
  <1>1. below \subseteq Nat /\ below # {}
    <2>1. \A k \in S : k \in 0..top
      OBVIOUS
    <2>2. \A k \in S : top - k \in Nat
      BY <2>1
    <2>3. QED
      BY <2>2
  <1>2. PICK n \in below : \A m \in below : n <= m
    <2> HIDE DEF below
    <2>1. QED
      BY <1>1, LeastOne
  <1>3. PICK m \in S : n = top - m
    BY <1>2
  <1>4. ASSUME NEW k \in S
        PROVE  k <= m
    <2>1. top - k \in below /\ k \in 0..top /\ m \in 0..top
      OBVIOUS
    <2> HIDE DEF below
    <2>2. top - m <= top - k
      BY <1>2, <1>3, <2>1
    <2>3. QED
      BY <2>1, <2>2
  <1>5. QED
    BY <1>3, <1>4

-----------------------------------------------------------------------------
\* The characters that the policy makes up.
LEMMA MadeUpCharacters ==
  /\ Underscore \in Characters /\ Underscore[1] \notin Invalid \cup {Dot, Space}
  /\ LowerChar(Underscore) = Underscore /\ Width(Underscore) = 1
  /\ \A d \in Devices : Underscore # Char(d)
  /\ \A i \in Nat \ {0} :
       /\ FileNumber(i) \in Characters /\ FileNumber(i)[1] \notin Invalid \cup {Dot, Space}
       /\ LowerChar(FileNumber(i)) = FileNumber(i) /\ Width(FileNumber(i)) = 1
       /\ \A d : FileNumber(i) # Char(d)
  /\ \A n \in Numbers :
       /\ Mark(n) \in Characters /\ Mark(n)[1] \notin Invalid \cup {Dot, Space}
       /\ LowerChar(Mark(n)) = Mark(n) /\ Width(Mark(n)) = 3 + Digits(n) /\ Digits(n) \in 1..3
       /\ \A d : Mark(n) # Char(d)
  <1>1. \A c \in {"_", "file-", "copy"} : /\ c \in STRING /\ c \notin Invalid \cup {Dot, Space}
                                        /\ c \notin DOMAIN LowerOf
    BY NamesAssumption DEF MadeUp, Dot, Space
  <1>2. "_" # "copy" /\ "file-" # "copy"
    OBVIOUS
  <1>3. /\ Underscore \in Characters /\ Underscore[1] \notin Invalid \cup {Dot, Space}
        /\ LowerChar(Underscore) = Underscore /\ Width(Underscore) = 1
        /\ \A d \in Devices : Underscore # Char(d)
    <2>1. Underscore = <<"_", 0>> /\ Underscore[1] = "_"
      BY DEF Underscore, Char
    <2>2. Width(Underscore) = 1
      BY <1>2, <2>1, NamesAssumption DEF Width, MadeUp
    <2>3. \A d \in Devices : Underscore # Char(d)
      BY <2>1, NamesAssumption DEF Char
    <2>4. QED
      BY <1>1, <2>1, <2>2, <2>3 DEF LowerChar, Characters
  <1>4. ASSUME NEW i \in Nat \ {0}
        PROVE  /\ FileNumber(i) \in Characters /\ FileNumber(i)[1] \notin Invalid \cup {Dot, Space}
               /\ LowerChar(FileNumber(i)) = FileNumber(i) /\ Width(FileNumber(i)) = 1
               /\ \A d : FileNumber(i) # Char(d)
    <2>1. FileNumber(i) = <<"file-", i>> /\ FileNumber(i)[1] = "file-"
      BY DEF FileNumber
    <2>2. Width(FileNumber(i)) = 1
      BY <1>2, <2>1, NamesAssumption DEF Width, MadeUp
    <2>3. \A d : FileNumber(i) # Char(d)
      BY <2>1 DEF Char
    <2>4. FileNumber(i) \in Characters
      <3>1. "file-" \in STRING /\ i \in Nat
        BY <1>1
      <3>2. QED
        BY <2>1, <3>1 DEF Characters
    <2>5. LowerChar(FileNumber(i)) = FileNumber(i)
      BY <1>1, <2>1 DEF LowerChar
    <2>6. QED
      BY <1>1, <2>1, <2>2, <2>3, <2>4, <2>5
  <1>5. ASSUME NEW n \in Numbers
        PROVE  /\ Mark(n) \in Characters /\ Mark(n)[1] \notin Invalid \cup {Dot, Space}
               /\ LowerChar(Mark(n)) = Mark(n) /\ Width(Mark(n)) = 3 + Digits(n)
               /\ Digits(n) \in 1..3
               /\ \A d : Mark(n) # Char(d)
    <2>1. Mark(n) = <<"copy", n>> /\ Mark(n)[1] = "copy" /\ Mark(n)[2] = n
      BY DEF Mark
    <2>2. n \in Nat /\ n # 0
      BY DEF Numbers
    <2>3. Width(Mark(n)) = 3 + Digits(n) /\ Digits(n) \in 1..3
      <3>1. Width(Mark(n)) = 3 + Digits(n)
        BY <2>1 DEF Width
      <3>2. Digits(n) = 1 \/ Digits(n) = 2 \/ Digits(n) = 3
        BY DEF Digits
      <3>3. QED
        BY <3>1, <3>2
    <2>4. \A d : Mark(n) # Char(d)
      BY <2>1, <2>2 DEF Char
    <2>5. QED
      BY <1>1, <2>1, <2>2, <2>3, <2>4 DEF LowerChar, Characters
  <1>6. QED
    BY <1>3, <1>4, <1>5

LEMMA WidthType ==
  ASSUME NEW c \in Characters
  PROVE  Width(c) \in Nat \ {0}
  <1>1. \A n : 3 + Digits(n) \in Nat \ {0}
    BY DEF Digits
  <1>2. \A x \in DOMAIN WidthOf : WidthOf[x] \in Nat \ {0}
    BY NamesAssumption
  <1>3. QED
    BY <1>1, <1>2 DEF Width

\* The bytes of a name as a set: the position of the character, and which of its bytes.
Cells(name) == UNION {{i} \X (1..Width(name[i])) : i \in DOMAIN name}

LEMMA CellsAre ==
  ASSUME NEW name
  PROVE  /\ Bytes(name) = Cardinality(Cells(name))
         /\ \A u : u \in Cells(name)
                     <=> \E i \in DOMAIN name : \E b \in 1..Width(name[i]) : u = <<i, b>>
  BY DEF Bytes, Cells

LEMMA CellsFinite ==
  ASSUME NEW name \in Seq(Characters)
  PROVE  IsFiniteSet(Cells(name)) /\ Bytes(name) \in Nat
  <1> DEFINE each == [i \in DOMAIN name |-> {i} \X (1..Width(name[i]))]
             parts == {{i} \X (1..Width(name[i])) : i \in DOMAIN name}
  <1>1. IsFiniteSet(DOMAIN name)
    <2>1. DOMAIN name = 1..Len(name) /\ Len(name) \in Nat
      OBVIOUS
    <2>2. QED
      BY <2>1, FS_Interval
  <1>2. each \in Surjection(DOMAIN name, parts)
    BY DEF Surjection
  <1>3. IsFiniteSet(parts)
    BY <1>1, <1>2, FS_Surjection
  <1>4. ASSUME NEW i \in DOMAIN name
        PROVE  IsFiniteSet({i} \X (1..Width(name[i])))
    <2>1. Width(name[i]) \in Nat
      BY WidthType
    <2>2. IsFiniteSet({i}) /\ IsFiniteSet(1..Width(name[i]))
      <3>1. IsFiniteSet({i})
        BY FS_Singleton
      <3>2. 1 \in Int /\ Width(name[i]) \in Int
        BY <2>1
      <3>3. QED
        BY <3>1, <3>2, FS_Interval
    <2>3. QED
      BY <2>2, FS_Product
  <1>5. \A T \in parts : IsFiniteSet(T)
    BY <1>4
  <1>6. IsFiniteSet(UNION parts)
    <2> HIDE DEF parts
    <2>1. QED
      BY <1>3, <1>5, FS_UNION
  <1>7. QED
    BY <1>6, CellsAre, FS_CardinalityType DEF Cells

\* A name with fewer or narrower characters at the same places has no more bytes.
LEMMA FewerBytes ==
  ASSUME NEW a \in Seq(Characters), NEW b, DOMAIN b \subseteq DOMAIN a,
         \A i \in DOMAIN b : Width(b[i]) <= Width(a[i]) /\ Width(b[i]) \in Nat
  PROVE  Bytes(b) <= Bytes(a)
  <1>1. Cells(b) \subseteq Cells(a)
    <2> SUFFICES ASSUME NEW i \in DOMAIN b, NEW k \in 1..Width(b[i])
                 PROVE  <<i, k>> \in Cells(a)
      BY CellsAre
    <2>1. i \in DOMAIN a /\ k \in 1..Width(a[i])
      <3>1. Width(a[i]) \in Nat
        BY WidthType
      <3>2. QED
        BY <3>1
    <2>2. QED
      BY <2>1, CellsAre
  <1>2. QED
    BY <1>1, CellsFinite, CellsAre, FS_Subset

LEMMA BytesOfNone == Bytes(<<>>) = 0
  <1>1. Cells(<<>>) = {}
    BY CellsAre
  <1>2. QED
    BY <1>1, CellsAre, FS_EmptySet

LEMMA BytesOfOne ==
  ASSUME NEW c \in Characters
  PROVE  Bytes(<<c>>) = Width(c)
  <1>1. Width(c) \in Nat
    BY WidthType
  <1>2. Cells(<<c>>) = {1} \X (1..Width(c))
    BY DEF Cells
  <1>3. IsFiniteSet({1}) /\ Cardinality({1}) = 1
    BY FS_Singleton
  <1>4. IsFiniteSet(1..Width(c)) /\ Cardinality(1..Width(c)) = Width(c)
    BY <1>1, FS_Interval
  <1>5. Cardinality({1} \X (1..Width(c))) = Cardinality({1}) * Cardinality(1..Width(c))
    BY <1>3, <1>4, FS_Product
  <1>6. Bytes(<<c>>) = Cardinality(Cells(<<c>>))
    BY CellsAre
  <1>7. Bytes(<<c>>) = 1 * Width(c)
    BY <1>2, <1>3, <1>4, <1>5, <1>6
  <1>8. QED
    BY <1>1, <1>7

LEMMA BytesOfBoth ==
  ASSUME NEW a \in Seq(Characters), NEW b \in Seq(Characters)
  PROVE  Bytes(a \o b) <= Bytes(a) + Bytes(b)
  <1> DEFINE ab == a \o b
             n == Len(a)
             shift == [u \in Cells(b) |-> <<u[1] + n, u[2]>>]
             moved == {shift[u] : u \in Cells(b)}
  <1>1. /\ ab \in Seq(Characters) /\ Len(ab) = n + Len(b) /\ n \in Nat /\ Len(b) \in Nat
        /\ \A i \in 1..n + Len(b) : ab[i] = IF i <= n THEN a[i] ELSE b[i - n]
    BY ConcatProperties
  <1>2. /\ DOMAIN a = 1..n /\ DOMAIN b = 1..Len(b) /\ DOMAIN ab = 1..n + Len(b)
    BY <1>1
  <1> HIDE DEF ab, n
  <1>3. shift \in Surjection(Cells(b), moved)
    BY DEF Surjection
  <1>4. IsFiniteSet(Cells(b)) /\ IsFiniteSet(Cells(a))
    BY CellsFinite
  <1>5. IsFiniteSet(moved) /\ Cardinality(moved) <= Cardinality(Cells(b))
    BY <1>3, <1>4, FS_Surjection
  <1>6. Cells(ab) \subseteq Cells(a) \cup moved
    <2> SUFFICES ASSUME NEW i \in DOMAIN ab, NEW k \in 1..Width(ab[i])
                 PROVE  <<i, k>> \in Cells(a) \cup moved
      BY CellsAre
    <2>1. CASE i <= n
      <3>1. i \in DOMAIN a /\ ab[i] = a[i]
        BY <1>1, <1>2, <2>1
      <3>2. QED
        BY <3>1, CellsAre
    <2>2. CASE ~(i <= n)
      <3>1. i - n \in DOMAIN b /\ ab[i] = b[i - n] /\ (i - n) + n = i
        BY <1>1, <1>2, <2>2
      <3>2. <<i - n, k>> \in Cells(b)
        BY <3>1, CellsAre
      <3>3. shift[<<i - n, k>>] = <<i, k>>
        BY <3>1, <3>2
      <3>4. QED
        BY <3>2, <3>3
    <2>3. QED
      BY <2>1, <2>2
  <1> HIDE DEF shift, moved
  <1>7. /\ IsFiniteSet(Cells(a) \cup moved)
        /\ Cardinality(Cells(a) \cup moved)
             = Cardinality(Cells(a)) + Cardinality(moved) - Cardinality(Cells(a) \cap moved)
    BY <1>4, <1>5, FS_Union
  <1>8. /\ Cardinality(Cells(a)) \in Nat /\ Cardinality(moved) \in Nat
        /\ Cardinality(Cells(a) \cap moved) \in Nat /\ Cardinality(Cells(b)) \in Nat
    BY <1>4, <1>5, FS_CardinalityType, FS_Intersection
  <1>9. Cardinality(Cells(ab)) <= Cardinality(Cells(a) \cup moved)
        /\ Cardinality(Cells(ab)) \in Nat
    BY <1>6, <1>7, FS_Subset, FS_CardinalityType
  <1>10. QED
    BY <1>5, <1>7, <1>8, <1>9, CellsAre DEF ab

-----------------------------------------------------------------------------
LEMMA PrefixIs ==
  ASSUME NEW name \in Seq(Characters), NEW n \in 0..Len(name)
  PROVE  /\ SubSeq(name, 1, n) \in Seq(Characters) /\ Len(SubSeq(name, 1, n)) = n
         /\ DOMAIN SubSeq(name, 1, n) = 1..n
         /\ \A i \in 1..n : SubSeq(name, 1, n)[i] = name[i] /\ i \in DOMAIN name
  OBVIOUS

LEMMA PrefixBytes ==
  ASSUME NEW name \in Seq(Characters), NEW n \in 0..Len(name)
  PROVE  Bytes(SubSeq(name, 1, n)) <= Bytes(name)
  <1> DEFINE start == SubSeq(name, 1, n)
  <1>1. start \in Seq(Characters) /\ DOMAIN start = 1..n
        /\ \A i \in 1..n : start[i] = name[i] /\ i \in DOMAIN name
    BY PrefixIs
  <1>2. \A i \in DOMAIN name : Width(name[i]) \in Nat
    BY WidthType
  <1> HIDE DEF start
  <1>3. DOMAIN start \subseteq DOMAIN name
    BY <1>1
  <1>4. \A i \in DOMAIN start : Width(start[i]) <= Width(name[i]) /\ Width(start[i]) \in Nat
    BY <1>1, <1>2
  <1>5. Bytes(start) <= Bytes(name)
    BY <1>3, <1>4, FewerBytes
  <1>6. QED
    BY <1>5 DEF start

\* A name that fits is not cut, and one that does not is cut to what does.
LEMMA TruncateFits ==
  ASSUME NEW name \in Seq(Characters), NEW room \in Nat
  PROVE  /\ \E n \in 0..Len(name) : /\ Truncate(name, room) = SubSeq(name, 1, n)
                                    /\ Bytes(SubSeq(name, 1, n)) <= room
                                    /\ \A k \in 0..Len(name) :
                                         Bytes(SubSeq(name, 1, k)) <= room => k <= n
         /\ Bytes(name) <= room => Truncate(name, room) = name
  <1> DEFINE fits == {n \in 0..Len(name) : Bytes(SubSeq(name, 1, n)) <= room}
             g == CHOOSE n \in fits : \A k \in fits : k <= n
  <1>1. Len(name) \in Nat
    OBVIOUS
  <1>2. 0 \in fits
    <2>1. SubSeq(name, 1, 0) = <<>>
      BY SubSeqEmpty
    <2>2. Bytes(SubSeq(name, 1, 0)) = 0
      BY <2>1, BytesOfNone
    <2>3. 0 \in 0..Len(name) /\ 0 <= room
      BY <1>1
    <2>4. QED
      BY <2>2, <2>3
  <1>3. g \in fits /\ \A k \in fits : k <= g
    <2>1. fits \subseteq 0..Len(name)
      OBVIOUS
    <2> HIDE DEF fits
    <2>2. QED
      BY <1>1, <1>2, <2>1, GreatestOne
  <1>4. Truncate(name, room) = SubSeq(name, 1, g)
    BY DEF Truncate
  <1>5. ASSUME Bytes(name) <= room
        PROVE  Truncate(name, room) = name
    <2>1. SubSeq(name, 1, Len(name)) = name
      BY SubSeqFull
    <2>2. Len(name) \in fits
      <3>1. Bytes(SubSeq(name, 1, Len(name))) <= room
        BY <1>5, <2>1
      <3>2. Len(name) \in 0..Len(name)
        BY <1>1
      <3>3. QED
        BY <3>1, <3>2
    <2>3. g = Len(name)
      BY <1>1, <1>3, <2>2
    <2>4. QED
      BY <1>4, <2>1, <2>3
  <1> HIDE DEF g
  <1>6. QED
    BY <1>3, <1>4, <1>5

LEMMA TrimLeaves ==
  ASSUME NEW name \in Seq(Characters), NEW chars
  PROVE  \E n \in 0..Len(name) :
           /\ Trim(name, chars) = SubSeq(name, 1, n)
           /\ n = 0 \/ name[n][1] \notin chars
           /\ \A k \in 1..Len(name) : name[k][1] \notin chars => k <= n
  <1> DEFINE kept == {n \in 0..Len(name) : n = 0 \/ name[n][1] \notin chars}
             g == CHOOSE n \in kept : \A k \in kept : k <= n
  <1>1. Len(name) \in Nat
    OBVIOUS
  <1>2. g \in kept /\ \A k \in kept : k <= g
    <2>1. kept \subseteq 0..Len(name) /\ 0 \in kept
      BY <1>1
    <2> HIDE DEF kept
    <2>2. QED
      BY <1>1, <2>1, GreatestOne
  <1>3. Trim(name, chars) = SubSeq(name, 1, g)
    BY DEF Trim
  <1> HIDE DEF g
  <1>4. QED
    BY <1>1, <1>2, <1>3

\* Nothing is trimmed from a name that ends otherwise.
LEMMA TrimNothing ==
  ASSUME NEW name \in Seq(Characters), NEW chars, name # <<>>, name[Len(name)][1] \notin chars
  PROVE  Trim(name, chars) = name
  <1>1. Len(name) \in Nat \ {0}
    BY EmptySeq
  <1>2. PICK n \in 0..Len(name) :
          /\ Trim(name, chars) = SubSeq(name, 1, n)
          /\ \A k \in 1..Len(name) : name[k][1] \notin chars => k <= n
    BY TrimLeaves
  <1>3. n = Len(name)
    BY <1>1, <1>2
  <1>4. QED
    BY <1>2, <1>3, SubSeqFull

\* Where the stem of a device's name ends.
StemEnd(name) ==
  LET stem == {n \in 0..Len(name) : \A i \in Dots(name) : n < i}
  IN CHOOSE n \in stem : \A k \in stem : k <= n

LEMMA StemEndIs ==
  ASSUME NEW name \in Seq(Characters)
  PROVE  /\ StemEnd(name) \in 0..Len(name)
         /\ \A i \in Dots(name) : StemEnd(name) < i
         /\ \A k \in 0..Len(name) : (\A i \in Dots(name) : k < i) => k <= StemEnd(name)
         /\ DeviceStem(name) = Trim(SubSeq(name, 1, StemEnd(name)), {Space})
  <1> DEFINE stem == {n \in 0..Len(name) : \A i \in Dots(name) : n < i}
             g == CHOOSE n \in stem : \A k \in stem : k <= n
  <1>1. Len(name) \in Nat /\ DOMAIN name = 1..Len(name)
    OBVIOUS
  <1>2. 0 \in stem
    BY <1>1 DEF Dots
  <1>3. g \in stem /\ \A k \in stem : k <= g
    <2>1. stem \subseteq 0..Len(name)
      OBVIOUS
    <2> HIDE DEF stem
    <2>2. QED
      BY <1>1, <1>2, <2>1, GreatestOne
  <1>4. StemEnd(name) = g /\ DeviceStem(name) = Trim(SubSeq(name, 1, g), {Space})
    BY DEF StemEnd, DeviceStem
  <1> HIDE DEF g
  <1>5. QED
    BY <1>3, <1>4

\* A device's name is one character up to its first dot or space, and that is the device's.
LEMMA DeviceShape ==
  ASSUME NEW name \in Seq(Characters), IsDevice(name)
  PROVE  \E d \in Devices : /\ Len(name) >= 1 /\ StemEnd(name) >= 1
                            /\ LowerChar(name[1]) = Char(d)
                            /\ \A i \in 2..StemEnd(name) : name[i][1] = Space
  <1>1. PICK d \in Devices : Lower(DeviceStem(name)) = <<Char(d)>>
    BY DEF IsDevice
  <1> DEFINE e == StemEnd(name)
             start == SubSeq(name, 1, e)
  <1>2. e \in 0..Len(name) /\ DeviceStem(name) = Trim(start, {Space}) /\ Len(name) \in Nat
    <2>1. Len(name) \in Nat
      OBVIOUS
    <2>2. QED
      BY <2>1, StemEndIs, Zenon
  <1>3. start \in Seq(Characters) /\ Len(start) = e /\ \A i \in 1..e : start[i] = name[i]
    BY <1>2, PrefixIs
  <1> HIDE DEF e, start
  <1>4. PICK n \in 0..Len(start) :
          /\ Trim(start, {Space}) = SubSeq(start, 1, n)
          /\ \A k \in 1..Len(start) : start[k][1] \notin {Space} => k <= n
    BY <1>3, TrimLeaves
  <1>5. SubSeq(start, 1, n) \in Seq(Characters) /\ DOMAIN SubSeq(start, 1, n) = 1..n
        /\ \A i \in 1..n : SubSeq(start, 1, n)[i] = start[i]
    BY <1>3, PrefixIs
  <1>6. Lower(SubSeq(start, 1, n)) = <<Char(d)>>
    BY <1>1, <1>2, <1>4
  <1>7. n = 1 /\ LowerChar(start[1]) = Char(d)
    <2>1. DOMAIN <<Char(d)>> = 1..1 /\ <<Char(d)>>[1] = Char(d)
      OBVIOUS
    <2>2. DOMAIN Lower(SubSeq(start, 1, n)) = 1..n
      BY <1>5 DEF Lower
    <2>3. 1..n = 1..1 /\ n \in Nat
      <3>1. DOMAIN Lower(SubSeq(start, 1, n)) = DOMAIN <<Char(d)>>
        BY <1>6
      <3>2. 1..n = 1..1
        BY <2>1, <2>2, <3>1, Zenon
      <3>3. QED
        BY <1>2, <1>3, <3>2
    <2>4. n = 1
      <3>1. 1 \in 1..n /\ n + 1 \notin 1..n
        BY <2>3
      <3>2. n + 1 \notin 1..1 /\ n \in Nat /\ n >= 1
        BY <2>3, <3>1
      <3>3. ~(n > 1)
        BY <2>3
      <3>4. QED
        BY <3>2, <3>3
    <2>5. Lower(SubSeq(start, 1, n))[1] = LowerChar(SubSeq(start, 1, n)[1])
      BY <1>5, <2>4 DEF Lower
    <2>6. QED
      BY <1>5, <1>6, <2>1, <2>4, <2>5
  <1>8. \A i \in 2..e : name[i][1] = Space
    <2>1. \A k \in 1..e : start[k][1] # Space => k <= 1
      BY <1>3, <1>4, <1>7
    <2>2. QED
      BY <1>2, <1>3, <2>1
  <1>9. QED
    BY <1>2, <1>3, <1>7, <1>8 DEF e

\* What comes out of sanitize can be created everywhere.
LEMMA SanitizePortable ==
  ASSUME NEW name \in Seq(Characters), Bytes(name) <= MaxNameBytes, NEW index \in Nat \ {0}
  PROVE  Sanitize(name, index) \in Seq(Characters) /\ Portable(Sanitize(name, index))
  <1> DEFINE replaced == [i \in DOMAIN name |->
                            IF name[i][1] \in Invalid THEN Underscore ELSE name[i]]
             safe == TrimEnd(replaced)
             escaped == <<Underscore>> \o safe
  <1>1. MaxNameBytes \in Nat /\ MaxNameBytes > 6 /\ Bytes(name) \in Nat
    BY NamesAssumption, CellsFinite
  <1>2. /\ replaced \in Seq(Characters) /\ DOMAIN replaced = DOMAIN name
        /\ \A i \in DOMAIN replaced : replaced[i][1] \notin Invalid
    <2>1. \A i \in DOMAIN name : name[i] \in Characters
      OBVIOUS
    <2>2. Underscore \in Characters /\ Underscore[1] \notin Invalid
      BY MadeUpCharacters
    <2>3. DOMAIN name = 1..Len(name) /\ Len(name) \in Nat
      OBVIOUS
    <2>4. replaced \in [1..Len(name) -> Characters]
      BY <2>1, <2>2, <2>3
    <2>5. replaced \in Seq(Characters)
      BY <2>3, <2>4
    <2>6. \A i \in DOMAIN name : replaced[i][1] \notin Invalid
      BY <2>2
    <2>7. QED
      BY <2>5, <2>6
  <1>3. Bytes(replaced) <= Bytes(name)
    <2>1. ASSUME NEW i \in DOMAIN name
          PROVE  Width(replaced[i]) <= Width(name[i]) /\ Width(replaced[i]) \in Nat
      <3>1. Width(name[i]) \in Nat \ {0} /\ Width(Underscore) = 1
        BY WidthType, MadeUpCharacters
      <3>2. replaced[i] = Underscore \/ replaced[i] = name[i]
        OBVIOUS
      <3> HIDE DEF replaced
      <3>3. QED
        BY <3>1, <3>2
    <2> HIDE DEF replaced
    <2>2. QED
      BY <1>2, <2>1, FewerBytes
  <1> HIDE DEF replaced
  <1>4. PICK n \in 0..Len(replaced) :
          /\ safe = SubSeq(replaced, 1, n)
          /\ n = 0 \/ replaced[n][1] \notin {Dot, Space}
    BY <1>2, TrimLeaves DEF TrimEnd
  <1>5. /\ safe \in Seq(Characters) /\ Len(safe) = n /\ DOMAIN safe = 1..n
        /\ \A i \in 1..n : safe[i] = replaced[i] /\ safe[i][1] \notin Invalid
        /\ Bytes(safe) <= MaxNameBytes
    <2>1. /\ safe \in Seq(Characters) /\ Len(safe) = n /\ DOMAIN safe = 1..n
          /\ \A i \in 1..n : safe[i] = replaced[i] /\ i \in DOMAIN replaced
      BY <1>2, <1>4, PrefixIs
    <2>2. Bytes(safe) <= Bytes(replaced)
      BY <1>2, <1>4, PrefixBytes
    <2>3. Bytes(safe) \in Nat /\ Bytes(replaced) \in Nat
      BY <1>2, <2>1, CellsFinite
    <2> HIDE DEF safe
    <2>4. QED
      BY <1>1, <1>2, <1>3, <2>1, <2>2, <2>3
  <1>6. n \in Nat /\ (safe = <<>> <=> n = 0)
    <2>1. Len(replaced) \in Nat
      BY <1>2
    <2>2. QED
      BY <1>4, <1>5, <2>1
  <1>7. n # 0 => safe[Len(safe)][1] \notin {Dot, Space}
    BY <1>4, <1>5, <1>6
  <1>8. Sanitize(name, index)
          = IF safe = <<>> THEN <<FileNumber(index)>>
            ELSE TrimEnd(Truncate(IF IsDevice(safe) THEN escaped ELSE safe, MaxNameBytes))
    BY DEF Sanitize, replaced
  <1> HIDE DEF safe
  <1>9. CASE safe = <<>>
    <2> DEFINE made == <<FileNumber(index)>>
    <2>1. /\ FileNumber(index) \in Characters /\ FileNumber(index)[1] \notin Invalid \cup {Dot, Space}
          /\ LowerChar(FileNumber(index)) = FileNumber(index) /\ Width(FileNumber(index)) = 1
          /\ \A d : FileNumber(index) # Char(d)
      BY MadeUpCharacters
    <2>2. made \in Seq(Characters) /\ Len(made) = 1 /\ made[1] = FileNumber(index)
          /\ DOMAIN made = 1..1 /\ made # <<>>
      BY <2>1
    <2>3. Bytes(made) = 1
      BY <2>1, BytesOfOne
    <2> HIDE DEF made
    <2>4. ~IsDevice(made)
      BY <2>1, <2>2, DeviceShape
    <2>5. Portable(made)
      BY <1>1, <2>1, <2>2, <2>3, <2>4 DEF Portable
    <2>6. QED
      BY <1>8, <1>9, <2>2, <2>5 DEF made
  <1>10. CASE safe # <<>> /\ ~IsDevice(safe)
    <2>1. Truncate(safe, MaxNameBytes) = safe
      BY <1>1, <1>5, TruncateFits
    <2>2. TrimEnd(safe) = safe
      BY <1>5, <1>6, <1>7, <1>10, TrimNothing DEF TrimEnd
    <2>3. Portable(safe)
      BY <1>5, <1>6, <1>7, <1>10 DEF Portable
    <2>4. Sanitize(name, index) = safe
      BY <1>8, <1>10, <2>1, <2>2
    <2>5. QED
      BY <1>5, <2>3, <2>4
  <1>11. CASE safe # <<>> /\ IsDevice(safe)
    <2>1. /\ Underscore \in Characters /\ Underscore[1] \notin Invalid \cup {Dot, Space}
          /\ LowerChar(Underscore) = Underscore /\ Width(Underscore) = 1
          /\ \A d \in Devices : Underscore # Char(d)
      BY MadeUpCharacters
    <2>2. <<Underscore>> \in Seq(Characters) /\ Len(<<Underscore>>) = 1
          /\ <<Underscore>>[1] = Underscore
      BY <2>1
    <2>3. /\ escaped \in Seq(Characters) /\ Len(escaped) = n + 1 /\ escaped[1] = Underscore
          /\ \A i \in 1..n + 1 : escaped[i][1] \notin Invalid
      <3>1. /\ escaped \in Seq(Characters) /\ Len(escaped) = 1 + n
            /\ \A i \in 1..1 + n :
                 escaped[i] = IF i <= 1 THEN <<Underscore>>[i] ELSE safe[i - 1]
        BY <1>5, <2>2, ConcatProperties
      <3> HIDE DEF escaped
      <3>2. escaped[1] = Underscore
        BY <1>6, <2>2, <3>1
      <3>3. \A i \in 2..1 + n : escaped[i] = safe[i - 1] /\ i - 1 \in 1..n
        BY <1>6, <3>1
      <3>4. QED
        BY <1>5, <1>6, <2>1, <3>1, <3>2, <3>3
    <2> HIDE DEF escaped
    <2>4. PICK m \in 0..Len(escaped) :
            /\ Truncate(escaped, MaxNameBytes) = SubSeq(escaped, 1, m)
            /\ Bytes(SubSeq(escaped, 1, m)) <= MaxNameBytes
            /\ \A k \in 0..Len(escaped) : Bytes(SubSeq(escaped, 1, k)) <= MaxNameBytes => k <= m
      BY <1>1, <2>3, TruncateFits
    <2> DEFINE cut == SubSeq(escaped, 1, m)
    <2>5. m >= 1
      <3>1. 1 \in 0..Len(escaped)
        BY <1>6, <2>3
      <3>2. SubSeq(escaped, 1, 1) = <<Underscore>>
        <4>1. /\ SubSeq(escaped, 1, 1) \in Seq(Characters) /\ Len(SubSeq(escaped, 1, 1)) = 1
              /\ \A i \in 1..1 : SubSeq(escaped, 1, 1)[i] = escaped[i]
          BY <2>3, <3>1, PrefixIs
        <4>2. \A i \in 1..1 : SubSeq(escaped, 1, 1)[i] = <<Underscore>>[i]
          BY <2>2, <2>3, <4>1
        <4>3. QED
          BY <2>2, <4>1, <4>2, SeqEqual
      <3>3. Bytes(SubSeq(escaped, 1, 1)) = 1
        BY <2>1, <3>2, BytesOfOne
      <3>4. QED
        BY <1>1, <2>4, <3>1, <3>3
    <2>6. /\ cut \in Seq(Characters) /\ Len(cut) = m
          /\ \A i \in 1..m : cut[i] = escaped[i] /\ cut[i][1] \notin Invalid
      <3>1. /\ cut \in Seq(Characters) /\ Len(cut) = m
            /\ \A i \in 1..m : cut[i] = escaped[i]
        BY <2>3, PrefixIs
      <3>2. \A i \in 1..m : i \in 1..n + 1
        BY <1>6, <2>3
      <3>3. QED
        BY <2>3, <3>1, <3>2
    <2>7. Bytes(cut) <= MaxNameBytes /\ Truncate(escaped, MaxNameBytes) = cut
      BY <2>4
    <2> HIDE DEF cut
    <2>8. PICK j \in 0..Len(cut) :
            /\ Trim(cut, {Dot, Space}) = SubSeq(cut, 1, j)
            /\ j = 0 \/ cut[j][1] \notin {Dot, Space}
            /\ \A k \in 1..Len(cut) : cut[k][1] \notin {Dot, Space} => k <= j
      BY <2>6, TrimLeaves
    <2> DEFINE done == SubSeq(cut, 1, j)
    <2>9. m \in Nat /\ j \in Nat /\ j >= 1 /\ j <= m
      <3>1. m \in Nat /\ 1 \in 1..Len(cut) /\ cut[1] = Underscore
        BY <1>6, <2>3, <2>5, <2>6
      <3>2. 1 <= j
        BY <2>1, <2>8, <3>1
      <3>3. Len(cut) = m
        BY <2>6
      <3>4. j \in 0..m
        BY <3>3
      <3>5. QED
        BY <3>1, <3>2, <3>4
    <2>10. /\ done \in Seq(Characters) /\ Len(done) = j /\ DOMAIN done = 1..j
           /\ \A i \in 1..j : done[i] = cut[i]
           /\ Bytes(done) <= Bytes(cut)
      BY <2>6, PrefixIs, PrefixBytes
    <2>11. Sanitize(name, index) = done
      BY <1>8, <1>11, <2>7, <2>8 DEF TrimEnd
    <2> HIDE DEF done
    <2>12. ~IsDevice(done)
      <3>1. done[1] = Underscore
        <4>1. 1 \in 1..j /\ 1 \in 1..m
          BY <2>9
        <4>2. done[1] = cut[1] /\ cut[1] = escaped[1]
          BY <2>6, <2>10, <4>1
        <4>3. QED
          BY <2>3, <4>2
      <3>2. QED
        BY <2>1, <2>10, <3>1, DeviceShape
    <2>13. Bytes(done) <= MaxNameBytes
      BY <1>1, <2>6, <2>7, <2>10, CellsFinite
    <2>14. done # <<>> /\ done[Len(done)][1] \notin {Dot, Space}
      BY <2>8, <2>9, <2>10
    <2>15. \A i \in DOMAIN done : done[i][1] \notin Invalid
      BY <2>6, <2>9, <2>10
    <2>16. Portable(done)
      BY <2>12, <2>13, <2>14, <2>15 DEF Portable
    <2>17. QED
      BY <2>10, <2>11, <2>16
  <1>12. QED
    BY <1>9, <1>10, <1>11

-----------------------------------------------------------------------------
\* The parts of a copy depend on how wide its mark is, and on nothing else of its number.
KeepsExtension(name, w) == w + Bytes(Extension(name)) < MaxNameBytes
CopyStem(name, w) ==
  IF KeepsExtension(name, w)
  THEN Truncate(SubSeq(name, 1, Len(name) - Len(Extension(name))),
                MaxNameBytes - w - Bytes(Extension(name)))
  ELSE Truncate(name, MaxNameBytes - w)
CopyTail(name, w) == IF KeepsExtension(name, w) THEN Extension(name) ELSE <<>>

LEMMA ExtensionIs ==
  ASSUME NEW name \in Seq(Characters)
  PROVE  /\ Extension(name) \in Seq(Characters)
         /\ \/ Extension(name) = <<>>
            \/ \E e \in 2..Len(name) :
                 /\ Extension(name) = SubSeq(name, e, Len(name))
                 /\ Len(Extension(name)) = Len(name) - e + 1
                 /\ \A j \in 1..Len(name) - e + 1 : Extension(name)[j] = name[e + j - 1]
  <1>1. Len(name) \in Nat /\ DOMAIN name = 1..Len(name)
    OBVIOUS
  <1>2. CASE \E i \in Dots(name) : i > 1
    <2> DEFINE e == CHOOSE i \in Dots(name) : \A k \in Dots(name) : k <= i
    <2>1. e \in Dots(name) /\ \A k \in Dots(name) : k <= e
      <3>1. Dots(name) \subseteq 0..Len(name) /\ Dots(name) # {}
        BY <1>1, <1>2 DEF Dots
      <3>2. QED
        BY <1>1, <3>1, GreatestOne
    <2>2. Extension(name) = SubSeq(name, e, Len(name))
      BY <1>2 DEF Extension
    <2> HIDE DEF e
    <2>3. e \in 2..Len(name)
      <3>1. e \in 1..Len(name) /\ \A k \in Dots(name) : k \in 1..Len(name)
        BY <1>1, <2>1 DEF Dots
      <3>2. e > 1
        BY <1>2, <2>1, <3>1
      <3>3. QED
        BY <3>1, <3>2
    <2>4. /\ SubSeq(name, e, Len(name)) \in Seq(Characters)
          /\ Len(SubSeq(name, e, Len(name))) = Len(name) - e + 1
          /\ \A j \in 1..Len(name) - e + 1 : SubSeq(name, e, Len(name))[j] = name[e + j - 1]
      <3>1. \A i \in e..Len(name) : name[i] \in Characters
        BY <1>1, <2>3
      <3>2. QED
        BY <1>1, <2>3, <3>1, SubSeqProperties
    <2>5. QED
      BY <2>2, <2>3, <2>4
  <1>3. CASE ~ \E i \in Dots(name) : i > 1
    BY <1>3 DEF Extension
  <1>4. QED
    BY <1>2, <1>3

\* The two parts are a start of the name and its end, apart, and fit beside the mark.
LEMMA CopyParts ==
  ASSUME NEW name \in Seq(Characters), NEW w \in 4..6
  PROVE  \E p \in 0..Len(name) :
           /\ CopyStem(name, w) = SubSeq(name, 1, p)
           /\ CopyTail(name, w) \in Seq(Characters)
           /\ \/ CopyTail(name, w) = <<>>
              \/ \E e \in p + 1..Len(name) :
                   /\ Len(CopyTail(name, w)) = Len(name) - e + 1
                   /\ \A j \in 1..Len(name) - e + 1 : CopyTail(name, w)[j] = name[e + j - 1]
           /\ Bytes(SubSeq(name, 1, p)) + w + Bytes(CopyTail(name, w)) <= MaxNameBytes
  <1>1. Len(name) \in Nat /\ MaxNameBytes \in Nat /\ MaxNameBytes > 6
    <2>1. Len(name) \in Nat
      OBVIOUS
    <2>2. QED
      BY <2>1, NamesAssumption
  <1>2. Extension(name) \in Seq(Characters) /\ Bytes(Extension(name)) \in Nat
    BY ExtensionIs, CellsFinite
  <1>3. CASE ~KeepsExtension(name, w)
    <2>1. PICK p \in 0..Len(name) : /\ Truncate(name, MaxNameBytes - w) = SubSeq(name, 1, p)
                                    /\ Bytes(SubSeq(name, 1, p)) <= MaxNameBytes - w
      <3>1. MaxNameBytes - w \in Nat
        BY <1>1
      <3>2. QED
        BY <3>1, TruncateFits
    <2>2. CopyStem(name, w) = SubSeq(name, 1, p) /\ CopyTail(name, w) = <<>>
      BY <1>3, <2>1 DEF CopyStem, CopyTail
    <2>3. Bytes(SubSeq(name, 1, p)) \in Nat
      BY PrefixIs, CellsFinite
    <2>4. Bytes(SubSeq(name, 1, p)) + w + Bytes(CopyTail(name, w)) <= MaxNameBytes
      BY <1>1, <2>1, <2>2, <2>3, BytesOfNone
    <2>5. QED
      BY <2>2, <2>4
  <1>4. CASE KeepsExtension(name, w)
    <2>1. PICK x : x = Extension(name)
      OBVIOUS
    <2>2. CopyTail(name, w) = x /\ x \in Seq(Characters) /\ Bytes(x) \in Nat
          /\ w + Bytes(x) < MaxNameBytes
      BY <1>2, <1>4, <2>1 DEF CopyTail, KeepsExtension
    <2>3. PICK q \in 0..Len(name) :
            /\ q = Len(name) - Len(x)
            /\ \/ x = <<>>
               \/ /\ q + 1 \in 2..Len(name) /\ Len(x) = Len(name) - q
                  /\ \A j \in 1..Len(name) - q : x[j] = name[(q + 1) + j - 1]
      <3>1. CASE x = <<>>
        <4>1. Len(name) = Len(name) - Len(x) /\ Len(name) \in 0..Len(name)
          BY <1>1, <3>1
        <4>2. QED
          BY <3>1, <4>1
      <3>2. CASE x # <<>>
        <4>1. PICK e \in 2..Len(name) : /\ Len(x) = Len(name) - e + 1
                                        /\ \A j \in 1..Len(name) - e + 1 : x[j] = name[e + j - 1]
          BY <2>1, <3>2, ExtensionIs
        <4>2. PICK q : q = e - 1
          OBVIOUS
        <4>3. /\ q \in 0..Len(name) /\ q = Len(name) - Len(x) /\ q + 1 = e
              /\ Len(name) - e + 1 = Len(name) - q
          BY <1>1, <4>1, <4>2
        <4>4. QED
          BY <4>1, <4>3
      <3>3. QED
        BY <3>1, <3>2
    <2>4. SubSeq(name, 1, q) \in Seq(Characters) /\ Len(SubSeq(name, 1, q)) = q
      BY PrefixIs
    <2>5. PICK room : room = MaxNameBytes - w - Bytes(x)
      OBVIOUS
    <2>6. room \in Nat
      BY <1>1, <2>2, <2>5
    <2>7. PICK p \in 0..q : /\ Truncate(SubSeq(name, 1, q), room) = SubSeq(SubSeq(name, 1, q), 1, p)
                            /\ Bytes(SubSeq(SubSeq(name, 1, q), 1, p)) <= room
      BY <2>4, <2>6, TruncateFits
    <2>8. SubSeq(SubSeq(name, 1, q), 1, p) = SubSeq(name, 1, p) /\ p \in 0..Len(name)
      <3>1. p \in 0..Len(name) /\ p \in 0..Len(SubSeq(name, 1, q))
        BY <1>1, <2>3, <2>4, <2>7
      <3>2. /\ SubSeq(name, 1, p) \in Seq(Characters) /\ Len(SubSeq(name, 1, p)) = p
            /\ \A i \in 1..p : SubSeq(name, 1, p)[i] = name[i]
        BY <3>1, PrefixIs
      <3>3. /\ SubSeq(SubSeq(name, 1, q), 1, p) \in Seq(Characters)
            /\ Len(SubSeq(SubSeq(name, 1, q), 1, p)) = p
            /\ \A i \in 1..p : SubSeq(SubSeq(name, 1, q), 1, p)[i] = SubSeq(name, 1, q)[i]
        BY <2>4, <3>1, PrefixIs
      <3>4. \A i \in 1..p : SubSeq(name, 1, q)[i] = name[i]
        <4>1. \A i \in 1..q : SubSeq(name, 1, q)[i] = name[i]
          BY <2>3, PrefixIs
        <4>2. \A i \in 1..p : i \in 1..q
          BY <2>3, <2>7
        <4>3. QED
          BY <4>1, <4>2
      <3>5. \A i \in 1..p : SubSeq(SubSeq(name, 1, q), 1, p)[i] = SubSeq(name, 1, p)[i]
        BY <3>2, <3>3, <3>4
      <3>6. QED
        BY <3>1, <3>2, <3>3, <3>5, SeqEqual
    <2>9. CopyStem(name, w) = SubSeq(name, 1, p)
      BY <1>4, <2>1, <2>3, <2>5, <2>7, <2>8 DEF CopyStem
    <2>10. Bytes(SubSeq(name, 1, p)) \in Nat
      BY <2>8, PrefixIs, CellsFinite
    <2>11. Bytes(SubSeq(name, 1, p)) + w + Bytes(x) <= MaxNameBytes
      <3>1. Bytes(SubSeq(name, 1, p)) <= room
        BY <2>7, <2>8
      <3>2. PICK b, y : b = Bytes(SubSeq(name, 1, p)) /\ y = Bytes(x)
        OBVIOUS
      <3>3. b \in Nat /\ y \in Nat /\ b <= MaxNameBytes - w - y
        BY <2>2, <2>5, <2>10, <3>1, <3>2
      <3>4. b + w + y <= MaxNameBytes
        BY <1>1, <3>3
      <3>5. QED
        BY <3>2, <3>4
    <2>12. \/ x = <<>>
           \/ \E e \in p + 1..Len(name) :
                /\ Len(x) = Len(name) - e + 1
                /\ \A j \in 1..Len(name) - e + 1 : x[j] = name[e + j - 1]
      <3>1. CASE x # <<>>
        <4>1. PICK e : e = q + 1
          OBVIOUS
        <4>2. e \in p + 1..Len(name) /\ Len(name) - e + 1 = Len(name) - q
          BY <1>1, <2>3, <2>7, <3>1, <4>1
        <4>3. QED
          BY <2>3, <3>1, <4>1, <4>2
      <3>2. QED
        BY <3>1
    <2>13. QED
      BY <2>2, <2>8, <2>9, <2>11, <2>12
  <1>5. QED
    BY <1>3, <1>4

LEMMA CopyIs ==
  ASSUME NEW name \in Seq(Characters), NEW n \in Numbers
  PROVE  LET w == 3 + Digits(n)
         IN  /\ w \in 4..6
             /\ Copy(name, n) = CopyStem(name, w) \o <<Mark(n)>> \o CopyTail(name, w)
  <1> DEFINE w == 3 + Digits(n)
  <1>1. Mark(n) \in Characters /\ Width(Mark(n)) = w /\ Digits(n) \in 1..3
    BY MadeUpCharacters
  <1>2. w \in 4..6
    BY <1>1
  <1>3. Bytes(<<Mark(n)>>) = w
    BY <1>1, BytesOfOne
  <1> HIDE DEF w
  <1>4. CASE KeepsExtension(name, w)
    <2>1. Copy(name, n) = CopyStem(name, w) \o <<Mark(n)>> \o CopyTail(name, w)
      BY <1>3, <1>4 DEF Copy, CopyStem, CopyTail, KeepsExtension
    <2>2. QED
      BY <1>2, <2>1 DEF w
  <1>5. CASE ~KeepsExtension(name, w)
    <2>1. Copy(name, n) = CopyStem(name, w) \o <<Mark(n)>>
      BY <1>3, <1>5 DEF Copy, CopyStem, KeepsExtension
    <2>2. CopyTail(name, w) = <<>>
      BY <1>5 DEF CopyTail
    <2>3. CopyStem(name, w) \in Seq(Characters)
      <3>1. PICK p \in 0..Len(name) : CopyStem(name, w) = SubSeq(name, 1, p)
        BY <1>2, CopyParts
      <3>2. QED
        BY <3>1, PrefixIs
    <2>4. CopyStem(name, w) \o <<Mark(n)>> \in Seq(Characters)
      BY <1>1, <2>3
    <2>5. CopyStem(name, w) \o <<Mark(n)>> \o CopyTail(name, w) = CopyStem(name, w) \o <<Mark(n)>>
      BY <2>2, <2>4, ConcatEmptySeq
    <2>6. QED
      BY <1>2, <2>1, <2>5 DEF w
  <1>6. QED
    BY <1>4, <1>5

\* A copy, character by character.
LEMMA CopyShape ==
  ASSUME NEW name \in Seq(Characters), NEW n \in Numbers, NEW w, w = 3 + Digits(n),
         NEW p \in 0..Len(name), CopyStem(name, w) = SubSeq(name, 1, p),
         CopyTail(name, w) \in Seq(Characters),
         Bytes(SubSeq(name, 1, p)) + w + Bytes(CopyTail(name, w)) <= MaxNameBytes
  PROVE  /\ Copy(name, n) \in Seq(Characters)
         /\ Len(Copy(name, n)) = p + 1 + Len(CopyTail(name, w))
         /\ \A i \in 1..p : Copy(name, n)[i] = name[i]
         /\ Copy(name, n)[p + 1] = Mark(n)
         /\ \A j \in 1..Len(CopyTail(name, w)) :
              Copy(name, n)[p + 1 + j] = CopyTail(name, w)[j]
         /\ Bytes(Copy(name, n)) <= MaxNameBytes
  <1>1. PICK start, mark, tail, c : /\ start = SubSeq(name, 1, p) /\ mark = <<Mark(n)>>
                                    /\ tail = CopyTail(name, w) /\ c = Copy(name, n)
    OBVIOUS
  <1>2. Mark(n) \in Characters /\ Width(Mark(n)) = w /\ w \in 4..6 /\ MaxNameBytes \in Nat
    BY MadeUpCharacters, CopyIs, NamesAssumption
  <1>3. /\ start \in Seq(Characters) /\ Len(start) = p /\ \A i \in 1..p : start[i] = name[i]
        /\ mark \in Seq(Characters) /\ Len(mark) = 1 /\ mark[1] = Mark(n) /\ Bytes(mark) = w
        /\ tail \in Seq(Characters) /\ Len(tail) \in Nat /\ p \in Nat
    <2>1. /\ start \in Seq(Characters) /\ Len(start) = p /\ \A i \in 1..p : start[i] = name[i]
      BY <1>1, PrefixIs
    <2>2. mark \in Seq(Characters) /\ Len(mark) = 1 /\ mark[1] = Mark(n)
      BY <1>1, <1>2
    <2>3. Bytes(mark) = w
      BY <1>1, <1>2, BytesOfOne
    <2>4. tail \in Seq(Characters) /\ Len(tail) \in Nat
      <3>1. tail \in Seq(Characters)
        BY <1>1, Zenon
      <3>2. QED
        BY <3>1, LenProperties
    <2>5. p \in Nat
      <3>1. Len(name) \in Nat
        OBVIOUS
      <3>2. QED
        BY <3>1
    <2>6. QED
      BY <2>1, <2>2, <2>3, <2>4, <2>5, Zenon
  <1>4. c = start \o mark \o tail
    BY <1>1, CopyIs
  <1>5. PICK front : front = start \o mark
    OBVIOUS
  <1>6. /\ front \in Seq(Characters) /\ Len(front) = p + 1
        /\ \A i \in 1..p + 1 : front[i] = IF i <= p THEN start[i] ELSE mark[i - p]
    <2>1. start \in Seq(Characters) /\ mark \in Seq(Characters)
      BY <1>3
    <2>2. /\ start \o mark \in Seq(Characters) /\ Len(start \o mark) = Len(start) + Len(mark)
          /\ \A i \in 1..Len(start) + Len(mark) :
               (start \o mark)[i] = IF i <= Len(start) THEN start[i] ELSE mark[i - Len(start)]
      BY <2>1, ConcatProperties
    <2>3. /\ start \o mark \in Seq(Characters) /\ Len(start \o mark) = p + 1
          /\ \A i \in 1..p + 1 : (start \o mark)[i] = IF i <= p THEN start[i] ELSE mark[i - p]
      <3>1. Len(start) = p /\ Len(mark) = 1
        BY <1>3
      <3>2. QED
        BY <2>2, <3>1
    <2>4. QED
      BY <1>5, <2>3, Zenon
  <1>7. /\ c \in Seq(Characters) /\ Len(c) = (p + 1) + Len(tail)
        /\ \A i \in 1..(p + 1) + Len(tail) :
             c[i] = IF i <= p + 1 THEN front[i] ELSE tail[i - (p + 1)]
    BY <1>3, <1>4, <1>5, <1>6, ConcatProperties
  <1>8. \A i \in 1..p : c[i] = name[i]
    <2> SUFFICES ASSUME NEW i \in 1..p
                 PROVE  c[i] = name[i]
      OBVIOUS
    <2>1. i \in 1..(p + 1) + Len(tail) /\ i <= p + 1 /\ i \in 1..p + 1 /\ i <= p
      BY <1>3
    <2>2. QED
      BY <1>3, <1>6, <1>7, <2>1
  <1>9. c[p + 1] = Mark(n)
    <2>1. p + 1 \in 1..(p + 1) + Len(tail) /\ p + 1 \in 1..p + 1 /\ ~(p + 1 <= p)
          /\ (p + 1) - p = 1
      BY <1>3
    <2>2. c[p + 1] = front[p + 1]
      BY <1>7, <2>1
    <2>3. front[p + 1] = mark[1]
      BY <1>6, <2>1
    <2>4. QED
      BY <1>3, <2>2, <2>3
  <1>10. ASSUME NEW j \in 1..Len(tail)
         PROVE  c[p + 1 + j] = tail[j]
    <2>1. p + 1 + j \in 1..(p + 1) + Len(tail) /\ ~(p + 1 + j <= p + 1)
          /\ (p + 1 + j) - (p + 1) = j
      BY <1>3
    <2>2. c[p + 1 + j] = tail[(p + 1 + j) - (p + 1)]
      BY <1>7, <2>1
    <2>3. QED
      BY <2>1, <2>2
  <1>11. Bytes(c) <= MaxNameBytes
    <2>1. Bytes(front) <= Bytes(start) + Bytes(mark)
      BY <1>3, <1>5, BytesOfBoth
    <2>2. Bytes(c) <= Bytes(front) + Bytes(tail)
      BY <1>3, <1>4, <1>5, <1>6, BytesOfBoth
    <2>3. Bytes(front) \in Nat /\ Bytes(start) \in Nat /\ Bytes(tail) \in Nat /\ Bytes(c) \in Nat
      BY <1>3, <1>6, <1>7, CellsFinite
    <2>4. Bytes(start) + w + Bytes(tail) <= MaxNameBytes
      BY <1>1
    <2>5. Bytes(mark) = w
      BY <1>3
    <2>6. QED
      BY <1>2, <2>1, <2>2, <2>3, <2>4, <2>5
  <1>12. QED
    BY <1>1, <1>7, <1>8, <1>9, <1>10, <1>11

\* Numbering a name does not make a device of it, nor anything else that a platform refuses.
LEMMA CopyPortable ==
  ASSUME NEW name \in Seq(Characters), Portable(name), NEW n \in Numbers
  PROVE  Copy(name, n) \in Seq(Characters) /\ Portable(Copy(name, n))
  <1>1. PICK w : w = 3 + Digits(n)
    OBVIOUS
  <1>2. w \in 4..6
    BY <1>1, CopyIs
  <1>3. PICK p \in 0..Len(name) :
          /\ CopyStem(name, w) = SubSeq(name, 1, p)
          /\ CopyTail(name, w) \in Seq(Characters)
          /\ \/ CopyTail(name, w) = <<>>
             \/ \E e \in p + 1..Len(name) :
                  /\ Len(CopyTail(name, w)) = Len(name) - e + 1
                  /\ \A j \in 1..Len(name) - e + 1 : CopyTail(name, w)[j] = name[e + j - 1]
          /\ Bytes(SubSeq(name, 1, p)) + w + Bytes(CopyTail(name, w)) <= MaxNameBytes
    BY <1>2, CopyParts
  <1>4. PICK c, tail : c = Copy(name, n) /\ tail = CopyTail(name, w)
    OBVIOUS
  <1>5. /\ c \in Seq(Characters) /\ Len(c) = p + 1 + Len(tail)
        /\ \A i \in 1..p : c[i] = name[i]
        /\ c[p + 1] = Mark(n)
        /\ \A j \in 1..Len(tail) : c[p + 1 + j] = tail[j]
        /\ Bytes(c) <= MaxNameBytes
    <2>1. /\ CopyStem(name, w) = SubSeq(name, 1, p) /\ CopyTail(name, w) \in Seq(Characters)
          /\ Bytes(SubSeq(name, 1, p)) + w + Bytes(CopyTail(name, w)) <= MaxNameBytes
      BY <1>3
    <2>2. /\ Copy(name, n) \in Seq(Characters)
          /\ Len(Copy(name, n)) = p + 1 + Len(CopyTail(name, w))
          /\ \A i \in 1..p : Copy(name, n)[i] = name[i]
          /\ Copy(name, n)[p + 1] = Mark(n)
          /\ \A j \in 1..Len(CopyTail(name, w)) :
               Copy(name, n)[p + 1 + j] = CopyTail(name, w)[j]
          /\ Bytes(Copy(name, n)) <= MaxNameBytes
      BY <1>1, <2>1, CopyShape
    <2>3. QED
      BY <1>4, <2>2, Zenon
  <1>6. /\ Len(name) \in Nat /\ DOMAIN name = 1..Len(name) /\ p \in Nat /\ Len(tail) \in Nat
        /\ DOMAIN c = 1..Len(c) /\ Len(c) \in Nat
    <2>1. Len(name) \in Nat /\ DOMAIN name = 1..Len(name) /\ DOMAIN c = 1..Len(c) /\ Len(c) \in Nat
      BY <1>5
    <2>2. Len(tail) \in Nat
      BY <1>3, <1>4
    <2>3. QED
      BY <2>1, <2>2
  <1>7. /\ \A d : LowerChar(Mark(n)) # Char(d) /\ Mark(n) # Char(d)
        /\ Mark(n)[1] \notin Invalid \cup {Dot, Space}
    BY MadeUpCharacters
  <1>8. /\ \A i \in 1..Len(name) : name[i][1] \notin Invalid
        /\ name # <<>> /\ name[Len(name)][1] \notin {Dot, Space} /\ ~IsDevice(name)
    BY <1>6 DEF Portable
  <1>9. \A j \in 1..Len(tail) :
          \E i \in p + 1..Len(name) : tail[j] = name[i] /\ (j = Len(tail) => i = Len(name))
    <2>1. CASE tail = <<>>
      BY <2>1
    <2>2. CASE tail # <<>>
      <3>1. PICK e \in p + 1..Len(name) :
              /\ Len(tail) = Len(name) - e + 1
              /\ \A j \in 1..Len(name) - e + 1 : tail[j] = name[e + j - 1]
        BY <1>3, <1>4, <2>2
      <3>2. ASSUME NEW j \in 1..Len(tail)
            PROVE  /\ e + j - 1 \in p + 1..Len(name) /\ tail[j] = name[e + j - 1]
                   /\ j = Len(tail) => e + j - 1 = Len(name)
        BY <1>6, <3>1
      <3>3. QED
        BY <3>2
    <2>3. QED
      BY <2>1, <2>2
  <1>10. \A i \in 1..Len(c) :
           \/ i \in 1..p
           \/ i = p + 1
           \/ \E j \in 1..Len(tail) : i = p + 1 + j /\ (i = Len(c) <=> j = Len(tail))
    <2> SUFFICES ASSUME NEW i \in 1..Len(c), i > p + 1
                 PROVE  \E j \in 1..Len(tail) :
                          i = p + 1 + j /\ (i = Len(c) <=> j = Len(tail))
      BY <1>5, <1>6
    <2>1. i - (p + 1) \in 1..Len(tail) /\ i = p + 1 + (i - (p + 1))
      BY <1>5, <1>6
    <2>2. i = Len(c) <=> i - (p + 1) = Len(tail)
      BY <1>5, <1>6
    <2>3. QED
      BY <2>1, <2>2
  <1>11. \A i \in DOMAIN c : c[i][1] \notin Invalid
    <2> SUFFICES ASSUME NEW i \in 1..Len(c)
                 PROVE  c[i][1] \notin Invalid
      BY <1>6
    <2>1. CASE i \in 1..p
      BY <1>5, <1>6, <1>8, <2>1
    <2>2. CASE i = p + 1
      BY <1>5, <1>7, <2>2
    <2>3. ASSUME NEW j \in 1..Len(tail), i = p + 1 + j
          PROVE  c[i][1] \notin Invalid
      <3>1. c[i] = tail[j]
        BY <1>5, <2>3
      <3>2. PICK x \in p + 1..Len(name) : tail[j] = name[x]
        BY <1>9
      <3>3. x \in 1..Len(name)
        BY <1>6
      <3>4. QED
        BY <1>8, <3>1, <3>2, <3>3
    <2>4. QED
      BY <1>10, <2>1, <2>2, <2>3
  <1>12. c # <<>> /\ c[Len(c)][1] \notin {Dot, Space}
    <2>1. Len(c) >= 1 /\ Len(c) \in 1..Len(c) /\ ~(Len(c) \in 1..p)
      BY <1>5, <1>6
    <2>2. CASE Len(c) = p + 1
      BY <1>5, <1>7, <2>1, <2>2
    <2>3. ASSUME NEW j \in 1..Len(tail), Len(c) = p + 1 + j, j = Len(tail)
          PROVE  c[Len(c)][1] \notin {Dot, Space}
      BY <1>5, <1>8, <1>9, <2>3
    <2>4. QED
      BY <1>10, <2>1, <2>2, <2>3
  <1>13. ~IsDevice(c)
    <2> SUFFICES ASSUME IsDevice(c)
                 PROVE  FALSE
      OBVIOUS
    <2>1. PICK s : s = StemEnd(c)
      OBVIOUS
    <2>2. /\ s \in 0..Len(c) /\ \A i \in Dots(c) : s < i
          /\ \A k \in 0..Len(c) : (\A i \in Dots(c) : k < i) => k <= s
          /\ DeviceStem(c) = Trim(SubSeq(c, 1, s), {Space})
      BY <1>5, <2>1, StemEndIs
    <2>3. PICK d \in Devices : /\ s >= 1 /\ LowerChar(c[1]) = Char(d)
                               /\ \A i \in 2..s : c[i][1] = Space
      BY <1>5, <2>1, DeviceShape
    <2>4. s <= p
      <3> SUFFICES ASSUME s >= p + 1
                   PROVE  FALSE
        BY <1>6, <2>2
      <3>1. CASE p = 0
        BY <1>5, <1>7, <2>3, <3>1
      <3>2. CASE p >= 1
        <4>1. p + 1 \in 2..s
          BY <1>6, <2>2, <3>2
        <4>2. QED
          BY <1>5, <1>7, <2>3, <4>1
      <3>3. QED
        BY <1>6, <3>1, <3>2
    <2>5. \A i \in 1..p : i \in Dots(c) <=> i \in Dots(name)
      <3> SUFFICES ASSUME NEW i \in 1..p
                   PROVE  i \in Dots(c) <=> i \in Dots(name)
        OBVIOUS
      <3>1. i \in DOMAIN c /\ i \in DOMAIN name
        BY <1>5, <1>6
      <3>2. QED
        BY <1>5, <3>1 DEF Dots
    <2>6. s + 1 \in Dots(c) /\ s + 1 <= p
      <3>1. s + 1 \in 0..Len(c) /\ ~(s + 1 <= s)
        BY <1>5, <1>6, <2>2, <2>4
      <3>2. PICK i \in Dots(c) : ~(s + 1 < i)
        BY <2>2, <3>1
      <3>3. i \in 1..Len(c) /\ s < i
        BY <1>6, <2>2 DEF Dots
      <3>4. i = s + 1
        BY <2>2, <3>2, <3>3
      <3>5. i # p + 1
        BY <1>5, <1>7 DEF Dots
      <3>6. QED
        BY <1>6, <2>2, <2>4, <3>4, <3>5
    <2>7. StemEnd(name) = s
      <3>1. PICK t : t = StemEnd(name)
        OBVIOUS
      <3>2. /\ t \in 0..Len(name) /\ \A i \in Dots(name) : t < i
            /\ \A k \in 0..Len(name) : (\A i \in Dots(name) : k < i) => k <= t
        BY <3>1, StemEndIs
      <3>3. s \in 0..Len(name) /\ s + 1 \in 1..p
        BY <1>6, <2>2, <2>4, <2>6
      <3>4. t < s + 1
        BY <2>5, <2>6, <3>2, <3>3
      <3>5. ASSUME NEW i \in Dots(name)
            PROVE  s < i
        <4>1. i \in 1..Len(name)
          BY <1>6 DEF Dots
        <4>2. CASE i \in 1..p
          BY <2>2, <2>5, <4>2
        <4>3. CASE ~(i \in 1..p)
          BY <1>6, <2>2, <2>4, <4>1, <4>3
        <4>4. QED
          BY <4>2, <4>3
      <3>6. s <= t
        BY <3>2, <3>3, <3>5
      <3>7. t = s
        BY <2>2, <3>2, <3>4, <3>6
      <3>8. QED
        BY <3>1, <3>7
    <2>8. SubSeq(c, 1, s) = SubSeq(name, 1, s)
      <3>1. s \in 0..Len(c) /\ s \in 0..Len(name) /\ \A i \in 1..s : i \in 1..p
        BY <1>6, <2>2, <2>4
      <3>2. /\ SubSeq(c, 1, s) \in Seq(Characters) /\ Len(SubSeq(c, 1, s)) = s
            /\ \A i \in 1..s : SubSeq(c, 1, s)[i] = c[i]
        BY <1>5, <3>1, PrefixIs
      <3>3. /\ SubSeq(name, 1, s) \in Seq(Characters) /\ Len(SubSeq(name, 1, s)) = s
            /\ \A i \in 1..s : SubSeq(name, 1, s)[i] = name[i]
        BY <3>1, PrefixIs
      <3>4. \A i \in 1..s : SubSeq(c, 1, s)[i] = SubSeq(name, 1, s)[i]
        BY <1>5, <3>1, <3>2, <3>3
      <3>5. QED
        BY <3>2, <3>3, <3>4, SeqEqual
    <2>9. DeviceStem(name) = DeviceStem(c)
      BY <2>2, <2>7, <2>8, StemEndIs
    <2>10. QED
      BY <1>8, <2>9 DEF IsDevice
  <1>14. Portable(c)
    BY <1>5, <1>11, <1>12, <1>13 DEF Portable
  <1>15. QED
    BY <1>4, <1>5, <1>14

\* Copies with numbers of three digits differ in their numbers alone, so no two are alike.
Long == 100..999

LEMMA CopiesDiffer ==
  ASSUME NEW name \in Seq(Characters), NEW n \in Long, NEW m \in Long,
         Lower(Copy(name, n)) = Lower(Copy(name, m))
  PROVE  n = m
  <1>1. n \in Numbers /\ m \in Numbers /\ Digits(n) = 3 /\ Digits(m) = 3
    BY DEF Long, Numbers, Digits
  <1>2. PICK w : w = 6
    OBVIOUS
  <1>3. w \in 4..6 /\ w = 3 + Digits(n) /\ w = 3 + Digits(m)
    BY <1>1, <1>2
  <1>4. PICK p \in 0..Len(name) :
          /\ CopyStem(name, w) = SubSeq(name, 1, p)
          /\ CopyTail(name, w) \in Seq(Characters)
          /\ Bytes(SubSeq(name, 1, p)) + w + Bytes(CopyTail(name, w)) <= MaxNameBytes
    BY <1>3, CopyParts
  <1>5. ASSUME NEW k \in Numbers, w = 3 + Digits(k)
        PROVE  Lower(Copy(name, k))[p + 1] = Mark(k)
    <2>1. /\ Copy(name, k) \in Seq(Characters)
          /\ Len(Copy(name, k)) = p + 1 + Len(CopyTail(name, w))
          /\ Copy(name, k)[p + 1] = Mark(k)
      BY <1>4, <1>5, CopyShape
    <2>2. p \in Nat /\ Len(CopyTail(name, w)) \in Nat
      <3>1. Len(name) \in Nat
        OBVIOUS
      <3>2. QED
        BY <1>4, <3>1
    <2>3. p + 1 \in DOMAIN Copy(name, k)
      BY <2>1, <2>2
    <2>4. LowerChar(Mark(k)) = Mark(k)
      BY MadeUpCharacters
    <2>5. QED
      BY <2>1, <2>3, <2>4 DEF Lower
  <1>6. Mark(n) = Mark(m)
    BY <1>1, <1>3, <1>5
  <1>7. QED
    BY <1>6 DEF Mark


\* With at most 255 names in use, one of the 900 copies with three digits is free.
LEMMA FreeCopy ==
  ASSUME NEW name \in Seq(Characters), NEW taken, IsFiniteSet(taken), Cardinality(taken) <= 255
  PROVE  \E n \in Numbers : /\ Lower(Copy(name, n)) \notin taken
                            /\ \A k \in 2..n - 1 : Lower(Copy(name, k)) \in taken
  <1> DEFINE copies == [n \in Long |-> Lower(Copy(name, n))]
             free == {n \in Numbers : Lower(Copy(name, n)) \notin taken}
  <1>1. free # {}
    <2> SUFFICES ASSUME free = {}
                 PROVE  FALSE
      OBVIOUS
    <2>1. Long \subseteq Numbers
      BY DEF Numbers, Long
    <2>2. copies \in [Long -> taken]
      <3>1. \A n \in Numbers : Lower(Copy(name, n)) \in taken
        OBVIOUS
      <3>2. \A n \in Long : Lower(Copy(name, n)) \in taken
        BY <2>1, <3>1
      <3>3. QED
        BY <3>2
    <2> HIDE DEF copies, free
    <2>3. IsFiniteSet(Long) /\ Cardinality(Long) = 900
      <3>1. PICK a \in Int, b \in Int : a = 100 /\ b = 999
        OBVIOUS
      <3>2. /\ IsFiniteSet(a..b)
            /\ Cardinality(a..b) = IF a > b THEN 0 ELSE b - a + 1
        BY FS_Interval
      <3>3. ~(a > b) /\ b - a + 1 = 900
        BY <3>1
      <3>4. Cardinality(a..b) = 900
        BY <3>2, <3>3, Zenon
      <3>5. Long = a..b
        BY <3>1, Zenon DEF Long
      <3>6. QED
        BY <3>2, <3>4, <3>5, Zenon
    <2>4. Cardinality(taken) \in Nat /\ Cardinality(taken) < Cardinality(Long)
      BY <2>3, FS_CardinalityType
    <2>5. \E n, m \in Long : n # m /\ copies[n] = copies[m]
      BY <2>2, <2>3, <2>4, FS_PigeonHole
    <2>6. PICK n \in Long, m \in Long : n # m /\ copies[n] = copies[m]
      BY <2>5, Zenon
    <2>7. Lower(Copy(name, n)) = Lower(Copy(name, m))
      BY <2>6 DEF copies
    <2>8. n = m
      BY <2>7, CopiesDiffer
    <2>9. QED
      BY <2>6, <2>8
  <1>2. free \subseteq Nat
    <2>1. Numbers \subseteq Nat
      BY DEF Numbers
    <2>2. QED
      BY <2>1
  <1>3. PICK n \in free : \A m \in free : n <= m
    BY <1>1, <1>2, LeastOne
  <1>4. \A k \in 2..n - 1 : k \in Numbers /\ ~(n <= k)
    BY <1>3 DEF Numbers
  <1>5. QED
    BY <1>3, <1>4

\* The name that is chosen is a name too, and no used one is the same in whatever case.
LEMMA DisambiguateFresh ==
  ASSUME NEW name \in Seq(Characters), Portable(name),
         NEW used, IsFiniteSet(used), Cardinality(used) <= 255
  PROVE  /\ Disambiguate(name, used) \in Seq(Characters)
         /\ Portable(Disambiguate(name, used))
         /\ \A u \in used : Lower(u) # Lower(Disambiguate(name, used))
  <1> DEFINE taken == {Lower(u) : u \in used}
             lowered == [u \in used |-> Lower(u)]
             first == CHOOSE n \in Numbers : /\ Lower(Copy(name, n)) \notin taken
                                             /\ \A k \in 2..n - 1 : Lower(Copy(name, k)) \in taken
  <1>1. lowered \in Surjection(used, taken)
    BY DEF Surjection
  <1>2. Cardinality(used) \in Nat
    BY FS_CardinalityType
  <1>3. \A u \in used : Lower(u) \in taken
    OBVIOUS
  <1>4. IsFiniteSet(taken) /\ Cardinality(taken) <= Cardinality(used) /\ Cardinality(taken) \in Nat
    <2> HIDE DEF taken, lowered
    <2>1. IsFiniteSet(taken) /\ Cardinality(taken) <= Cardinality(used)
      BY <1>1, FS_Surjection
    <2>2. QED
      BY <2>1, FS_CardinalityType
  <1>5. CASE Lower(name) \notin taken
    <2>1. Disambiguate(name, used) = name
      BY <1>5 DEF Disambiguate
    <2>2. QED
      BY <1>3, <1>5, <2>1
  <1>6. CASE Lower(name) \in taken
    <2>1. Disambiguate(name, used) = Copy(name, first)
      BY <1>6 DEF Disambiguate
    <2>2. first \in Numbers /\ Lower(Copy(name, first)) \notin taken
      <3> HIDE DEF taken
      <3>1. Cardinality(taken) <= 255
        BY <1>2, <1>4
      <3>2. \E n \in Numbers : /\ Lower(Copy(name, n)) \notin taken
                               /\ \A k \in 2..n - 1 : Lower(Copy(name, k)) \in taken
        BY <1>4, <3>1, FreeCopy
      <3>3. QED
        BY <3>2, Zenon
    <2> HIDE DEF first, taken
    <2>3. Copy(name, first) \in Seq(Characters) /\ Portable(Copy(name, first))
      BY <2>2, CopyPortable
    <2>4. QED
      BY <1>3, <2>1, <2>2, <2>3
  <1>7. QED
    BY <1>5, <1>6

-----------------------------------------------------------------------------
(***************************************************************************)
(* The names of a message's files, one after the other.                    *)
(***************************************************************************)
NextNames(originals, names, i) ==
  Append(names, Disambiguate(Sanitize(originals[i], i), ToSet(names)))

\* Names for n files that can be written side by side.
Apart(names, n) ==
  /\ names \in Seq(Seq(Characters)) /\ Len(names) = n
  /\ \A i \in 1..n : Portable(names[i])
  /\ \A i, j \in 1..n : Lower(names[i]) = Lower(names[j]) => i = j

Originals == {p \in Seq(Seq(Characters)) : /\ Len(p) <= 256
                                           /\ \A i \in DOMAIN p : Bytes(p[i]) <= MaxNameBytes}

\* One file more.
LEMMA NextApart ==
  ASSUME NEW p \in Originals, NEW n \in Nat, n + 1 <= Len(p), NEW names, Apart(names, n)
  PROVE  Apart(NextNames(p, names, n + 1), n + 1)
  <1> DEFINE used == ToSet(names)
             new == Disambiguate(Sanitize(p[n + 1], n + 1), used)
  <1>1. /\ p \in Seq(Seq(Characters)) /\ Len(p) \in Nat /\ Len(p) <= 256 /\ DOMAIN p = 1..Len(p)
        /\ \A i \in DOMAIN p : Bytes(p[i]) <= MaxNameBytes
    BY DEF Originals
  <1>2. /\ names \in Seq(Seq(Characters)) /\ Len(names) = n /\ DOMAIN names = 1..n
        /\ \A i \in 1..n : Portable(names[i])
        /\ \A i, j \in 1..n : Lower(names[i]) = Lower(names[j]) => i = j
    BY DEF Apart
  <1>3. used = {names[i] : i \in 1..n}
    BY <1>2 DEF ToSet
  <1>4. IsFiniteSet(used) /\ Cardinality(used) <= 255
    <2>1. IsFiniteSet(1..n) /\ Cardinality(1..n) = n
      BY FS_Interval
    <2>2. names \in Surjection(1..n, used)
      BY <1>2, <1>3 DEF Surjection
    <2> HIDE DEF used
    <2>3. IsFiniteSet(used) /\ Cardinality(used) <= Cardinality(1..n)
      BY <2>1, <2>2, FS_Surjection
    <2>4. Cardinality(used) \in Nat
      BY <2>3, FS_CardinalityType
    <2>5. QED
      BY <1>1, <2>1, <2>3, <2>4
  <1>5. /\ Sanitize(p[n + 1], n + 1) \in Seq(Characters)
        /\ Portable(Sanitize(p[n + 1], n + 1))
    <2>1. n + 1 \in DOMAIN p
      BY <1>1
    <2>2. p[n + 1] \in Seq(Characters)
      BY <1>1, <2>1, ElementOfSeq
    <2>3. Bytes(p[n + 1]) <= MaxNameBytes /\ n + 1 \in Nat \ {0}
      BY <1>1, <2>1
    <2>4. QED
      BY <2>2, <2>3, SanitizePortable
  <1> HIDE DEF used
  <1>6. new \in Seq(Characters) /\ Portable(new) /\ \A u \in used : Lower(u) # Lower(new)
    BY <1>4, <1>5, DisambiguateFresh
  <1>7. \A i \in 1..n : Lower(names[i]) # Lower(new)
    BY <1>3, <1>6
  <1>8. NextNames(p, names, n + 1) = Append(names, new)
    BY DEF NextNames, used
  <1> HIDE DEF new
  <1>9. /\ Append(names, new) \in Seq(Seq(Characters)) /\ Len(Append(names, new)) = n + 1
        /\ \A i \in 1..n : Append(names, new)[i] = names[i]
        /\ Append(names, new)[n + 1] = new
    BY <1>2, <1>6, AppendProperties
  <1>10. \A i \in 1..n + 1 : i \in 1..n \/ i = n + 1
    OBVIOUS
  <1>11. PICK more : more = Append(names, new)
    OBVIOUS
  <1>12. \A i \in 1..n + 1 : Portable(more[i])
    BY <1>2, <1>6, <1>9, <1>10, <1>11, Zenon
  <1>13. ASSUME NEW i \in 1..n + 1, NEW j \in 1..n + 1, Lower(more[i]) = Lower(more[j])
         PROVE  i = j
    <2>1. CASE i \in 1..n /\ j \in 1..n
      <3>1. more[i] = names[i] /\ more[j] = names[j]
        BY <1>9, <1>11, <2>1
      <3>2. QED
        BY <1>2, <1>13, <2>1, <3>1, Zenon
    <2>2. CASE i \in 1..n /\ j = n + 1
      <3>1. more[i] = names[i] /\ more[j] = new
        BY <1>9, <1>11, <2>2
      <3>2. QED
        BY <1>7, <1>13, <2>2, <3>1, Zenon
    <2>3. CASE i = n + 1 /\ j \in 1..n
      <3>1. more[i] = new /\ more[j] = names[j]
        BY <1>9, <1>11, <2>3
      <3>2. QED
        BY <1>7, <1>13, <2>3, <3>1, Zenon
    <2>4. CASE i = n + 1 /\ j = n + 1
      BY <2>4
    <2>5. QED
      BY <1>10, <2>1, <2>2, <2>3, <2>4
  <1>14. more \in Seq(Seq(Characters)) /\ Len(more) = n + 1
    BY <1>9, <1>11
  <1>15. Apart(more, n + 1)
    BY <1>12, <1>13, <1>14, Zenon DEF Apart
  <1>16. QED
    BY <1>8, <1>11, <1>15

\* The recursive function of Exported, up to file n.
NamesUpTo(p, n, f) ==
  f = [i \in 0..n |-> IF i = 0 THEN <<>> ELSE NextNames(p, f[i - 1], i)]

LEMMA NamesExist ==
  ASSUME NEW p, NEW n \in Nat
  PROVE  \E f : NamesUpTo(p, n, f)
  <1> DEFINE S == {m \in Nat : \E f : NamesUpTo(p, m, f)}
  <1>1. 0 \in S
    <2>1. NamesUpTo(p, 0, [i \in 0..0 |-> <<>>])
      BY DEF NamesUpTo
    <2>2. QED
      BY <2>1
  <1>2. ASSUME NEW m \in Nat, m \in S
        PROVE  m + 1 \in S
    <2>1. PICK f : NamesUpTo(p, m, f)
      BY <1>2
    <2> DEFINE g == [i \in 0..m + 1 |-> IF i = 0 THEN <<>> ELSE NextNames(p, f[i - 1], i)]
    <2>2. \A i \in 0..m : f[i] = IF i = 0 THEN <<>> ELSE NextNames(p, f[i - 1], i)
      BY <2>1 DEF NamesUpTo
    <2>3. \A i \in 0..m : i \in 0..m + 1 /\ g[i] = f[i]
      <3>1. \A i \in 0..m : i \in 0..m + 1
        OBVIOUS
      <3>2. \A i \in 0..m + 1 : g[i] = IF i = 0 THEN <<>> ELSE NextNames(p, f[i - 1], i)
        OBVIOUS
      <3> HIDE DEF g
      <3>3. QED
        BY <2>2, <3>1, <3>2, Zenon
    <2>4. \A i \in 0..m + 1 : i # 0 => i - 1 \in 0..m
      OBVIOUS
    <2>5. \A i \in 0..m + 1 : i # 0 => g[i - 1] = f[i - 1]
      BY <2>3, <2>4
    <2>6. g = [i \in 0..m + 1 |-> IF i = 0 THEN <<>> ELSE NextNames(p, g[i - 1], i)]
      <3> DEFINE h == [i \in 0..m + 1 |-> IF i = 0 THEN <<>> ELSE NextNames(p, g[i - 1], i)]
      <3>1. \A i \in 0..m + 1 : g[i] = h[i]
        BY <2>5
      <3>2. QED
        BY <3>1
    <2>7. NamesUpTo(p, m + 1, g)
      BY <2>6 DEF NamesUpTo
    <2> HIDE DEF g
    <2>8. QED
      BY <2>7
  <1> HIDE DEF S
  <1>3. Nat \subseteq S
    BY <1>1, <1>2, EveryNumber
  <1>4. QED
    BY <1>3 DEF S

LEMMA NamesAreApart ==
  ASSUME NEW p \in Originals, NEW f, NamesUpTo(p, Len(p), f)
  PROVE  Apart(f[Len(p)], Len(p))
  <1> DEFINE S == {m \in Nat : m <= Len(p) => Apart(f[m], m)}
  <1>1. Len(p) \in Nat
    BY DEF Originals
  <1>2. \A i \in 0..Len(p) : f[i] = IF i = 0 THEN <<>> ELSE NextNames(p, f[i - 1], i)
    BY DEF NamesUpTo
  <1>3. 0 \in S
    <2>1. f[0] = <<>>
      BY <1>1, <1>2
    <2>2. Apart(<<>>, 0)
      BY DEF Apart
    <2>3. QED
      BY <2>1, <2>2
  <1>4. ASSUME NEW m \in Nat, m \in S
        PROVE  m + 1 \in S
    <2> SUFFICES ASSUME m + 1 <= Len(p)
                 PROVE  Apart(f[m + 1], m + 1)
      OBVIOUS
    <2>1. Apart(f[m], m)
      BY <1>1, <1>4
    <2>2. m + 1 \in 0..Len(p) /\ m + 1 # 0 /\ (m + 1) - 1 = m
      BY <1>1
    <2>3. f[m + 1] = NextNames(p, f[m], m + 1)
      BY <1>2, <2>2
    <2>4. QED
      BY <2>1, <2>3, NextApart
  <1> HIDE DEF S
  <1>5. Nat \subseteq S
    BY <1>3, <1>4, EveryNumber
  <1>6. Len(p) \in S
    BY <1>1, <1>5
  <1>7. QED
    BY <1>1, <1>6 DEF S

\* The names of a message's files: each one that every platform can create, and no two of
\* them one entry where case is ignored (assign in export_names.rs).
LEMMA ExportedApart ==
  ASSUME NEW p \in Originals
  PROVE  Apart(Exported(p), Len(p))
  <1> DEFINE f == CHOOSE g : NamesUpTo(p, Len(p), g)
  <1>1. Exported(p) = f[Len(p)]
    BY DEF Exported, NamesUpTo, NextNames
  <1>2. Len(p) \in Nat
    BY DEF Originals
  <1>3. NamesUpTo(p, Len(p), f)
    BY <1>2, NamesExist
  <1> HIDE DEF f
  <1>4. QED
    BY <1>1, <1>3, NamesAreApart

-----------------------------------------------------------------------------
(***************************************************************************)
(* Saving: what every step of a save, and every interference of another    *)
(* process, keeps.                                                         *)
(***************************************************************************)

\* Messages are lists of names such as the policy works on.
LEMMA PayloadsAre ==
  ASSUME NEW p \in Payloads
  PROVE  p \in Originals /\ DOMAIN p = 1..Len(p) /\ Len(p) \in Nat
  <1>1. /\ p \in Seq(Seq(Characters)) /\ Len(p) <= 256
        /\ \A i \in DOMAIN p : Bytes(p[i]) <= MaxNameBytes
    BY FileOutputAssumption DEF MaxFiles
  <1>2. QED
    BY <1>1 DEF Originals

OutNext == (payload # <<>> /\ Save) \/ Interfere

AnyEntry == Entries \cup {Fresh(i) : i \in DOMAIN payload} \cup {Over(i) : i \in DOMAIN payload}

OutTypes ==
  /\ payload \in Payloads /\ dir \in Dirs /\ outStep \in OutSteps
  /\ DOMAIN key = DOMAIN payload
  /\ disk \in [Dirs -> [Range(key) -> AnyEntry]]
  /\ {force, existed, replace} \subseteq BOOLEAN
  /\ next \in 1..Len(payload) + 1 /\ created \cup stuck \subseteq DOMAIN payload
  /\ foreign \in Nat

\* How far the save is, and what it has written by then.
Progress ==
  /\ outStep # "idle" => payload # <<>>
  /\ outStep \in {"look", "put"} => next <= Len(payload)
  /\ outStep = "saved" => next = Len(payload) + 1
  /\ outStep \in {"idle", "scan", "ask", "quit"} => next = 1
  /\ outStep \in {"idle", "scan", "ask", "quit", "failed"} => created = {}
  /\ outStep \notin {"cleanup", "failed"} => stuck = {}
  /\ wrote \in Seq(Dirs \X Range(key)) /\ Len(wrote) = next - 1
  /\ \A i \in 1..next - 1 : wrote[i] = <<dir, key[i]>>

\* Whatever this run made anew is listed for its clean-up, under its own name, or could not
\* be removed.
FreshListed ==
  \A d \in Dirs, k \in Range(key), i \in DOMAIN payload :
    disk[d][k] = Fresh(i) => d = dir /\ i \in created \cup stuck /\ k = key[i]

OutInv == OutTypes /\ Progress /\ FreshListed

LEMMA EntriesDiffer ==
  /\ \A e \in Entries : e \in {Absent, Folder, Theirs}
  /\ \A i : \A e \in Entries : e # Fresh(i)
  /\ \A i, j : Fresh(i) # Over(j) /\ (Fresh(i) = Fresh(j) => i = j)
  /\ Absent # Folder /\ Absent # Theirs /\ Folder # Theirs
  /\ {Absent, Folder, Theirs} \subseteq Entries
  BY DEF Entries, Absent, Folder, Theirs, Fresh, Over

LEMMA OutStarts ==
  ASSUME OutInit
  PROVE  OutInv
  <1>1. DOMAIN payload = 1..Len(payload) /\ Len(payload) \in Nat
    BY PayloadsAre DEF OutInit
  <1>2. OutTypes
    <2>1. disk \in [Dirs -> [Range(key) -> AnyEntry]]
      <3>1. Absent \in AnyEntry
        BY EntriesDiffer DEF AnyEntry
      <3>2. QED
        BY <3>1 DEF OutInit
    <2>2. DOMAIN key = DOMAIN payload
      BY DEF OutInit
    <2>3. next \in 1..Len(payload) + 1
      BY <1>1 DEF OutInit
    <2>4. QED
      BY <2>1, <2>2, <2>3 DEF OutInit, OutTypes, OutSteps
  <1>3. Progress
    BY DEF OutInit, Progress
  <1>4. FreshListed
    BY EntriesDiffer DEF OutInit, FreshListed
  <1>5. QED
    BY <1>2, <1>3, <1>4 DEF OutInv

LEMMA KeysAt ==
  ASSUME OutInv, outStep \in {"look", "put"}
  PROVE  /\ next \in DOMAIN payload /\ next \in DOMAIN key /\ key[next] \in Range(key)
         /\ Len(payload) \in Nat
  BY PayloadsAre DEF OutInv, OutTypes, Progress, Range

\* A file put at its own name stays listed.
LEMMA PutListed ==
  ASSUME OutInv, outStep = "put", NEW entry \in AnyEntry, Put(next, entry),
         UNCHANGED <<payload, key, dir, stuck>>,
         created' \in {created, created \cup {next}},
         \A i \in DOMAIN payload : entry = Fresh(i) => i = next /\ next \in created'
  PROVE  /\ disk' \in [Dirs -> [Range(key) -> AnyEntry]] /\ AnyEntry' = AnyEntry
         /\ created' \cup stuck' \subseteq DOMAIN payload
         /\ FreshListed'
  <1> USE DEF OutInv
  <1>1. next \in DOMAIN payload /\ next \in DOMAIN key /\ key[next] \in Range(key)
    BY KeysAt
  <1>2. disk' = [disk EXCEPT ![dir][key[next]] = entry]
    BY DEF Put
  <1>3. disk' \in [Dirs -> [Range(key) -> AnyEntry]]
    BY <1>1, <1>2 DEF OutTypes
  <1>4. AnyEntry' = AnyEntry
    BY DEF AnyEntry
  <1>5. created' \cup stuck' \subseteq DOMAIN payload
    BY <1>1 DEF OutTypes
  <1>6. ASSUME NEW d \in Dirs, NEW k \in Range(key), NEW i \in DOMAIN payload,
               disk'[d][k] = Fresh(i)
        PROVE  d = dir /\ i \in created' \cup stuck' /\ k = key[i]
    <2>1. CASE d = dir /\ k = key[next]
      <3>1. disk'[d][k] = entry
        BY <1>1, <1>2, <2>1 DEF OutTypes
      <3>2. QED
        BY <1>6, <2>1, <3>1
    <2>2. CASE ~(d = dir /\ k = key[next])
      <3>1. disk'[d][k] = disk[d][k]
        BY <1>1, <1>2, <2>2 DEF OutTypes
      <3>2. disk[d][k] = Fresh(i)
        BY <1>6, <3>1
      <3>3. d = dir /\ i \in created \cup stuck /\ k = key[i]
        BY <3>2 DEF FreshListed
      <3>4. QED
        BY <3>3
    <2>3. QED
      BY <2>1, <2>2
  <1>7. FreshListed'
    BY <1>6 DEF FreshListed
  <1>8. QED
    BY <1>3, <1>4, <1>5, <1>7

\* One file is written, as an entry of its own.
LEMMA WrittenKeeps ==
  ASSUME OutInv, outStep = "put", NEW entry \in AnyEntry, Written(next, entry),
         UNCHANGED <<payload, key, force, dir, replace, stuck, foreign>>,
         created' \in {created, created \cup {next}},
         \A i \in DOMAIN payload : entry = Fresh(i) => i = next /\ next \in created'
  PROVE  OutInv'
  <1> USE DEF OutInv
  <1>1. /\ next \in DOMAIN payload /\ next \in DOMAIN key /\ key[next] \in Range(key)
        /\ Len(payload) \in Nat /\ next \in 1..Len(payload)
    BY KeysAt, PayloadsAre DEF OutTypes, Progress
  <1>2. /\ disk' \in [Dirs -> [Range(key) -> AnyEntry]] /\ AnyEntry' = AnyEntry
        /\ created' \cup stuck' \subseteq DOMAIN payload
        /\ FreshListed'
    BY PutListed DEF Written
  <1>3. OutTypes'
    <2>1. next' \in 1..Len(payload) + 1
      BY <1>1 DEF Written
    <2>2. outStep' \in OutSteps /\ existed' = FALSE
      BY DEF Written, OutSteps
    <2>3. QED
      BY <1>2, <2>1, <2>2 DEF OutTypes
  <1>4. Progress'
    <2>1. wrote' = Append(wrote, <<dir, key[next]>>) /\ <<dir, key[next]>> \in Dirs \X Range(key)
      BY <1>1 DEF Written, OutTypes
    <2>2. wrote' \in Seq(Dirs \X Range(key)) /\ Len(wrote') = next
      BY <2>1, <1>1 DEF Progress
    <2>3. \A i \in 1..next : wrote'[i] = <<dir, key[i]>>
      BY <2>1, <1>1 DEF Progress
    <2>4. next' = next + 1 /\ outStep' = IF next = Len(payload) THEN "saved" ELSE "look"
      BY DEF Written
    <2>5. payload # <<>>
      BY DEF Progress
    <2>6. QED
      BY <1>1, <2>2, <2>3, <2>4, <2>5 DEF Progress
  <1>5. QED
    BY <1>2, <1>3, <1>4

\* The steps that only move on.
LEMMA QuietStepsKeep ==
  ASSUME OutInv, payload # <<>>, OpenDir \/ Scan \/ Answer \/ Look
  PROVE  OutInv' /\ disk' = disk
  <1> USE DEF OutInv
  <1>1. disk' = disk /\ UNCHANGED <<payload, key, force, next, created, stuck, wrote, foreign>>
    BY DEF OpenDir, Scan, Answer, Look
  <1>2. AnyEntry' = AnyEntry
    BY <1>1 DEF AnyEntry
  <1>3. outStep' \in OutSteps /\ dir' \in Dirs /\ {existed', replace'} \subseteq BOOLEAN
    BY DEF OpenDir, Scan, Answer, Look, OutTypes, OutSteps
  <1>4. OutTypes'
    BY <1>1, <1>2, <1>3 DEF OutTypes
  <1>5. dir' # dir => outStep = "ask"
    BY DEF OpenDir, Scan, Answer, Look
  <1>6. Progress'
    <2>1. Len(payload) \in Nat /\ (payload # <<>> => Len(payload) > 0)
      BY PayloadsAre DEF OutTypes
    <2>2. \A i \in 1..next' - 1 : wrote'[i] = <<dir', key'[i]>>
      BY <1>1, <1>5 DEF Progress
    <2>3. created = {} \/ outStep' \in {"look", "put"}
      BY DEF OpenDir, Scan, Answer, Look, Progress
    <2>4. /\ outStep' \in {"look", "put"} => next <= Len(payload)
          /\ outStep' # "saved"
          /\ outStep' \in {"idle", "scan", "ask", "quit"} => next = 1
          /\ stuck = {}
      BY <2>1 DEF OpenDir, Scan, Answer, Look, Progress
    <2>5. QED
      BY <1>1, <2>2, <2>3, <2>4 DEF Progress
  <1>7. FreshListed'
    BY <1>1, <1>5 DEF FreshListed, Progress
  <1>8. QED
    BY <1>1, <1>4, <1>6, <1>7

\* A write that fails leaves at most the file that it had made, listed.
LEMMA WriteFailsKeeps ==
  ASSUME OutInv, WriteFails
  PROVE  OutInv'
  <1> USE DEF OutInv
  <1>1. UNCHANGED <<payload, key, force, dir, next, replace, stuck, wrote, foreign>>
        /\ existed' = FALSE /\ outStep' = "cleanup"
    BY DEF WriteFails
  <1>2. /\ disk' \in [Dirs -> [Range(key) -> AnyEntry]] /\ AnyEntry' = AnyEntry
        /\ created' \cup stuck' \subseteq DOMAIN payload
        /\ FreshListed'
    <2>1. CASE UNCHANGED <<disk, created>>
      BY <1>1, <2>1 DEF OutTypes, FreshListed, AnyEntry
    <2>2. CASE outStep = "put" /\ Put(next, Fresh(next)) /\ created' = created \cup {next}
      <3>1. Fresh(next) \in AnyEntry
        BY <2>2, KeysAt DEF AnyEntry
      <3>2. \A i \in DOMAIN payload : Fresh(next) = Fresh(i) => i = next
        BY EntriesDiffer
      <3>3. QED
        BY <1>1, <2>2, <3>1, <3>2, PutListed
    <2>3. QED
      BY <2>1, <2>2 DEF WriteFails
  <1>3. OutTypes'
    BY <1>1, <1>2 DEF OutTypes, OutSteps
  <1>4. Progress'
    <2>1. payload # <<>>
      BY DEF WriteFails, Progress
    <2>2. QED
      BY <1>1, <2>1 DEF Progress
  <1>5. QED
    BY <1>2, <1>3, <1>4

LEMMA CleanUpKeeps ==
  ASSUME OutInv, CleanUp
  PROVE  OutInv'
  <1> USE DEF OutInv
  <1>1. UNCHANGED <<payload, key, force, dir, next, existed, replace, wrote, foreign>>
    BY DEF CleanUp
  <1>2. AnyEntry' = AnyEntry
    BY <1>1 DEF AnyEntry
  <1>3. CASE created = {}
    <2>1. disk' = disk /\ created' = created /\ stuck' = stuck /\ outStep' = "failed"
      BY <1>3 DEF CleanUp
    <2>2. payload # <<>>
      BY DEF CleanUp, Progress
    <2>3. QED
      BY <1>1, <1>2, <1>3, <2>1, <2>2 DEF OutTypes, OutSteps, Progress, FreshListed
  <1>4. CASE created # {}
    <2>1. PICK i \in created : /\ \/ Put(i, Absent) /\ stuck' = stuck
                                  \/ disk' = disk /\ stuck' = stuck \cup {i}
                               /\ created' = created \ {i}
                               /\ outStep' = outStep
      BY <1>4 DEF CleanUp
    <2>2. i \in DOMAIN key /\ key[i] \in Range(key) /\ Absent \in AnyEntry
      BY <2>1, EntriesDiffer DEF OutTypes, Range, AnyEntry
    <2>3. /\ disk' \in [Dirs -> [Range(key) -> AnyEntry]]
          /\ disk'[dir][key[i]] = Absent \/ i \in stuck'
          /\ stuck \subseteq stuck' /\ created' \cup stuck' \subseteq DOMAIN payload
      BY <2>1, <2>2 DEF Put, OutTypes
    <2>4. OutTypes'
      BY <1>1, <1>2, <2>1, <2>3 DEF OutTypes
    <2>5. Progress'
      BY <1>1, <2>1 DEF Progress, CleanUp
    <2>6. FreshListed'
      <3>1. ASSUME NEW d \in Dirs, NEW k \in Range(key), NEW j \in DOMAIN payload,
                   disk'[d][k] = Fresh(j)
            PROVE  d = dir /\ j \in created' \cup stuck' /\ k = key[j]
        <4>1. ~(d = dir /\ k = key[i]) \/ i \in stuck'
          BY <2>3, <3>1, EntriesDiffer
        <4>2. disk'[d][k] = disk[d][k]
          <5>1. CASE disk' = disk
            BY <5>1
          <5>2. CASE Put(i, Absent)
            <6>1. disk'[dir][key[i]] = Absent
              BY <2>2, <5>2 DEF Put, OutTypes
            <6>2. ~(d = dir /\ k = key[i])
              BY <3>1, <6>1, EntriesDiffer
            <6>3. QED
              BY <2>2, <5>2, <6>2 DEF Put, OutTypes
          <5>3. QED
            BY <2>1, <5>1, <5>2
        <4>3. disk[d][k] = Fresh(j)
          BY <3>1, <4>2
        <4>4. d = dir /\ j \in created \cup stuck /\ k = key[j]
          BY <4>3 DEF FreshListed
        <4>5. j = i => i \in stuck'
          BY <4>1, <4>4
        <4>6. QED
          BY <2>1, <2>3, <4>4, <4>5
      <3>2. QED
        BY <1>1, <3>1 DEF FreshListed
    <2>7. QED
      BY <2>4, <2>5, <2>6
  <1>5. QED
    BY <1>3, <1>4

LEMMA InterfereKeeps ==
  ASSUME OutInv, Interfere
  PROVE  OutInv'
  <1> USE DEF OutInv
  <1>1. UNCHANGED <<payload, key, force, dir, outStep, next, existed, replace, created, stuck, wrote>>
    BY DEF Interfere
  <1>2. AnyEntry' = AnyEntry /\ foreign' \in Nat
    BY <1>1 DEF AnyEntry, Interfere, OutTypes
  <1>3. PICK d \in Dirs, k \in Range(key), entry \in Entries :
          disk' = [disk EXCEPT ![d][k] = entry]
    BY DEF Interfere
  <1>4. entry \in AnyEntry
    BY DEF AnyEntry
  <1>5. OutTypes'
    BY <1>1, <1>2, <1>3, <1>4 DEF OutTypes
  <1>6. Progress'
    BY <1>1 DEF Progress
  <1>7. FreshListed'
    <2>1. ASSUME NEW e \in Dirs, NEW x \in Range(key), NEW i \in DOMAIN payload,
                 disk'[e][x] = Fresh(i)
          PROVE  disk[e][x] = Fresh(i)
      BY <1>3, <2>1, EntriesDiffer DEF OutTypes
    <2>2. QED
      BY <1>1, <2>1 DEF FreshListed
  <1>8. QED
    BY <1>5, <1>6, <1>7

LEMMA OutStepKeeps ==
  ASSUME OutInv, OutNext
  PROVE  OutInv'
  <1>1. CASE payload # <<>> /\ (OpenDir \/ Scan \/ Answer \/ Look)
    BY <1>1, QuietStepsKeep
  <1>2. CASE Replace
    <2>1. Over(next) \in AnyEntry
      BY <1>2, KeysAt DEF Replace, AnyEntry
    <2>2. QED
      BY <1>2, <2>1, WrittenKeeps, EntriesDiffer DEF Replace
  <1>3. CASE CreateNew
    <2>1. Fresh(next) \in AnyEntry
      BY <1>3, KeysAt DEF CreateNew, AnyEntry
    <2>2. QED
      BY <1>3, <2>1, WrittenKeeps, EntriesDiffer DEF CreateNew
  <1>4. CASE CleanUp
    BY <1>4, CleanUpKeeps
  <1>5. CASE Interfere
    BY <1>5, InterfereKeeps
  <1>6. CASE WriteFails
    BY <1>6, WriteFailsKeeps
  <1>7. QED
    BY <1>1, <1>2, <1>3, <1>4, <1>5, <1>6 DEF OutNext, Save

\* Only a replacement that was agreed to, or the clean-up, loses another process's entry.
LEMMA OutStepKeepsOthers ==
  ASSUME OutInv, OutNext
  PROVE  OthersKept
  <1> USE DEF OutInv
  <1> SUFFICES ASSUME NEW d \in Dirs, NEW k \in Range(key), disk[d][k] \in {Theirs, Folder},
                      disk'[d][k] # disk[d][k], foreign' = foreign
               PROVE  /\ d = dir /\ disk[d][k] = Theirs
                      /\ replace \/ \E i \in created : k = key[i]
    BY DEF OthersKept
  <1>1. ~Interfere
    BY DEF Interfere, OutTypes
  <1>2. Replace \/ CreateNew \/ WriteFails \/ CleanUp
    BY <1>1, QuietStepsKeep DEF OutNext, Save
  <1>3. CASE Replace \/ CreateNew \/ WriteFails
    <2>1. next \in DOMAIN key /\ key[next] \in Range(key)
      BY <1>3, KeysAt DEF Replace, CreateNew, WriteFails
    <2>2. PICK entry : disk' = [disk EXCEPT ![dir][key[next]] = entry]
      BY <1>3 DEF Replace, CreateNew, WriteFails, Written, Put
    <2>3. d = dir /\ k = key[next]
      BY <2>1, <2>2 DEF OutTypes
    <2>4. QED
      BY <1>3, <2>3, EntriesDiffer DEF Replace, CreateNew, WriteFails, At
  <1>4. CASE CleanUp
    <2>1. PICK i \in created : At(i) # Folder /\ Put(i, Absent)
      BY <1>4 DEF CleanUp
    <2>2. At(i) # Folder /\ disk' = [disk EXCEPT ![dir][key[i]] = Absent]
      BY <2>1 DEF Put
    <2>3. i \in DOMAIN key /\ key[i] \in Range(key)
      BY <2>1 DEF OutTypes, Range
    <2>4. d = dir /\ k = key[i]
      BY <2>2, <2>3 DEF OutTypes
    <2>5. QED
      BY <2>2, <2>4 DEF At
  <1>5. QED
    BY <1>2, <1>3, <1>4

KeysApart == \A i, j \in DOMAIN payload : key[i] = key[j] => i = j
KeysAre == key = [i \in DOMAIN payload |-> Lower(Exported(payload)[i])]

\* The files' names are apart in the directory too, because it goes by what they look like in
\* lower case.
LEMMA OutKeysApart ==
  ASSUME payload \in Payloads, KeysAre
  PROVE  KeysApart /\ \A i \in DOMAIN payload : Portable(Exported(payload)[i])
  <1>1. payload \in Originals /\ DOMAIN payload = 1..Len(payload)
    BY PayloadsAre
  <1>2. PICK e : e = Exported(payload)
    OBVIOUS
  <1>3. Apart(e, Len(payload))
    BY <1>1, <1>2, ExportedApart
  <1>4. \A i \in 1..Len(payload) : Portable(e[i])
    BY <1>3 DEF Apart
  <1>5. ASSUME NEW i \in 1..Len(payload), NEW j \in 1..Len(payload), key[i] = key[j]
        PROVE  i = j
    <2>1. key[i] = Lower(e[i]) /\ key[j] = Lower(e[j])
      BY <1>1, <1>2 DEF KeysAre
    <2>2. Lower(e[i]) = Lower(e[j])
      BY <1>5, <2>1
    <2>3. QED
      BY <1>3, <2>2, Zenon DEF Apart
  <1>6. QED
    BY <1>1, <1>2, <1>4, <1>5 DEF KeysApart

LEMMA SavedOrNothing ==
  ASSUME OutInv, KeysApart
  PROVE  AllOrNothing
  <1>1. ASSUME outStep = "saved"
        PROVE  /\ Len(wrote) = Len(payload)
               /\ \A i, j \in DOMAIN wrote : wrote[i] = wrote[j] => i = j
               /\ \A i \in DOMAIN wrote : wrote[i][1] = dir
    <2>1. DOMAIN payload = 1..Len(payload) /\ Len(payload) \in Nat
      BY PayloadsAre DEF OutInv, OutTypes
    <2>2. Len(wrote) = Len(payload) /\ DOMAIN wrote = DOMAIN payload
      BY <1>1, <2>1 DEF OutInv, Progress
    <2>3. \A i \in DOMAIN payload : wrote[i] = <<dir, key[i]>>
      BY <1>1, <2>1 DEF OutInv, Progress
    <2>4. QED
      BY <2>2, <2>3 DEF KeysApart
  <1>2. ASSUME outStep \in {"quit", "failed"}
        PROVE  \A d \in Dirs, k \in Range(key), i \in DOMAIN payload :
                 disk[d][k] = Fresh(i) => i \in stuck /\ d = dir /\ k = key[i]
    BY <1>2 DEF OutInv, Progress, FreshListed
  <1>3. ASSUME outStep = "quit"
        PROVE  wrote = <<>>
    <2>1. wrote \in Seq(Dirs \X Range(key)) /\ Len(wrote) = 0
      BY <1>3 DEF OutInv, Progress
    <2>2. QED
      BY <2>1
  <1>4. QED
    BY <1>1, <1>2, <1>3 DEF AllOrNothing

-----------------------------------------------------------------------------
(***************************************************************************)
(* The receiving side.  The argument follows the one request that opens    *)
(* the message: only its client is answered 200, has heard it, has got     *)
(* past waiting, or shows anything.                                        *)
(***************************************************************************)
Linked(c) == IF c = Cli THEN cliLink # "cut" ELSE pageLink[c] # "cut"

\* Requests come from clients with a whole link, and so does what opened the message.
ExchangeInv ==
  /\ \A r \in requests : r.from \in Clients /\ Linked(r.from)
  /\ opener # Nobody => opener \in Clients /\ Linked(opener)
  /\ \A a \in answers : a.status = 200 => opener = a.to /\ message = "opened"
  /\ \A c \in heard : opener = c /\ message = "opened"
  /\ heard \subseteq Clients

\* How far a page is tells what it has heard.
PagesInv ==
  /\ page \in [Pages -> PageSteps]
  /\ \A p \in Pages : /\ page[p] \in {"ready", "fetching"} => p \notin heard /\ pageLink[p] # "cut"
                      /\ page[p] = "blocked" => p \notin heard
                      /\ page[p] \in {"receiving", "shown", "lost", "unreadable"} => p \in heard

\* So does how far the command line is; it ends in silence only when it could not write.
CliInv ==
  /\ cli \in CliSteps
  /\ cli \in {"start", "pin", "waiting"} => Cli \notin heard
  /\ cli \in {"pin", "waiting"} => cliLink # "cut"
  /\ cli \in {"body", "text", "files"} => Cli \in heard
  /\ printed \/ wrote # <<>> \/ cliSaysGone => Cli \in heard
  /\ hasText \/ payload # <<>>
  /\ cli = "files" /\ hasText => printed
  /\ outStep = "saved" => wrote # <<>>
  /\ cli = "ended" /\ Cli \in heard => printed \/ wrote # <<>> \/ cliSaysGone \/ exit = "output"

TruthInv == ExchangeInv /\ PagesInv /\ CliInv

LEMMA TruthFollows ==
  ASSUME TruthInv
  PROVE  ToldTheTruth
  BY ReceivingAssumption
  DEF TruthInv, ExchangeInv, PagesInv, CliInv, ToldTheTruth, Has, SaysGone, Ended, MayAskAgain,
      Linked, PageSaysGone, PageDone, PageSteps, CliSteps

LEMMA TruthInit ==
  ASSUME Init
  PROVE  TruthInv
  <1>1. ExchangeInv
    BY DEF Init, ExchangeInit, ExchangeInv
  <1>2. PagesInv
    BY DEF Init, ExchangeInit, PageInit, PagesInv, PageSteps
  <1>3. CliInv
    BY DEF Init, ExchangeInit, CliInit, OutInit, CliInv, CliSteps
  <1>4. QED
    BY <1>1, <1>2, <1>3 DEF TruthInv

\* The message stays opened, and what was heard or answered with 200 was the opener's.
LEMMA ServeKeeps ==
  ASSUME TruthInv, Serve, UNCHANGED <<pageVars, cliVars, outVars>>
  PROVE  TruthInv'
  <1> USE ReceivingAssumption DEF TruthInv, exchangeVars
  <1>1. ExchangeInv'
    <2>1. PICK r \in requests : Open(r) \/ WrongPin(r) \/ Missing(r) \/ Rejected(r)
      BY DEF Serve
    <2>2. requests' \subseteq requests /\ heard' = heard /\ \A c : Linked(c)' = Linked(c)
      BY <2>1 DEF Serve, Open, WrongPin, Missing, Rejected, Reply, Linked, pageVars, cliVars
    <2>3. CASE Open(r)
      <3>1. heard = {} /\ \A a \in answers : a.status # 200
        BY <2>3 DEF ExchangeInv, Open
      <3>2. \A a \in answers' : a.status = 200 => a.to = r.from
        BY <2>3, <3>1 DEF Open, Reply
      <3>3. QED
        BY <2>2, <2>3, <3>1, <3>2 DEF ExchangeInv, Open
    <2>4. CASE ~Open(r)
      <3>1. opener' = opener /\ (message = "opened" => message' = "opened")
        BY <2>1, <2>4 DEF WrongPin, Missing, Rejected, Charge
      <3>2. \A a \in answers' : a.status = 200 => a \in answers
        BY <2>1, <2>4 DEF WrongPin, Missing, Rejected, Reply
      <3>3. QED
        BY <2>2, <3>1, <3>2 DEF ExchangeInv
    <2>5. QED
      BY <2>3, <2>4
  <1>2. PagesInv'
    BY DEF PagesInv, Serve, pageVars
  <1>3. CliInv'
    BY DEF CliInv, Serve, cliVars, outVars
  <1>4. QED
    BY <1>1, <1>2, <1>3

\* Asking and giving up leave what was heard and answered with 200 as it is.
LEMMA AskKeeps ==
  ASSUME TruthInv, NEW c \in Clients, Ask(c), Linked(c), \A d : Linked(d)' = Linked(d)
  PROVE  ExchangeInv' /\ heard' = heard
  BY DEF TruthInv, ExchangeInv, Ask

LEMMA GiveUpKeeps ==
  ASSUME TruthInv, NEW c \in Clients, GiveUp(c), \A d : Linked(d)' = Linked(d)
  PROVE  ExchangeInv' /\ heard' = heard
  BY DEF TruthInv, ExchangeInv, GiveUp

\* Only an answer of 200 is heard, and by the opener.
LEMMA ReceiveKeeps ==
  ASSUME TruthInv, NEW c \in Clients, NEW status, Receive(c, status),
         \A d : Linked(d)' = Linked(d)
  PROVE  /\ ExchangeInv'
         /\ heard' = IF status = 200 THEN heard \cup {c} ELSE heard
  <1>1. status = 200 => opener = c /\ message = "opened"
    BY DEF Receive, TruthInv, ExchangeInv
  <1>2. QED
    BY <1>1 DEF Receive, TruthInv, ExchangeInv

LEMMA PageKeeps ==
  ASSUME TruthInv, NEW p \in Pages,
         Submit(p) \/ FetchFails(p) \/ AnswerPage(p) \/ Render(p),
         UNCHANGED <<cliVars, outVars>>
  PROVE  TruthInv'
  <1> USE DEF TruthInv
  <1>1. p \in Clients /\ p # Cli
    BY ReceivingAssumption
  <1>2. pageLink' = pageLink /\ \A d : Linked(d)' = Linked(d)
    BY DEF Submit, FetchFails, AnswerPage, Render, PageGoto, cliVars, Linked
  <1>3. Cli \in heard' <=> Cli \in heard
    BY <1>1, ReceivingAssumption
    DEF Submit, FetchFails, AnswerPage, Render, Ask, GiveUp, Receive, exchangeVars
  <1>4. CliInv'
    BY <1>3 DEF CliInv, cliVars, outVars
  <1>5. ExchangeInv' /\ PagesInv'
    <2>1. CASE Submit(p)
      <3>1. page[p] = "ready" /\ Linked(p) /\ Ask(p)
        BY <1>1, <2>1 DEF Submit, PagesInv, Linked
      <3>2. ExchangeInv' /\ heard' = heard
        BY <1>1, <1>2, <3>1, AskKeeps
      <3>3. QED
        BY <1>2, <2>1, <3>2 DEF Submit, PageGoto, PagesInv, PageSteps
    <2>2. CASE FetchFails(p)
      <3>1. ExchangeInv' /\ heard' = heard
        BY <1>1, <1>2, <2>2, GiveUpKeeps DEF FetchFails
      <3>2. QED
        BY <1>2, <2>2, <3>1 DEF FetchFails, PageGoto, PagesInv, PageSteps
    <2>3. CASE AnswerPage(p)
      <3>1. PICK status \in {200, 403, 404, 503} :
              Receive(p, status) /\ PageGoto(p, IF status = 200 THEN "receiving" ELSE "ready")
        BY <2>3 DEF AnswerPage
      <3>2. /\ ExchangeInv'
            /\ heard' = IF status = 200 THEN heard \cup {p} ELSE heard
        BY <1>1, <1>2, <3>1, ReceiveKeeps
      <3>3. QED
        BY <1>2, <2>3, <3>1, <3>2 DEF AnswerPage, PageGoto, PagesInv, PageSteps
    <2>4. CASE Render(p)
      <3>1. ExchangeInv' /\ heard' = heard
        BY <1>2, <2>4 DEF Render, exchangeVars, ExchangeInv
      <3>2. QED
        BY <1>2, <2>4, <3>1 DEF Render, PageGoto, PagesInv, PageSteps
    <2>5. QED
      BY <2>1, <2>2, <2>3, <2>4
  <1>6. QED
    BY <1>4, <1>5

LEMMA CliKeeps ==
  ASSUME TruthInv, OutInv, CliNext, UNCHANGED pageVars
  PROVE  TruthInv'
  <1> USE DEF TruthInv
  <1>1. Cli \in Clients /\ \A p \in Pages : p # Cli
    BY ReceivingAssumption
  <1>2. UNCHANGED <<cliLink, hasText, pageVars>> /\ \A d : Linked(d)' = Linked(d)
    BY DEF CliNext, Start, EnterPin, RequestFails, AnswerCli, OpenBody, WriteText, SaveFiles,
           CliGoto, Exit, cliVars, pageVars, Linked
  <1>3. /\ exchangeVars' = exchangeVars => ExchangeInv' /\ heard' = heard
        /\ heard' \in {heard, heard \cup {Cli}} => PagesInv'
    BY <1>1, <1>2 DEF ExchangeInv, exchangeVars, PagesInv, pageVars
  <1>4. CASE Start
    BY <1>2, <1>3, <1>4 DEF Start, CliGoto, Exit, CliInv, CliSteps, outVars, LinkParses
  <1>5. CASE EnterPin
    <2>1. Ask(Cli) => ExchangeInv' /\ heard' = heard
      BY <1>1, <1>2, <1>5, AskKeeps DEF EnterPin, CliInv, Linked
    <2>2. QED
      BY <1>2, <1>3, <1>5, <2>1 DEF EnterPin, CliGoto, Exit, CliInv, CliSteps, outVars
  <1>6. CASE RequestFails
    <2>1. ExchangeInv' /\ heard' = heard
      BY <1>1, <1>2, <1>6, GiveUpKeeps DEF RequestFails
    <2>2. QED
      BY <1>2, <1>3, <1>6, <2>1 DEF RequestFails, Exit, CliInv, CliSteps, outVars
  <1>7. CASE AnswerCli
    <2>1. cli = "waiting" /\ outVars' = outVars
      BY <1>7 DEF AnswerCli
    <2>2. CASE Receive(Cli, 200) /\ CliGoto("body")
      <3>1. ExchangeInv' /\ heard' = heard \cup {Cli}
        BY <1>1, <1>2, <2>2, ReceiveKeeps
      <3>2. QED
        BY <1>2, <1>3, <2>1, <2>2, <3>1 DEF CliGoto, CliInv, CliSteps, outVars
    <2>3. CASE Receive(Cli, 403) /\ CliGoto("pin")
      <3>1. ExchangeInv' /\ heard' = heard
        BY <1>1, <1>2, <2>3, ReceiveKeeps
      <3>2. QED
        BY <1>2, <1>3, <2>1, <2>3, <3>1 DEF CliGoto, CliInv, CliSteps, outVars
    <2>4. CASE Receive(Cli, 404) /\ Exit("unavailable", FALSE)
      <3>1. ExchangeInv' /\ heard' = heard
        BY <1>1, <1>2, <2>4, ReceiveKeeps
      <3>2. QED
        BY <1>2, <1>3, <2>1, <2>4, <3>1 DEF Exit, CliInv, CliSteps, outVars
    <2>5. CASE Receive(Cli, 503) /\ Exit("rejected", FALSE)
      <3>1. ExchangeInv' /\ heard' = heard
        BY <1>1, <1>2, <2>5, ReceiveKeeps
      <3>2. QED
        BY <1>2, <1>3, <2>1, <2>5, <3>1 DEF Exit, CliInv, CliSteps, outVars
    <2>6. QED
      BY <1>7, <2>2, <2>3, <2>4, <2>5 DEF AnswerCli
  <1>8. CASE OpenBody
    BY <1>2, <1>3, <1>8 DEF OpenBody, CliGoto, Exit, CliInv, CliSteps, outVars
  <1>9. CASE WriteText
    BY <1>2, <1>3, <1>9 DEF WriteText, CliGoto, Exit, CliInv, CliSteps, outVars
  <1>10. CASE SaveFiles
    <2>1. ExchangeInv' /\ PagesInv' /\ heard' = heard
      BY <1>3, <1>10 DEF SaveFiles
    <2>2. CASE Save /\ payload # <<>> /\ UNCHANGED cliVars
      <3>1. OutInv' /\ payload' = payload
        BY <2>2, OutStepKeeps
        DEF OutNext, Save, OpenDir, Scan, Answer, Look, Replace, CreateNew, WriteFails, CleanUp
      <3>2. outStep' = "saved" => wrote' # <<>>
        BY <2>2, <3>1, PayloadsAre DEF OutInv, OutTypes, Progress
      <3>3. QED
        BY <1>10, <2>1, <2>2, <3>1, <3>2 DEF SaveFiles, CliInv, cliVars
    <2>3. CASE ~(Save /\ payload # <<>> /\ UNCHANGED cliVars)
      BY <1>2, <1>10, <2>1, <2>3 DEF SaveFiles, Exit, CliInv, CliSteps, outVars, SaveEnded
    <2>4. QED
      BY <2>2, <2>3
  <1>11. QED
    BY <1>4, <1>5, <1>6, <1>7, <1>8, <1>9, <1>10 DEF CliNext

ReceivingInv == TruthInv /\ OutInv

LEMMA ReceivingInit ==
  ASSUME Init
  PROVE  ReceivingInv
  BY TruthInit, OutStarts DEF Init, ReceivingInv

LEMMA ReceivingStep ==
  ASSUME ReceivingInv, [Next]_vars
  PROVE  ReceivingInv' /\ [OutNext]_outVars
  <1> USE DEF ReceivingInv
  <1>1. ASSUME UNCHANGED outVars
        PROVE  OutInv'
    <2>1. AnyEntry' = AnyEntry
      BY <1>1 DEF AnyEntry, outVars
    <2>2. QED
      BY <1>1, <2>1 DEF OutInv, OutTypes, Progress, FreshListed, outVars
  <1>2. CASE PageNext /\ UNCHANGED <<cliVars, outVars>>
    BY <1>1, <1>2, PageKeeps DEF PageNext
  <1>3. CASE CliNext /\ UNCHANGED pageVars
    <2>1. [OutNext]_outVars
      BY <1>3 DEF CliNext, Start, EnterPin, RequestFails, AnswerCli, OpenBody, WriteText, SaveFiles,
                  OutNext
    <2>2. OutInv'
      BY <1>1, <2>1, OutStepKeeps
    <2>3. QED
      BY <1>3, <2>1, <2>2, CliKeeps
  <1>4. CASE Serve /\ UNCHANGED <<pageVars, cliVars, outVars>>
    BY <1>1, <1>4, ServeKeeps
  <1>5. CASE (Expire \/ Lose) /\ UNCHANGED <<pageVars, cliVars, outVars>>
    <2>1. /\ requests' \subseteq requests /\ answers' \subseteq answers
          /\ UNCHANGED <<heard, opener>> /\ (message = "opened" => message' = "opened")
      BY <1>5 DEF Expire, Lose
    <2>2. ExchangeInv' /\ PagesInv' /\ CliInv'
      BY <1>5, <2>1
      DEF TruthInv, ExchangeInv, PagesInv, CliInv, Linked, pageVars, cliVars, outVars
    <2>3. QED
      BY <1>1, <1>5, <2>2 DEF TruthInv
  <1>6. CASE Interfere /\ UNCHANGED <<exchangeVars, pageVars, cliVars>>
    <2>1. UNCHANGED <<payload, outStep, wrote>>
      BY <1>6 DEF Interfere
    <2>2. TruthInv'
      BY <1>6, <2>1
      DEF TruthInv, ExchangeInv, PagesInv, CliInv, Linked, exchangeVars, pageVars, cliVars
    <2>3. QED
      BY <1>6, <2>2, OutStepKeeps DEF OutNext
  <1>7. CASE UNCHANGED vars
    <2>1. TruthInv'
      BY <1>7
      DEF TruthInv, ExchangeInv, PagesInv, CliInv, Linked, vars, exchangeVars, pageVars, cliVars, outVars
    <2>2. QED
      BY <1>1, <1>7, <2>1 DEF vars
  <1>8. QED
    BY <1>2, <1>3, <1>4, <1>5, <1>6, <1>7 DEF Next

\* What recipients are told is true, for any number of them, of requests and of wrong PINs.
THEOREM RecipientsTold == Spec => []ToldTheTruth
  <1>1. Init => ReceivingInv
    BY ReceivingInit
  <1>2. ReceivingInv /\ [Next]_vars => ReceivingInv'
    BY ReceivingStep
  <1>3. ReceivingInv => ToldTheTruth
    BY TruthFollows DEF ReceivingInv
  <1>4. QED
    BY <1>1, <1>2, <1>3, PTL DEF Spec

\* Entries of other processes are kept, for any message, directories and interference.
THEOREM OthersNotLost == Spec => ForeignKept
  <1>1. Init => ReceivingInv
    BY ReceivingInit
  <1>2. ReceivingInv /\ [Next]_vars => ReceivingInv'
    BY ReceivingStep
  <1>3. ReceivingInv /\ [Next]_vars => [OthersKept]_outVars
    BY ReceivingStep, OutStepKeepsOthers DEF ReceivingInv
  <1>4. QED
    BY <1>1, <1>2, <1>3, PTL DEF Spec, ForeignKept

\* The types that the steps keep, beside those of the save.
RestTypes ==
  /\ message \in {"stored", "opened", "gone"} /\ wrong \in 0..MaxFailed
  /\ wrong = MaxFailed => message = "gone"
  /\ attempt \in [Clients -> 0..MaxAttempts]
  /\ opener \in Clients \cup {Nobody}
  /\ exit \in ExitClasses \cup {None}

LEMMA RestStarts ==
  ASSUME Init
  PROVE  RestTypes
  BY ExchangeAssumption DEF Init, ExchangeInit, CliInit, RestTypes

LEMMA RestStep ==
  ASSUME RestTypes, ReceivingInv, [Next]_vars
  PROVE  RestTypes'
  <1> USE DEF RestTypes
  <1>1. ASSUME exchangeVars' = exchangeVars, exit' \in ExitClasses \cup {None}
        PROVE  RestTypes'
    BY <1>1 DEF exchangeVars
  <1>2. ASSUME NEW c \in Clients, NEW status, Ask(c) \/ Receive(c, status) \/ GiveUp(c),
               exit' \in ExitClasses \cup {None}
        PROVE  RestTypes'
    <2>1. attempt' \in [Clients -> 0..MaxAttempts]
      BY <1>2, ExchangeAssumption DEF Ask, Receive, GiveUp
    <2>2. UNCHANGED <<message, wrong, opener>>
      BY <1>2 DEF Ask, Receive, GiveUp
    <2>3. QED
      BY <1>2, <2>1, <2>2
  <1>3. CASE PageNext /\ UNCHANGED <<cliVars, outVars>>
    <2>1. PICK p \in Pages : Submit(p) \/ FetchFails(p) \/ AnswerPage(p) \/ Render(p)
      BY <1>3 DEF PageNext
    <2>2. p \in Clients /\ exit' = exit
      BY <1>3, ReceivingAssumption DEF cliVars
    <2>3. \/ exchangeVars' = exchangeVars
          \/ Ask(p) \/ GiveUp(p) \/ \E status \in {200, 403, 404, 503} : Receive(p, status)
      BY <2>1 DEF Submit, FetchFails, AnswerPage, Render
    <2>4. QED
      BY <1>1, <1>2, <2>2, <2>3
  <1>4. CASE CliNext /\ UNCHANGED pageVars
    <2>1. Cli \in Clients
      BY ReceivingAssumption
    <2>2. ASSUME Start \/ OpenBody \/ WriteText \/ SaveFiles
          PROVE  RestTypes'
      <3>1. exchangeVars' = exchangeVars
        BY <2>2 DEF Start, OpenBody, WriteText, SaveFiles
      <3>2. exit' \in ExitClasses \cup {None}
        <4>1. CASE Start
          BY <4>1 DEF Start, CliGoto, Exit, ExitClasses
        <4>2. CASE OpenBody
          BY <4>2 DEF OpenBody, CliGoto, Exit, ExitClasses
        <4>3. CASE WriteText
          BY <4>3 DEF WriteText, CliGoto, Exit, ExitClasses
        <4>4. CASE SaveFiles
          <5>1. exit' = exit \/ exit' \in {"ok", "output"}
            BY <4>4 DEF SaveFiles, Exit, cliVars
          <5>2. QED
            BY <5>1 DEF ExitClasses
        <4>5. QED
          BY <2>2, <4>1, <4>2, <4>3, <4>4
      <3>3. QED
        BY <1>1, <3>1, <3>2
    <2>3. ASSUME EnterPin \/ RequestFails \/ AnswerCli
          PROVE  RestTypes'
      <3>1. \/ exchangeVars' = exchangeVars
            \/ Ask(Cli) \/ GiveUp(Cli) \/ \E status \in {200, 403, 404, 503} : Receive(Cli, status)
        <4>1. CASE EnterPin
          BY <4>1 DEF EnterPin
        <4>2. CASE RequestFails
          BY <4>2 DEF RequestFails
        <4>3. CASE AnswerCli
          <5>1. Receive(Cli, 200) \/ Receive(Cli, 403) \/ Receive(Cli, 404) \/ Receive(Cli, 503)
            BY <4>3, Zenon DEF AnswerCli
          <5>2. QED
            BY <5>1, 200 \in {200, 403, 404, 503}, 403 \in {200, 403, 404, 503},
               404 \in {200, 403, 404, 503}, 503 \in {200, 403, 404, 503}, Zenon
        <4>4. QED
          BY <2>3, <4>1, <4>2, <4>3
      <3>2. exit' \in ExitClasses \cup {None}
        <4>1. CASE EnterPin
          BY <4>1 DEF EnterPin, CliGoto, Exit, ExitClasses
        <4>2. CASE RequestFails
          BY <4>2 DEF RequestFails, Exit, ExitClasses
        <4>3. CASE AnswerCli
          BY <4>3 DEF AnswerCli, CliGoto, Exit, ExitClasses
        <4>4. QED
          BY <2>3, <4>1, <4>2, <4>3
      <3>3. QED
        BY <1>1, <1>2, <2>1, <3>1, <3>2
    <2>4. QED
      BY <1>4, <2>2, <2>3 DEF CliNext
  <1>5. CASE Serve /\ UNCHANGED <<pageVars, cliVars, outVars>>
    <2>1. PICK r \in requests : Open(r) \/ WrongPin(r) \/ Missing(r) \/ Rejected(r)
      BY <1>5 DEF Serve
    <2>2. r.from \in Clients
      BY DEF ReceivingInv, TruthInv, ExchangeInv
    <2>3. attempt' = attempt /\ exit' = exit
      BY <1>5 DEF Serve, cliVars
    <2>4. opener' \in Clients \cup {Nobody}
      BY <2>1, <2>2 DEF Open, WrongPin, Missing, Rejected
    <2>5. /\ message' \in {"stored", "opened", "gone"} /\ wrong' \in 0..MaxFailed
          /\ wrong' = MaxFailed => message' = "gone"
      BY <2>1, ExchangeAssumption DEF Open, WrongPin, Missing, Rejected, Charge
    <2>6. QED
      BY <2>3, <2>4, <2>5
  <1>6. CASE (Expire \/ Lose) /\ UNCHANGED <<pageVars, cliVars, outVars>>
    BY <1>6 DEF Expire, Lose, cliVars
  <1>7. CASE Interfere /\ UNCHANGED <<exchangeVars, pageVars, cliVars>>
    BY <1>7 DEF exchangeVars, cliVars
  <1>8. CASE UNCHANGED vars
    BY <1>8 DEF vars, exchangeVars, cliVars
  <1>9. QED
    BY <1>3, <1>4, <1>5, <1>6, <1>7, <1>8 DEF Next

WholeInv == ReceivingInv /\ RestTypes /\ KeysAre

LEMMA WholeStarts ==
  ASSUME Init
  PROVE  WholeInv
  BY ReceivingInit, RestStarts DEF Init, OutInit, KeysAre, WholeInv

LEMMA WholeStep ==
  ASSUME WholeInv, [Next]_vars
  PROVE  WholeInv'
  <1>1. ReceivingInv' /\ [OutNext]_outVars /\ RestTypes'
    BY ReceivingStep, RestStep DEF WholeInv
  <1>2. payload' = payload /\ key' = key
    BY <1>1 DEF OutNext, Save, OpenDir, Scan, Answer, Look, Replace, CreateNew, WriteFails,
                CleanUp, Interfere, outVars
  <1>3. QED
    BY <1>1, <1>2 DEF WholeInv, KeysAre

LEMMA KeysStayApart ==
  ASSUME WholeInv
  PROVE  KeysApart /\ \A i \in DOMAIN payload : Portable(Exported(payload)[i])
  BY OutKeysApart DEF WholeInv, ReceivingInv, OutInv, OutTypes

\* The types of the receiving side; and a message's files are saved under names that every
\* platform can create, no two of them one entry where case is ignored.
THEOREM ReceivingTypes == Spec => []ReceivingTypeOK
  <1>1. Init => WholeInv
    BY WholeStarts
  <1>2. WholeInv /\ [Next]_vars => WholeInv'
    BY WholeStep
  <1>3. WholeInv => ReceivingTypeOK
    <2> SUFFICES ASSUME WholeInv
                 PROVE  ReceivingTypeOK
      OBVIOUS
    <2>1. OutTypeOK
      <3>1. OutTypes
        BY DEF WholeInv, ReceivingInv, OutInv
      <3>2. KeysApart /\ \A i \in DOMAIN payload : Portable(Exported(payload)[i])
        BY KeysStayApart
      <3>3. QED
        BY <3>1, <3>2 DEF OutTypes, OutTypeOK, AnyEntry, KeysApart
    <2>2. heard \subseteq {opener} /\ page \in [Pages -> PageSteps] /\ cli \in CliSteps
      BY DEF WholeInv, ReceivingInv, TruthInv, ExchangeInv, PagesInv, CliInv
    <2>3. QED
      BY <2>1, <2>2 DEF WholeInv, RestTypes, ReceivingTypeOK
  <1>4. QED
    BY <1>1, <1>2, <1>3, PTL DEF Spec

\* A save writes every file, or what it made anew is gone again but for what could not be
\* removed.
THEOREM AllSavedOrNone == Spec => []AllOrNothing
  <1>1. Init => WholeInv
    BY WholeStarts
  <1>2. WholeInv /\ [Next]_vars => WholeInv'
    BY WholeStep
  <1>3. WholeInv => AllOrNothing
    BY KeysStayApart, SavedOrNothing DEF WholeInv, ReceivingInv
  <1>4. QED
    BY <1>1, <1>2, <1>3, PTL DEF Spec
=============================================================================
