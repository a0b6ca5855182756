------------------------- MODULE MemoryStore_proofs -------------------------
(***************************************************************************)
(* For any ids, sizes, caps and times, and any number of calls: the        *)
(* running total of the in-memory store is what it stores, and the store   *)
(* keeps the contract.  A sum over a finite set is a fold, and a fold is a *)
(* recursive function; what is proved of it here is that it counts the     *)
(* units of the set, which the theorems about cardinalities then tell      *)
(* everything about.                                                       *)
(***************************************************************************)
EXTENDS MemoryStore, FunctionTheorems, FiniteSetTheorems, WellFoundedInduction, NaturalsInduction,
        TLAPS

-----------------------------------------------------------------------------
\* f[x] units for each x of S.
Units(f, S) == {u \in S \X Nat : u[2] \in 1..f[u[1]]}

\* What the sum of f over a set calls an element's turn.
FirstOf(S) == CHOOSE x \in S : TRUE

\* The recursion that sums f over the subsets of S.
Sums(g, f, S) ==
  g = [s \in SUBSET S |-> IF s = {} THEN 0 ELSE f[FirstOf(s)] + g[s \ {FirstOf(s)}]]

\* The units of finitely many elements are finitely many, and one element adds its own.
LEMMA UnitsOfOne ==
  ASSUME NEW x, NEW f, f[x] \in Nat
  PROVE  IsFiniteSet(Units(f, {x})) /\ Cardinality(Units(f, {x})) = f[x]
<1> DEFINE n == f[x]
           unit == [k \in 1..n |-> <<x, k>>]
<1>1. IsFiniteSet(1..n) /\ Cardinality(1..n) = n
  BY FS_Interval
<1>2. unit \in [1..n -> Units(f, {x})]
  BY DEF Units
<1>3. \A a, b \in 1..n : unit[a] = unit[b] => a = b
  OBVIOUS
<1>4. ASSUME NEW u \in Units(f, {x})
      PROVE  \E k \in 1..n : unit[k] = u
  <2>1. u[1] = x /\ u[2] \in 1..n /\ u = <<u[1], u[2]>>
    BY DEF Units
  <2>2. unit[u[2]] = u
    BY <2>1
  <2>3. QED
    BY <2>1, <2>2
<1> HIDE DEF unit, n
<1>5. ExistsBijection(1..n, Units(f, {x}))
  BY <1>2, <1>3, <1>4, Fun_IsBij DEF ExistsBijection
<1>6. QED
  BY <1>1, <1>5, FS_Bijection DEF n

LEMMA UnitsFinite ==
  ASSUME NEW S, IsFiniteSet(S), NEW f, \A x \in S : f[x] \in Nat
  PROVE  IsFiniteSet(Units(f, S))
<1> DEFINE each == [x \in S |-> Units(f, {x})]
           parts == {Units(f, {x}) : x \in S}
<1>1. each \in Surjection(S, parts)
  BY DEF Surjection
<1>2. IsFiniteSet(parts)
  BY <1>1, FS_Surjection
<1>3. \A T \in parts : IsFiniteSet(T)
  BY UnitsOfOne
<1>4. IsFiniteSet(UNION parts)
  <2> HIDE DEF parts
  <2>1. QED
    BY <1>2, <1>3, FS_UNION
<1>5. Units(f, S) = UNION parts
  BY DEF Units
<1>6. QED
  BY <1>4, <1>5

LEMMA UnitsOfMore ==
  ASSUME NEW S, IsFiniteSet(S), NEW f, \A x \in S : f[x] \in Nat, NEW T \in SUBSET S
  PROVE  /\ Cardinality(Units(f, S)) = Cardinality(Units(f, T)) + Cardinality(Units(f, S \ T))
         /\ Cardinality(Units(f, T)) \in Nat /\ Cardinality(Units(f, S \ T)) \in Nat
<1>1. IsFiniteSet(T) /\ IsFiniteSet(S \ T)
  BY FS_Subset, FS_Difference
<1>2. IsFiniteSet(Units(f, T)) /\ IsFiniteSet(Units(f, S \ T))
  BY <1>1, UnitsFinite
<1>3. Units(f, S) = Units(f, T) \cup Units(f, S \ T)
  BY DEF Units
<1>4. Units(f, T) \cap Units(f, S \ T) = {}
  BY DEF Units
<1>5. Cardinality(Units(f, T)) \in Nat /\ Cardinality(Units(f, S \ T)) \in Nat
  BY <1>2, FS_CardinalityType
<1>6. Cardinality(Units(f, T) \cup Units(f, S \ T))
        = Cardinality(Units(f, T)) + Cardinality(Units(f, S \ T)) - 0
  <2> DEFINE A == Units(f, T)
             B == Units(f, S \ T)
  <2>1. IsFiniteSet(A) /\ IsFiniteSet(B) /\ A \cap B = {}
    BY <1>2, <1>4
  <2> HIDE DEF A, B
  <2>2. Cardinality(A \cup B) = Cardinality(A) + Cardinality(B) - Cardinality(A \cap B)
    BY <2>1, FS_Union
  <2>3. Cardinality(A \cap B) = 0
    BY <2>1, FS_EmptySet
  <2>4. QED
    BY <2>2, <2>3 DEF A, B
<1>7. QED
  BY <1>3, <1>5, <1>6

LEMMA FirstIsIn ==
  ASSUME NEW s, s # {}
  PROVE  FirstOf(s) \in s
BY DEF FirstOf

\* There is a function that the recursion describes: the one that counts.
LEMMA CountSums ==
  ASSUME NEW S, IsFiniteSet(S), NEW f, \A x \in S : f[x] \in Nat
  PROVE  Sums([s \in SUBSET S |-> Cardinality(Units(f, s))], f, S)
<1> DEFINE count == [s \in SUBSET S |-> Cardinality(Units(f, s))]
<1>1. ASSUME NEW s \in SUBSET S, s = {}
      PROVE  count[s] = 0
  <2>1. Units(f, s) = {}
    BY <1>1 DEF Units
  <2>2. QED
    BY <2>1, FS_EmptySet
<1>2. ASSUME NEW s \in SUBSET S, s # {}
      PROVE  count[s] = f[FirstOf(s)] + count[s \ {FirstOf(s)}]
  <2> DEFINE x == FirstOf(s)
  <2>1. x \in s
    BY <1>2, FirstIsIn
  <2> HIDE DEF x
  <2>2. IsFiniteSet(s) /\ \A y \in s : f[y] \in Nat
    BY FS_Subset
  <2>3. /\ Cardinality(Units(f, s)) = Cardinality(Units(f, {x})) + Cardinality(Units(f, s \ {x}))
    <3>1. {x} \in SUBSET s
      BY <2>1
    <3>2. QED
      BY <2>2, <3>1, UnitsOfMore
  <2>4. Cardinality(Units(f, {x})) = f[x]
    BY <2>1, <2>2, UnitsOfOne
  <2>5. s \ {x} \in SUBSET S
    OBVIOUS
  <2>6. QED
    BY <2>3, <2>4, <2>5 DEF x
<1> HIDE DEF count
<1>3. count = [s \in SUBSET S |->
                IF s = {} THEN 0 ELSE f[FirstOf(s)] + count[s \ {FirstOf(s)}]]
  <2>1. DOMAIN count = SUBSET S /\ count = [s \in SUBSET S |-> count[s]]
    BY DEF count
  <2>2. QED
    BY <1>1, <1>2, <2>1
<1>4. QED
  BY <1>3 DEF Sums, count

\* And only one: a smallest set of which two of them differ would have an element less.
LEMMA SumsAlike ==
  ASSUME NEW S, IsFiniteSet(S), NEW f, NEW g, NEW h, Sums(g, f, S), Sums(h, f, S)
  PROVE  g[S] = h[S]
<1> DEFINE Sizes == {n \in Nat : \E s \in SUBSET S : Cardinality(s) = n /\ g[s] # h[s]}
<1>1. SUFFICES ASSUME Sizes # {}
               PROVE  FALSE
  <2>1. Cardinality(S) \in Nat
    BY FS_CardinalityType
  <2>2. QED
    BY <2>1
<1>2. PICK n \in Sizes : \A m \in Sizes : ~(<<m, n>> \in OpToRel(<, Nat))
  <2>1. Sizes \subseteq Nat
    OBVIOUS
  <2>2. PICK k : k \in Sizes
    BY <1>1
  <2> HIDE DEF Sizes
  <2>3. QED
    BY <2>1, <2>2, WFMin, NatLessThanWellFounded
<1>3. \A m \in Sizes : ~(m < n)
  <2>1. Sizes \subseteq Nat
    OBVIOUS
  <2> HIDE DEF Sizes
  <2>2. QED
    BY <1>2, <2>1, Zenon DEF OpToRel
<1>4. PICK s \in SUBSET S : Cardinality(s) = n /\ g[s] # h[s]
  BY <1>2
<1>5. /\ g[s] = IF s = {} THEN 0 ELSE f[FirstOf(s)] + g[s \ {FirstOf(s)}]
      /\ h[s] = IF s = {} THEN 0 ELSE f[FirstOf(s)] + h[s \ {FirstOf(s)}]
  <2>1. /\ g = [t \in SUBSET S |-> IF t = {} THEN 0 ELSE f[FirstOf(t)] + g[t \ {FirstOf(t)}]]
        /\ h = [t \in SUBSET S |-> IF t = {} THEN 0 ELSE f[FirstOf(t)] + h[t \ {FirstOf(t)}]]
    BY DEF Sums
  <2>2. QED
    BY <2>1
<1>6. s # {}
  BY <1>4, <1>5
<1>7. FirstOf(s) \in s
  BY <1>6, FirstIsIn
<1> DEFINE t == s \ {FirstOf(s)}
<1>8. Cardinality(t) = n - 1 /\ Cardinality(t) \in Nat /\ n \in Nat
  <2>1. IsFiniteSet(s)
    BY FS_Subset
  <2>2. IsFiniteSet(t) /\ Cardinality(t) = Cardinality(s) - 1
    BY <2>1, <1>7, FS_RemoveElement
  <2>3. QED
    BY <2>2, <1>4, FS_CardinalityType
<1>9. g[t] = h[t]
  <2>1. t \in SUBSET S
    OBVIOUS
  <2> HIDE DEF t
  <2>2. n - 1 \in Nat /\ n - 1 < n
    BY <1>8
  <2>3. n - 1 \notin Sizes
    BY <1>3, <2>2
  <2>4. QED
    BY <1>8, <2>1, <2>2, <2>3
<1>10. QED
  BY <1>4, <1>5, <1>6, <1>9

\* The bytes that leave with some ids, as a count.
LEMMA FreedIsCount ==
  ASSUME NEW map, NEW ids, IsFiniteSet(DOMAIN map), \A i \in DOMAIN map : Length(map[i]) \in Nat
  PROVE  Freed(map, ids)
           = Cardinality(Units([i \in DOMAIN map |-> Length(map[i])], DOMAIN map \cap ids))
<1> DEFINE S == DOMAIN map \cap ids
           f == [i \in DOMAIN map |-> Length(map[i])]
           By(g) == g = [s \in SUBSET S |->
                          IF s = {} THEN 0
                          ELSE Length(map[CHOOSE x \in s : TRUE]) + g[s \ {CHOOSE x \in s : TRUE}]]
<1>1. IsFiniteSet(S)
  BY FS_Intersection
<1>2. Freed(map, ids) = (CHOOSE g : By(g))[S]
  BY DEF Freed, MapThenSumSet, MapThenFoldSet
<1>3. \A g : By(g) <=> Sums(g, f, S)
  <2>1. \A s \in SUBSET S : s # {} => f[FirstOf(s)] = Length(map[FirstOf(s)])
    BY FirstIsIn
  <2>2. QED
    BY <2>1 DEF Sums, FirstOf
<1>4. \E g : By(g)
  <2>1. \A x \in S : f[x] \in Nat
    OBVIOUS
  <2> HIDE DEF By, f, S
  <2>2. \E g : Sums(g, f, S)
    BY <1>1, <2>1, CountSums
  <2>3. QED
    BY <1>3, <2>2
<1>5. Sums(CHOOSE g : By(g), f, S)
  BY <1>3, <1>4
<1>6. QED
  <2>1. \A x \in S : f[x] \in Nat
    OBVIOUS
  <2> HIDE DEF By, f, S
  <2>2. [s \in SUBSET S |-> Cardinality(Units(f, s))][S] = Cardinality(Units(f, S))
    OBVIOUS
  <2>3. (CHOOSE g : By(g))[S] = Cardinality(Units(f, S))
    BY <1>1, <1>5, <2>1, <2>2, CountSums, SumsAlike
  <2>4. QED
    BY <1>2, <2>3 DEF f, S

-----------------------------------------------------------------------------
Entry == [blob : Messages, generation : Nat, pin : Pins, expires_at : Nat, failed_attempts : Nat]

Total(map) == Freed(map, DOMAIN map)

\* The books are right: the total is that of the entries, and within the caps.
Booked(inner) ==
  /\ DOMAIN inner.map \subseteq Ids /\ \A i \in DOMAIN inner.map : inner.map[i] \in Entry
  /\ inner.bytes = Total(inner.map) /\ inner.bytes <= MaxBytes
  /\ Cardinality(DOMAIN inner.map) <= MaxMessages

\* What is not about bytes: no generation yet to come, no PINs used up.
Current(map, generation) ==
  \A i \in DOMAIN map : map[i].generation \in 1..generation /\ map[i].failed_attempts < MaxFailed

MemInv == Booked(Inner) /\ Current(messages, next_generation) /\ next_generation \in Nat

LEMMA Measured ==
  ASSUME NEW map, DOMAIN map \subseteq Ids, \A i \in DOMAIN map : map[i] \in Entry
  PROVE  IsFiniteSet(DOMAIN map) /\ \A i \in DOMAIN map : Length(map[i]) \in Nat
<1>1. IsFiniteSet(DOMAIN map)
  BY MemoryAssumption, FS_Subset
<1>2. \A i \in DOMAIN map : Length(map[i]) \in Nat
  BY MemoryAssumption DEF Length, Entry
<1>3. QED
  BY <1>1, <1>2

\* What leaves and what stays make up the total.
LEMMA FreedParts ==
  ASSUME NEW map, NEW ids, DOMAIN map \subseteq Ids, \A i \in DOMAIN map : map[i] \in Entry
  PROVE  /\ Total(map) = Freed(map, ids) + Total(Without(map, ids))
         /\ Freed(map, ids) \in Nat /\ Total(Without(map, ids)) \in Nat
<1> DEFINE f == [i \in DOMAIN map |-> Length(map[i])]
           left == Without(map, ids)
           h == [i \in DOMAIN left |-> Length(left[i])]
<1>1. DOMAIN left = DOMAIN map \ ids /\ \A i \in DOMAIN left : left[i] = map[i]
  BY DEF Without
<1>2. Total(map) = Cardinality(Units(f, DOMAIN map))
  <2>1. DOMAIN map \cap DOMAIN map = DOMAIN map
    OBVIOUS
  <2>2. QED
    BY <2>1, Measured, FreedIsCount DEF Total
<1>3. Freed(map, ids) = Cardinality(Units(f, DOMAIN map \cap ids))
  BY Measured, FreedIsCount
<1>4. Total(left) = Cardinality(Units(h, DOMAIN left))
  <2>1. DOMAIN left \cap DOMAIN left = DOMAIN left
    OBVIOUS
  <2>2. IsFiniteSet(DOMAIN left) /\ \A i \in DOMAIN left : Length(left[i]) \in Nat
    BY <1>1, Measured, FS_Difference
  <2> HIDE DEF left
  <2>3. QED
    BY <2>1, <2>2, FreedIsCount DEF Total
<1>5. Units(h, DOMAIN left) = Units(f, DOMAIN map \ (DOMAIN map \cap ids))
  <2>1. DOMAIN left = DOMAIN map \ (DOMAIN map \cap ids)
    BY <1>1
  <2>2. \A i \in DOMAIN left : h[i] = f[i]
    BY <1>1
  <2> HIDE DEF left, f, h
  <2>3. QED
    BY <2>1, <2>2 DEF Units
<1>6. \A i \in DOMAIN map : f[i] \in Nat
  BY Measured
<1>7. IsFiniteSet(DOMAIN map) /\ DOMAIN map \cap ids \in SUBSET DOMAIN map
  BY Measured
<1> HIDE DEF f, h, left
<1>8. QED
  BY <1>2, <1>3, <1>4, <1>5, <1>6, <1>7, UnitsOfMore DEF left

\* take keeps the books, whichever entries leave, and never subtracts more than there is.
LEMMA TakeKeepsBooks ==
  ASSUME NEW inner, NEW ids, Booked(inner)
  PROVE  /\ Booked(Take(inner, ids))
         /\ Take(inner, ids).bytes \in Nat /\ Take(inner, ids).bytes <= inner.bytes
<1> DEFINE map == inner.map
           left == Without(map, ids)
<1>1. DOMAIN left = DOMAIN map \ ids /\ \A i \in DOMAIN left : left[i] = map[i]
  BY DEF Without
<1>2. /\ Total(map) = Freed(map, ids) + Total(left)
      /\ Freed(map, ids) \in Nat /\ Total(left) \in Nat
  BY FreedParts DEF Booked
<1>3. Cardinality(DOMAIN left) <= Cardinality(DOMAIN map) /\ Cardinality(DOMAIN left) \in Nat
      /\ Cardinality(DOMAIN map) \in Nat
  <2>1. IsFiniteSet(DOMAIN map)
    BY Measured DEF Booked
  <2>2. QED
    BY <1>1, <2>1, FS_Subset, FS_CardinalityType
<1>4. Take(inner, ids).map = left /\ Take(inner, ids).bytes = inner.bytes - Freed(map, ids)
  BY DEF Take
<1> HIDE DEF left
<1>5. Take(inner, ids).bytes = Total(left)
  BY <1>2, <1>4 DEF Booked
<1>6. QED
  BY <1>1, <1>2, <1>3, <1>4, <1>5, MemoryAssumption DEF Booked

\* So does inserting what is admitted.
LEMMA InsertKeepsBooks ==
  ASSUME NEW room, NEW id \in Ids, NEW entry \in Entry, Booked(room), id \notin DOMAIN room.map,
         room.map = Without(room.map, {}), Admits(room, Length(entry))
  PROVE  Booked([map |-> [i \in DOMAIN room.map \cup {id} |->
                           IF i = id THEN entry ELSE room.map[i]],
                 bytes |-> room.bytes + Length(entry)])
<1> DEFINE map == [i \in DOMAIN room.map \cup {id} |-> IF i = id THEN entry ELSE room.map[i]]
<1>1. /\ DOMAIN map = DOMAIN room.map \cup {id} /\ map[id] = entry
      /\ DOMAIN map \subseteq Ids /\ \A i \in DOMAIN map : map[i] \in Entry
  BY DEF Booked
<1>2. Without(map, {id}) = room.map
  <2>1. (DOMAIN room.map \cup {id}) \ {id} = DOMAIN room.map \ {}
    OBVIOUS
  <2>2. \A i \in DOMAIN room.map : map[i] = room.map[i]
    OBVIOUS
  <2> HIDE DEF map
  <2>3. QED
    BY <1>1, <2>1, <2>2 DEF Without
<1>3. Freed(map, {id}) = Length(entry)
  <2> DEFINE f == [i \in DOMAIN map |-> Length(map[i])]
  <2>1. DOMAIN map \cap {id} = {id}
    BY <1>1
  <2>2. f[id] = Length(entry) /\ f[id] \in Nat
    <3>1. \A i \in DOMAIN map : Length(map[i]) \in Nat
      BY <1>1, Measured
    <3>2. f[id] = Length(map[id])
      BY <1>1
    <3> HIDE DEF f
    <3>3. QED
      BY <1>1, <3>1, <3>2
  <2>3. Freed(map, {id}) = Cardinality(Units(f, {id}))
    <3>1. IsFiniteSet(DOMAIN map) /\ \A i \in DOMAIN map : Length(map[i]) \in Nat
      BY <1>1, Measured
    <3> HIDE DEF map
    <3>2. QED
      BY <2>1, <3>1, FreedIsCount
  <2> HIDE DEF f
  <2>4. QED
    BY <2>2, <2>3, UnitsOfOne
<1>4. Total(map) = Length(entry) + Total(room.map)
  <2> HIDE DEF map
  <2>1. Total(map) = Freed(map, {id}) + Total(Without(map, {id}))
    BY <1>1, FreedParts
  <2>2. QED
    BY <1>2, <1>3, <2>1
<1>5. Cardinality(DOMAIN map) <= MaxMessages
  <2>1. IsFiniteSet(DOMAIN room.map)
    BY Measured DEF Booked
  <2>2. Cardinality(DOMAIN map) = Cardinality(DOMAIN room.map) + 1
    BY <1>1, <2>1, FS_AddElement
  <2>3. QED
    BY <2>1, <2>2, FS_CardinalityType, MemoryAssumption DEF Admits
<1>6. Total(room.map) \in Nat /\ Length(entry) \in Nat
  <2> HIDE DEF map
  <2>1. Freed(map, {id}) \in Nat /\ Total(Without(map, {id})) \in Nat
    BY <1>1, FreedParts
  <2>2. QED
    BY <1>2, <1>3, <2>1
<1> HIDE DEF map
<1>7. QED
  <2>1. room.bytes = Total(room.map) /\ room.bytes + Length(entry) <= MaxBytes
    BY DEF Booked, Admits
  <2>2. QED
    BY <1>1, <1>4, <1>5, <1>6, <2>1 DEF Booked, map

-----------------------------------------------------------------------------
LEMMA InitMemInv == Init => MemInv
<1> SUFFICES ASSUME Init
             PROVE  MemInv
  OBVIOUS
<1>1. DOMAIN messages = {}
  BY DEF Init
<1>2. Total(messages) = 0 /\ Cardinality(DOMAIN messages) = 0
  <2> DEFINE f == [i \in DOMAIN messages |-> Length(messages[i])]
  <2>1. DOMAIN messages \cap DOMAIN messages = {}
    BY <1>1
  <2>2. Total(messages) = Cardinality(Units(f, {}))
    <3>1. IsFiniteSet(DOMAIN messages) /\ \A i \in DOMAIN messages : Length(messages[i]) \in Nat
      BY <1>1, FS_EmptySet
    <3>2. QED
      BY <2>1, <3>1, FreedIsCount DEF Total
  <2>3. Units(f, {}) = {}
    BY DEF Units
  <2> HIDE DEF f
  <2>4. QED
    BY <1>1, <2>2, <2>3, FS_EmptySet
<1>3. Booked(Inner)
  BY <1>1, <1>2, MemoryAssumption DEF Booked, Inner, Init
<1>4. QED
  BY <1>1, <1>3 DEF MemInv, Current, Init

\* Taking entries leaves the others as they are.
LEMMA TakeLeavesOthers ==
  ASSUME NEW inner, NEW ids
  PROVE  /\ DOMAIN Take(inner, ids).map = DOMAIN inner.map \ ids
         /\ \A i \in DOMAIN Take(inner, ids).map : Take(inner, ids).map[i] = inner.map[i]
         /\ Take(inner, ids).map = Without(Take(inner, ids).map, {})
BY DEF Take, Without

\* A step that only takes entries keeps everything.
LEMMA TakingKeepsInv ==
  ASSUME MemInv, NEW inner, Booked(inner), Current(inner.map, next_generation)
  PROVE  \A ids : /\ Booked(Take(inner, ids))
                  /\ Current(Take(inner, ids).map, next_generation)
<1> SUFFICES ASSUME NEW ids
             PROVE  Booked(Take(inner, ids)) /\ Current(Take(inner, ids).map, next_generation)
  OBVIOUS
<1>1. Booked(Take(inner, ids))
  BY TakeKeepsBooks
<1>2. Current(Take(inner, ids).map, next_generation)
  BY TakeLeavesOthers DEF Current
<1>3. QED
  BY <1>1, <1>2

LEMMA BecomesKeepsInv ==
  ASSUME MemInv, NEW inner, Booked(inner), Current(inner.map, next_generation),
         Becomes(inner), UNCHANGED next_generation
  PROVE  MemInv'
<1>1. Inner'.map = inner.map /\ Inner'.bytes = inner.bytes
  BY DEF Inner, Becomes
<1>2. Booked(Inner)'
  BY <1>1 DEF Booked
<1>3. QED
  BY <1>2 DEF MemInv, Current, Becomes

LEMMA InnerBooked ==
  ASSUME MemInv
  PROVE  /\ Booked(Inner) /\ Current(Inner.map, next_generation)
         /\ Inner.map = messages /\ Inner.bytes = bytes
BY DEF MemInv, Inner

\* Counting a wrong PIN leaves every entry's bytes.
Counted(hit) ==
  [i \in Stored |-> IF i \in hit THEN [messages[i] EXCEPT !.failed_attempts = @ + 1]
                    ELSE messages[i]]

LEMMA CountingKeepsBooks ==
  ASSUME MemInv, NEW hit
  PROVE  Booked([map |-> Counted(hit), bytes |-> bytes])
<1> DEFINE map == Counted(hit)
           f == [i \in DOMAIN messages |-> Length(messages[i])]
           h == [i \in DOMAIN map |-> Length(map[i])]
<1>1. DOMAIN messages \subseteq Ids /\ \A i \in DOMAIN messages : messages[i] \in Entry
  BY InnerBooked DEF Booked
<1>2. DOMAIN map = DOMAIN messages
  BY DEF Counted, Stored
<1>3. \A i \in DOMAIN map : map[i] \in Entry /\ map[i].blob = messages[i].blob
  BY <1>1 DEF Counted, Stored, Entry
<1>4. \A i \in DOMAIN map : h[i] = f[i]
  BY <1>2, <1>3 DEF Length
<1>5. Total(messages) = Cardinality(Units(f, DOMAIN messages))
  <2>1. DOMAIN messages \cap DOMAIN messages = DOMAIN messages
    OBVIOUS
  <2>2. QED
    BY <1>1, <2>1, Measured, FreedIsCount DEF Total
<1>6. Total(map) = Cardinality(Units(h, DOMAIN map))
  <2>1. DOMAIN map \cap DOMAIN map = DOMAIN map
    OBVIOUS
  <2>2. IsFiniteSet(DOMAIN map) /\ \A i \in DOMAIN map : Length(map[i]) \in Nat
    BY <1>1, <1>2, <1>3, Measured
  <2> HIDE DEF map
  <2>3. QED
    BY <2>1, <2>2, FreedIsCount DEF Total
<1>7. Units(f, DOMAIN messages) = Units(h, DOMAIN map)
  <2> HIDE DEF f, h, map
  <2>1. QED
    BY <1>2, <1>4 DEF Units
<1>8. bytes = Total(messages) /\ bytes <= MaxBytes /\ Cardinality(DOMAIN messages) <= MaxMessages
  BY InnerBooked DEF Booked
<1> HIDE DEF map, f, h
<1>9. Total(map) = bytes
  BY <1>5, <1>6, <1>7, <1>8
<1>10. QED
  BY <1>1, <1>2, <1>3, <1>8, <1>9 DEF Booked, map

\* The last wrong PIN allowed burns the entry, so that no entry has used up its PINs.
LEMMA RecordFailureKeepsInv ==
  ASSUME MemInv, NEW id, NEW g, RecordFailure(id, g)
  PROVE  MemInv'
<1> DEFINE hit == Meant(id, g)
           counted == Counted(hit)
           burned == {i \in hit : counted[i].failed_attempts >= MaxFailed}
           inner == [map |-> counted, bytes |-> bytes]
<1>1. Becomes(Take(inner, burned)) /\ UNCHANGED next_generation
  BY DEF RecordFailure, Counted
<1>2. Booked(Take(inner, burned))
  BY CountingKeepsBooks, TakeKeepsBooks
<1>3. Current(Take(inner, burned).map, next_generation)
  <2> SUFFICES ASSUME NEW i \in DOMAIN Take(inner, burned).map
               PROVE  /\ counted[i].generation \in 1..next_generation
                      /\ counted[i].failed_attempts < MaxFailed
    BY TakeLeavesOthers DEF Current
  <2>1. i \in Stored /\ i \notin burned
    BY TakeLeavesOthers DEF Counted
  <2>2. messages[i] \in Entry /\ messages[i].generation \in 1..next_generation
        /\ messages[i].failed_attempts < MaxFailed
    BY <2>1, InnerBooked DEF Booked, Current, Stored
  <2>3. CASE i \in hit
    <3>1. counted[i] = [messages[i] EXCEPT !.failed_attempts = @ + 1]
      BY <2>1, <2>3 DEF Counted
    <3>2. counted[i] \in Entry /\ counted[i].generation = messages[i].generation
      BY <2>2, <3>1 DEF Entry
    <3>3. ~(counted[i].failed_attempts >= MaxFailed)
      BY <2>1, <2>3
    <3>4. counted[i].failed_attempts \in Nat
      BY <3>2 DEF Entry
    <3> HIDE DEF counted
    <3>5. QED
      BY <2>2, <3>2, <3>3, <3>4, MemoryAssumption
  <2>4. CASE i \notin hit
    BY <2>1, <2>2, <2>4 DEF Counted
  <2>5. QED
    BY <2>3, <2>4
<1> HIDE DEF burned, inner
<1>4. QED
  BY <1>1, <1>2, <1>3, BecomesKeepsInv

LEMMA InsertKeepsInv ==
  ASSUME MemInv, NEW id \in Ids, NEW m \in Messages, NEW t \in Times, NEW ttl \in Ttls,
         Insert(id, m, t, ttl)
  PROVE  MemInv'
<1> DEFINE first == Take(Inner, {id} \cap ExpiredIds(messages, t))
           room == IF Admits(first, SizeOf[m]) THEN first
                   ELSE Take(first, ExpiredIds(first.map, t))
           entry == [blob |-> m, generation |-> next_generation + 1, pin |-> PinOf[m],
                     expires_at |-> t + ttl, failed_attempts |-> 0]
<1>1. Booked(first) /\ Current(first.map, next_generation)
  BY InnerBooked, TakingKeepsInv
<1>2. first.map = Without(first.map, {}) /\ room.map = Without(room.map, {})
  BY TakeLeavesOthers
<1>3. Booked(room) /\ Current(room.map, next_generation)
  <2> HIDE DEF first
  <2>1. QED
    BY <1>1, TakingKeepsInv
<1>4. entry \in Entry /\ Length(entry) = SizeOf[m]
  BY MemoryAssumption DEF MemInv, Entry, Length
<1>5. \/ Becomes(first) /\ UNCHANGED next_generation
      \/ Becomes(room) /\ UNCHANGED next_generation
      \/ /\ id \notin DOMAIN first.map /\ Admits(room, SizeOf[m])
         /\ bytes' = room.bytes + SizeOf[m]
         /\ next_generation' = next_generation + 1
         /\ messages' = [i \in DOMAIN room.map \cup {id} |->
                           IF i = id THEN entry ELSE room.map[i]]
  BY DEF Insert
<1>6. id \notin DOMAIN first.map => id \notin DOMAIN room.map
  BY TakeLeavesOthers
<1> HIDE DEF first, room, entry
<1>7. CASE Becomes(first) /\ UNCHANGED next_generation
  BY <1>1, <1>7, BecomesKeepsInv
<1>8. CASE Becomes(room) /\ UNCHANGED next_generation
  BY <1>3, <1>8, BecomesKeepsInv
<1>9. CASE /\ id \notin DOMAIN first.map /\ Admits(room, SizeOf[m])
           /\ bytes' = room.bytes + SizeOf[m]
           /\ next_generation' = next_generation + 1
           /\ messages' = [i \in DOMAIN room.map \cup {id} |->
                             IF i = id THEN entry ELSE room.map[i]]
  <2> DEFINE after == [map |-> [i \in DOMAIN room.map \cup {id} |->
                                 IF i = id THEN entry ELSE room.map[i]],
                       bytes |-> room.bytes + Length(entry)]
  <2>1. Booked(after)
    BY <1>2, <1>3, <1>4, <1>6, <1>9, InsertKeepsBooks
  <2>2. Inner'.map = after.map /\ Inner'.bytes = after.bytes
    BY <1>4, <1>9 DEF Inner
  <2>3. Booked(Inner)'
    <3> HIDE DEF after
    <3>1. QED
      BY <2>1, <2>2 DEF Booked
  <2>4. Current(messages, next_generation)'
    <3>1. next_generation \in Nat
      BY DEF MemInv
    <3>2. entry.generation = next_generation + 1 /\ entry.failed_attempts = 0
      BY DEF entry
    <3>3. QED
      BY <1>3, <1>9, <3>1, <3>2, MemoryAssumption DEF Current
  <2>5. QED
    BY <1>9, <2>3, <2>4 DEF MemInv
<1>10. QED
  BY <1>5, <1>7, <1>8, <1>9

LEMMA NextMemInv == MemInv /\ [Next]_storeVars => MemInv'
<1> SUFFICES ASSUME MemInv, [Next]_storeVars
             PROVE  MemInv'
  OBVIOUS
<1>1. ASSUME NEW id \in Ids, NEW g, TakeGeneration(id, g)
      PROVE  MemInv'
  BY <1>1, InnerBooked, TakingKeepsInv, BecomesKeepsInv DEF TakeGeneration
<1>2. ASSUME NEW t, Sweep(t)
      PROVE  MemInv'
  BY <1>2, InnerBooked, TakingKeepsInv, BecomesKeepsInv DEF Sweep
<1>3. CASE UNCHANGED storeVars
  BY <1>3 DEF storeVars, MemInv, Inner, Booked, Current
<1>4. QED
  BY <1>1, <1>2, <1>3, InsertKeepsInv, RecordFailureKeepsInv DEF Next

\* After any sequence of calls the running total is what is stored: see BytesExact and
\* MemoryTypeOK.
THEOREM MemoryInvariant == Spec => []MemInv
<1>1. QED
  BY InitMemInv, NextMemInv, PTL DEF Spec

\* The entries in the map are what an insert made them, less the entries whose wrong PINs
\* are used up.
THEOREM MemoryTypes == Spec => []MemoryTypeOK
<1>1. MemInv => MemoryTypeOK
  <2> SUFFICES ASSUME MemInv
               PROVE  MemoryTypeOK
    OBVIOUS
  <2>1. bytes \in Nat
    <3>1. Total(messages) \in Nat
      BY InnerBooked, FreedParts DEF Booked
    <3>2. QED
      BY <3>1, InnerBooked DEF Booked
  <2>2. ASSUME NEW i \in Stored
        PROVE  /\ messages[i].blob \in Messages /\ messages[i].pin \in Pins
               /\ messages[i].generation \in 1..next_generation
               /\ messages[i].expires_at \in Nat
               /\ messages[i].failed_attempts \in 0..(MaxFailed - 1)
    <3>1. messages[i] \in Entry /\ messages[i].generation \in 1..next_generation
          /\ messages[i].failed_attempts < MaxFailed
      BY InnerBooked DEF Booked, Current, Stored
    <3>2. QED
      BY <3>1, MemoryAssumption DEF Entry
  <2>3. QED
    BY <2>1, <2>2, InnerBooked DEF MemoryTypeOK, Booked, MemInv, Stored
<1>2. QED
  BY <1>1, MemoryInvariant, PTL

\* The running total is exact and within the cap, and so is the number of messages.
THEOREM TotalIsExact == Spec => []BytesExact
<1>1. MemInv => BytesExact
  BY InnerBooked DEF BytesExact, Booked, Total, Stored
<1>2. QED
  BY <1>1, MemoryInvariant, PTL

-----------------------------------------------------------------------------
\* The contract's row for an entry, and its rows for a map.
RowOf(i, entry) ==
  [message |-> entry.blob, id |-> i, generation |-> entry.generation, pin |-> entry.pin,
   expires |-> entry.expires_at, failed |-> entry.failed_attempts]
Rows(map) == {RowOf(i, map[i]) : i \in DOMAIN map}

LEMMA RowsAre ==
  ASSUME NEW map
  PROVE  /\ \A i \in DOMAIN map : RowOf(i, map[i]) \in Rows(map)
         /\ \A x \in Rows(map) : x.id \in DOMAIN map /\ x = RowOf(x.id, map[x.id])
BY DEF Rows, RowOf

\* There is one row for each entry.
LEMMA AsManyRows ==
  ASSUME NEW map, IsFiniteSet(DOMAIN map)
  PROVE  IsFiniteSet(Rows(map)) /\ Cardinality(Rows(map)) = Cardinality(DOMAIN map)
<1> DEFINE row == [i \in DOMAIN map |-> RowOf(i, map[i])]
<1>1. row \in [DOMAIN map -> Rows(map)]
  BY RowsAre
<1>2. \A i, j \in DOMAIN map : row[i] = row[j] => i = j
  BY DEF RowOf
<1>3. \A x \in Rows(map) : \E i \in DOMAIN map : row[i] = x
  BY DEF Rows
<1> HIDE DEF row
<1>4. ExistsBijection(DOMAIN map, Rows(map))
  BY <1>1, <1>2, <1>3, Fun_IsBij DEF ExistsBijection
<1>5. QED
  BY <1>4, FS_Bijection

\* The rows have as many bytes as the entries: each byte of an entry is one of its row.
LEMMA AsManyBytes ==
  ASSUME NEW map, DOMAIN map \subseteq Ids, \A i \in DOMAIN map : map[i] \in Entry
  PROVE  Contract!Bytes(Rows(map)) = Total(map)
<1> DEFINE R == Rows(map)
           e == [i \in DOMAIN map |-> Length(map[i])]
           f == [x \in R |-> SizeOf[x.message]]
           By(g) == g = [s \in SUBSET R |->
                          IF s = {} THEN 0
                          ELSE SizeOf[(CHOOSE x \in s : TRUE).message] + g[s \ {CHOOSE x \in s : TRUE}]]
           byte == [u \in Units(e, DOMAIN map) |-> <<RowOf(u[1], map[u[1]]), u[2]>>]
<1>1. IsFiniteSet(R) /\ IsFiniteSet(DOMAIN map)
  BY Measured, AsManyRows
<1>2. \A i \in DOMAIN map : f[RowOf(i, map[i])] = e[i] /\ e[i] \in Nat
  <2>1. \A i \in DOMAIN map : SizeOf[RowOf(i, map[i]).message] = Length(map[i])
    BY DEF RowOf, Length
  <2>2. QED
    BY <2>1, Measured, RowsAre
<1>3. \A x \in R : f[x] \in Nat
  <2> HIDE DEF f, e
  <2>1. QED
    BY <1>2, RowsAre
<1>4. Contract!Bytes(R) = (CHOOSE g : By(g))[R]
  BY DEF Contract!Bytes, Contract!MapThenSumSet, Contract!MapThenFoldSet
<1>5. \A g : By(g) <=> Sums(g, f, R)
  <2>1. \A s \in SUBSET R : s # {} => f[FirstOf(s)] = SizeOf[FirstOf(s).message]
    BY FirstIsIn
  <2>2. QED
    BY <2>1 DEF Sums, FirstOf
<1>6. (CHOOSE g : By(g))[R] = Cardinality(Units(f, R))
  <2> HIDE DEF By, f, R
  <2>1. \E g : By(g)
    BY <1>1, <1>3, <1>5, CountSums
  <2>2. Sums(CHOOSE g : By(g), f, R)
    BY <1>5, <2>1
  <2>3. [s \in SUBSET R |-> Cardinality(Units(f, s))][R] = Cardinality(Units(f, R))
    OBVIOUS
  <2>4. QED
    BY <1>1, <1>3, <2>2, <2>3, CountSums, SumsAlike
<1>7. Total(map) = Cardinality(Units(e, DOMAIN map))
  <2>1. DOMAIN map \cap DOMAIN map = DOMAIN map
    OBVIOUS
  <2>2. QED
    BY <2>1, Measured, FreedIsCount DEF Total
<1>8. byte \in [Units(e, DOMAIN map) -> Units(f, R)]
  <2> SUFFICES ASSUME NEW u \in Units(e, DOMAIN map)
               PROVE  <<RowOf(u[1], map[u[1]]), u[2]>> \in Units(f, R)
    OBVIOUS
  <2>1. u[1] \in DOMAIN map /\ u[2] \in Nat /\ u[2] \in 1..e[u[1]]
    BY DEF Units
  <2>2. RowOf(u[1], map[u[1]]) \in R /\ u[2] \in 1..f[RowOf(u[1], map[u[1]])]
    BY <1>2, <2>1, RowsAre
  <2> HIDE DEF f, e, R
  <2>3. QED
    BY <2>1, <2>2 DEF Units
<1>9. \A u, v \in Units(e, DOMAIN map) : byte[u] = byte[v] => u = v
  <2> SUFFICES ASSUME NEW u \in Units(e, DOMAIN map), NEW v \in Units(e, DOMAIN map),
                      byte[u] = byte[v]
               PROVE  u = v
    OBVIOUS
  <2>1. u = <<u[1], u[2]>> /\ v = <<v[1], v[2]>>
    BY DEF Units
  <2>2. RowOf(u[1], map[u[1]]) = RowOf(v[1], map[v[1]]) /\ u[2] = v[2]
    OBVIOUS
  <2>3. u[1] = v[1]
    BY <2>2 DEF RowOf
  <2>4. QED
    BY <2>1, <2>2, <2>3
<1>10. ASSUME NEW v \in Units(f, R)
       PROVE  \E u \in Units(e, DOMAIN map) : byte[u] = v
  <2> DEFINE u == <<v[1].id, v[2]>>
  <2>1. v[1] \in R /\ v[2] \in Nat /\ v[2] \in 1..f[v[1]] /\ v = <<v[1], v[2]>>
    BY DEF Units
  <2>2. v[1].id \in DOMAIN map /\ v[1] = RowOf(v[1].id, map[v[1].id])
    BY <2>1, RowsAre
  <2>3. v[2] \in 1..e[v[1].id]
    BY <1>2, <2>1, <2>2
  <2>4. u \in Units(e, DOMAIN map)
    <3> HIDE DEF e
    <3>1. QED
      BY <2>1, <2>2, <2>3 DEF Units
  <2>5. byte[u] = v
    BY <2>1, <2>2, <2>4
  <2>6. QED
    BY <2>4, <2>5
<1> HIDE DEF byte, f, e, R
<1>11. ExistsBijection(Units(e, DOMAIN map), Units(f, R))
  BY <1>8, <1>9, <1>10, Fun_IsBij DEF ExistsBijection
<1>12. IsFiniteSet(Units(e, DOMAIN map))
  BY <1>1, <1>2, UnitsFinite
<1>13. QED
  BY <1>4, <1>6, <1>7, <1>11, <1>12, FS_Bijection DEF R

\* The contract's sub-sets of rows, by the ids of their entries.
LEMMA RowsOfOthers ==
  ASSUME NEW map, NEW ids
  PROVE  Rows(Without(map, ids)) = {x \in Rows(map) : x.id \notin ids}
<1>1. DOMAIN Without(map, ids) = DOMAIN map \ ids
      /\ \A i \in DOMAIN map \ ids : Without(map, ids)[i] = map[i]
  BY DEF Without
<1>2. ASSUME NEW x \in Rows(Without(map, ids))
      PROVE  x \in Rows(map) /\ x.id \notin ids
  <2>1. x.id \in DOMAIN map \ ids /\ x = RowOf(x.id, map[x.id])
    BY <1>1, RowsAre
  <2>2. QED
    BY <2>1, RowsAre
<1>3. ASSUME NEW x \in Rows(map), x.id \notin ids
      PROVE  x \in Rows(Without(map, ids))
  <2>1. x.id \in DOMAIN map \ ids /\ x = RowOf(x.id, Without(map, ids)[x.id])
    BY <1>1, <1>3, RowsAre
  <2>2. QED
    BY <1>1, <2>1, RowsAre
<1>4. QED
  BY <1>2, <1>3

LEMMA ExpiredRows ==
  ASSUME NEW map, NEW t
  PROVE  /\ \A x \in Rows(map) : Contract!Expired(x, t) <=> x.id \in ExpiredIds(map, t)
         /\ Contract!Unexpired(Rows(map), t) = Rows(Without(map, ExpiredIds(map, t)))
<1>1. ASSUME NEW x \in Rows(map)
      PROVE  Contract!Expired(x, t) <=> x.id \in ExpiredIds(map, t)
  <2>1. x.id \in DOMAIN map /\ x.expires = map[x.id].expires_at
    BY RowsAre DEF RowOf
  <2>2. QED
    BY <2>1 DEF Contract!Expired, ExpiredIds, IsExpired
<1>2. QED
  BY <1>1, RowsOfOthers DEF Contract!Unexpired

LEMMA SameAdmission ==
  ASSUME NEW inner, Booked(inner), NEW len
  PROVE  Contract!Admits(Rows(inner.map), len) <=> Admits(inner, len)
<1>1. \A S : Contract!Cardinality(S) = Cardinality(S)
  BY DEF Contract!Cardinality, Cardinality
<1>2. Cardinality(Rows(inner.map)) = Cardinality(DOMAIN inner.map)
  BY AsManyRows, Measured DEF Booked
<1>3. Contract!Bytes(Rows(inner.map)) = inner.bytes
  BY AsManyBytes DEF Booked
<1>4. QED
  BY <1>1, <1>2, <1>3 DEF Contract!Admits, Admits

\* The contract's actions, with its rows for the map.
LEMMA ContractActions ==
  /\ Contract!Init <=> Rows(messages) = {} /\ next_generation = 0 /\ last = <<"none">>
  /\ \A m, id, t, ttl : Contract!DoInsert(m, id, t, ttl) <=>
       LET call == Contract!Insert(Rows(messages), Contract!NewRow(m, id, t, ttl), t)
       IN  /\ Rows(messages') = call.rows
           /\ next_generation' = IF call.result = "stored" THEN next_generation + 1
                                 ELSE next_generation
           /\ last' = <<"insert", id, call.result>>
  /\ \A id, g : Contract!DoCall(id, g) <=>
       /\ \/ LET call == Contract!RecordFailure(Rows(messages), id, g)
             IN  Rows(messages') = call.rows /\ last' = <<"record_failure", id, g, call.result>>
          \/ LET call == Contract!Consume(Rows(messages), id, g)
             IN  Rows(messages') = call.rows /\ last' = <<"consume", id, g, call.blobs>>
          \/ /\ Rows(messages') = Contract!Remove(Rows(messages), id, g)
             /\ last' = <<"remove", id, g, Rows(messages') # Rows(messages)>>
       /\ UNCHANGED next_generation
  /\ \A t : Contract!DoSweep(t) <=>
       /\ Rows(messages') = Contract!Unexpired(Rows(messages), t)
       /\ last' = <<"sweep", t, Contract!Cardinality(Rows(messages) \ Rows(messages'))>>
       /\ UNCHANGED next_generation
<1>1. {[message |-> messages[i].blob, id |-> i, generation |-> messages[i].generation,
        pin |-> messages[i].pin, expires |-> messages[i].expires_at,
        failed |-> messages[i].failed_attempts] : i \in Stored} = Rows(messages)
  BY DEF Rows, RowOf, Stored
<1>2. {[message |-> messages'[i].blob, id |-> i, generation |-> messages'[i].generation,
        pin |-> messages'[i].pin, expires |-> messages'[i].expires_at,
        failed |-> messages'[i].failed_attempts] : i \in Stored'} = Rows(messages')
  BY DEF Rows, RowOf, Stored
<1>3. Contract!Init <=> Rows(messages) = {} /\ next_generation = 0 /\ last = <<"none">>
  BY <1>1 DEF Contract!Init
<1>4. ASSUME NEW m, NEW id, NEW t, NEW ttl
      PROVE  Contract!DoInsert(m, id, t, ttl) <=>
               LET call == Contract!Insert(Rows(messages), Contract!NewRow(m, id, t, ttl), t)
               IN  /\ Rows(messages') = call.rows
                   /\ next_generation' = IF call.result = "stored" THEN next_generation + 1
                                         ELSE next_generation
                   /\ last' = <<"insert", id, call.result>>
  BY <1>1, <1>2 DEF Contract!DoInsert
<1>5. ASSUME NEW id, NEW g
      PROVE  Contract!DoCall(id, g) <=>
               /\ \/ LET call == Contract!RecordFailure(Rows(messages), id, g)
                     IN  /\ Rows(messages') = call.rows
                         /\ last' = <<"record_failure", id, g, call.result>>
                  \/ LET call == Contract!Consume(Rows(messages), id, g)
                     IN  /\ Rows(messages') = call.rows
                         /\ last' = <<"consume", id, g, call.blobs>>
                  \/ /\ Rows(messages') = Contract!Remove(Rows(messages), id, g)
                     /\ last' = <<"remove", id, g, Rows(messages') # Rows(messages)>>
               /\ UNCHANGED next_generation
  BY <1>1, <1>2 DEF Contract!DoCall
<1>6. ASSUME NEW t
      PROVE  Contract!DoSweep(t) <=>
               /\ Rows(messages') = Contract!Unexpired(Rows(messages), t)
               /\ last' = <<"sweep", t, Contract!Cardinality(Rows(messages) \ Rows(messages'))>>
               /\ UNCHANGED next_generation
  BY <1>1, <1>2 DEF Contract!DoSweep
<1>7. QED
  BY <1>3, <1>4, <1>5, <1>6, Zenon

-----------------------------------------------------------------------------
LEMMA SweepIsContracts ==
  ASSUME MemInv, NEW t \in Times, Sweep(t)
  PROVE  Contract!DoSweep(t)
<1> DEFINE E == ExpiredIds(messages, t)
           other == Without(messages, DOMAIN messages \ E)
<1>1. messages' = Without(messages, E) /\ UNCHANGED next_generation
      /\ last' = <<"sweep", t, Cardinality(E)>>
  BY DEF Sweep, Becomes, Take, Inner
<1>2. Rows(messages') = Contract!Unexpired(Rows(messages), t)
  BY <1>1, ExpiredRows
<1>3. Contract!Cardinality(Rows(messages) \ Rows(messages')) = Cardinality(E)
  <2>1. DOMAIN other = E
    BY DEF Without, ExpiredIds
  <2>2. Rows(messages) \ Rows(messages') = Rows(other)
    <3>1. Rows(other) = {x \in Rows(messages) : x.id \notin DOMAIN messages \ E}
      BY RowsOfOthers
    <3>2. Rows(messages') = {x \in Rows(messages) : x.id \notin E}
      BY <1>1, RowsOfOthers
    <3>3. \A x \in Rows(messages) : x.id \in DOMAIN messages
      BY RowsAre
    <3> HIDE DEF E, other
    <3>4. QED
      BY <3>1, <3>2, <3>3
  <2>3. IsFiniteSet(E)
    <3>1. IsFiniteSet(DOMAIN messages)
      BY InnerBooked, Measured DEF Booked
    <3>2. E \in SUBSET DOMAIN messages
      BY DEF ExpiredIds
    <3>3. QED
      BY <3>1, <3>2, FS_Subset
  <2> HIDE DEF E, other
  <2>4. Cardinality(Rows(other)) = Cardinality(E)
    BY <2>1, <2>3, AsManyRows
  <2>5. QED
    BY <2>2, <2>4 DEF Contract!Cardinality, Cardinality
<1> HIDE DEF E
<1>4. QED
  BY <1>1, <1>2, <1>3, ContractActions

\* The contract's rows of a generation are those of the ids that are meant.
LEMMA MeantRows ==
  ASSUME NEW id, NEW g
  PROVE  /\ Contract!Generation(Rows(messages), id, g) = {x \in Rows(messages) : x.id \in Meant(id, g)}
         /\ Meant(id, g) \subseteq Stored
<1>1. \A x \in Rows(messages) :
        x.id \in Stored /\ x.generation = messages[x.id].generation
  BY RowsAre DEF RowOf, Stored
<1>2. Contract!Generation(Rows(messages), id, g)
        = {x \in Rows(messages) : x.id = id /\ x.generation = g}
  BY DEF Contract!Generation, Contract!Named
<1>3. \A x \in Rows(messages) : x.id \in Meant(id, g) <=> x.id = id /\ x.generation = g
  BY <1>1 DEF Meant, Is
<1>4. QED
  BY <1>2, <1>3 DEF Meant, Is

LEMMA TakeGenerationIsContracts ==
  ASSUME MemInv, NEW id \in Ids, NEW g, TakeGeneration(id, g)
  PROVE  Contract!DoCall(id, g)
<1> DEFINE taken == Meant(id, g)
           hit == Contract!Generation(Rows(messages), id, g)
<1>1. messages' = Without(messages, taken) /\ UNCHANGED next_generation
      /\ \/ last' = <<"consume", id, g, {messages[i].blob : i \in taken}>>
         \/ last' = <<"remove", id, g, taken # {}>>
  BY DEF TakeGeneration, Becomes, Take, Inner
<1>2. hit = {x \in Rows(messages) : x.id \in taken} /\ taken \subseteq DOMAIN messages
  BY MeantRows DEF Stored
<1>3. Rows(messages') = Rows(messages) \ hit
  <2>1. Rows(messages') = {x \in Rows(messages) : x.id \notin taken}
    BY <1>1, RowsOfOthers
  <2> HIDE DEF taken, hit
  <2>2. QED
    BY <1>2, <2>1
<1>4. /\ \A x \in hit : x.id \in taken /\ x.message = messages[x.id].blob
      /\ \A i \in taken : \E x \in hit : x.id = i /\ x.message = messages[i].blob
  <2>1. \A x \in Rows(messages) : x.message = messages[x.id].blob
    BY RowsAre DEF RowOf
  <2>2. \A i \in DOMAIN messages : RowOf(i, messages[i]) \in Rows(messages)
                                   /\ RowOf(i, messages[i]).id = i
    BY RowsAre DEF RowOf
  <2> HIDE DEF taken, hit
  <2>3. QED
    BY <1>2, <2>1, <2>2
<1>5. {x.message : x \in hit} = {messages[i].blob : i \in taken}
  <2> HIDE DEF taken, hit
  <2>1. QED
    BY <1>4
<1>6. (Rows(messages') # Rows(messages)) = (taken # {})
  <2>1. hit \subseteq Rows(messages)
    BY <1>2
  <2> HIDE DEF taken, hit
  <2>2. hit # {} <=> taken # {}
    BY <1>4
  <2>3. QED
    BY <1>3, <2>1, <2>2
<1>7. /\ Contract!Consume(Rows(messages), id, g).blobs = {x.message : x \in hit}
      /\ Contract!Consume(Rows(messages), id, g).rows = Rows(messages) \ hit
      /\ Contract!Remove(Rows(messages), id, g) = Rows(messages) \ hit
  BY DEF Contract!Consume, Contract!Remove
<1> HIDE DEF taken, hit
<1>8. CASE last' = <<"consume", id, g, {messages[i].blob : i \in taken}>>
  BY <1>1, <1>3, <1>5, <1>7, <1>8, ContractActions
<1>9. CASE last' = <<"remove", id, g, taken # {}>>
  <2>1. last' = <<"remove", id, g, Rows(messages') # Rows(messages)>>
    BY <1>6, <1>9
  <2>2. QED
    BY <1>1, <1>3, <1>7, <2>1, ContractActions
<1>10. QED
  BY <1>1, <1>8, <1>9

LEMMA RecordFailureIsContracts ==
  ASSUME MemInv, NEW id \in Ids, NEW g, RecordFailure(id, g)
  PROVE  Contract!DoCall(id, g)
<1> DEFINE meant == Meant(id, g)
           hit == Contract!Generation(Rows(messages), id, g)
           map == Counted(meant)
           burned == {i \in meant : map[i].failed_attempts >= MaxFailed}
           counted == {[x EXCEPT !.failed = @ + 1] : x \in hit}
           after == (Rows(messages) \ hit) \cup {x \in counted : x.failed < MaxFailed}
<1>1. messages' = Without(map, burned) /\ UNCHANGED next_generation
      /\ last' = <<"record_failure", id, g, IF meant = {} THEN "gone" ELSE "counted">>
  BY DEF RecordFailure, Becomes, Take, Counted
<1>2. hit = {x \in Rows(messages) : x.id \in meant} /\ meant \subseteq DOMAIN messages
  BY MeantRows DEF Stored
<1>3. DOMAIN map = DOMAIN messages
  BY DEF Counted, Stored
<1>4. ASSUME NEW i \in DOMAIN messages, i \notin meant
      PROVE  RowOf(i, map[i]) = RowOf(i, messages[i])
  BY <1>4 DEF Counted, Stored
<1>5. ASSUME NEW i \in meant
      PROVE  /\ RowOf(i, map[i]) = [RowOf(i, messages[i]) EXCEPT !.failed = @ + 1]
             /\ RowOf(i, map[i]).failed = map[i].failed_attempts
             /\ map[i].failed_attempts \in Nat
  <2>1. messages[i] \in Entry
    BY <1>2, InnerBooked DEF Booked
  <2>2. map[i] = [messages[i] EXCEPT !.failed_attempts = @ + 1]
    BY <1>2 DEF Counted, Stored
  <2>3. /\ map[i].blob = messages[i].blob /\ map[i].generation = messages[i].generation
        /\ map[i].pin = messages[i].pin /\ map[i].expires_at = messages[i].expires_at
        /\ map[i].failed_attempts = messages[i].failed_attempts + 1
        /\ messages[i].failed_attempts \in Nat
    BY <2>1, <2>2 DEF Entry
  <2> HIDE DEF map
  <2>4. QED
    BY <2>3 DEF RowOf
<1>6. Rows(messages') = {x \in Rows(map) : x.id \notin burned}
  BY <1>1, RowsOfOthers
<1>7. \A i \in meant : i \notin burned <=> RowOf(i, map[i]).failed < MaxFailed
  <2> SUFFICES ASSUME NEW i \in meant
               PROVE  i \notin burned <=> RowOf(i, map[i]).failed < MaxFailed
    OBVIOUS
  <2>1. RowOf(i, map[i]).failed = map[i].failed_attempts /\ map[i].failed_attempts \in Nat
    BY <1>5
  <2>2. i \in burned <=> map[i].failed_attempts >= MaxFailed
    OBVIOUS
  <2> HIDE DEF map, burned
  <2>3. QED
    BY <2>1, <2>2, MemoryAssumption
<1>8. \A i : RowOf(i, map[i]).id = i /\ RowOf(i, messages[i]).id = i
  BY DEF RowOf
<1>9. ASSUME NEW x \in Rows(messages')
      PROVE  x \in after
  <2>1. x.id \in DOMAIN messages /\ x = RowOf(x.id, map[x.id]) /\ x.id \notin burned
    BY <1>3, <1>6, RowsAre
  <2>2. RowOf(x.id, messages[x.id]) \in Rows(messages)
    BY <2>1, RowsAre
  <2>3. CASE x.id \in meant
    <3>1. RowOf(x.id, messages[x.id]) \in hit
      BY <1>2, <1>8, <2>2, <2>3
    <3>2. x = [RowOf(x.id, messages[x.id]) EXCEPT !.failed = @ + 1] /\ x.failed < MaxFailed
      BY <1>5, <1>7, <2>1, <2>3
    <3>3. QED
      BY <3>1, <3>2
  <2>4. CASE x.id \notin meant
    BY <1>2, <1>4, <2>1, <2>2, <2>4
  <2>5. QED
    BY <2>3, <2>4
<1>10. ASSUME NEW x \in after
       PROVE  x \in Rows(messages')
  <2>1. CASE x \in Rows(messages) \ hit
    <3>1. x.id \in DOMAIN messages /\ x.id \notin meant /\ x = RowOf(x.id, map[x.id])
      BY <1>2, <1>4, <2>1, RowsAre
    <3>2. x \in Rows(map)
      BY <1>3, <3>1, RowsAre
    <3>3. QED
      BY <1>6, <3>1, <3>2
  <2>2. CASE x \in {y \in counted : y.failed < MaxFailed}
    <3>1. PICK y \in hit : x = [y EXCEPT !.failed = @ + 1] /\ x.failed < MaxFailed
      BY <2>2
    <3>2. y.id \in meant /\ y.id \in DOMAIN messages /\ y = RowOf(y.id, messages[y.id])
      BY <1>2, RowsAre
    <3>3. x = RowOf(y.id, map[y.id])
      BY <1>5, <3>1, <3>2
    <3>4. x \in Rows(map) /\ x.id = y.id
      BY <1>3, <1>8, <3>2, <3>3, RowsAre
    <3>5. QED
      BY <1>6, <1>7, <3>1, <3>2, <3>3, <3>4
  <2>3. QED
    BY <2>1, <2>2
<1>11. hit = {} <=> meant = {}
  <2>1. \A i \in meant : RowOf(i, messages[i]) \in Rows(messages)
    BY <1>2, RowsAre
  <2> HIDE DEF hit, meant
  <2>2. QED
    BY <1>2, <1>8, <2>1
<1>12. /\ Contract!RecordFailure(Rows(messages), id, g).rows = after
       /\ Contract!RecordFailure(Rows(messages), id, g).result
            = IF hit = {} THEN "gone" ELSE "counted"
  BY DEF Contract!RecordFailure
<1>13. Rows(messages') = after
  <2> HIDE DEF after
  <2>1. QED
    BY <1>9, <1>10
<1> HIDE DEF after, hit, meant, map
<1>14. QED
  BY <1>1, <1>11, <1>12, <1>13, ContractActions

LEMMA InsertIsContracts ==
  ASSUME MemInv, NEW id \in Ids, NEW m \in Messages, NEW t \in Times, NEW ttl \in Ttls,
         Insert(id, m, t, ttl)
  PROVE  Contract!DoInsert(m, id, t, ttl)
<1> DEFINE gone == {id} \cap ExpiredIds(messages, t)
           first == Take(Inner, gone)
           room == IF Admits(first, SizeOf[m]) THEN first
                   ELSE Take(first, ExpiredIds(first.map, t))
           entry == [blob |-> m, generation |-> next_generation + 1, pin |-> PinOf[m],
                     expires_at |-> t + ttl, failed_attempts |-> 0]
           new == Contract!NewRow(m, id, t, ttl)
           call == Contract!Insert(Rows(messages), new, t)
           makeRoom == Contract!MakeRoom(Rows(messages), new, t)
<1>1. new = RowOf(id, entry) /\ new.id = id /\ new.message = m
  BY DEF Contract!NewRow, RowOf
<1>2. /\ first.map = Without(messages, gone) /\ Booked(first)
      /\ DOMAIN first.map = DOMAIN messages \ gone
  <2> HIDE DEF gone
  <2>1. first.map = Without(messages, gone)
    BY InnerBooked DEF Take
  <2>2. Booked(first)
    BY InnerBooked, TakeKeepsBooks
  <2>3. QED
    BY <2>1, <2>2 DEF Without
<1>3. {x \in Rows(messages) : x.id = new.id => ~Contract!Expired(x, t)} = Rows(first.map)
  <2>1. Rows(first.map) = {x \in Rows(messages) : x.id \notin gone}
    BY <1>2, RowsOfOthers
  <2>2. \A x \in Rows(messages) : Contract!Expired(x, t) <=> x.id \in ExpiredIds(messages, t)
    BY ExpiredRows
  <2> HIDE DEF first, new
  <2>3. QED
    BY <1>1, <2>1, <2>2
<1>4. Admits(first, SizeOf[m]) <=> Contract!Admits(Rows(first.map), SizeOf[new.message])
  <2> HIDE DEF first, new
  <2>1. QED
    BY <1>1, <1>2, SameAdmission
<1>5. \A i \in ExpiredIds(messages, t) : i \in DOMAIN messages
  BY DEF ExpiredIds
<1>6. /\ Without(first.map, ExpiredIds(first.map, t)) = Without(messages, ExpiredIds(messages, t))
      /\ Take(first, ExpiredIds(first.map, t)).map = Without(first.map, ExpiredIds(first.map, t))
  <2>1. \A i \in DOMAIN first.map : first.map[i] = messages[i]
    BY <1>2 DEF Without
  <2>2. ExpiredIds(first.map, t) = ExpiredIds(messages, t) \ gone
    <3> HIDE DEF first
    <3>1. QED
      BY <1>2, <2>1 DEF ExpiredIds
  <2>3. DOMAIN first.map \ ExpiredIds(first.map, t) = DOMAIN messages \ ExpiredIds(messages, t)
    <3> HIDE DEF first
    <3>1. QED
      BY <1>2, <2>2
  <2> HIDE DEF first, gone
  <2>4. QED
    BY <2>1, <2>3, <1>2 DEF Without, Take
<1>7. makeRoom = Rows(room.map)
  <2>1. Contract!Unexpired(Rows(messages), t) = Rows(Without(messages, ExpiredIds(messages, t)))
    BY ExpiredRows
  <2>2. makeRoom = IF Contract!Admits(Rows(first.map), SizeOf[new.message]) THEN Rows(first.map)
                   ELSE Contract!Unexpired(Rows(messages), t)
    <3> HIDE DEF first, new
    <3>1. QED
      BY <1>3 DEF Contract!MakeRoom
  <2> HIDE DEF first, new, makeRoom
  <2>3. QED
    BY <1>4, <1>6, <2>1, <2>2
<1>8. Booked(room)
  <2> HIDE DEF first
  <2>1. QED
    BY <1>2, TakeKeepsBooks
<1>9. Admits(room, SizeOf[m]) <=> Contract!Admits(makeRoom, SizeOf[new.message])
  <2> HIDE DEF room, new, makeRoom
  <2>1. QED
    BY <1>1, <1>7, <1>8, SameAdmission
<1>10. id \in DOMAIN first.map <=>
         Contract!Named(Contract!Unexpired(Rows(messages), t), new.id) # {}
  <2>1. Contract!Named(Contract!Unexpired(Rows(messages), t), new.id)
          = {x \in Rows(messages) : ~Contract!Expired(x, t) /\ x.id = id}
    <3> HIDE DEF new
    <3>1. QED
      BY <1>1 DEF Contract!Named, Contract!Unexpired
  <2>2. \A x \in Rows(messages) : /\ Contract!Expired(x, t) <=> x.id \in ExpiredIds(messages, t)
                                  /\ x.id \in DOMAIN messages
    BY ExpiredRows, RowsAre
  <2>3. id \in DOMAIN messages => RowOf(id, messages[id]) \in Rows(messages)
    BY RowsAre
  <2>4. RowOf(id, messages[id]).id = id
    BY DEF RowOf
  <2> HIDE DEF first, new
  <2>5. QED
    BY <1>2, <2>1, <2>2, <2>3, <2>4
<1>11. id \in DOMAIN first.map => Rows(first.map) = Rows(messages)
  <2> SUFFICES ASSUME id \in DOMAIN first.map
               PROVE  Rows(first.map) = Rows(messages)
    OBVIOUS
  <2>1. gone = {}
    BY <1>2
  <2>2. Rows(first.map) = {x \in Rows(messages) : x.id \notin gone}
    BY <1>2, RowsOfOthers
  <2> HIDE DEF first, gone
  <2>3. QED
    BY <2>1, <2>2
<1>12. call = IF id \in DOMAIN first.map
              THEN [result |-> "idTaken", rows |-> Rows(messages)]
              ELSE IF Admits(room, SizeOf[m])
              THEN [result |-> "stored", rows |-> makeRoom \cup {new}]
              ELSE [result |-> "full", rows |-> makeRoom]
  <2>1. call = IF Contract!Named(Contract!Unexpired(Rows(messages), t), new.id) # {}
               THEN [result |-> "idTaken", rows |-> Rows(messages)]
               ELSE IF Contract!Admits(makeRoom, SizeOf[new.message])
               THEN [result |-> "stored", rows |-> makeRoom \cup {new}]
               ELSE [result |-> "full", rows |-> makeRoom]
    BY DEF Contract!Insert
  <2> HIDE DEF call, new, makeRoom, room, first
  <2>2. QED
    BY <1>9, <1>10, <2>1
<1>13. \/ /\ id \in DOMAIN first.map
          /\ messages' = first.map /\ last' = <<"insert", id, "idTaken">>
          /\ UNCHANGED next_generation
       \/ /\ id \notin DOMAIN first.map /\ ~Admits(room, SizeOf[m])
          /\ messages' = room.map /\ last' = <<"insert", id, "full">>
          /\ UNCHANGED next_generation
       \/ /\ id \notin DOMAIN first.map /\ Admits(room, SizeOf[m])
          /\ next_generation' = next_generation + 1
          /\ messages' = [i \in DOMAIN room.map \cup {id} |->
                            IF i = id THEN entry ELSE room.map[i]]
          /\ last' = <<"insert", id, "stored">>
  BY DEF Insert, Becomes
<1>14. id \notin DOMAIN first.map => id \notin DOMAIN room.map
  BY TakeLeavesOthers
<1> HIDE DEF gone, first, room, entry, new, call, makeRoom
<1>15. /\ Rows(messages') = call.rows
       /\ next_generation' = IF call.result = "stored" THEN next_generation + 1
                             ELSE next_generation
       /\ last' = <<"insert", id, call.result>>
  <2>1. CASE id \in DOMAIN first.map
    <3>1. call.result = "idTaken" /\ call.rows = Rows(messages)
      BY <1>12, <2>1
    <3>2. QED
      BY <1>11, <1>13, <2>1, <3>1
  <2>2. CASE id \notin DOMAIN first.map /\ ~Admits(room, SizeOf[m])
    <3>1. call.result = "full" /\ call.rows = makeRoom
      BY <1>12, <2>2
    <3>2. QED
      BY <1>7, <1>13, <2>2, <3>1
  <2>3. CASE id \notin DOMAIN first.map /\ Admits(room, SizeOf[m])
    <3>1. call.result = "stored" /\ call.rows = makeRoom \cup {new}
      BY <1>12, <2>3
    <3>2. /\ messages' = [i \in DOMAIN room.map \cup {id} |->
                           IF i = id THEN entry ELSE room.map[i]]
          /\ next_generation' = next_generation + 1 /\ last' = <<"insert", id, "stored">>
      BY <1>13, <2>3
    <3>3. /\ DOMAIN messages' = DOMAIN room.map \cup {id} /\ messages'[id] = entry
          /\ \A i \in DOMAIN room.map : messages'[i] = room.map[i]
      BY <1>14, <2>3, <3>2
    <3>4. Rows(messages') = Rows(room.map) \cup {RowOf(id, entry)}
      BY <3>3 DEF Rows
    <3>5. QED
      BY <1>1, <1>7, <3>1, <3>2, <3>4
  <2>4. QED
    BY <2>1, <2>2, <2>3
<1>16. QED
  BY <1>15, ContractActions DEF call, new

LEMMA NextIsContracts ==
  ASSUME MemInv, [Next]_storeVars
  PROVE  Contract!Next \/ (UNCHANGED <<Rows(messages), next_generation, last>>)
<1>1. ASSUME NEW id \in Ids, NEW m \in Messages, NEW t \in Times, NEW ttl \in Ttls,
             Insert(id, m, t, ttl)
      PROVE  Contract!Next
  BY <1>1, InsertIsContracts DEF Contract!Next
<1>2. ASSUME NEW id \in Ids, NEW g \in 1..next_generation,
             TakeGeneration(id, g) \/ RecordFailure(id, g)
      PROVE  Contract!Next
  BY <1>2, TakeGenerationIsContracts, RecordFailureIsContracts DEF Contract!Next
<1>3. ASSUME NEW t \in Times, Sweep(t)
      PROVE  Contract!Next
  BY <1>3, SweepIsContracts DEF Contract!Next
<1>4. CASE UNCHANGED storeVars
  BY <1>4 DEF storeVars
<1>5. QED
  BY <1>1, <1>2, <1>3, <1>4 DEF Next

\* MemoryStore answers every call as the contract does, and leaves the same rows.
THEOREM MemoryKeepsContract == Spec => KeepsContract
<1>1. Init => Contract!Init
  <2> SUFFICES ASSUME Init
               PROVE  Contract!Init
    OBVIOUS
  <2>1. Rows(messages) = {} /\ next_generation = 0 /\ last = <<"none">>
    BY DEF Init, Rows
  <2>2. QED
    BY <2>1, ContractActions
<1>2. MemInv /\ [Next]_storeVars =>
        [Contract!Next]_<<{[message |-> messages[i].blob, id |-> i,
                            generation |-> messages[i].generation, pin |-> messages[i].pin,
                            expires |-> messages[i].expires_at,
                            failed |-> messages[i].failed_attempts] : i \in Stored},
                          next_generation, last>>
  BY NextIsContracts DEF Rows, RowOf, Stored
<1>3. QED
  BY <1>1, <1>2, MemoryInvariant, PTL DEF Spec, KeepsContract, Contract!Spec
=============================================================================
