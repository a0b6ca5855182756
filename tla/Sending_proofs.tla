--------------------------- MODULE Sending_proofs ---------------------------
(***************************************************************************)
(* For any files, sizes, PINs, times to live, senders' sessions and        *)
(* settings that a server starts with: what a sender uploads is what was   *)
(* checked, and what it shows opens the message that was stored.  First    *)
(* ids: every draw from a template is one of its own, and short enough.    *)
(* Then the settings and the sizes: what a server that starts tells its    *)
(* clients suits them, and a size is a number.  Then what each sender      *)
(* knows of what it is sending, step by step (SendingInv).                 *)
(***************************************************************************)
EXTENDS Sending, FiniteSetTheorems, FunctionTheorems, SequenceTheorems, WellFoundedInduction,
        NaturalsInduction, TLAPS

-----------------------------------------------------------------------------
\* Ids and passphrases: no two draws are one.  What is recursive here is a function on numbers;
\* that there is one, and what holds of it at each number, is by NatInduct.

LEMMA NatInduct ==
  ASSUME NEW S, 0 \in S, \A n \in Nat : n \in S => n + 1 \in S
  PROVE  Nat \subseteq S
<1> DEFINE Bad == Nat \ S
<1>1. SUFFICES ASSUME Bad # {}
               PROVE  FALSE
  OBVIOUS
<1>2. PICK n \in Bad : \A m \in Bad : ~(<<m, n>> \in OpToRel(<, Nat))
  <2>1. Bad \subseteq Nat
    OBVIOUS
  <2>2. PICK k : k \in Bad
    BY <1>1
  <2> HIDE DEF Bad
  <2>3. QED
    BY <2>1, <2>2, WFMin, NatLessThanWellFounded
<1>3. \A m \in Bad : ~(m < n)
  <2>1. Bad \subseteq Nat
    OBVIOUS
  <2> HIDE DEF Bad
  <2>2. QED
    BY <1>2, <2>1, Zenon DEF OpToRel
<1>4. n \in Nat /\ n \notin S /\ n # 0
  OBVIOUS
<1>5. n - 1 \in Nat /\ n - 1 < n /\ (n - 1) + 1 = n
  BY <1>4
<1>6. n - 1 \in S
  BY <1>3, <1>5
<1>7. QED
  BY <1>4, <1>5, <1>6

\* A function that is built up step by step.
Builds(g, n, base, step) == g[0] = base /\ \A i \in 1..n : g[i] = step[<<i, g[i - 1]>>]

LEMMA Recursion ==
  ASSUME NEW n \in Nat, NEW V, NEW base \in V, NEW step \in [Nat \X V -> V]
  PROVE  \E g \in [0..n -> V] : Builds(g, n, base, step)
<1> DEFINE S == {k \in Nat : \E g \in [0..k -> V] : Builds(g, k, base, step)}
<1>1. 0 \in S
  <2>1. PICK g \in [0..0 -> V] : g = [i \in 0..0 |-> base]
    OBVIOUS
  <2>2. Builds(g, 0, base, step)
    BY <2>1 DEF Builds
  <2>3. QED
    BY <2>2
<1>2. ASSUME NEW k \in Nat, k \in S
      PROVE  k + 1 \in S
  <2>1. PICK g \in [0..k -> V] : Builds(g, k, base, step)
    BY <1>2
  <2>2. g[k] \in V
    OBVIOUS
  <2>3. PICK new \in V : new = step[<<k + 1, g[k]>>]
    BY <2>2
  <2>4. PICK h : h = [i \in 0..(k + 1) |-> IF i = k + 1 THEN new ELSE g[i]]
    OBVIOUS
  <2>5. h \in [0..(k + 1) -> V]
    BY <2>4
  <2>6. \A i \in 0..k : h[i] = g[i]
    BY <2>4
  <2>7. h[k + 1] = new
    BY <2>4
  <2>8. ASSUME NEW i \in 1..(k + 1)
        PROVE  h[i] = step[<<i, h[i - 1]>>]
    <3>1. CASE i = k + 1
      <4>1. i - 1 = k /\ h[i - 1] = g[k]
        BY <2>6, <3>1
      <4>2. QED
        BY <2>3, <2>7, <3>1, <4>1
    <3>2. CASE i # k + 1
      <4>1. i \in 1..k /\ i \in 0..k /\ i - 1 \in 0..k
        BY <3>2
      <4>2. g[i] = step[<<i, g[i - 1]>>]
        BY <2>1, <4>1 DEF Builds
      <4>3. QED
        BY <2>6, <4>1, <4>2
    <3>3. QED
      BY <3>1, <3>2
  <2>9. h[0] = base
    BY <2>1, <2>6 DEF Builds
  <2>10. Builds(h, k + 1, base, step)
    BY <2>8, <2>9 DEF Builds
  <2>11. QED
    BY <2>5, <2>10
<1> HIDE DEF S
<1>3. Nat \subseteq S
  BY <1>1, <1>2, NatInduct
<1>4. QED
  BY <1>3 DEF S

\* What is drawn is pushed piece by piece.
Strings == Seq(IdChars)

LEMMA AppendedType ==
  ASSUME NEW A \in SUBSET Strings, NEW B \in SUBSET Strings
  PROVE  Appended(A, B) \in SUBSET Strings
<1>1. ASSUME NEW a \in A, NEW b \in B
      PROVE  a \o b \in Strings
  <2>1. a \in Seq(IdChars) /\ b \in Seq(IdChars)
    BY DEF Strings
  <2>2. a \o b \in Seq(IdChars)
    BY <2>1, ConcatProperties
  <2>3. QED
    BY <2>2 DEF Strings
<1> HIDE DEF Strings
<1>2. ASSUME NEW p \in A \X B
      PROVE  p[1] \o p[2] \in Strings
  <2>1. p[1] \in A /\ p[2] \in B
    OBVIOUS
  <2>2. QED
    BY <1>1, <2>1
<1>3. QED
  BY <1>2 DEF Appended

LEMMA InAppended ==
  ASSUME NEW A, NEW B, NEW a \in A, NEW b \in B
  PROVE  a \o b \in Appended(A, B)
<1>1. <<a, b>> \in A \X B /\ <<a, b>>[1] = a /\ <<a, b>>[2] = b
  OBVIOUS
<1>2. <<a, b>>[1] \o <<a, b>>[2] \in Appended(A, B)
  BY <1>1, Zenon DEF Appended
<1>3. QED
  BY <1>1, <1>2, Zenon

LEMMA OfAppended ==
  ASSUME NEW A, NEW B, NEW x \in Appended(A, B)
  PROVE  \E a \in A, b \in B : x = a \o b
<1>1. PICK p \in A \X B : x = p[1] \o p[2]
  BY Zenon DEF Appended
<1>2. p[1] \in A /\ p[2] \in B
  OBVIOUS
<1>3. QED
  BY <1>1, <1>2, Zenon

LEMMA PushedUnfolds ==
  ASSUME NEW n \in Nat, NEW parts \in [1..n -> SUBSET Strings]
  PROVE  \E g \in [0..n -> SUBSET Strings] :
           /\ Pushed(parts) = g[n] /\ g[0] = {<<>>}
           /\ \A i \in 1..n : g[i] = Appended(g[i - 1], parts[i])
<1>1. Len(parts) = n
  <2>1. PICK V : V = SUBSET Strings
    OBVIOUS
  <2>2. parts \in Seq(V)
    BY <2>1, IsASeq
  <2>3. QED
    BY <2>2, LenProperties
<1>2. {<<>>} \in SUBSET Strings
  BY EmptySeq DEF Strings
<1> DEFINE step == [p \in Nat \X SUBSET Strings |->
                      IF p[1] \in 1..n THEN Appended(p[2], parts[p[1]]) ELSE p[2]]
           By(g) == g = [i \in 0..n |-> IF i = 0 THEN {<<>>} ELSE Appended(g[i - 1], parts[i])]
<1>3. step \in [Nat \X SUBSET Strings -> SUBSET Strings]
  <2>1. ASSUME NEW p \in Nat \X SUBSET Strings
        PROVE  (IF p[1] \in 1..n THEN Appended(p[2], parts[p[1]]) ELSE p[2]) \in SUBSET Strings
    <3>1. CASE p[1] \in 1..n
      <4>1. p[2] \in SUBSET Strings /\ parts[p[1]] \in SUBSET Strings
        BY <3>1
      <4>2. Appended(p[2], parts[p[1]]) \in SUBSET Strings
        BY <4>1, AppendedType
      <4>3. QED
        BY <3>1, <4>2
    <3>2. CASE p[1] \notin 1..n
      BY <3>2
    <3>3. QED
      BY <3>1, <3>2
  <2>2. QED
    BY <2>1
<1>4. ASSUME NEW i \in 1..n, NEW v \in SUBSET Strings
      PROVE  step[<<i, v>>] = Appended(v, parts[i])
  <2>1. <<i, v>> \in Nat \X SUBSET Strings /\ <<i, v>>[1] = i /\ <<i, v>>[2] = v
    OBVIOUS
  <2>2. step[<<i, v>>] = IF <<i, v>>[1] \in 1..n THEN Appended(<<i, v>>[2], parts[<<i, v>>[1]])
                                                 ELSE <<i, v>>[2]
    BY <2>1, Zenon
  <2>3. QED
    BY <2>1, <2>2, Zenon
<1> HIDE DEF step
<1>5. \E g : By(g)
  <2>1. PICK g \in [0..n -> SUBSET Strings] : Builds(g, n, {<<>>}, step)
    <3>1. PICK V : V = SUBSET Strings
      OBVIOUS
    <3>2. PICK base \in V : base = {<<>>}
      BY <1>2, <3>1
    <3>3. PICK next \in [Nat \X V -> V] : next = step
      BY <1>3, <3>1
    <3>4. \E g \in [0..n -> V] : Builds(g, n, base, next)
      BY Recursion
    <3>5. QED
      BY <3>1, <3>2, <3>3, <3>4
  <2>2. ASSUME NEW i \in 0..n, i # 0
        PROVE  g[i] = Appended(g[i - 1], parts[i])
    <3>1. i \in 1..n /\ i - 1 \in 0..n
      BY <2>2
    <3>2. g[i] = step[<<i, g[i - 1]>>] /\ g[i - 1] \in SUBSET Strings
      BY <2>1, <3>1 DEF Builds
    <3>3. QED
      BY <1>4, <3>1, <3>2
  <2>3. g[0] = {<<>>}
    BY <2>1 DEF Builds
  <2>4. By(g)
    <3>1. g = [i \in 0..n |-> g[i]]
      OBVIOUS
    <3>2. QED
      BY <2>2, <2>3, <3>1
  <2>5. QED
    BY <2>4
<1>6. Pushed(parts) = (CHOOSE g : By(g))[n]
  BY <1>1 DEF Pushed
<1>7. PICK h : h = CHOOSE g : By(g)
  OBVIOUS
<1>8. /\ h = [i \in 0..n |-> h[i]]
      /\ \A i \in 0..n : h[i] = IF i = 0 THEN {<<>>} ELSE Appended(h[i - 1], parts[i])
  <2>1. By(h)
    <3> HIDE DEF By
    <3>1. QED
      BY <1>5, <1>7
  <2>2. h = [i \in 0..n |-> IF i = 0 THEN {<<>>} ELSE Appended(h[i - 1], parts[i])]
    BY <2>1
  <2>3. DOMAIN h = 0..n
    BY <2>2, Zenon
  <2>4. \A i \in 0..n : h[i] = IF i = 0 THEN {<<>>} ELSE Appended(h[i - 1], parts[i])
    BY <2>2, Zenon
  <2>5. h = [i \in 0..n |-> h[i]]
    BY <2>2, <2>3
  <2>6. QED
    BY <2>4, <2>5
<1> HIDE DEF By
<1>9. h[0] = {<<>>} /\ \A i \in 1..n : h[i] = Appended(h[i - 1], parts[i])
  <2>1. 0 \in 0..n /\ \A i \in 1..n : i \in 0..n /\ i # 0
    OBVIOUS
  <2>2. QED
    BY <1>8, <2>1, Zenon
<1>10. h \in [0..n -> SUBSET Strings]
  <2> DEFINE T == {k \in Nat : k \in 0..n => h[k] \in SUBSET Strings}
  <2>1. 0 \in T
    BY <1>2, <1>9
  <2>2. ASSUME NEW k \in Nat, k \in T
        PROVE  k + 1 \in T
    <3>1. ASSUME k + 1 \in 0..n
          PROVE  h[k + 1] \in SUBSET Strings
      <4>1. k \in 0..n /\ k + 1 \in 1..n /\ (k + 1) - 1 = k
        BY <3>1
      <4>2. h[k + 1] = Appended(h[k], parts[k + 1])
        BY <1>9, <4>1
      <4>3. h[k] \in SUBSET Strings /\ parts[k + 1] \in SUBSET Strings
        BY <2>2, <4>1
      <4>4. QED
        BY <4>2, <4>3, AppendedType
    <3>2. QED
      BY <3>1
  <2> HIDE DEF T
  <2>3. Nat \subseteq T
    BY <2>1, <2>2, NatInduct
  <2>4. \A k \in 0..n : h[k] \in SUBSET Strings
    BY <2>3 DEF T
  <2>5. QED
    BY <1>8, <2>4
<1>11. QED
  BY <1>6, <1>7, <1>9, <1>10

\* So are sizes multiplied.
LEMMA ProductUnfolds ==
  ASSUME NEW n \in Nat, NEW numbers \in [1..n -> Nat]
  PROVE  \E g \in [0..n -> Nat] :
           /\ Product(numbers) = g[n] /\ g[0] = 1
           /\ \A i \in 1..n : g[i] = g[i - 1] * numbers[i]
<1>1. Len(numbers) = n
  <2>1. numbers \in Seq(Nat)
    BY IsASeq
  <2>2. QED
    BY <2>1, LenProperties
<1> DEFINE step == [p \in Nat \X Nat |-> IF p[1] \in 1..n THEN p[2] * numbers[p[1]] ELSE p[2]]
           By(g) == g = [i \in 0..n |-> IF i = 0 THEN 1 ELSE g[i - 1] * numbers[i]]
<1>2. step \in [Nat \X Nat -> Nat]
  <2>1. ASSUME NEW p \in Nat \X Nat
        PROVE  (IF p[1] \in 1..n THEN p[2] * numbers[p[1]] ELSE p[2]) \in Nat
    <3>1. p[2] \in Nat /\ (p[1] \in 1..n => numbers[p[1]] \in Nat)
      OBVIOUS
    <3>2. p[1] \in 1..n => p[2] * numbers[p[1]] \in Nat
      BY <3>1
    <3>3. QED
      BY <3>1, <3>2
  <2>2. QED
    BY <2>1
<1>3. ASSUME NEW i \in 1..n, NEW v \in Nat
      PROVE  step[<<i, v>>] = v * numbers[i]
  <2>1. <<i, v>> \in Nat \X Nat /\ <<i, v>>[1] = i /\ <<i, v>>[2] = v
    OBVIOUS
  <2>2. step[<<i, v>>] = IF <<i, v>>[1] \in 1..n THEN <<i, v>>[2] * numbers[<<i, v>>[1]]
                                                 ELSE <<i, v>>[2]
    BY <2>1, Zenon
  <2>3. QED
    BY <2>1, <2>2, Zenon
<1> HIDE DEF step
<1>4. \E g : By(g)
  <2>1. PICK g \in [0..n -> Nat] : Builds(g, n, 1, step)
    <3>1. PICK base \in Nat : base = 1
      OBVIOUS
    <3>2. \E g \in [0..n -> Nat] : Builds(g, n, base, step)
      BY <1>2, Recursion
    <3>3. QED
      BY <3>1, <3>2
  <2>2. ASSUME NEW i \in 0..n, i # 0
        PROVE  g[i] = g[i - 1] * numbers[i]
    <3>1. i \in 1..n /\ i - 1 \in 0..n
      BY <2>2
    <3>2. g[i] = step[<<i, g[i - 1]>>] /\ g[i - 1] \in Nat
      BY <2>1, <3>1 DEF Builds
    <3>3. QED
      BY <1>3, <3>1, <3>2
  <2>3. g[0] = 1
    BY <2>1 DEF Builds
  <2>4. By(g)
    <3>1. g = [i \in 0..n |-> g[i]]
      OBVIOUS
    <3>2. QED
      BY <2>2, <2>3, <3>1
  <2>5. QED
    BY <2>4
<1>5. Product(numbers) = (CHOOSE g : By(g))[n]
  BY <1>1 DEF Product
<1>6. PICK h : h = CHOOSE g : By(g)
  OBVIOUS
<1>7. /\ h = [i \in 0..n |-> h[i]]
      /\ \A i \in 0..n : h[i] = IF i = 0 THEN 1 ELSE h[i - 1] * numbers[i]
  <2>1. By(h)
    <3> HIDE DEF By
    <3>1. QED
      BY <1>4, <1>6
  <2>2. h = [i \in 0..n |-> IF i = 0 THEN 1 ELSE h[i - 1] * numbers[i]]
    BY <2>1
  <2>3. DOMAIN h = 0..n
    BY <2>2, Zenon
  <2>4. \A i \in 0..n : h[i] = IF i = 0 THEN 1 ELSE h[i - 1] * numbers[i]
    BY <2>2, Zenon
  <2>5. h = [i \in 0..n |-> h[i]]
    BY <2>2, <2>3
  <2>6. QED
    BY <2>4, <2>5
<1> HIDE DEF By
<1>8. h[0] = 1 /\ \A i \in 1..n : h[i] = h[i - 1] * numbers[i]
  <2>1. 0 \in 0..n /\ \A i \in 1..n : i \in 0..n /\ i # 0
    OBVIOUS
  <2>2. QED
    BY <1>7, <2>1, Zenon
<1>9. h \in [0..n -> Nat]
  <2> DEFINE T == {k \in Nat : k \in 0..n => h[k] \in Nat}
  <2>1. 0 \in T
    BY <1>8
  <2>2. ASSUME NEW k \in Nat, k \in T
        PROVE  k + 1 \in T
    <3>1. ASSUME k + 1 \in 0..n
          PROVE  h[k + 1] \in Nat
      <4>1. k \in 0..n /\ k + 1 \in 1..n /\ (k + 1) - 1 = k
        BY <3>1
      <4>2. h[k + 1] = h[k] * numbers[k + 1]
        BY <1>8, <4>1
      <4>3. h[k] \in Nat /\ numbers[k + 1] \in Nat
        BY <2>2, <4>1
      <4>4. QED
        BY <4>2, <4>3
    <3>2. QED
      BY <3>1
  <2> HIDE DEF T
  <2>3. Nat \subseteq T
    BY <2>1, <2>2, NatInduct
  <2>4. \A k \in 0..n : h[k] \in Nat
    BY <2>3 DEF T
  <2>5. QED
    BY <1>7, <2>4
<1>10. QED
  BY <1>5, <1>6, <1>8, <1>9

LEMMA StringFacts ==
  ASSUME NEW x \in Strings, NEW y \in Strings
  PROVE  /\ x \o y \in Strings /\ Len(x) \in Nat /\ Len(x \o y) = Len(x) + Len(y)
         /\ x \o <<>> = x /\ <<>> \o x = x
         /\ \A i \in 1..Len(x) + Len(y) :
              (x \o y)[i] = IF i <= Len(x) THEN x[i] ELSE y[i - Len(x)]
         /\ \A i \in 1..Len(x) : x[i] \in IdChars
<1>1. x \in Seq(IdChars) /\ y \in Seq(IdChars)
  BY DEF Strings
<1>2. x \o <<>> = x /\ <<>> \o x = x
  BY <1>1, ConcatEmptySeq
<1>3. /\ x \o y \in Seq(IdChars) /\ Len(x \o y) = Len(x) + Len(y)
      /\ \A i \in 1..Len(x) + Len(y) :
           (x \o y)[i] = IF i <= Len(x) THEN x[i] ELSE y[i - Len(x)]
  BY <1>1, ConcatProperties
<1>4. Len(x) \in Nat /\ \A i \in 1..Len(x) : x[i] \in IdChars
  BY <1>1, LenProperties, ElementOfSeq
<1>5. QED
  BY <1>2, <1>3, <1>4 DEF Strings

LEMMA Associates ==
  ASSUME NEW x \in Strings, NEW y \in Strings, NEW z \in Strings
  PROVE  (x \o y) \o z = x \o (y \o z)
BY ConcatAssociative DEF Strings

LEMMA Cancels ==
  ASSUME NEW x \in Strings, NEW y \in Strings, NEW z \in Strings, x \o y = x \o z
  PROVE  y = z
BY ConcatSimplifications DEF Strings

\* No text is one of the others with something after it, so that where one ends is known
\* whatever follows.
PrefixFree(T) == \A x, y \in T : \A u, v \in Strings : x \o u = y \o v => x = y
IsCode(T, k) == T \in SUBSET Strings /\ IsFiniteSet(T) /\ Cardinality(T) = k /\ PrefixFree(T)

LEMMA EmptyCode == IsCode({<<>>}, 1)
<1>1. {<<>>} \in SUBSET Strings
  BY EmptySeq DEF Strings
<1>2. IsFiniteSet({<<>>}) /\ Cardinality({<<>>}) = 1
  BY FS_Singleton
<1>3. PrefixFree({<<>>})
  BY DEF PrefixFree
<1>4. QED
  BY <1>1, <1>2, <1>3 DEF IsCode

Splits(A, B) ==
  \A a1, a2 \in A : \A b1, b2 \in B : \A u, v \in Strings :
    (a1 \o b1) \o u = (a2 \o b2) \o v => a1 = a2 /\ b1 = b2

LEMMA SplitTexts ==
  ASSUME NEW A \in SUBSET Strings, NEW B \in SUBSET Strings, PrefixFree(A), PrefixFree(B)
  PROVE  Splits(A, B)
<1> DEFINE Regroups(a, b) == \A w \in Strings : (a \o b) \o w = a \o (b \o w)
<1>0. \A a \in A : \A b \in B : Regroups(a, b)
  <2>1. ASSUME NEW a \in A, NEW b \in B, NEW w \in Strings
        PROVE  (a \o b) \o w = a \o (b \o w)
    <3>1. a \in Strings /\ b \in Strings
      OBVIOUS
    <3>2. QED
      BY <3>1, Associates
  <2>2. QED
    BY <2>1
<1> HIDE DEF Regroups
<1>1. SUFFICES ASSUME NEW a1 \in A, NEW a2 \in A, NEW b1 \in B, NEW b2 \in B,
                      NEW u \in Strings, NEW v \in Strings,
                      (a1 \o b1) \o u = (a2 \o b2) \o v
               PROVE  a1 = a2 /\ b1 = b2
  BY DEF Splits
<1>2. a1 \in Strings /\ a2 \in Strings /\ b1 \in Strings /\ b2 \in Strings
  OBVIOUS
<1>3. (a1 \o b1) \o u = a1 \o (b1 \o u)
  <2>1. Regroups(a1, b1)
    BY <1>0
  <2>2. QED
    BY <2>1, Zenon DEF Regroups
<1>4. (a2 \o b2) \o v = a2 \o (b2 \o v)
  <2>1. Regroups(a2, b2)
    BY <1>0
  <2>2. QED
    BY <2>1, Zenon DEF Regroups
<1>5. b1 \o u \in Strings
  BY <1>2, StringFacts
<1>6. b2 \o v \in Strings
  BY <1>2, StringFacts
<1>7. PICK r \in Strings : r = b1 \o u
  BY <1>5
<1>8. PICK t \in Strings : t = b2 \o v
  BY <1>6
<1>9. a1 \o r = a2 \o t
  BY <1>1, <1>3, <1>4, <1>7, <1>8, Zenon
<1>10. a1 = a2
  BY <1>9 DEF PrefixFree
<1>11. r = t
  <2>1. a1 \o r = a1 \o t
    BY <1>9, <1>10, Zenon
  <2>2. QED
    BY <1>2, <2>1, Cancels, Zenon
<1>12. b1 \o u = b2 \o v
  BY <1>7, <1>8, <1>11, Zenon
<1>13. b1 = b2
  BY <1>12 DEF PrefixFree
<1>14. QED
  BY <1>10, <1>13

LEMMA AppendedFree ==
  ASSUME NEW A \in SUBSET Strings, NEW B \in SUBSET Strings, PrefixFree(A), PrefixFree(B)
  PROVE  PrefixFree(Appended(A, B))
<1> DEFINE Both(x) == \E a \in A, b \in B : x = a \o b
<1>0. \A x \in Appended(A, B) : Both(x)
  BY OfAppended
<1> HIDE DEF Both
<1>1. SUFFICES ASSUME NEW x \in Appended(A, B), NEW y \in Appended(A, B),
                      NEW u \in Strings, NEW v \in Strings, x \o u = y \o v
               PROVE  x = y
  BY DEF PrefixFree
<1>2. \E a \in A, b \in B : x = a \o b
  BY <1>0, Zenon DEF Both
<1>3. \E a \in A, b \in B : y = a \o b
  BY <1>0, Zenon DEF Both
<1>4. PICK a1 \in A, b1 \in B : x = a1 \o b1
  BY <1>2, Zenon
<1>5. PICK a2 \in A, b2 \in B : y = a2 \o b2
  BY <1>3, Zenon
<1>6. (a1 \o b1) \o u = (a2 \o b2) \o v
  BY <1>1, <1>4, <1>5, Zenon
<1>7. a1 = a2 /\ b1 = b2
  <2>1. Splits(A, B)
    BY SplitTexts
  <2>2. QED
    BY <1>6, <2>1, Zenon DEF Splits
<1>8. QED
  BY <1>4, <1>5, <1>7, Zenon

LEMMA SplitOnce ==
  ASSUME NEW A, NEW B, Splits(A, B), NEW a1 \in A, NEW a2 \in A, NEW b1 \in B, NEW b2 \in B,
         a1 \o b1 = a2 \o b2
  PROVE  a1 = a2 /\ b1 = b2
<1>1. PICK e : e \in Strings
  BY EmptySeq DEF Strings
<1>2. \A x1, x2 \in A : \A y1, y2 \in B : \A u, v \in Strings :
        (x1 \o y1) \o u = (x2 \o y2) \o v => x1 = x2 /\ y1 = y2
  BY Zenon DEF Splits
<1>3. \A y1, y2 \in B : \A u, v \in Strings :
        (a1 \o y1) \o u = (a2 \o y2) \o v => a1 = a2 /\ y1 = y2
  BY <1>2, Zenon
<1>4. \A u, v \in Strings : (a1 \o b1) \o u = (a2 \o b2) \o v => a1 = a2 /\ b1 = b2
  BY <1>3, Zenon
<1>5. (a1 \o b1) \o e = (a2 \o b2) \o e => a1 = a2 /\ b1 = b2
  BY <1>1, <1>4, Zenon
<1>6. QED
  BY <1>5

\* Each pair of texts makes a text of its own.
LEMMA AppendedCounts ==
  ASSUME NEW A \in SUBSET Strings, NEW B \in SUBSET Strings, Splits(A, B),
         IsFiniteSet(A), IsFiniteSet(B)
  PROVE  /\ IsFiniteSet(Appended(A, B))
         /\ Cardinality(Appended(A, B)) = Cardinality(A) * Cardinality(B)
<1>1. IsFiniteSet(A \X B) /\ Cardinality(A \X B) = Cardinality(A) * Cardinality(B)
  BY FS_Product
<1>2. PICK join : join = [p \in A \X B |-> p[1] \o p[2]]
  OBVIOUS
<1>3. ASSUME NEW a \in A, NEW b \in B
      PROVE  <<a, b>> \in A \X B /\ join[<<a, b>>] = a \o b
  <2>1. <<a, b>> \in A \X B /\ <<a, b>>[1] = a /\ <<a, b>>[2] = b
    OBVIOUS
  <2>2. join[<<a, b>>] = <<a, b>>[1] \o <<a, b>>[2]
    BY <1>2, <2>1, Zenon
  <2>3. QED
    BY <2>1, <2>2, Zenon
<1>4. join \in [A \X B -> Appended(A, B)]
  <2>1. DOMAIN join = A \X B /\ join = [p \in A \X B |-> join[p]]
    BY <1>2
  <2>2. ASSUME NEW p \in A \X B
        PROVE  join[p] \in Appended(A, B)
    <3>1. PICK a \in A, b \in B : p = <<a, b>>
      OBVIOUS
    <3>2. join[p] = a \o b
      BY <1>3, <3>1
    <3>3. a \o b \in Appended(A, B)
      BY InAppended
    <3>4. QED
      BY <3>2, <3>3
  <2>3. QED
    BY <2>1, <2>2
<1>5. ASSUME NEW p \in A \X B, NEW q \in A \X B, join[p] = join[q]
      PROVE  p = q
  <2>1. PICK a1 \in A, b1 \in B : p = <<a1, b1>>
    OBVIOUS
  <2>2. PICK a2 \in A, b2 \in B : q = <<a2, b2>>
    OBVIOUS
  <2>3. join[<<a1, b1>>] = a1 \o b1 /\ join[<<a2, b2>>] = a2 \o b2
    BY <1>3
  <2>4. a1 \o b1 = a2 \o b2
    BY <1>5, <2>1, <2>2, <2>3, Zenon
  <2>5. a1 = a2 /\ b1 = b2
    <3>1. \A x1, x2 \in A : \A y1, y2 \in B : x1 \o y1 = x2 \o y2 => x1 = x2 /\ y1 = y2
      BY SplitOnce
    <3>2. \A y1, y2 \in B : a1 \o y1 = a2 \o y2 => a1 = a2 /\ y1 = y2
      BY <3>1, Zenon
    <3>3. QED
      BY <2>4, <3>2, Zenon
  <2>6. QED
    BY <2>1, <2>2, <2>5
<1>6. ASSUME NEW x \in Appended(A, B)
      PROVE  \E p \in A \X B : join[p] = x
  <2>1. PICK a \in A, b \in B : x = a \o b
    BY OfAppended
  <2>2. <<a, b>> \in A \X B /\ join[<<a, b>>] = x
    BY <1>3, <2>1
  <2>3. QED
    BY <2>2
<1>7. join \in Bijection(A \X B, Appended(A, B))
  BY <1>4, <1>5, <1>6 DEF Bijection, Injection, Surjection, IsInjective
<1>8. ExistsBijection(A \X B, Appended(A, B))
  BY <1>7, Zenon DEF ExistsBijection
<1>9. QED
  BY <1>1, <1>8, FS_Bijection

LEMMA AppendedCode ==
  ASSUME NEW A, NEW B, NEW k \in Nat, NEW m \in Nat, IsCode(A, k), IsCode(B, m)
  PROVE  IsCode(Appended(A, B), k * m)
<1>1. /\ A \in SUBSET Strings /\ IsFiniteSet(A) /\ Cardinality(A) = k /\ PrefixFree(A)
      /\ B \in SUBSET Strings /\ IsFiniteSet(B) /\ Cardinality(B) = m /\ PrefixFree(B)
  BY DEF IsCode
<1>2. Appended(A, B) \in SUBSET Strings
  BY <1>1, AppendedType
<1>3. Splits(A, B)
  BY <1>1, SplitTexts
<1>4. PrefixFree(Appended(A, B))
  BY <1>1, AppendedFree
<1>5. IsFiniteSet(Appended(A, B)) /\ Cardinality(Appended(A, B)) = k * m
  BY <1>1, <1>3, AppendedCounts
<1>6. QED
  BY <1>2, <1>4, <1>5 DEF IsCode

\* So is what comes of pushing one part after the other, and there are as many as draws.
LEMMA PushedCode ==
  ASSUME NEW n \in Nat, NEW parts \in [1..n -> SUBSET Strings], NEW numbers \in [1..n -> Nat],
         \A i \in 1..n : IsCode(parts[i], numbers[i])
  PROVE  IsCode(Pushed(parts), Product(numbers)) /\ Product(numbers) \in Nat
<1>1. PICK g \in [0..n -> SUBSET Strings] :
        /\ Pushed(parts) = g[n] /\ g[0] = {<<>>}
        /\ \A i \in 1..n : g[i] = Appended(g[i - 1], parts[i])
  BY PushedUnfolds
<1>2. PICK p \in [0..n -> Nat] :
        /\ Product(numbers) = p[n] /\ p[0] = 1
        /\ \A i \in 1..n : p[i] = p[i - 1] * numbers[i]
  BY ProductUnfolds
<1> DEFINE T == {k \in Nat : k \in 0..n => IsCode(g[k], p[k])}
<1>3. 0 \in T
  BY <1>1, <1>2, EmptyCode
<1>4. ASSUME NEW k \in Nat, k \in T
      PROVE  k + 1 \in T
  <2>1. ASSUME k + 1 \in 0..n
        PROVE  IsCode(g[k + 1], p[k + 1])
    <3>1. k \in 0..n /\ k + 1 \in 1..n /\ (k + 1) - 1 = k
      BY <2>1
    <3>2. /\ g[k + 1] = Appended(g[k], parts[k + 1])
          /\ p[k + 1] = p[k] * numbers[k + 1]
      BY <1>1, <1>2, <3>1
    <3>3. p[k] \in Nat /\ numbers[k + 1] \in Nat
      BY <3>1
    <3>4. IsCode(g[k], p[k]) /\ IsCode(parts[k + 1], numbers[k + 1])
      BY <1>4, <3>1
    <3>5. IsCode(Appended(g[k], parts[k + 1]), p[k] * numbers[k + 1])
      BY <3>3, <3>4, AppendedCode
    <3>6. QED
      BY <3>2, <3>5
  <2>2. QED
    BY <2>1
<1> HIDE DEF T
<1>5. Nat \subseteq T
  BY <1>3, <1>4, NatInduct
<1>6. IsCode(g[n], p[n]) /\ p[n] \in Nat
  <2>1. n \in 0..n
    OBVIOUS
  <2>2. QED
    BY <1>5, <2>1 DEF T
<1>7. QED
  BY <1>1, <1>2, <1>6

\* How long a text may be, and that it is not all dots.
NoLonger(T, k) == \A x \in T : Len(x) <= k
NotDots(T) == \A x \in T : \E i \in 1..Len(x) : x[i] # "."

LEMMA AppendedLength ==
  ASSUME NEW A \in SUBSET Strings, NEW B \in SUBSET Strings, NEW k \in Nat, NEW m \in Nat,
         NoLonger(A, k), NoLonger(B, m)
  PROVE  NoLonger(Appended(A, B), k + m)
<1>1. ASSUME NEW a \in A, NEW b \in B
      PROVE  Len(a \o b) <= k + m
  <2>1. a \in Strings /\ b \in Strings
    OBVIOUS
  <2>2. Len(a) \in Nat /\ Len(b) \in Nat /\ Len(a \o b) = Len(a) + Len(b)
    BY <2>1, StringFacts
  <2>3. Len(a) <= k /\ Len(b) <= m
    BY DEF NoLonger
  <2>4. QED
    BY <2>2, <2>3
<1>2. ASSUME NEW x \in Appended(A, B)
      PROVE  Len(x) <= k + m
  <2>1. PICK a \in A, b \in B : x = a \o b
    BY OfAppended
  <2>2. QED
    BY <1>1, <2>1
<1>3. QED
  BY <1>2 DEF NoLonger

LEMMA AppendedNotDots ==
  ASSUME NEW A \in SUBSET Strings, NEW B \in SUBSET Strings, NotDots(A) \/ NotDots(B)
  PROVE  NotDots(Appended(A, B))
<1>1. ASSUME NEW a \in A, NEW b \in B
      PROVE  \E i \in 1..Len(a \o b) : (a \o b)[i] # "."
  <2>1. a \in Strings /\ b \in Strings
    OBVIOUS
  <2>2. /\ Len(a) \in Nat /\ Len(b) \in Nat /\ Len(a \o b) = Len(a) + Len(b)
        /\ \A i \in 1..Len(a) + Len(b) :
             (a \o b)[i] = IF i <= Len(a) THEN a[i] ELSE b[i - Len(a)]
    BY <2>1, StringFacts
  <2>3. CASE NotDots(A)
    <3>1. PICK i \in 1..Len(a) : a[i] # "."
      BY <2>3 DEF NotDots
    <3>2. i \in 1..Len(a) + Len(b) /\ i <= Len(a)
      BY <2>2
    <3>3. (a \o b)[i] = a[i]
      BY <2>2, <3>2
    <3>4. QED
      BY <2>2, <3>1, <3>2, <3>3
  <2>4. CASE NotDots(B)
    <3>1. PICK i \in 1..Len(b) : b[i] # "."
      BY <2>4 DEF NotDots
    <3>2. PICK k \in 1..Len(a) + Len(b) : k = i + Len(a)
      BY <2>2
    <3>3. ~(k <= Len(a)) /\ k - Len(a) = i
      BY <2>2, <3>2
    <3>4. (a \o b)[k] = b[i]
      BY <2>2, <3>3
    <3>5. QED
      BY <2>2, <3>1, <3>4
  <2>5. QED
    BY <2>3, <2>4
<1>2. ASSUME NEW x \in Appended(A, B)
      PROVE  \E i \in 1..Len(x) : x[i] # "."
  <2>1. PICK a \in A, b \in B : x = a \o b
    BY OfAppended
  <2>2. QED
    BY <1>1, <2>1
<1>3. QED
  BY <1>2 DEF NotDots

\* Parts of limited lengths make up a text of limited length.
LEMMA PushedLength ==
  ASSUME NEW n \in Nat, NEW parts \in [1..n -> SUBSET Strings], NEW upTo \in [0..n -> Nat],
         \A i \in 1..n : \E m \in Nat : upTo[i] = upTo[i - 1] + m /\ NoLonger(parts[i], m)
  PROVE  NoLonger(Pushed(parts), upTo[n])
<1>1. PICK g \in [0..n -> SUBSET Strings] :
        /\ Pushed(parts) = g[n] /\ g[0] = {<<>>}
        /\ \A i \in 1..n : g[i] = Appended(g[i - 1], parts[i])
  BY PushedUnfolds
<1> DEFINE T == {k \in Nat : k \in 0..n => NoLonger(g[k], upTo[k])}
<1>2. 0 \in T
  <2>1. upTo[0] \in Nat /\ Len(<<>>) = 0
    OBVIOUS
  <2>2. QED
    BY <1>1, <2>1 DEF NoLonger
<1>3. ASSUME NEW k \in Nat, k \in T
      PROVE  k + 1 \in T
  <2>1. ASSUME k + 1 \in 0..n
        PROVE  NoLonger(g[k + 1], upTo[k + 1])
    <3>1. k \in 0..n /\ k + 1 \in 1..n /\ (k + 1) - 1 = k
      BY <2>1
    <3>2. PICK m \in Nat : upTo[k + 1] = upTo[k] + m /\ NoLonger(parts[k + 1], m)
      BY <3>1
    <3>3. g[k + 1] = Appended(g[k], parts[k + 1])
      BY <1>1, <3>1
    <3>4. /\ g[k] \in SUBSET Strings /\ parts[k + 1] \in SUBSET Strings /\ upTo[k] \in Nat
          /\ NoLonger(g[k], upTo[k])
      BY <1>3, <3>1
    <3>5. NoLonger(Appended(g[k], parts[k + 1]), upTo[k] + m)
      BY <3>2, <3>4, AppendedLength
    <3>6. QED
      BY <3>2, <3>3, <3>5
  <2>2. QED
    BY <2>1
<1> HIDE DEF T
<1>4. Nat \subseteq T
  BY <1>2, <1>3, NatInduct
<1>5. n \in 0..n /\ n \in T
  BY <1>4
<1>6. QED
  BY <1>1, <1>5 DEF T

\* One part that is not all dots is enough.
LEMMA PushedNotDots ==
  ASSUME NEW n \in Nat, NEW parts \in [1..n -> SUBSET Strings],
         NEW j \in 1..n, NotDots(parts[j])
  PROVE  NotDots(Pushed(parts))
<1>1. PICK g \in [0..n -> SUBSET Strings] :
        /\ Pushed(parts) = g[n] /\ g[0] = {<<>>}
        /\ \A i \in 1..n : g[i] = Appended(g[i - 1], parts[i])
  BY PushedUnfolds
<1> DEFINE T == {k \in Nat : k \in j..n => NotDots(g[k])}
<1>2. 0 \in T
  OBVIOUS
<1>3. ASSUME NEW k \in Nat, k \in T
      PROVE  k + 1 \in T
  <2>1. ASSUME k + 1 \in j..n
        PROVE  NotDots(g[k + 1])
    <3>1. k \in 0..n /\ k + 1 \in 1..n /\ (k + 1) - 1 = k /\ (k \in j..n \/ k + 1 = j)
      BY <2>1
    <3>2. g[k + 1] = Appended(g[k], parts[k + 1])
      BY <1>1, <3>1
    <3>3. g[k] \in SUBSET Strings /\ parts[k + 1] \in SUBSET Strings
      BY <3>1
    <3>4. NotDots(g[k]) \/ NotDots(parts[k + 1])
      BY <1>3, <3>1
    <3>5. QED
      BY <3>2, <3>3, <3>4, AppendedNotDots
  <2>2. QED
    BY <2>1
<1> HIDE DEF T
<1>4. Nat \subseteq T
  BY <1>2, <1>3, NatInduct
<1>5. n \in j..n /\ n \in T
  BY <1>4
<1>6. QED
  BY <1>1, <1>5 DEF T

LEMMA ValidIds ==
  ASSUME NEW x \in Strings, \E i \in 1..Len(x) : x[i] # "."
  PROVE  IsValidId(x)
<1>1. PICK i \in 1..Len(x) : x[i] # "."
  OBVIOUS
<1>2. x # <<>> /\ x # <<".">> /\ x # <<".", ".">>
  BY <1>1
<1>3. x \in Seq(IdChars)
  BY DEF Strings
<1>4. DOMAIN x = 1..Len(x) /\ \A k \in 1..Len(x) : x[k] \in IdChars
  BY <1>3, LenProperties, ElementOfSeq
<1>5. ToSet(x) \subseteq IdChars
  BY <1>4 DEF ToSet
<1>6. QED
  BY <1>2, <1>5 DEF IsValidId

\* One character each.
LEMMA CharacterCode ==
  ASSUME NEW C \in SUBSET IdChars, IsFiniteSet(C)
  PROVE  IsCode({<<c>> : c \in C}, Cardinality(C)) /\ NoLonger({<<c>> : c \in C}, 1)
<1> DEFINE T == {<<c>> : c \in C}
           one == [c \in C |-> <<c>>]
<1>1. T \in SUBSET Strings
  <2>1. ASSUME NEW c \in C
        PROVE  <<c>> \in Seq(IdChars)
    OBVIOUS
  <2>2. QED
    BY <2>1 DEF Strings
<1>2. one \in Bijection(C, T)
  <2>1. \A c, d \in C : <<c>> = <<d>> => c = d
    OBVIOUS
  <2>2. QED
    BY <2>1 DEF Bijection, Injection, Surjection, IsInjective
<1>3. IsFiniteSet(T) /\ Cardinality(T) = Cardinality(C)
  <2> HIDE DEF one, T
  <2>1. ExistsBijection(C, T)
    BY <1>2 DEF ExistsBijection
  <2>2. QED
    BY <2>1, FS_Bijection
<1>4. PrefixFree(T)
  <2>1. SUFFICES ASSUME NEW c \in C, NEW d \in C, NEW u \in Strings, NEW v \in Strings,
                        <<c>> \o u = <<d>> \o v
                 PROVE  c = d
    BY DEF PrefixFree
  <2>2. PICK x \in Strings : x = <<c>> /\ Len(x) = 1 /\ x[1] = c
    <3>1. <<c>> \in T /\ Len(<<c>>) = 1 /\ <<c>>[1] = c
      OBVIOUS
    <3> HIDE DEF T
    <3>2. QED
      BY <1>1, <3>1
  <2>3. PICK y \in Strings : y = <<d>> /\ Len(y) = 1 /\ y[1] = d
    <3>1. <<d>> \in T /\ Len(<<d>>) = 1 /\ <<d>>[1] = d
      OBVIOUS
    <3> HIDE DEF T
    <3>2. QED
      BY <1>1, <3>1
  <2>4. Len(u) \in Nat /\ \A i \in 1..Len(x) + Len(u) :
          (x \o u)[i] = IF i <= Len(x) THEN x[i] ELSE u[i - Len(x)]
    BY StringFacts
  <2>5. Len(v) \in Nat /\ \A i \in 1..Len(y) + Len(v) :
          (y \o v)[i] = IF i <= Len(y) THEN y[i] ELSE v[i - Len(y)]
    BY StringFacts
  <2>6. (x \o u)[1] = c
    BY <2>2, <2>4
  <2>7. (y \o v)[1] = d
    BY <2>3, <2>5
  <2>8. QED
    BY <2>1, <2>2, <2>3, <2>6, <2>7, Zenon
<1>5. NoLonger(T, 1)
  <2>1. \A c \in C : Len(<<c>>) <= 1
    OBVIOUS
  <2>2. QED
    BY <2>1, Zenon DEF NoLonger
<1>6. QED
  BY <1>1, <1>3, <1>4, <1>5 DEF IsCode

\* A text by itself.
LEMMA LiteralCode ==
  ASSUME NEW x \in Strings
  PROVE  IsCode({x}, 1) /\ NoLonger({x}, Len(x))
<1>1. {x} \in SUBSET Strings
  OBVIOUS
<1>2. IsFiniteSet({x}) /\ Cardinality({x}) = 1
  BY FS_Singleton
<1>3. PrefixFree({x})
  BY DEF PrefixFree
<1>4. NoLonger({x}, Len(x))
  <2>1. Len(x) \in Nat
    BY StringFacts
  <2>2. QED
    BY <2>1 DEF NoLonger
<1>5. QED
  BY <1>1, <1>2, <1>3, <1>4 DEF IsCode

LEMMA StringOf ==
  ASSUME NEW s, IsSequence(s), ToSet(s) \subseteq IdChars
  PROVE  s \in Strings
<1>1. s \in Seq(ToSet(s))
  BY DEF IsSequence
<1>2. PICK C : C = ToSet(s)
  OBVIOUS
<1>3. s \in Seq(C) /\ C \subseteq IdChars
  BY <1>1, <1>2
<1>4. Len(s) \in Nat /\ s \in [1..Len(s) -> C]
  BY <1>3, LenProperties
<1>5. s \in [1..Len(s) -> IdChars]
  BY <1>3, <1>4
<1>6. s \in Seq(IdChars)
  BY <1>4, <1>5, IsASeq
<1>7. QED
  BY <1>6 DEF Strings

\* A list that is accepted: no word begins another, so joined words can be told apart.
LEMMA WordsAreStrings ==
  ASSUME WordlistAccepted
  PROVE  Wordlist \in SUBSET Strings /\ NotDots(Wordlist)
<1>1. ASSUME NEW w \in Wordlist
      PROVE  w \in Strings /\ \E i \in 1..Len(w) : w[i] # "."
  <2>1. IsWord(w) /\ IsSequence(w)
    BY IdAssumption DEF WordlistAccepted
  <2>2. \A i \in DOMAIN w : w[i] \in Letters \/ w[i] = Hyphen
    BY <2>1 DEF IsWord
  <2>3. Letters \subseteq IdChars /\ Hyphen \in IdChars
    <3>1. Letters \subseteq IdChars
      BY IdAssumption
    <3>2. Hyphen \in IdChars
      BY DEF IdChars
    <3>3. QED
      BY <3>1, <3>2
  <2>4. ToSet(w) \subseteq IdChars
    BY <2>2, <2>3 DEF ToSet
  <2>5. w \in Strings
    BY <2>1, <2>4, StringOf
  <2>6. w # <<>> /\ Len(w) \in Nat /\ DOMAIN w = 1..Len(w)
    <3>1. w \in Seq(IdChars)
      BY <2>5 DEF Strings
    <3>2. QED
      BY <2>1, <3>1, LenProperties DEF IsWord
  <2>7. 1 \in 1..Len(w)
    <3>1. w \in Seq(IdChars)
      BY <2>5 DEF Strings
    <3>2. Len(w) # 0
      BY <2>6, <3>1, EmptySeq
    <3>3. QED
      BY <2>6, <3>2
  <2>8. w[1] \in Letters
    BY <2>1, <2>6, <2>7 DEF IsWord
  <2>9. w[1] # "."
    BY <2>8, IdAssumption
  <2>10. QED
    BY <2>5, <2>7, <2>9
<1>2. QED
  BY <1>1 DEF NotDots

LEMMA Begins ==
  ASSUME NEW x \in Strings, NEW y \in Strings, NEW u \in Strings, NEW v \in Strings,
         x \o u = y \o v, Len(x) <= Len(y)
  PROVE  IsPrefix(x, y)
<1>1. /\ Len(x) \in Nat /\ Len(u) \in Nat
      /\ \A i \in 1..Len(x) + Len(u) :
           (x \o u)[i] = IF i <= Len(x) THEN x[i] ELSE u[i - Len(x)]
  BY StringFacts
<1>2. /\ Len(y) \in Nat /\ Len(v) \in Nat
      /\ \A i \in 1..Len(y) + Len(v) :
           (y \o v)[i] = IF i <= Len(y) THEN y[i] ELSE v[i - Len(y)]
  BY StringFacts
<1>3. ASSUME NEW i \in 1..Len(x)
      PROVE  x[i] = y[i]
  <2>1. i \in 1..Len(x) + Len(u) /\ i \in 1..Len(y) + Len(v) /\ i <= Len(x) /\ i <= Len(y)
    BY <1>1, <1>2
  <2>2. (x \o u)[i] = x[i]
    BY <1>1, <2>1
  <2>3. (y \o v)[i] = y[i]
    BY <1>2, <2>1
  <2>4. QED
    BY <2>2, <2>3
<1>4. x \in Seq(IdChars) /\ y \in Seq(IdChars)
  BY DEF Strings
<1>5. SubSeq(x, 1, Len(x)) = [i \in 1..Len(x) |-> x[i]]
  <2>1. PICK n \in Nat : n = Len(x)
    BY <1>1
  <2>2. SubSeq(x, 1, n) = [i \in 1..n |-> x[i]]
    BY <1>4, <2>1
  <2>3. QED
    BY <2>1, <2>2
<1>6. SubSeq(y, 1, Len(x)) = [i \in 1..Len(x) |-> y[i]]
  <2>1. PICK n \in Nat : n = Len(x)
    BY <1>1
  <2>2. SubSeq(y, 1, n) = [i \in 1..n |-> y[i]]
    BY <1>2, <1>4, <2>1
  <2>3. QED
    BY <2>1, <2>2
<1>7. [i \in 1..Len(x) |-> x[i]] = [i \in 1..Len(x) |-> y[i]]
  BY <1>3
<1>8. SubSeq(x, 1, Len(x)) = SubSeq(y, 1, Len(x))
  BY <1>5, <1>6, <1>7, Zenon
<1>9. QED
  BY <1>8 DEF IsPrefix

LEMMA WordCode ==
  ASSUME WordlistAccepted
  PROVE  IsCode(Wordlist, Cardinality(Wordlist)) /\ Cardinality(Wordlist) \in Nat
<1>1. Wordlist \in SUBSET Strings
  BY WordsAreStrings
<1>2. IsFiniteSet(Wordlist) /\ Cardinality(Wordlist) \in Nat
  BY IdAssumption, FS_CardinalityType
<1>3. PrefixFree(Wordlist)
  <2>1. SUFFICES ASSUME NEW x \in Wordlist, NEW y \in Wordlist,
                        NEW u \in Strings, NEW v \in Strings, x \o u = y \o v
                 PROVE  x = y
    BY DEF PrefixFree
  <2>2. x \in Strings /\ y \in Strings
    BY <1>1
  <2>3. IsPrefix(x, y) \/ IsPrefix(y, x)
    <3>1. CASE Len(x) <= Len(y)
      BY <2>1, <2>2, <3>1, Begins
    <3>2. CASE ~(Len(x) <= Len(y))
      <4>1. Len(x) \in Nat /\ Len(y) \in Nat
        BY <2>2, StringFacts
      <4>2. Len(y) <= Len(x) /\ y \o v = x \o u
        BY <2>1, <3>2, <4>1
      <4>3. QED
        BY <2>2, <4>2, Begins
    <3>3. QED
      BY <3>1, <3>2
  <2>4. QED
    BY <2>3 DEF WordlistAccepted
<1>4. QED
  BY <1>1, <1>2, <1>3 DEF IsCode

\* Of finitely many numbers one is the largest.
LEMMA Largest ==
  ASSUME NEW S, IsFiniteSet(S), S # {}, NEW f \in [S -> Nat]
  PROVE  \E x \in S : \A y \in S : f[y] <= f[x]
<1>1. PICK n \in Nat : ExistsSurjection(1..n, S)
  BY FS_NatSurjection
<1>2. PICK g \in [1..n -> S] : \A x \in S : \E i \in 1..n : g[i] = x
  BY <1>1 DEF ExistsSurjection, Surjection
<1> DEFINE T == {k \in Nat : k \in 1..n => \E i \in 1..k : \A j \in 1..k : f[g[j]] <= f[g[i]]}
<1>3. 0 \in T
  OBVIOUS
<1>4. ASSUME NEW k \in Nat, k \in T
      PROVE  k + 1 \in T
  <2>1. ASSUME k + 1 \in 1..n
        PROVE  \E i \in 1..(k + 1) : \A j \in 1..(k + 1) : f[g[j]] <= f[g[i]]
    <3>1. CASE k = 0
      <4>1. 1 \in 1..n /\ 1 \in 1..(k + 1) /\ \A j \in 1..(k + 1) : j = 1
        BY <2>1, <3>1
      <4>2. f[g[1]] \in Nat
        BY <4>1
      <4>3. ASSUME NEW j \in 1..(k + 1)
            PROVE  f[g[j]] <= f[g[1]]
        <5>1. j = 1
          BY <4>1
        <5>2. f[g[1]] <= f[g[1]]
          BY <4>2
        <5>3. QED
          BY <5>1, <5>2
      <4>4. QED
        BY <4>1, <4>3
    <3>2. CASE k # 0
      <4>1. k \in 1..n /\ \A j \in 1..(k + 1) : j \in 1..n /\ (j \in 1..k \/ j = k + 1)
        BY <2>1, <3>2
      <4>2. PICK i \in 1..k : \A j \in 1..k : f[g[j]] <= f[g[i]]
        BY <1>4, <4>1
      <4>3. \A j \in 1..(k + 1) : f[g[j]] \in Nat
        BY <4>1
      <4>4. i \in 1..(k + 1) /\ k + 1 \in 1..(k + 1)
        OBVIOUS
      <4>5. CASE f[g[k + 1]] <= f[g[i]]
        BY <4>1, <4>2, <4>4, <4>5
      <4>6. CASE ~(f[g[k + 1]] <= f[g[i]])
        <5>1. \A j \in 1..k : f[g[j]] <= f[g[k + 1]]
          BY <4>2, <4>3, <4>4, <4>6
        <5>2. f[g[k + 1]] <= f[g[k + 1]]
          BY <4>3, <4>4
        <5>3. \A j \in 1..(k + 1) : f[g[j]] <= f[g[k + 1]]
          BY <4>1, <5>1, <5>2
        <5>4. QED
          BY <4>4, <5>3
      <4>7. QED
        BY <4>5, <4>6
    <3>3. QED
      BY <3>1, <3>2
  <2>2. QED
    BY <2>1
<1> HIDE DEF T
<1>5. Nat \subseteq T
  BY <1>3, <1>4, NatInduct
<1>6. n \in 1..n
  BY <1>2
<1>7. \E i \in 1..n : \A j \in 1..n : f[g[j]] <= f[g[i]]
  BY <1>5, <1>6 DEF T
<1>8. QED
  BY <1>2, <1>7

LEMMA LongestIs ==
  ASSUME WordlistAccepted
  PROVE  LongestWord \in Nat /\ NoLonger(Wordlist, LongestWord)
<1> DEFINE lengths == {Len(w) : w \in Wordlist}
<1>1. \A w \in Wordlist : Len(w) \in Nat
  <2>1. \A w \in Wordlist : w \in Strings
    BY WordsAreStrings
  <2>2. QED
    BY <2>1, StringFacts
<1>2. \E n \in lengths : \A w \in Wordlist : Len(w) <= n
  <2>1. PICK f \in [Wordlist -> Nat] : \A w \in Wordlist : f[w] = Len(w)
    <3>1. [w \in Wordlist |-> Len(w)] \in [Wordlist -> Nat]
      BY <1>1
    <3>2. QED
      BY <3>1
  <2>2. PICK x \in Wordlist : \A y \in Wordlist : f[y] <= f[x]
    BY Largest, IdAssumption
  <2>3. QED
    BY <2>1, <2>2
<1>3. LongestWord \in lengths /\ \A w \in Wordlist : Len(w) <= LongestWord
  BY <1>2 DEF LongestWord
<1>4. QED
  BY <1>1, <1>3 DEF NoLonger

\* Words with hyphens between them.
LEMMA WordsFacts ==
  ASSUME WordlistAccepted, NEW n \in Nat \ {0}
  PROVE  LET numbers == [i \in 1..n |-> Cardinality(Wordlist)]
         IN /\ IsCode(Words(n), Product(numbers)) /\ Product(numbers) \in Nat
            /\ n * (LongestWord + 1) - 1 \in Nat
            /\ NoLonger(Words(n), n * (LongestWord + 1) - 1) /\ NotDots(Words(n))
<1> DEFINE numbers == [i \in 1..n |-> Cardinality(Wordlist)]
           parts == [i \in 1..n |-> IF i = 1 THEN Wordlist ELSE Appended({<<Hyphen>>}, Wordlist)]
<1>1. /\ Wordlist \in SUBSET Strings /\ NotDots(Wordlist) /\ Cardinality(Wordlist) \in Nat
      /\ IsCode(Wordlist, Cardinality(Wordlist))
      /\ LongestWord \in Nat /\ NoLonger(Wordlist, LongestWord)
  BY WordsAreStrings, WordCode, LongestIs
<1>2. <<Hyphen>> \in Strings /\ Len(<<Hyphen>>) = 1
  <2>1. Hyphen \in IdChars
    BY DEF IdChars
  <2>2. <<Hyphen>> \in Seq(IdChars) /\ Len(<<Hyphen>>) = 1
    BY <2>1
  <2>3. QED
    BY <2>2 DEF Strings
<1>3. {<<Hyphen>>} \in SUBSET Strings /\ IsCode({<<Hyphen>>}, 1) /\ NoLonger({<<Hyphen>>}, 1)
  <2>1. PICK h \in Strings : h = <<Hyphen>> /\ Len(h) = 1
    BY <1>2
  <2>2. {h} \in SUBSET Strings /\ IsCode({h}, 1) /\ NoLonger({h}, 1)
    BY <2>1, LiteralCode
  <2>3. QED
    BY <2>1, <2>2, Zenon
<1>4. PICK joined : joined = Appended({<<Hyphen>>}, Wordlist)
  OBVIOUS
<1>5. PICK c \in Nat : c = Cardinality(Wordlist)
  BY <1>1
<1>6. joined \in SUBSET Strings /\ IsCode(joined, c) /\ NoLonger(joined, LongestWord + 1)
  <2>1. joined \in SUBSET Strings
    BY <1>1, <1>3, <1>4, AppendedType
  <2>2. IsCode(joined, c)
    <3>1. PICK one \in Nat : one = 1
      OBVIOUS
    <3>2. IsCode({<<Hyphen>>}, one) /\ IsCode(Wordlist, c)
      BY <1>1, <1>3, <1>5, <3>1, Zenon
    <3>3. IsCode(Appended({<<Hyphen>>}, Wordlist), one * c)
      BY <3>2, AppendedCode
    <3>4. one * c = c
      BY <3>1
    <3>5. QED
      BY <1>4, <3>3, <3>4, Zenon
  <2>3. NoLonger(joined, LongestWord + 1)
    <3>1. NoLonger(Appended({<<Hyphen>>}, Wordlist), 1 + LongestWord)
      BY <1>1, <1>3, AppendedLength
    <3>2. 1 + LongestWord = LongestWord + 1
      BY <1>1
    <3>3. QED
      BY <1>4, <3>1, <3>2, Zenon
  <2>4. QED
    BY <2>1, <2>2, <2>3
<1>7. /\ DOMAIN parts = 1..n /\ parts[1] = Wordlist
      /\ \A i \in 1..n : i # 1 => parts[i] = joined
  BY <1>4
<1>8. Words(n) = Pushed(parts)
  BY DEF Words
<1>9. /\ numbers \in [1..n -> Nat] /\ \A i \in 1..n : numbers[i] = c
      /\ parts = [i \in 1..n |-> parts[i]]
  BY <1>5
<1> HIDE DEF parts, numbers
<1>10. parts \in [1..n -> SUBSET Strings]
  BY <1>1, <1>6, <1>7, <1>9
<1>11. IsCode(Pushed(parts), Product(numbers)) /\ Product(numbers) \in Nat
  <2>1. ASSUME NEW i \in 1..n
        PROVE  IsCode(parts[i], numbers[i])
    <3>1. CASE i = 1
      BY <1>1, <1>5, <1>7, <1>9, <3>1, Zenon
    <3>2. CASE i # 1
      BY <1>6, <1>7, <1>9, <3>2, Zenon
    <3>3. QED
      BY <3>1, <3>2
  <2>2. QED
    BY <1>9, <1>10, <2>1, PushedCode
<1>12. NoLonger(Pushed(parts), n * (LongestWord + 1) - 1) /\ n * (LongestWord + 1) - 1 \in Nat
  <2>1. PICK p \in Nat : p = LongestWord + 1 /\ p >= 1
    BY <1>1
  <2>2. \A i \in Nat : i # 0 => i * p = (i - 1) * p + p /\ (i - 1) * p \in Nat
    OBVIOUS
  <2>3. PICK upTo : upTo = [i \in 0..n |-> IF i = 0 THEN 0 ELSE i * p - 1]
    OBVIOUS
  <2>4. upTo \in [0..n -> Nat]
    <3>1. ASSUME NEW i \in 0..n, i # 0
          PROVE  i * p - 1 \in Nat
      <4>1. i \in Nat
        OBVIOUS
      <4>2. PICK q \in Nat : i * p = q + p
        BY <2>2, <3>1, <4>1
      <4>3. QED
        BY <2>1, <4>2
    <3>2. QED
      BY <2>3, <3>1
  <2>5. ASSUME NEW i \in 1..n
        PROVE  \E m \in Nat : upTo[i] = upTo[i - 1] + m /\ NoLonger(parts[i], m)
    <3>1. CASE i = 1
      <4>1. 1 \in 0..n /\ 0 \in 0..n
        OBVIOUS
      <4>2. upTo[1] = LongestWord /\ upTo[0] = 0
        BY <1>1, <2>1, <2>3, <4>1
      <4>3. upTo[i] = upTo[i - 1] + LongestWord /\ NoLonger(parts[i], LongestWord)
        BY <1>1, <1>7, <3>1, <4>2
      <4>4. QED
        BY <1>1, <4>3
    <3>2. CASE i # 1
      <4>1. i \in 0..n /\ i - 1 \in 0..n /\ i # 0 /\ i - 1 # 0 /\ i \in Nat
        BY <3>2
      <4>2. upTo[i] = i * p - 1 /\ upTo[i - 1] = (i - 1) * p - 1
        BY <2>3, <4>1
      <4>3. upTo[i] = upTo[i - 1] + p
        BY <2>2, <4>1, <4>2
      <4>4. NoLonger(parts[i], p)
        BY <1>6, <1>7, <2>1, <3>2, Zenon
      <4>5. QED
        BY <4>3, <4>4
    <3>3. QED
      BY <3>1, <3>2
  <2>6. NoLonger(Pushed(parts), upTo[n])
    BY <1>10, <2>4, <2>5, PushedLength
  <2>7. upTo[n] = n * p - 1 /\ upTo[n] \in Nat
    BY <2>3, <2>4
  <2>8. QED
    BY <2>1, <2>6, <2>7
<1>13. NotDots(Pushed(parts))
  <2>1. PICK j \in 1..n : j = 1
    OBVIOUS
  <2>2. NotDots(parts[j])
    BY <1>1, <1>7, <2>1
  <2>3. QED
    BY <1>10, <2>2, PushedNotDots
<1>14. QED
  BY <1>8, <1>11, <1>12, <1>13 DEF numbers

\* Characters of an alphabet.
LEMMA AlphabetFacts ==
  ASSUME NEW a \in DOMAIN Alphabets, NEW n \in Nat \ {0}
  PROVE  LET numbers == [i \in 1..n |-> Cardinality(Alphabets[a])]
             texts == Pushed([i \in 1..n |-> {<<c>> : c \in Alphabets[a]}])
         IN /\ IsCode(texts, Product(numbers)) /\ Product(numbers) \in Nat
            /\ NoLonger(texts, n) /\ NotDots(texts)
<1> DEFINE numbers == [i \in 1..n |-> Cardinality(Alphabets[a])]
           single == {<<c>> : c \in Alphabets[a]}
           parts == [i \in 1..n |-> single]
<1>1. IsFiniteSet(Alphabets[a]) /\ "." \notin Alphabets[a] /\ Cardinality(Alphabets[a]) \in Nat
  BY IdAssumption, FS_CardinalityType
<1>2. Alphabets[a] \in SUBSET IdChars
  BY DEF IdChars
<1>3. IsCode(single, Cardinality(Alphabets[a])) /\ NoLonger(single, 1)
  BY <1>1, <1>2, CharacterCode
<1>4. NotDots(single)
  <2>1. ASSUME NEW c \in Alphabets[a]
        PROVE  \E i \in 1..Len(<<c>>) : <<c>>[i] # "."
    <3>1. Len(<<c>>) = 1 /\ <<c>>[1] = c /\ c # "."
      BY <1>1
    <3>2. QED
      BY <3>1
  <2>2. QED
    BY <2>1, Zenon DEF NotDots
<1>5. single \in SUBSET Strings
  BY <1>3 DEF IsCode
<1> HIDE DEF single
<1>6. /\ numbers \in [1..n -> Nat] /\ \A i \in 1..n : numbers[i] = Cardinality(Alphabets[a])
      /\ parts \in [1..n -> SUBSET Strings] /\ \A i \in 1..n : parts[i] = single
  BY <1>1, <1>5
<1> HIDE DEF numbers, parts
<1>7. IsCode(Pushed(parts), Product(numbers)) /\ Product(numbers) \in Nat
  <2>1. \A i \in 1..n : IsCode(parts[i], numbers[i])
    BY <1>3, <1>6, Zenon
  <2>2. QED
    BY <1>6, <2>1, PushedCode
<1>8. NoLonger(Pushed(parts), n)
  <2>1. PICK upTo \in [0..n -> Nat] : \A i \in 0..n : upTo[i] = i
    <3>1. [i \in 0..n |-> i] \in [0..n -> Nat]
      OBVIOUS
    <3>2. QED
      BY <3>1
  <2>2. ASSUME NEW i \in 1..n
        PROVE  \E m \in Nat : upTo[i] = upTo[i - 1] + m /\ NoLonger(parts[i], m)
    <3>1. upTo[i] = upTo[i - 1] + 1 /\ NoLonger(parts[i], 1)
      BY <1>3, <1>6, <2>1
    <3>2. QED
      BY <3>1
  <2>3. NoLonger(Pushed(parts), upTo[n])
    BY <1>6, <2>2, PushedLength
  <2>4. QED
    BY <2>1, <2>3
<1>9. NotDots(Pushed(parts))
  <2>1. PICK j \in 1..n : j = 1
    OBVIOUS
  <2>2. NotDots(parts[j])
    BY <1>4, <1>6
  <2>3. QED
    BY <1>6, <2>2, PushedNotDots
<1>10. QED
  BY <1>7, <1>8, <1>9 DEF numbers, parts, single

\* A segment is as long and can be drawn in as many ways as the server reckons.
SegmentFits(s) ==
  /\ IsCode(SegmentTexts(s), Ways(s)) /\ Ways(s) \in Nat
  /\ NoLonger(SegmentTexts(s), LongestSegment(s)) /\ LongestSegment(s) \in Nat
  /\ s.name # "literal" => NotDots(SegmentTexts(s))

LEMMA SegmentFacts ==
  ASSUME WordlistAccepted, NEW s,
         s.name = "literal" => IsSequence(s.text) /\ ToSet(s.text) \subseteq IdChars,
         s.name # "literal" => PlaceholderAccepted(s)
  PROVE  SegmentFits(s)
<1>1. CASE s.name = "literal"
  <2>1. SegmentTexts(s) = {s.text} /\ Ways(s) = 1 /\ LongestSegment(s) = Len(s.text)
    BY <1>1 DEF SegmentTexts, Ways, LongestSegment
  <2>2. s.text \in Strings
    BY <1>1, StringOf
  <2>3. IsCode({s.text}, 1) /\ NoLonger({s.text}, Len(s.text)) /\ Len(s.text) \in Nat
    BY <2>2, LiteralCode, StringFacts
  <2>4. QED
    BY <1>1, <2>1, <2>3 DEF SegmentFits
<1>2. ASSUME s.name # "literal"
      PROVE  SegmentFits(s)
  <2>1. PICK n \in Nat \ {0} : n = Count(s)
    BY <1>2, IdAssumption DEF PlaceholderAccepted
  <2>2. CASE s.name = "word"
    <3>1. /\ SegmentTexts(s) = Words(n) /\ LongestSegment(s) = n * (LongestWord + 1) - 1
          /\ Ways(s) = Product([i \in 1..n |-> Cardinality(Wordlist)])
      BY <1>2, <2>1, <2>2 DEF SegmentTexts, Ways, LongestSegment
    <3>2. QED
      BY <3>1, WordsFacts DEF SegmentFits
  <2>3. CASE s.name # "word"
    <3>1. s.name \in DOMAIN Alphabets
      BY <1>2, <2>3 DEF PlaceholderAccepted
    <3>2. /\ SegmentTexts(s) = Pushed([i \in 1..n |-> {<<c>> : c \in Alphabets[s.name]}])
          /\ LongestSegment(s) = n
          /\ Ways(s) = Product([i \in 1..n |-> Cardinality(Alphabets[s.name])])
      BY <1>2, <2>1, <2>3 DEF SegmentTexts, Ways, LongestSegment
    <3>3. QED
      BY <3>1, <3>2, AlphabetFacts DEF SegmentFits
  <2>4. QED
    BY <2>2, <2>3
<1>3. QED
  BY <1>1, <1>2

\* A total is reached part by part.
LEMMA TotalSteps ==
  ASSUME NEW n \in Nat, NEW lengths \in [1..n -> Nat]
  PROVE  \E upTo \in [0..n -> Nat] :
           /\ upTo[0] = 0 /\ upTo[n] = Total(lengths)
           /\ \A i \in 1..n : upTo[i] = upTo[i - 1] + lengths[i]
<1> DEFINE part(i) == {i} \X (1..lengths[i])
           first(k) == UNION {part(i) : i \in 1..k}
           upTo == [k \in 0..n |-> Cardinality(first(k))]
           T == {k \in Nat : k \in 0..n => IsFiniteSet(first(k))}
<1>1. first(0) = {} /\ IsFiniteSet(first(0)) /\ Cardinality(first(0)) = 0
  BY FS_EmptySet
<1>2. ASSUME NEW i \in 1..n
      PROVE  IsFiniteSet(part(i)) /\ Cardinality(part(i)) = lengths[i]
  <2>1. PICK a \in Int, b \in Nat : a = 1 /\ b = lengths[i]
    OBVIOUS
  <2>2. IsFiniteSet({i}) /\ Cardinality({i}) = 1 /\ IsFiniteSet(a..b) /\ Cardinality(a..b) = b
    <3>1. IsFiniteSet(a..b) /\ Cardinality(a..b) = IF a > b THEN 0 ELSE b - a + 1
      BY FS_Interval
    <3>2. Cardinality(a..b) = b
      BY <2>1, <3>1
    <3>3. QED
      BY <3>1, <3>2, FS_Singleton
  <2>3. IsFiniteSet({i} \X (a..b)) /\ Cardinality({i} \X (a..b)) = 1 * b
    BY <2>2, FS_Product
  <2>4. QED
    BY <2>1, <2>3
<1>3. ASSUME NEW k \in Nat, k + 1 \in 1..n
      PROVE  first(k + 1) = first(k) \cup part(k + 1) /\ first(k) \cap part(k + 1) = {}
  <2>1. 1..(k + 1) = (1..k) \cup {k + 1} /\ k + 1 \notin 1..k
    OBVIOUS
  <2>2. first(k + 1) = first(k) \cup part(k + 1)
    BY <2>1
  <2>3. first(k) \cap part(k + 1) = {}
    BY <2>1
  <2>4. QED
    BY <2>2, <2>3
<1> HIDE DEF part, first
<1>4. ASSUME NEW k \in Nat, k + 1 \in 1..n, IsFiniteSet(first(k))
      PROVE  /\ IsFiniteSet(first(k + 1))
             /\ Cardinality(first(k + 1)) = Cardinality(first(k)) + lengths[k + 1]
  <2>1. IsFiniteSet(part(k + 1)) /\ Cardinality(part(k + 1)) = lengths[k + 1]
    BY <1>2, <1>4
  <2>2. first(k + 1) = first(k) \cup part(k + 1) /\ first(k) \cap part(k + 1) = {}
    BY <1>3, <1>4
  <2>3. /\ IsFiniteSet(first(k) \cup part(k + 1))
        /\ Cardinality(first(k) \cup part(k + 1))
             = Cardinality(first(k)) + Cardinality(part(k + 1))
               - Cardinality(first(k) \cap part(k + 1))
    BY <1>4, <2>1, FS_Union
  <2>4. Cardinality(first(k) \cap part(k + 1)) = 0
    BY <2>2, FS_EmptySet
  <2>5. Cardinality(first(k)) \in Nat /\ lengths[k + 1] \in Nat
    BY <1>4, FS_CardinalityType
  <2>6. PICK a \in Nat : a = Cardinality(first(k))
    BY <2>5
  <2>7. PICK b \in Nat : b = lengths[k + 1]
    BY <2>5
  <2>8. Cardinality(first(k) \cup part(k + 1)) = a + b - 0
    BY <2>1, <2>3, <2>4, <2>6, <2>7, Zenon
  <2>9. Cardinality(first(k + 1)) = a + b - 0
    BY <2>2, <2>8, Zenon
  <2>10. IsFiniteSet(first(k + 1))
    BY <2>2, <2>3, Zenon
  <2>11. Cardinality(first(k + 1)) = a + b
    BY <2>9
  <2>12. QED
    BY <2>6, <2>7, <2>10, <2>11, Zenon
<1>5. 0 \in T
  BY <1>1
<1>6. ASSUME NEW k \in Nat, k \in T
      PROVE  k + 1 \in T
  <2>1. ASSUME k + 1 \in 0..n
        PROVE  IsFiniteSet(first(k + 1))
    <3>1. k \in 0..n /\ k + 1 \in 1..n
      BY <2>1
    <3>2. QED
      BY <1>4, <1>6, <3>1
  <2>2. QED
    BY <2>1
<1> HIDE DEF T
<1>7. Nat \subseteq T
  BY <1>5, <1>6, NatInduct
<1>8. \A k \in 0..n : IsFiniteSet(first(k)) /\ Cardinality(first(k)) \in Nat
  BY <1>7, FS_CardinalityType DEF T
<1>9. upTo \in [0..n -> Nat] /\ \A k \in 0..n : upTo[k] = Cardinality(first(k))
  BY <1>8
<1> HIDE DEF upTo
<1>10. ASSUME NEW i \in 1..n
       PROVE  upTo[i] = upTo[i - 1] + lengths[i]
  <2>1. PICK k \in 0..n : i = k + 1 /\ k = i - 1 /\ k \in Nat
    <3>1. i - 1 \in 0..n /\ i = (i - 1) + 1 /\ i - 1 \in Nat
      OBVIOUS
    <3>2. QED
      BY <3>1
  <2>2. Cardinality(first(k + 1)) = Cardinality(first(k)) + lengths[k + 1]
    BY <1>4, <1>8, <2>1
  <2>3. i \in 0..n
    OBVIOUS
  <2>4. QED
    BY <1>9, <2>1, <2>2, <2>3
<1>11. upTo[n] = Total(lengths)
  <2>1. Total(lengths) = Cardinality(first(n))
    BY DEF Total, first, part
  <2>2. n \in 0..n
    OBVIOUS
  <2>3. QED
    BY <1>9, <2>1, <2>2
<1>12. upTo[0] = 0
  BY <1>1, <1>9
<1>13. QED
  BY <1>9, <1>10, <1>11, <1>12

\* Ids: as many as draws, none too long, and clients take each.
LEMMA IdFacts ==
  ASSUME WordlistAccepted, NEW template, IsTemplate(template), TemplateAccepted(template)
  PROVE  /\ IsCode(Ids(template), Draws(template))
         /\ NoLonger(Ids(template), MaxIdLen) /\ NotDots(Ids(template))
<1> DEFINE n == Len(template)
           parts == [i \in 1..n |-> SegmentTexts(template[i])]
           numbers == [i \in 1..n |-> Ways(template[i])]
           lengths == [i \in 1..n |-> LongestSegment(template[i])]
<1>1. n \in Nat /\ DOMAIN template = 1..n
  <2>1. PICK C : C = ToSet(template)
    OBVIOUS
  <2>2. template \in Seq(C)
    BY <2>1 DEF IsTemplate, IsSequence
  <2>3. QED
    BY <2>2, LenProperties
<1>2. /\ Ids(template) = Pushed(parts) /\ Draws(template) = Product(numbers)
      /\ MaxLen(template) = Total(lengths)
  BY <1>1 DEF Ids, Draws, MaxLen
<1> HIDE DEF n
<1>3. ASSUME NEW i \in 1..n
      PROVE  SegmentFits(template[i])
  BY <1>1, SegmentFacts DEF IsTemplate, TemplateAccepted
<1>4. /\ \A i \in 1..n : parts[i] = SegmentTexts(template[i])
      /\ \A i \in 1..n : numbers[i] = Ways(template[i])
      /\ \A i \in 1..n : lengths[i] = LongestSegment(template[i])
  OBVIOUS
<1>5. parts \in [1..n -> SUBSET Strings]
  <2>1. \A i \in 1..n : SegmentTexts(template[i]) \in SUBSET Strings
    BY <1>3 DEF SegmentFits, IsCode
  <2>2. QED
    BY <2>1
<1>6. numbers \in [1..n -> Nat]
  <2>1. \A i \in 1..n : Ways(template[i]) \in Nat
    BY <1>3 DEF SegmentFits
  <2>2. QED
    BY <2>1
<1>7. lengths \in [1..n -> Nat]
  <2>1. \A i \in 1..n : LongestSegment(template[i]) \in Nat
    BY <1>3 DEF SegmentFits
  <2>2. QED
    BY <2>1
<1> HIDE DEF parts, numbers, lengths
<1>8. IsCode(Pushed(parts), Product(numbers))
  <2>1. \A i \in 1..n : IsCode(parts[i], numbers[i])
    BY <1>3, <1>4, Zenon DEF SegmentFits
  <2>2. QED
    BY <1>1, <1>5, <1>6, <2>1, PushedCode
<1>9. PICK upTo \in [0..n -> Nat] :
        /\ upTo[0] = 0 /\ upTo[n] = Total(lengths)
        /\ \A i \in 1..n : upTo[i] = upTo[i - 1] + lengths[i]
  BY <1>1, <1>7, TotalSteps
<1>10. NoLonger(Pushed(parts), upTo[n])
  <2>1. \A i \in 1..n : lengths[i] \in Nat /\ NoLonger(parts[i], lengths[i])
    BY <1>3, <1>4, Zenon DEF SegmentFits
  <2>2. \A i \in 1..n : \E m \in Nat : upTo[i] = upTo[i - 1] + m /\ NoLonger(parts[i], m)
    BY <1>9, <2>1, Zenon
  <2>3. QED
    BY <1>1, <1>5, <2>2, PushedLength
<1>11. NoLonger(Ids(template), MaxIdLen)
  <2>1. upTo[n] \in Nat /\ upTo[n] <= MaxIdLen
    BY <1>1, <1>2, <1>9 DEF TemplateAccepted
  <2>2. Pushed(parts) \in SUBSET Strings
    BY <1>8 DEF IsCode
  <2>3. \A x \in Pushed(parts) : Len(x) \in Nat
    BY <2>2, StringFacts
  <2>4. MaxIdLen \in Nat
    BY IdAssumption
  <2>5. \A x \in Pushed(parts) : Len(x) <= MaxIdLen
    BY <1>10, <2>1, <2>3, <2>4 DEF NoLonger
  <2>6. QED
    BY <1>2, <2>5 DEF NoLonger
<1>12. NotDots(Pushed(parts))
  <2>1. PICK j \in 1..n : template[j].name # "literal"
    BY <1>1 DEF TemplateAccepted
  <2>2. NotDots(parts[j])
    BY <1>3, <1>4, <2>1 DEF SegmentFits
  <2>3. QED
    BY <1>1, <1>5, <2>2, PushedNotDots
<1>13. QED
  BY <1>2, <1>8, <1>11, <1>12

\* As many draws give one value below n as another: what is kept of the draws is a number of
\* whole rounds of n.
Giving(n, k) == {x \in DOMAIN UniformBelow(n) : UniformBelow(n)[x] = k}

LEMMA Rounds ==
  ASSUME NEW n \in Nat \ {0}
  PROVE  \E r \in Nat : Limit(n) = n * r
<1>1. EntropyRange \in Nat
  BY IdAssumption
<1>2. PICK r : r = EntropyRange \div n
  OBVIOUS
<1>3. r \in Nat /\ EntropyRange = n * r + (EntropyRange % n)
  BY <1>1, <1>2
<1>4. EntropyRange % n \in Nat
  BY <1>1
<1>5. n * r \in Nat
  BY <1>3
<1>6. Limit(n) = n * r
  <2>1. PICK m \in Nat : m = EntropyRange % n
    BY <1>4
  <2>2. PICK p \in Nat : p = n * r
    BY <1>5
  <2>3. PICK e \in Nat : e = EntropyRange
    BY <1>1
  <2>4. e = p + m
    BY <1>3, <2>1, <2>2, <2>3, Zenon
  <2>5. e - m = p
    BY <2>4
  <2>6. QED
    BY <2>1, <2>2, <2>3, <2>5, Zenon DEF Limit
<1>7. QED
  BY <1>3, <1>6

\* Within its round, the draw that gives j instead.
LEMMA InRound ==
  ASSUME NEW n \in Nat \ {0}, NEW i \in 0..n - 1, NEW j \in 0..n - 1, NEW x \in Giving(n, i)
  PROVE  x \in Nat /\ x - i + j \in Giving(n, j)
<1>1. PICK r \in Nat : Limit(n) = n * r
  BY Rounds
<1>2. n * r \in Nat
  OBVIOUS
<1>3. x \in 0..(n * r) - 1 /\ x % n = i
  BY <1>1 DEF Giving, UniformBelow
<1>4. x \in Nat
  BY <1>2, <1>3
<1>5. PICK q : q = x \div n
  OBVIOUS
<1>6. q \in Nat /\ x = n * q + i
  BY <1>3, <1>4, <1>5
<1>7. q < r
  <2>1. ASSUME q >= r
        PROVE  FALSE
    <3>1. PICK d \in Nat : q = r + d
      <4>1. q - r \in Nat /\ q = r + (q - r)
        BY <1>6, <2>1
      <4>2. QED
        BY <4>1
    <3>2. n * q = n * r + n * d /\ n * d \in Nat
      BY <3>1
    <3>3. QED
      BY <1>2, <1>3, <1>4, <1>6, <3>2
  <2>2. QED
    BY <1>6, <2>1
<1>8. n * q + j < n * r
  <2>1. PICK d \in Nat : r = q + 1 + d
    <3>1. r - q - 1 \in Nat /\ r = q + 1 + (r - q - 1)
      BY <1>6, <1>7
    <3>2. QED
      BY <3>1
  <2>2. n * r = n * q + n + n * d /\ n * d \in Nat /\ n * q \in Nat
    BY <1>6, <2>1
  <2>3. QED
    BY <2>2
<1>9. n * q \in Nat
  BY <1>6
<1>10. x - i + j = n * q + j
  BY <1>6, <1>9
<1>11. (n * q + j) % n = j
  BY <1>6, <1>9
<1>12. n * q + j \in 0..(n * r) - 1
  BY <1>2, <1>8, <1>9
<1>13. n * q + j \in Giving(n, j)
  BY <1>1, <1>11, <1>12 DEF Giving, UniformBelow
<1>14. QED
  BY <1>4, <1>10, <1>13

LEMMA DrawsAreEven ==
  ASSUME NEW n \in Nat, NEW i \in 0..n - 1, NEW j \in 0..n - 1
  PROVE  Cardinality(Giving(n, i)) = Cardinality(Giving(n, j))
<1>1. n \in Nat \ {0}
  OBVIOUS
<1> DEFINE shift == [x \in Giving(n, i) |-> x - i + j]
<1>2. \A x \in Giving(n, i) : x \in Nat /\ x - i + j \in Giving(n, j)
  BY <1>1, InRound
<1>3. \A y \in Giving(n, j) : y \in Nat /\ y - j + i \in Giving(n, i)
  BY <1>1, InRound
<1>4. shift \in [Giving(n, i) -> Giving(n, j)]
  BY <1>2
<1>5. \A x, y \in Giving(n, i) : shift[x] = shift[y] => x = y
  BY <1>2
<1>6. \A y \in Giving(n, j) : \E x \in Giving(n, i) : shift[x] = y
  <2>1. SUFFICES ASSUME NEW y \in Giving(n, j)
                 PROVE  \E x \in Giving(n, i) : shift[x] = y
    OBVIOUS
  <2>2. PICK x \in Giving(n, i) : x = y - j + i
    BY <1>3
  <2>3. x - i + j = y
    BY <1>3, <2>2
  <2>4. QED
    BY <2>3
<1>7. shift \in Bijection(Giving(n, i), Giving(n, j))
  BY <1>4, <1>5, <1>6 DEF Bijection, Injection, Surjection, IsInjective
<1> HIDE DEF shift
<1>8. ExistsBijection(Giving(n, i), Giving(n, j))
  BY <1>7, Zenon DEF ExistsBijection
<1>9. IsFiniteSet(Giving(n, i))
  <2>1. PICK r \in Nat : Limit(n) = n * r
    BY <1>1, Rounds
  <2>2. PICK a \in Int, b \in Int : a = 0 /\ b = (n * r) - 1
    OBVIOUS
  <2>3. IsFiniteSet(a..b)
    BY FS_Interval
  <2>4. Giving(n, i) \subseteq a..b
    BY <2>1, <2>2 DEF Giving, UniformBelow
  <2>5. QED
    BY <2>3, <2>4, FS_Subset
<1>10. QED
  BY <1>8, <1>9, FS_Bijection

LEMMA EveryTemplateDraws ==
  ASSUME WordlistAccepted, NEW template, IsTemplate(template), TemplateAccepted(template)
  PROVE  IdsAsDrawn(template)
<1>1. Cardinality(Ids(template)) = Draws(template) /\ Ids(template) \in SUBSET Strings
  BY IdFacts DEF IsCode
<1>2. \A id \in Ids(template) : IsValidId(id) /\ Len(id) <= MaxIdLen
  <2>1. NoLonger(Ids(template), MaxIdLen) /\ NotDots(Ids(template))
    BY IdFacts
  <2>2. \A id \in Ids(template) : Len(id) <= MaxIdLen /\ \E i \in 1..Len(id) : id[i] # "."
    BY <2>1, Zenon DEF NoLonger, NotDots
  <2>3. ASSUME NEW id \in Ids(template)
        PROVE  IsValidId(id)
    <3>1. id \in Strings /\ \E i \in 1..Len(id) : id[i] # "."
      BY <1>1, <2>2
    <3>2. QED
      BY <3>1, ValidIds
  <2>4. QED
    BY <2>2, <2>3
<1>3. Cardinality(Passphrases) = Product([i \in 1..PassphraseWords |-> Cardinality(Wordlist)])
  <2>1. PICK n \in Nat \ {0} : n = PassphraseWords
    BY IdAssumption
  <2>2. Cardinality(Words(n)) = Product([i \in 1..n |-> Cardinality(Wordlist)])
    BY WordsFacts DEF IsCode
  <2>3. QED
    BY <2>1, <2>2, Zenon DEF Passphrases
<1>4. ASSUME NEW n \in {Cardinality(Wordlist)} \cup {Cardinality(Alphabets[a]) : a \in DOMAIN Alphabets},
             NEW i \in 0..n - 1, NEW j \in 0..n - 1
      PROVE  Cardinality({x \in DOMAIN UniformBelow(n) : UniformBelow(n)[x] = i})
               = Cardinality({x \in DOMAIN UniformBelow(n) : UniformBelow(n)[x] = j})
  <2>1. n \in Nat
    <3>1. Cardinality(Wordlist) \in Nat
      BY IdAssumption, FS_CardinalityType
    <3>2. \A a \in DOMAIN Alphabets : Cardinality(Alphabets[a]) \in Nat
      BY IdAssumption, FS_CardinalityType
    <3>3. QED
      BY <1>4, <3>1, <3>2
  <2>2. Cardinality(Giving(n, i)) = Cardinality(Giving(n, j))
    BY <1>4, <2>1, DrawsAreEven
  <2>3. QED
    BY <2>2, Zenon DEF Giving
<1>5. QED
  BY <1>1, <1>2, <1>3, <1>4, Zenon DEF IdsAsDrawn

-----------------------------------------------------------------------------
\* The settings of a server that starts.

LEMMA SettingsParsed ==
  ASSUME NEW v \in Settings
  PROVE  /\ v.min_ttl \in Nat /\ v.max_ttl \in Nat /\ v.default_ttl \in Nat
         /\ v.ttl_presets \subseteq Nat
         /\ v.max_payload_bytes \in Nat /\ v.max_files \in Nat /\ v.max_manifest_bytes \in Nat
         /\ v.pbkdf2_iterations \in Nat /\ v.max_bytes \in Nat
         /\ v.max_hash_memory_bytes \in Nat /\ v.hash_bytes \in Nat
         /\ v.max_concurrent_hashes \in Nat \cup {Unset}
         /\ IsTemplate(v.template)
         /\ Accepted(v)
<1>1. PICK f \in ConfigFiles, e \in Environments : v = Layered(f, e) /\ Accepted(v)
  BY DEF Settings
<1>2. Parsed(f) /\ Parsed(e) /\ Parsed(Defaults)
  BY ConfigAssumption
<1>3. \A k \in Keys : \/ k \in DOMAIN e /\ v[k] = e[k]
                      \/ k \in DOMAIN f /\ v[k] = f[k]
                      \/ v[k] = Defaults[k]
  BY <1>1 DEF Layered
<1>4. {"min_ttl", "max_ttl", "default_ttl", "ttl_presets", "max_payload_bytes", "max_files",
       "max_manifest_bytes", "pbkdf2_iterations", "mode", "max_bytes", "template",
       "max_hash_memory_bytes", "hash_bytes", "max_concurrent_hashes"} \subseteq Keys
  BY ConfigAssumption
<1>5. \A k \in {"min_ttl", "max_ttl", "default_ttl", "max_payload_bytes", "max_files",
                "max_manifest_bytes", "pbkdf2_iterations", "max_bytes",
                "max_hash_memory_bytes", "hash_bytes"} : v[k] \in Nat
  BY <1>2, <1>3, <1>4 DEF Parsed, Keys
<1>6. v["ttl_presets"] \subseteq Nat
  BY <1>2, <1>3, <1>4 DEF Parsed, Keys
<1>7. v["max_concurrent_hashes"] \in Nat \cup {Unset}
  BY <1>2, <1>3, <1>4 DEF Parsed, Keys
<1>8. IsTemplate(v["template"])
  BY <1>2, <1>3, <1>4 DEF Parsed, Keys
<1>9. QED
  BY <1>1, <1>5, <1>6, <1>7, <1>8

\* Whole seconds: dividing loses nothing, and order is kept.
LEMMA WholeSeconds ==
  ASSUME NEW lo \in Nat, NEW hi \in Nat, lo % Second = 0, hi % Second = 0
  PROVE  /\ lo \div Second \in Nat
         /\ lo = Second * (lo \div Second)
         /\ lo >= Second => lo \div Second >= 1
         /\ lo <= hi => lo \div Second <= hi \div Second
<1>1. Second \in Nat /\ Second > 0
  BY ConfigAssumption
<1>2. PICK a : a = lo \div Second
  OBVIOUS
<1>3. PICK b : b = hi \div Second
  OBVIOUS
<1>4. a \in Nat /\ lo = Second * a
  BY <1>1, <1>2
<1>5. b \in Nat /\ hi = Second * b
  BY <1>1, <1>3
<1>6. lo >= Second => a >= 1
  BY <1>1, <1>4
<1>7. lo <= hi => a <= b
  <2>1. ASSUME lo <= hi, a > b
        PROVE  FALSE
    <3>1. PICK c \in Nat : a = b + 1 + c
      <4>1. a - b - 1 \in Nat /\ a = b + 1 + (a - b - 1)
        BY <1>4, <1>5, <2>1
      <4>2. QED
        BY <4>1
    <3>2. lo = hi + Second + Second * c
      BY <1>1, <1>4, <1>5, <3>1
    <3>3. Second * c >= 0
      BY <1>1, <3>1
    <3>4. QED
      BY <1>1, <2>1, <3>2, <3>3
  <2>2. QED
    BY <1>4, <1>5, <2>1
<1>8. QED
  BY <1>2, <1>3, <1>4, <1>6, <1>7

\* A time in seconds that clients take to be in range is in range for the server.
LEMMA TicksInRange ==
  ASSUME NEW lo \in Nat, NEW hi \in Nat, lo % Second = 0, hi % Second = 0, NEW t \in Nat,
         InRange(t, lo \div Second, hi \div Second)
  PROVE  InRange(t * Second, lo, hi)
<1>1. Second \in Nat /\ Second > 0
  BY ConfigAssumption
<1>2. PICK a : a = lo \div Second
  OBVIOUS
<1>3. PICK b : b = hi \div Second
  OBVIOUS
<1>4. a \in Nat /\ lo = Second * a
  BY <1>1, <1>2
<1>5. b \in Nat /\ hi = Second * b
  BY <1>1, <1>3
<1>6. a <= t /\ t <= b
  BY <1>2, <1>3 DEF InRange
<1>7. (t - a) \in Nat /\ (b - t) \in Nat
  BY <1>4, <1>5, <1>6
<1>8. Second * (t - a) >= 0 /\ Second * (b - t) >= 0
  BY <1>1, <1>7
<1>9. Second * (t - a) = t * Second - lo /\ Second * (b - t) = hi - t * Second
  BY <1>1, <1>4, <1>5
<1>10. t * Second \in Nat
  BY <1>1
<1>11. QED
  BY <1>8, <1>9, <1>10 DEF InRange

\* What a server that starts tells its clients.
LEMMA ClientTimes ==
  ASSUME NEW v \in Settings
  PROVE  LET config == ClientConfig(v)
         IN  /\ config.minTtl \in Nat /\ config.maxTtl \in Nat /\ config.defaultTtl \in Nat
             /\ config.ttlPresets \subseteq Nat
             /\ config.minTtl >= 1
             /\ \A ttl \in {config.defaultTtl} \cup config.ttlPresets :
                  InRange(ttl, config.minTtl, config.maxTtl)
<1> DEFINE config == ClientConfig(v)
<1>1. /\ v.min_ttl \in Nat /\ v.max_ttl \in Nat /\ v.default_ttl \in Nat
      /\ v.ttl_presets \subseteq Nat /\ MessagesAccepted(v)
  BY SettingsParsed DEF Accepted
<1>2. /\ config.minTtl = v.min_ttl \div Second /\ config.maxTtl = v.max_ttl \div Second
      /\ config.defaultTtl = v.default_ttl \div Second
      /\ config.ttlPresets = {ttl \div Second : ttl \in v.ttl_presets}
  BY DEF ClientConfig
<1>3. /\ v.min_ttl % Second = 0 /\ v.max_ttl % Second = 0 /\ v.min_ttl >= Second
      /\ \A ttl \in {v.default_ttl} \cup v.ttl_presets :
           ttl \in Nat /\ ttl % Second = 0 /\ v.min_ttl <= ttl /\ ttl <= v.max_ttl
  BY <1>1, ConfigAssumption DEF MessagesAccepted, InRange
<1>4. config.minTtl \in Nat /\ config.maxTtl \in Nat /\ config.minTtl >= 1
  BY <1>1, <1>2, <1>3, WholeSeconds
<1>5. ASSUME NEW ttl \in {v.default_ttl} \cup v.ttl_presets
      PROVE  /\ ttl \div Second \in Nat
             /\ InRange(ttl \div Second, config.minTtl, config.maxTtl)
  <2>1. ttl \in Nat /\ ttl % Second = 0 /\ v.min_ttl <= ttl /\ ttl <= v.max_ttl
    BY <1>3
  <2>2. ttl \div Second \in Nat /\ ttl \div Second <= v.max_ttl \div Second
    BY <1>1, <1>3, <2>1, WholeSeconds
  <2>3. v.min_ttl \div Second <= ttl \div Second
    BY <1>1, <1>3, <2>1, WholeSeconds
  <2>4. QED
    BY <1>2, <2>2, <2>3 DEF InRange
<1>6. config.defaultTtl \in Nat /\ config.ttlPresets \subseteq Nat
  BY <1>2, <1>5
<1>7. \A ttl \in {config.defaultTtl} \cup config.ttlPresets :
        InRange(ttl, config.minTtl, config.maxTtl)
  BY <1>2, <1>5
<1>8. QED
  BY <1>4, <1>6, <1>7

\* A server that starts suits itself and its clients.
LEMMA EverySettingSuits ==
  ASSUME NEW v \in Settings
  PROVE  SettingsSuit(v)
<1>1. /\ v.max_hash_memory_bytes \in Nat /\ v.hash_bytes \in Nat
      /\ v.max_concurrent_hashes \in Nat \cup {Unset} /\ PinAccepted(v)
  BY SettingsParsed DEF Accepted
<1>2. HashConcurrency(v) \in 1..(v.max_hash_memory_bytes \div v.hash_bytes)
  <2>1. v.hash_bytes > 0 /\ Fits(v) = v.max_hash_memory_bytes \div v.hash_bytes
    BY <1>1 DEF PinAccepted, Fits
  <2>2. Fits(v) \in Nat /\ Fits(v) > 0
    BY <1>1, <2>1 DEF PinAccepted
  <2>3. HashConcurrency(v) \in 1..Fits(v)
    <3> DEFINE wanted == IF v.max_concurrent_hashes = Unset THEN Cpus ELSE v.max_concurrent_hashes
    <3>1. wanted \in Nat /\ wanted > 0
      BY <1>1, ConfigAssumption DEF PinAccepted
    <3>2. HashConcurrency(v) = LesserOf(Fits(v), wanted)
      BY DEF HashConcurrency
    <3> HIDE DEF wanted
    <3>3. QED
      BY <2>2, <3>1, <3>2 DEF LesserOf
  <2>4. QED
    BY <2>1, <2>3
<1>3. Sensible(ClientConfig(v))
  <2> DEFINE config == ClientConfig(v)
  <2>1. /\ config.storeMode = v.mode /\ config.maxPayloadBytes = v.max_payload_bytes
        /\ config.maxFiles = v.max_files /\ config.maxManifestBytes = v.max_manifest_bytes
        /\ config.pbkdf2Iterations = v.pbkdf2_iterations
    BY DEF ClientConfig
  <2>2. /\ v.mode \in {"memory", "sqlite"} /\ v.max_payload_bytes # 0
        /\ InRange(v.max_files, 1, MaxFilesCeiling)
        /\ InRange(v.max_manifest_bytes, 1, MaxManifestCeiling)
        /\ IsAcceptedKdfIterations(v.pbkdf2_iterations)
    BY SettingsParsed DEF Accepted, MessagesAccepted, StoreAccepted, InRange
  <2>3. InRange(config.minTtl, 1, config.defaultTtl) /\ config.defaultTtl <= config.maxTtl
    BY ClientTimes DEF InRange
  <2> HIDE DEF config
  <2>4. Sensible(config)
    BY <2>1, <2>2, <2>3 DEF Sensible
  <2>5. QED
    BY <2>4 DEF config
<1>4. QED
  BY <1>2, <1>3 DEF SettingsSuit

-----------------------------------------------------------------------------
\* Sizes are numbers.

LEMMA DigitsType ==
  ASSUME NEW n \in Nat
  PROVE  Digits(n) \in Nat
<1> DEFINE powers == {10^d : d \in 1..9}
           power == [d \in 1..9 |-> 10^d]
<1>1. IsFiniteSet(1..9)
  <2>1. PICK a \in Int, b \in Int : a = 1 /\ b = 9
    OBVIOUS
  <2>2. IsFiniteSet(a..b)
    BY <2>1, FS_Interval
  <2>3. QED
    BY <2>1, <2>2
<1>2. power \in Surjection(1..9, powers)
  BY DEF Surjection
<1>3. IsFiniteSet(powers)
  <2> HIDE DEF power, powers
  <2>1. QED
    BY <1>1, <1>2, FS_Surjection
<1> HIDE DEF powers
<1>4. IsFiniteSet({p \in powers : p <= n})
  BY <1>3, FS_Subset
<1>5. Cardinality({p \in powers : p <= n}) \in Nat
  BY <1>4, FS_CardinalityType
<1>6. QED
  BY <1>5 DEF Digits, powers

LEMMA TotalType ==
  ASSUME NEW n \in Nat, NEW lengths \in [1..n -> Nat]
  PROVE  Total(lengths) \in Nat
<1>1. n \in 0..n
  OBVIOUS
<1>2. QED
  BY <1>1, TotalSteps

LEMMA MessageSizes ==
  ASSUME NEW m \in Message
  PROVE  ManifestBytes(m) \in Nat /\ BodyBytes(m) \in Nat /\ PayloadBytes(m) \in Nat
<1> DEFINE entry == [i \in DOMAIN m.files |-> FileEntryBase + m.files[i].name + m.files[i].mime
                                              + Digits(m.files[i].size)]
           size == [i \in DOMAIN m.files |-> m.files[i].size]
<1>1. m.text \in Nat /\ m.files \in Seq(File)
  BY DEF Message
<1>2. Len(m.files) \in Nat /\ DOMAIN m.files = 1..Len(m.files)
      /\ \A i \in 1..Len(m.files) : m.files[i] \in File
  BY <1>1, LenProperties, ElementOfSeq
<1>3. \A i \in 1..Len(m.files) : m.files[i].name \in Nat /\ m.files[i].mime \in Nat
                                 /\ m.files[i].size \in Nat
  BY <1>2 DEF File
<1>4. \A i \in 1..Len(m.files) : Digits(m.files[i].size) \in Nat
  BY <1>3, DigitsType
<1>5. FileEntryBase \in Nat /\ ManifestBase \in Nat /\ TextEntry \in Nat
  BY ComposingAssumption
<1>6. entry \in [1..Len(m.files) -> Nat] /\ size \in [1..Len(m.files) -> Nat]
  <2>1. \A i \in 1..Len(m.files) :
          FileEntryBase + m.files[i].name + m.files[i].mime + Digits(m.files[i].size) \in Nat
    <3> HIDE DEF entry, size
    <3>1. ASSUME NEW i \in 1..Len(m.files)
          PROVE  FileEntryBase + m.files[i].name + m.files[i].mime + Digits(m.files[i].size) \in Nat
      <4>1. PICK a \in Nat : a = m.files[i].name
        BY <1>3
      <4>2. PICK b \in Nat : b = m.files[i].mime
        BY <1>3
      <4>3. PICK c \in Nat : c = Digits(m.files[i].size)
        BY <1>4
      <4>4. PICK d \in Nat : d = FileEntryBase
        BY <1>5
      <4>5. d + a + b + c \in Nat
        OBVIOUS
      <4>6. QED
        BY <4>1, <4>2, <4>3, <4>4, <4>5
    <3>2. QED
      BY <3>1
  <2>2. entry \in [1..Len(m.files) -> Nat]
    BY <1>2, <2>1, Zenon
  <2>3. size \in [1..Len(m.files) -> Nat]
    BY <1>2, <1>3, Zenon
  <2>4. QED
    BY <2>2, <2>3
<1>7. ManifestBytes(m) = ManifestBase + (IF m.text > 0 THEN TextEntry + Digits(m.text) ELSE 0)
                         + Total(entry)
  BY DEF ManifestBytes
<1>8. BodyBytes(m) = m.text + Total(size)
  BY DEF BodyBytes
<1> HIDE DEF entry, size
<1>9. Total(entry) \in Nat /\ Total(size) \in Nat
  BY <1>2, <1>6, TotalType
<1>10. Digits(m.text) \in Nat
  BY <1>1, DigitsType
<1>11. ManifestBytes(m) \in Nat /\ BodyBytes(m) \in Nat
  BY <1>1, <1>5, <1>7, <1>8, <1>9, <1>10
<1>12. QED
  BY <1>11 DEF PayloadBytes

LEMMA BlobLenType ==
  ASSUME NEW bytes \in Nat, NEW iterations \in Nat
  PROVE  BlobLen(bytes, iterations) \in Nat
<1>1. Digits(iterations) \in Nat /\ HeaderBase \in Nat /\ TagLen \in Nat
  BY DigitsType, ComposingAssumption
<1>2. QED
  BY <1>1 DEF BlobLen

\* Every length and every sum of a message that a sender seals is in what it seals.
LEMMA SealedBytes ==
  ASSUME NEW m, NEW passphrase, NEW pin, NEW iterations
  PROVE  BlobBytes(Seal(m, passphrase, pin, iterations)) = BlobLen(PayloadBytes(m), iterations)
BY DEF BlobBytes, Seal, Encode, PayloadBytes

LEMMA SealedType ==
  ASSUME NEW m \in Message, NEW s \in Senders, NEW n \in Nat, NEW pin \in Pins,
         NEW iterations \in Nat
  PROVE  Seal(m, <<s, n>>, pin, iterations) \in Blob
<1>1. BodyBytes(m) \in Nat
  BY MessageSizes
<1>2. QED
  BY <1>1 DEF Seal, Encode, Blob

\* Recipients accept what a server's limits let a sender send.
LEMMA SealedOpens ==
  ASSUME NEW v \in Settings, NEW m \in Message, Prepared(m, ClientConfig(v)),
         NEW passphrase, NEW pin
  PROVE  Opens(Seal(m, passphrase, pin, ClientConfig(v).pbkdf2Iterations), passphrase, pin)
<1> DEFINE blob1 == Seal(m, passphrase, pin, ClientConfig(v).pbkdf2Iterations)
<1>1. /\ v.max_files \in Nat /\ v.max_files <= MaxFilesCeiling
      /\ v.max_manifest_bytes \in Nat /\ v.max_manifest_bytes <= MaxManifestCeiling
      /\ IsAcceptedKdfIterations(v.pbkdf2_iterations)
  BY SettingsParsed DEF Accepted, MessagesAccepted, InRange
<1>2. EntriesOK(m) /\ Len(m.files) <= v.max_files /\ ManifestBytes(m) <= v.max_manifest_bytes
  BY DEF Prepared, ClientConfig
<1>3. ManifestBytes(m) \in Nat /\ Len(m.files) \in Nat
  BY MessageSizes, LenProperties DEF Message
<1>4. ManifestBytes(m) <= MaxManifestCeiling /\ Len(m.files) <= MaxFilesCeiling
  BY <1>1, <1>2, <1>3, ConfigAssumption
<1>5. /\ blob1.payload.manifest = m /\ blob1.payload.body = BodyBytes(m)
      /\ blob1.passphrase = passphrase /\ blob1.pin = pin
      /\ blob1.iterations = v.pbkdf2_iterations
  BY DEF Seal, Encode, ClientConfig
<1> HIDE DEF blob1
<1>6. PayloadAccepted(blob1.payload)
  BY <1>2, <1>4, <1>5 DEF PayloadAccepted
<1>7. HeaderAccepted(blob1) /\ Decrypts(blob1, passphrase, pin)
  BY <1>1, <1>5 DEF HeaderAccepted, Decrypts
<1>8. Opens(blob1, passphrase, pin)
  BY <1>6, <1>7 DEF Opens
<1>9. QED
  BY <1>8 DEF blob1

\* Every expiry that the page offers is in the server's range.
LEMMA Selectable ==
  ASSUME NEW v \in Settings, NEW ttl \in SelectableTtls(ClientConfig(v))
  PROVE  ttl \in Nat /\ InRange(ttl * Second, v.min_ttl, v.max_ttl)
<1>1. PICK lo : lo = ClientConfig(v).minTtl
  OBVIOUS
<1>2. PICK hi : hi = ClientConfig(v).maxTtl
  OBVIOUS
<1>3. /\ lo \in Nat /\ hi \in Nat /\ lo >= 1
      /\ ClientConfig(v).defaultTtl \in Nat /\ ClientConfig(v).ttlPresets \subseteq Nat
      /\ \A t \in {ClientConfig(v).defaultTtl} \cup ClientConfig(v).ttlPresets :
           InRange(t, lo, hi)
  BY <1>1, <1>2, ClientTimes
<1>4. ttl \in Nat /\ InRange(ttl, lo, hi)
  <2>1. CASE ttl \in TtlChoices(ClientConfig(v))
    BY <1>3, <2>1 DEF TtlChoices
  <2>2. CASE \E m \in CustomTtlMinutes(ClientConfig(v)) : ttl = m * Minute
    <3>1. PICK m \in CustomTtlMinutes(ClientConfig(v)) : ttl = m * Minute
      BY <2>2
    <3>2. Minute \in Nat /\ Minute > 0
      BY PageAssumption
    <3>3. PICK k : k = (lo + Minute - 1) \div Minute
      OBVIOUS
    <3>4. PICK n : n = hi \div Minute
      OBVIOUS
    <3>5. k \in Nat /\ lo <= Minute * k
      BY <1>3, <3>2, <3>3
    <3>6. n \in Nat /\ Minute * n <= hi
      BY <1>3, <3>2, <3>4
    <3>7. m \in Nat /\ k <= m /\ m <= n
      BY <1>1, <1>2, <3>1, <3>3, <3>4, <3>5, <3>6 DEF CustomTtlMinutes, AtLeastOne
    <3>8. (m - k) \in Nat /\ (n - m) \in Nat
      BY <3>5, <3>6, <3>7
    <3>9. Minute * (m - k) >= 0 /\ Minute * (n - m) >= 0
      BY <3>2, <3>8
    <3>10. Minute * (m - k) = m * Minute - Minute * k /\ Minute * (n - m) = Minute * n - m * Minute
      BY <3>2, <3>5, <3>6, <3>7
    <3>11. m * Minute \in Nat
      BY <3>2, <3>7
    <3>12. m * Minute - Minute * k >= 0 /\ Minute * n - m * Minute >= 0
      BY <3>9, <3>10
    <3>13. Minute * k \in Nat /\ Minute * n \in Nat
      BY <3>2, <3>5, <3>6
    <3>14. QED
      BY <1>3, <3>1, <3>5, <3>6, <3>11, <3>12, <3>13 DEF InRange
  <2>3. QED
    BY <2>1, <2>2 DEF SelectableTtls
<1>5. /\ v.min_ttl \in Nat /\ v.max_ttl \in Nat
      /\ v.min_ttl % Second = 0 /\ v.max_ttl % Second = 0
  BY SettingsParsed DEF Accepted, MessagesAccepted
<1>6. lo = v.min_ttl \div Second /\ hi = v.max_ttl \div Second
  BY <1>1, <1>2 DEF ClientConfig
<1>7. InRange(ttl * Second, v.min_ttl, v.max_ttl)
  BY <1>4, <1>5, <1>6, TicksInRange
<1>8. QED
  BY <1>4, <1>7

\* Files as they are described.
LEMMA DescribedType ==
  ASSUME NEW f \in FileIds, NEW size \in Sizes
  PROVE  Describe(f, size) \in File
<1>1. NameBytes[f] \in Nat /\ MimeBytes[f] \in Nat /\ size \in Nat
  BY ComposingAssumption
<1>2. QED
  BY <1>1 DEF Describe, File

\* Reading them again gives as many, of the same names.
LEMMA ReadType ==
  ASSUME NEW files \in Seq(File), disk \in [FileIds -> Sizes]
  PROVE  ReadNow(files) \in Seq(File) /\ Len(ReadNow(files)) = Len(files)
<1>1. Len(files) \in Nat /\ DOMAIN files = 1..Len(files)
      /\ \A i \in 1..Len(files) : files[i] \in File
  BY LenProperties, ElementOfSeq
<1>2. \A i \in 1..Len(files) : Describe(files[i].file, disk[files[i].file]) \in File
  <2>1. ASSUME NEW i \in 1..Len(files)
        PROVE  Describe(files[i].file, disk[files[i].file]) \in File
    <3>1. files[i].file \in FileIds
      BY <1>1 DEF File
    <3>2. disk[files[i].file] \in Sizes
      BY <3>1
    <3>3. QED
      BY <3>1, <3>2, DescribedType
  <2>2. QED
    BY <2>1
<1>3. ReadNow(files) = [i \in 1..Len(files) |-> Describe(files[i].file, disk[files[i].file])]
  BY <1>1 DEF ReadNow
<1>4. ReadNow(files) \in [1..Len(files) -> File]
  BY <1>2, <1>3
<1>5. QED
  BY <1>1, <1>4

-----------------------------------------------------------------------------
\* What each sender knows of what it is sending.

SentMessage == [message : Message, pin : Pins, ttl : Nat, size : Nat]
Kept == [id : Nat, ttl : Nat, blob : Blob]
Form == [text : Texts, files : Seq(File), pin : Pins, ttl : Nat]

PageSteps == {"idle", "absent", "reading", "uploading", "stored", "shown"}
CliSteps == {"idle", "absent", "described", "reading", "uploading", "stored", "linkShown", "ok",
             "ended"}
Checked == {"reading", "uploading", "stored", "shown", "linkShown", "ok"}
Sealed == Checked \ {"reading"}
Answered == Sealed \ {"uploading"}

Shape ==
  /\ settings \in Settings /\ disk \in [FileIds -> Sizes] /\ uploads \in 0..MaxStored
  /\ DOMAIN at = Senders /\ DOMAIN sent = Senders /\ DOMAIN blob = Senders
  /\ DOMAIN stored = Senders /\ DOMAIN shown = Senders

\* A command line that could not show the PIN has ended with its link shown.
Showing(s) == shown[s].id # None

\* What a sender is sending passed the checks, and is neither larger nor lives longer than the
\* server takes.
CheckedInv(s) ==
  at[s] \in Checked \/ Showing(s) =>
    /\ sent[s] \in SentMessage
    /\ sent[s].size <= settings.max_payload_bytes
    /\ InRange(sent[s].ttl * Second, settings.min_ttl, settings.max_ttl)
    /\ s = Cli => /\ Prepared(sent[s].message, client)
                  /\ BlobLen(PayloadBytes(sent[s].message), client.pbkdf2Iterations) = sent[s].size

\* What is sealed is as large as what was checked, and is what the user submitted.
SealedAs(s, m) ==
  /\ \E n \in Nat : blob[s] = Seal(m, <<s, n>>, sent[s].pin, client.pbkdf2Iterations)
  /\ Prepared(m, client)
  /\ BlobLen(PayloadBytes(m), client.pbkdf2Iterations) = sent[s].size
  /\ s = Cli => m = sent[s].message
  /\ s = Page => m.text = submits.text /\ Len(m.files) = Len(submits.files)
SealedInv(s) == at[s] \in Sealed \/ Showing(s) => \E m \in Message : SealedAs(s, m)

\* What was stored is what was sealed.
StoredInv(s) ==
  at[s] \in Answered \/ Showing(s) =>
    \E n \in Nat : stored[s] = [id |-> n, ttl |-> sent[s].ttl, blob |-> blob[s]]

\* What is shown is of what was stored.
ShownInv(s) ==
  /\ at[s] \in {"shown", "linkShown", "ok"} => Showing(s)
  /\ Showing(s) =>
       /\ at[s] \in {"shown", "linkShown", "ok", "ended"}
       /\ \E pin \in {sent[s].pin, None} :
            shown[s] = [id |-> stored[s].id, passphrase |-> blob[s].passphrase, pin |-> pin]
  /\ at[s] \in {"shown", "ok"} => shown[s].pin = sent[s].pin

SenderInv(s) == CheckedInv(s) /\ SealedInv(s) /\ StoredInv(s) /\ ShownInv(s)
PageSends == SenderInv(Page)
CliSends == SenderInv(Cli)

\* The form, and the form as it was submitted.
PageInv ==
  /\ at[Page] \in PageSteps
  /\ form \in Form /\ Len(form.files) <= MaxPicked /\ form.ttl \in SelectableTtls(client)
  /\ submits \in Form \cup {None}
  /\ submits = None <=> at[Page] \in {"idle", "absent"}
  /\ submits # None => sent[Page].pin = submits.pin /\ sent[Page].ttl = submits.ttl

CliInv ==
  /\ at[Cli] \in CliSteps /\ choosePin \in BOOLEAN
  /\ at[Cli] = "described" => sent[Cli] \in Message

SendingInv == Shape /\ PageInv /\ CliInv /\ PageSends /\ CliSends

\* A step of the one leaves the other as it is.
PageRests ==
  /\ settings' = settings /\ submits' = submits /\ form' = form
  /\ at'[Page] = at[Page] /\ sent'[Page] = sent[Page] /\ blob'[Page] = blob[Page]
  /\ stored'[Page] = stored[Page] /\ shown'[Page] = shown[Page]
CliRests ==
  /\ settings' = settings /\ choosePin' = choosePin
  /\ at'[Cli] = at[Cli] /\ sent'[Cli] = sent[Cli] /\ blob'[Cli] = blob[Cli]
  /\ stored'[Cli] = stored[Cli] /\ shown'[Cli] = shown[Cli]

LEMMA TwoSenders == Page \in Senders /\ Cli \in Senders /\ Page # Cli
BY SendingAssumption

LEMMA PageStays ==
  ASSUME PageInv, PageSends, PageRests
  PROVE  PageInv' /\ PageSends'
<1>1. client' = client
  BY DEF PageRests, client
<1>2. PageInv'
  BY <1>1 DEF PageInv, PageRests
<1>3. CheckedInv(Page)'
  BY <1>1, TwoSenders DEF PageSends, SenderInv, PageRests, CheckedInv, Showing
<1>4. SealedInv(Page)'
  BY <1>1, TwoSenders DEF PageSends, SenderInv, PageRests, SealedInv, SealedAs, Showing
<1>5. StoredInv(Page)' /\ ShownInv(Page)'
  BY <1>1 DEF PageSends, SenderInv, PageRests, StoredInv, ShownInv, Showing
<1>6. QED
  BY <1>2, <1>3, <1>4, <1>5 DEF PageSends, SenderInv

LEMMA CliStays ==
  ASSUME CliInv, CliSends, CliRests
  PROVE  CliInv' /\ CliSends'
<1>1. client' = client
  BY DEF CliRests, client
<1>2. CliInv'
  BY <1>1 DEF CliInv, CliRests
<1>3. CheckedInv(Cli)'
  BY <1>1 DEF CliSends, SenderInv, CliRests, CheckedInv, Showing
<1>4. SealedInv(Cli)'
  BY <1>1, TwoSenders DEF CliSends, SenderInv, CliRests, SealedInv, SealedAs, Showing
<1>5. StoredInv(Cli)' /\ ShownInv(Cli)'
  BY <1>1 DEF CliSends, SenderInv, CliRests, StoredInv, ShownInv, Showing
<1>6. QED
  BY <1>2, <1>3, <1>4, <1>5 DEF CliSends, SenderInv

LEMMA InitSending == Init => SendingInv
<1> SUFFICES ASSUME Init
             PROVE  SendingInv
  OBVIOUS
<1>1. Shape
  BY ComposingAssumption DEF Init, ComposingInit, Shape
<1>2. at[Page] \in {"idle", "absent"} /\ at[Cli] \in {"idle", "absent"}
  BY TwoSenders DEF Init, ComposingInit
<1>3. ~Showing(Page) /\ ~Showing(Cli)
  BY TwoSenders DEF Init, ComposingInit, Nothing, Showing
<1>4. PageSends /\ CliSends
  BY <1>2, <1>3 DEF PageSends, CliSends, SenderInv, CheckedInv, SealedInv, StoredInv, ShownInv,
                    Checked, Sealed, Answered
<1>5. PageInv
  <2>1. PICK pin \in Pins : form = [text |-> 0, files |-> <<>>, pin |-> pin, ttl |-> client.defaultTtl]
    BY DEF Init, PageInit
  <2>2. client.defaultTtl \in SelectableTtls(client)
    BY DEF SelectableTtls, TtlChoices
  <2>3. client.defaultTtl \in Nat
    BY <1>1, ClientTimes DEF Shape, client
  <2>4. <<>> \in Seq(File) /\ Len(<<>>) = 0
    OBVIOUS
  <2>5. 0 \in Texts /\ 0 <= MaxPicked
    BY ComposingAssumption, PageAssumption
  <2>6. form \in Form /\ Len(form.files) <= MaxPicked
    BY <2>1, <2>3, <2>4, <2>5 DEF Form
  <2>7. submits = None
    BY DEF Init, PageInit
  <2>8. QED
    BY <1>2, <2>1, <2>2, <2>6, <2>7 DEF PageInv, PageSteps
<1>6. CliInv
  BY <1>2 DEF CliInv, CliSteps, Init, CliInit
<1>7. QED
  BY <1>1, <1>4, <1>5, <1>6 DEF SendingInv

-----------------------------------------------------------------------------
\* The page, step by step.

LEMMA FormWithFiles ==
  ASSUME NEW f \in Form, NEW files \in Seq(File)
  PROVE  /\ [f EXCEPT !.files = files] \in Form
         /\ [f EXCEPT !.files = files].files = files
         /\ [f EXCEPT !.files = files].ttl = f.ttl
BY DEF Form

LEMMA EditKeeps ==
  ASSUME SendingInv, Edit, choosePin' = choosePin
  PROVE  SendingInv'
<1>1. UNCHANGED <<settings, disk, at, sent, blob, stored, uploads, shown, submits>>
  BY DEF Edit, composing
<1>2. Shape' /\ CliInv' /\ CliSends'
  BY <1>1, CliStays DEF SendingInv, Shape, CliRests
<1>3. client' = client
  BY <1>1 DEF client
<1>4. PageSends'
  <2>1. CheckedInv(Page)'
    BY <1>1, <1>3 DEF SendingInv, PageSends, SenderInv, CheckedInv, Showing
  <2>2. SealedInv(Page)'
    BY <1>1, <1>3 DEF SendingInv, PageSends, SenderInv, SealedInv, SealedAs, Showing
  <2>3. StoredInv(Page)' /\ ShownInv(Page)'
    BY <1>1 DEF SendingInv, PageSends, SenderInv, StoredInv, ShownInv, Showing
  <2>4. QED
    BY <2>1, <2>2, <2>3 DEF PageSends, SenderInv
<1>5. form' \in Form /\ Len(form'.files) <= MaxPicked /\ form'.ttl \in SelectableTtls(client)
  <2>1. form \in Form /\ Len(form.files) <= MaxPicked /\ form.ttl \in SelectableTtls(client)
    BY DEF SendingInv, PageInv
  <2>2. /\ form.files \in Seq(File) /\ Len(form.files) \in Nat /\ MaxPicked \in Nat
        /\ DOMAIN form.files = 1..Len(form.files)
        /\ \A i \in 1..Len(form.files) : form.files[i] \in File
    BY <2>1, LenProperties, ElementOfSeq, PageAssumption DEF Form
  <2>3. CASE \E text \in Texts : form' = [form EXCEPT !.text = text]
    BY <2>1, <2>3 DEF Form
  <2>4. CASE \E pin \in Pins : form' = [form EXCEPT !.pin = pin]
    BY <2>1, <2>4 DEF Form
  <2>5. CASE \E ttl \in SelectableTtls(client) : form' = [form EXCEPT !.ttl = ttl]
    <3>1. PICK ttl \in SelectableTtls(client) : form' = [form EXCEPT !.ttl = ttl]
      BY <2>5
    <3>2. ttl \in Nat
      BY Selectable DEF SendingInv, Shape, client
    <3>3. QED
      BY <2>1, <3>1, <3>2 DEF Form
  <2>6. CASE \E i \in DOMAIN form.files :
               form' = [form EXCEPT !.files = SubSeq(@, 1, i - 1) \o SubSeq(@, i + 1, Len(@))]
    <3>1. PICK i \in 1..Len(form.files) :
            form' = [form EXCEPT !.files = SubSeq(@, 1, i - 1) \o SubSeq(@, i + 1, Len(@))]
      BY <2>2, <2>6
    <3> DEFINE before == SubSeq(form.files, 1, i - 1)
               after == SubSeq(form.files, i + 1, Len(form.files))
    <3>2. before \in Seq(File) /\ Len(before) = i - 1
      BY <2>2, SubSeqProperties
    <3>3. after \in Seq(File) /\ Len(after) = Len(form.files) - i
      BY <2>2, SubSeqProperties
    <3>4. form' = [form EXCEPT !.files = before \o after]
      BY <3>1
    <3> HIDE DEF before, after
    <3>5. before \o after \in Seq(File) /\ Len(before \o after) = Len(form.files) - 1
      BY <2>2, <3>2, <3>3, ConcatProperties
    <3>6. Len(form.files) - 1 <= MaxPicked
      BY <2>1, <2>2
    <3>7. QED
      BY <2>1, <3>4, <3>5, <3>6, FormWithFiles
  <2>7. CASE /\ Len(form.files) < MaxPicked
             /\ \E f \in FileIds : form' = [form EXCEPT !.files = Append(@, Describe(f, disk[f]))]
    <3>1. PICK f \in FileIds : form' = [form EXCEPT !.files = Append(@, Describe(f, disk[f]))]
      BY <2>7
    <3>2. Describe(f, disk[f]) \in File
      BY DescribedType DEF SendingInv, Shape
    <3>3. PICK files : files = Append(form.files, Describe(f, disk[f]))
      OBVIOUS
    <3>4. files \in Seq(File) /\ Len(files) = Len(form.files) + 1
      BY <2>2, <3>2, <3>3, AppendProperties
    <3>5. form' = [form EXCEPT !.files = files]
      BY <3>1, <3>3
    <3>6. Len(form.files) + 1 <= MaxPicked
      BY <2>2, <2>7
    <3>7. QED
      BY <2>1, <3>4, <3>5, <3>6, FormWithFiles
  <2>8. QED
    BY <2>3, <2>4, <2>5, <2>6, <2>7 DEF Edit
<1>6. PageInv'
  BY <1>1, <1>3, <1>5 DEF SendingInv, PageInv
<1>7. QED
  BY <1>2, <1>4, <1>6 DEF SendingInv

\* A message that passed the checks against a server's limits.
LEMMA Taken ==
  ASSUME NEW v \in Settings, NEW m \in Message, NEW pin \in Pins, NEW ttl \in Nat,
         CheckSize(m, ClientConfig(v)),
         NEW taken, taken = [message |-> m, pin |-> pin, ttl |-> ttl,
                             size |-> BlobLen(PayloadBytes(m), ClientConfig(v).pbkdf2Iterations)]
  PROVE  /\ taken \in SentMessage /\ taken.size <= v.max_payload_bytes
         /\ Prepared(taken.message, ClientConfig(v))
         /\ BlobLen(PayloadBytes(taken.message), ClientConfig(v).pbkdf2Iterations) = taken.size
         /\ taken.pin = pin /\ taken.ttl = ttl /\ taken.message = m
<1>1. ClientConfig(v).pbkdf2Iterations = v.pbkdf2_iterations /\ v.pbkdf2_iterations \in Nat
  BY SettingsParsed DEF ClientConfig
<1>2. BlobLen(PayloadBytes(m), ClientConfig(v).pbkdf2Iterations) \in Nat
  BY <1>1, MessageSizes, BlobLenType
<1>3. /\ Prepared(m, ClientConfig(v))
      /\ BlobLen(PayloadBytes(m), ClientConfig(v).pbkdf2Iterations) <= v.max_payload_bytes
  BY DEF CheckSize, ClientConfig
<1>4. QED
  BY <1>2, <1>3 DEF SentMessage

LEMMA SubmitKeeps ==
  ASSUME SendingInv, Submit, choosePin' = choosePin
  PROVE  SendingInv'
<1>0. Page \in Senders /\ Cli \in Senders /\ Page # Cli
  BY TwoSenders
<1>1. /\ UNCHANGED <<form, settings, disk, blob, stored, uploads, shown>>
      /\ at[Page] = "idle" /\ submits' = form
      /\ at' = [at EXCEPT ![Page] = "reading"]
      /\ CheckSize([text |-> form.text, files |-> form.files], client)
      /\ sent' = [sent EXCEPT ![Page] =
           [message |-> [text |-> form.text, files |-> form.files], pin |-> form.pin,
            ttl |-> form.ttl,
            size |-> BlobLen(PayloadBytes([text |-> form.text, files |-> form.files]),
                             client.pbkdf2Iterations)]]
  BY DEF Submit, Take, Goto
<1>2. Shape'
  BY <1>1 DEF SendingInv, Shape
<1>3. CliInv' /\ CliSends'
  <2>1. CliRests
    BY <1>0, <1>1 DEF CliRests, SendingInv, Shape
  <2>2. QED
    BY <2>1, CliStays DEF SendingInv
<1>4. client' = client /\ settings \in Settings /\ client = ClientConfig(settings)
  BY <1>1 DEF client, SendingInv, Shape
<1>5. form \in Form /\ form.ttl \in SelectableTtls(client) /\ Len(form.files) <= MaxPicked
  BY DEF SendingInv, PageInv
<1>6. PICK m \in Message : m = [text |-> form.text, files |-> form.files]
  BY <1>5, ComposingAssumption DEF Form, Message
<1>7. PICK taken : taken = [message |-> m, pin |-> form.pin, ttl |-> form.ttl,
                            size |-> BlobLen(PayloadBytes(m), client.pbkdf2Iterations)]
  OBVIOUS
<1>8. /\ taken \in SentMessage /\ taken.size <= settings.max_payload_bytes
      /\ taken.pin = form.pin /\ taken.ttl = form.ttl
  <2>1. form.pin \in Pins /\ form.ttl \in Nat
    BY <1>5 DEF Form
  <2>2. CheckSize(m, ClientConfig(settings))
    BY <1>1, <1>4, <1>6
  <2>3. QED
    BY <1>4, <1>7, <2>1, <2>2, Taken
<1>9. sent'[Page] = taken /\ at'[Page] = "reading"
  BY <1>0, <1>1, <1>6, <1>7 DEF SendingInv, Shape
<1>10. ~Showing(Page)'
  <2>1. ~Showing(Page)
    BY <1>1 DEF SendingInv, PageSends, SenderInv, ShownInv
  <2>2. QED
    BY <1>1, <2>1 DEF Showing
<1>11. InRange(form.ttl * Second, settings.min_ttl, settings.max_ttl)
  BY <1>4, <1>5, Selectable
<1>12. PageSends'
  <2>1. CheckedInv(Page)'
    BY <1>0, <1>1, <1>8, <1>9, <1>11 DEF CheckedInv
  <2>2. SealedInv(Page)' /\ StoredInv(Page)'
    BY <1>9, <1>10 DEF SealedInv, StoredInv, Sealed, Answered
  <2>3. ShownInv(Page)'
    BY <1>9, <1>10 DEF ShownInv
  <2>4. QED
    BY <2>1, <2>2, <2>3 DEF PageSends, SenderInv
<1>13. PageInv'
  <2>1. form # None
    BY <1>5, PageAssumption DEF Form
  <2>2. QED
    BY <1>1, <1>4, <1>5, <1>8, <1>9, <2>1 DEF PageInv, PageSteps
<1>14. QED
  BY <1>2, <1>3, <1>12, <1>13 DEF SendingInv

\* After an error, with nothing shown yet.
LEMMA RetryKeeps ==
  ASSUME SendingInv, Fail(Page, "idle"), submits' = None, form' = form, choosePin' = choosePin,
         at[Page] \in {"reading", "uploading", "stored"}
  PROVE  SendingInv'
<1>0. Page \in Senders /\ Cli \in Senders /\ Page # Cli
  BY TwoSenders
<1>1. /\ UNCHANGED <<settings, disk, uploads, shown>>
      /\ at' = [at EXCEPT ![Page] = "idle"]
      /\ sent' = [sent EXCEPT ![Page] = None]
      /\ blob' = [blob EXCEPT ![Page] = None]
      /\ stored' = [stored EXCEPT ![Page] = None]
  BY DEF Fail, Goto
<1>2. Shape'
  BY <1>1 DEF SendingInv, Shape
<1>3. CliInv' /\ CliSends'
  <2>1. CliRests
    BY <1>0, <1>1 DEF CliRests, SendingInv, Shape
  <2>2. QED
    BY <2>1, CliStays DEF SendingInv
<1>4. ~Showing(Page)'
  <2>1. ~Showing(Page)
    BY DEF SendingInv, PageSends, SenderInv, ShownInv
  <2>2. QED
    BY <1>1, <2>1 DEF Showing
<1>5. at'[Page] = "idle"
  BY <1>0, <1>1 DEF SendingInv, Shape
<1>6. PageSends'
  BY <1>4, <1>5 DEF PageSends, SenderInv, CheckedInv, SealedInv, StoredInv, ShownInv, Checked,
                    Sealed, Answered
<1>7. PageInv'
  <2>1. client' = client
    BY <1>1 DEF client
  <2>2. QED
    BY <1>5, <2>1 DEF PageInv, PageSteps, SendingInv
<1>8. QED
  BY <1>2, <1>3, <1>6, <1>7 DEF SendingInv

LEMMA ReadKeeps ==
  ASSUME SendingInv, Read, choosePin' = choosePin
  PROVE  SendingInv'
<1>0. Page \in Senders /\ Cli \in Senders /\ Page # Cli
  BY TwoSenders
<1> DEFINE m == [text |-> submits.text, files |-> ReadNow(submits.files)]
<1>1. CASE Retry(Page)
  BY <1>1, RetryKeeps DEF Retry, Read
<1>2. CASE /\ Prepared(m, client)
           /\ BlobLen(PayloadBytes(m), client.pbkdf2Iterations) = sent[Page].size
           /\ SealAndUpload(Page, m)
           /\ UNCHANGED formVars
  <2>1. /\ UNCHANGED <<settings, disk, sent, stored, uploads, shown, form, submits>>
        /\ at[Page] = "reading" /\ at' = [at EXCEPT ![Page] = "uploading"]
        /\ blob' = [blob EXCEPT ![Page] = Seal(m, <<Page, uploads>>, sent[Page].pin,
                                               client.pbkdf2Iterations)]
    BY <1>2 DEF Read, SealAndUpload, Goto, formVars
  <2>2. Shape' /\ at'[Page] = "uploading"
        /\ blob'[Page] = Seal(m, <<Page, uploads>>, sent[Page].pin, client.pbkdf2Iterations)
    BY <1>0, <2>1 DEF SendingInv, Shape
  <2>3. CliInv' /\ CliSends'
    <3>1. CliRests
      BY <1>0, <2>1 DEF CliRests, SendingInv, Shape
    <3>2. QED
      BY <3>1, CliStays DEF SendingInv
  <2>4. client' = client /\ uploads \in Nat
    BY <2>1 DEF client, SendingInv, Shape
  <2>5. ~Showing(Page)'
    <3>1. ~Showing(Page)
      BY <2>1 DEF SendingInv, PageSends, SenderInv, ShownInv
    <3>2. QED
      BY <2>1, <3>1 DEF Showing
  <2>6. submits \in Form
    BY <2>1 DEF SendingInv, PageInv
  <2>7. m \in Message /\ m.text = submits.text /\ Len(m.files) = Len(submits.files)
    <3>1. submits.text \in Nat /\ submits.files \in Seq(File)
      BY <2>6, ComposingAssumption DEF Form
    <3>2. ReadNow(submits.files) \in Seq(File) /\ Len(ReadNow(submits.files)) = Len(submits.files)
      BY <3>1, ReadType DEF SendingInv, Shape
    <3>3. QED
      BY <3>1, <3>2 DEF Message
  <2>8. CheckedInv(Page)'
    BY <1>0, <2>1, <2>5 DEF SendingInv, PageSends, SenderInv, CheckedInv, Checked
  <2> HIDE DEF m
  <2>9. SealedInv(Page)'
    <3>1. PICK message \in Message : message = m
      BY <2>7
    <3>2. SealedAs(Page, message)'
      BY <1>0, <1>2, <2>1, <2>2, <2>4, <2>7, <3>1 DEF SealedAs
    <3>3. QED
      BY <3>2 DEF SealedInv
  <2>10. StoredInv(Page)' /\ ShownInv(Page)'
    BY <2>2, <2>5 DEF StoredInv, ShownInv, Answered, Sealed
  <2>11. PageSends'
    BY <2>8, <2>9, <2>10 DEF PageSends, SenderInv
  <2>12. PageInv'
    BY <2>1, <2>2, <2>4 DEF SendingInv, PageInv, PageSteps
  <2>13. QED
    BY <2>2, <2>3, <2>11, <2>12 DEF SendingInv
<1>3. QED
  BY <1>1, <1>2 DEF Read

LEMMA PageStoreKeeps ==
  ASSUME SendingInv, Store(Page), UNCHANGED <<formVars, choosePin>>
  PROVE  SendingInv'
<1>0. Page \in Senders /\ Cli \in Senders /\ Page # Cli
  BY TwoSenders
<1>1. /\ UNCHANGED <<settings, disk, sent, blob, shown, form, submits, choosePin>>
      /\ at[Page] = "uploading" /\ at' = [at EXCEPT ![Page] = "stored"]
      /\ uploads < MaxStored /\ uploads' = uploads + 1
      /\ stored' = [stored EXCEPT ![Page] = [id |-> uploads + 1, ttl |-> sent[Page].ttl,
                                             blob |-> blob[Page]]]
  BY DEF Store, Goto, formVars
<1>2. Shape'
  <2>1. uploads' \in 0..MaxStored
    BY <1>1, ComposingAssumption DEF SendingInv, Shape
  <2>2. QED
    BY <1>1, <2>1 DEF SendingInv, Shape
<1>3. CliInv' /\ CliSends'
  <2>1. CliRests
    BY <1>0, <1>1 DEF CliRests, SendingInv, Shape
  <2>2. QED
    BY <2>1, CliStays DEF SendingInv
<1>4. client' = client
  BY <1>1 DEF client
<1>5. /\ at'[Page] = "stored"
      /\ stored'[Page] = [id |-> uploads + 1, ttl |-> sent[Page].ttl, blob |-> blob[Page]]
  BY <1>0, <1>1 DEF SendingInv, Shape
<1>6. ~Showing(Page)'
  <2>1. ~Showing(Page)
    BY <1>1 DEF SendingInv, PageSends, SenderInv, ShownInv
  <2>2. QED
    BY <1>1, <2>1 DEF Showing
<1>7. CheckedInv(Page)'
  BY <1>0, <1>1, <1>6 DEF SendingInv, PageSends, SenderInv, CheckedInv, Checked
<1>8. SealedInv(Page)'
  BY <1>0, <1>1, <1>4, <1>6
  DEF SendingInv, PageSends, SenderInv, SealedInv, SealedAs, Sealed, Checked
<1>9. StoredInv(Page)'
  <2>1. uploads + 1 \in Nat
    BY DEF SendingInv, Shape
  <2>2. QED
    BY <1>1, <1>5, <2>1 DEF StoredInv
<1>10. ShownInv(Page)'
  BY <1>5, <1>6 DEF ShownInv
<1>11. PageSends'
  BY <1>7, <1>8, <1>9, <1>10 DEF PageSends, SenderInv
<1>12. PageInv'
  BY <1>1, <1>4, <1>5 DEF SendingInv, PageInv, PageSteps
<1>13. QED
  BY <1>2, <1>3, <1>11, <1>12 DEF SendingInv

LEMMA ShowResultKeeps ==
  ASSUME SendingInv, ShowResult, choosePin' = choosePin
  PROVE  SendingInv'
<1>0. Page \in Senders /\ Cli \in Senders /\ Page # Cli
  BY TwoSenders
<1>1. /\ UNCHANGED <<settings, disk, sent, blob, stored, uploads, form, submits>>
      /\ at[Page] = "stored" /\ at' = [at EXCEPT ![Page] = "shown"]
      /\ shown' = [shown EXCEPT ![Page] = [id |-> stored[Page].id, pin |-> submits.pin,
                                           passphrase |-> blob[Page].passphrase]]
  BY DEF ShowResult, Goto, formVars
<1>2. Shape'
  BY <1>1 DEF SendingInv, Shape
<1>3. CliInv' /\ CliSends'
  <2>1. CliRests
    BY <1>0, <1>1 DEF CliRests, SendingInv, Shape
  <2>2. QED
    BY <2>1, CliStays DEF SendingInv
<1>4. client' = client
  BY <1>1 DEF client
<1>5. submits.pin = sent[Page].pin
  BY <1>1 DEF SendingInv, PageInv
<1>6. /\ at'[Page] = "shown"
      /\ shown'[Page] = [id |-> stored[Page].id, passphrase |-> blob[Page].passphrase,
                         pin |-> sent[Page].pin]
  BY <1>0, <1>1, <1>5 DEF SendingInv, Shape
<1>7. Showing(Page)'
  <2>1. PICK n \in Nat : stored[Page] = [id |-> n, ttl |-> sent[Page].ttl, blob |-> blob[Page]]
    BY <1>1 DEF SendingInv, PageSends, SenderInv, StoredInv, Answered, Sealed, Checked
  <2>2. stored[Page].id # None
    BY <2>1, ComposingAssumption
  <2>3. QED
    BY <1>6, <2>2 DEF Showing
<1>8. CheckedInv(Page)'
  BY <1>0, <1>1 DEF SendingInv, PageSends, SenderInv, CheckedInv, Checked
<1>9. SealedInv(Page)'
  BY <1>0, <1>1, <1>4
  DEF SendingInv, PageSends, SenderInv, SealedInv, SealedAs, Sealed, Checked
<1>10. StoredInv(Page)'
  BY <1>1 DEF SendingInv, PageSends, SenderInv, StoredInv, Answered, Sealed, Checked
<1>11. ShownInv(Page)'
  BY <1>1, <1>6, <1>7 DEF ShownInv
<1>12. PageSends'
  BY <1>8, <1>9, <1>10, <1>11 DEF PageSends, SenderInv
<1>13. PageInv'
  BY <1>1, <1>4, <1>6 DEF SendingInv, PageInv, PageSteps
<1>14. QED
  BY <1>2, <1>3, <1>12, <1>13 DEF SendingInv

LEMMA CreateAnotherKeeps ==
  ASSUME SendingInv, CreateAnother, choosePin' = choosePin
  PROVE  SendingInv'
<1>0. Page \in Senders /\ Cli \in Senders /\ Page # Cli
  BY TwoSenders
<1>1. /\ UNCHANGED <<settings, disk, uploads>> /\ submits' = None
      /\ at' = [at EXCEPT ![Page] = "idle"]
      /\ sent' = [sent EXCEPT ![Page] = None] /\ blob' = [blob EXCEPT ![Page] = None]
      /\ stored' = [stored EXCEPT ![Page] = None]
      /\ shown' = [shown EXCEPT ![Page] = Nothing]
  BY DEF CreateAnother, Goto
<1>2. Shape'
  BY <1>1 DEF SendingInv, Shape
<1>3. CliInv' /\ CliSends'
  <2>1. CliRests
    BY <1>0, <1>1 DEF CliRests, SendingInv, Shape
  <2>2. QED
    BY <2>1, CliStays DEF SendingInv
<1>4. at'[Page] = "idle" /\ ~Showing(Page)'
  BY <1>0, <1>1 DEF SendingInv, Shape, Showing, Nothing
<1>5. PageSends'
  BY <1>4 DEF PageSends, SenderInv, CheckedInv, SealedInv, StoredInv, ShownInv, Checked,
              Sealed, Answered
<1>6. PageInv'
  <2>1. PICK pin \in Pins : form' = [form EXCEPT !.text = 0, !.files = <<>>, !.pin = pin]
    BY DEF CreateAnother
  <2>2. form \in Form /\ form.ttl \in SelectableTtls(client)
    BY DEF SendingInv, PageInv
  <2>3. <<>> \in Seq(File) /\ Len(<<>>) = 0 /\ 0 \in Texts /\ 0 <= MaxPicked
    BY ComposingAssumption, PageAssumption
  <2>4. form' \in Form /\ form'.ttl = form.ttl /\ form'.files = <<>>
    BY <2>1, <2>2, <2>3 DEF Form
  <2>5. client' = client
    BY <1>1 DEF client
  <2>6. QED
    BY <1>1, <1>4, <2>2, <2>3, <2>4, <2>5 DEF PageInv, PageSteps
<1>7. QED
  BY <1>2, <1>3, <1>5, <1>6 DEF SendingInv

LEMMA PageKeeps ==
  ASSUME SendingInv, PageNext, choosePin' = choosePin
  PROVE  SendingInv'
<1>1. CASE PageUploadFails
  BY <1>1, RetryKeeps DEF PageUploadFails, UploadFails
<1>2. QED
  BY <1>1, EditKeeps, SubmitKeeps, ReadKeeps, ShowResultKeeps, CreateAnotherKeeps DEF PageNext

-----------------------------------------------------------------------------
\* The command line, step by step.

LEMMA DescribeFilesKeeps ==
  ASSUME SendingInv, DescribeFiles, UNCHANGED formVars
  PROVE  SendingInv'
<1>0. Page \in Senders /\ Cli \in Senders /\ Page # Cli
  BY TwoSenders
<1>1. PICK n \in 0..MaxNamed, text \in Texts : \E files \in [1..n -> FileIds] :
        sent' = [sent EXCEPT ![Cli] =
          [text |-> text, files |-> [i \in 1..n |-> Describe(files[i], disk[files[i]])]]]
  BY DEF DescribeFiles
<1>2. PICK files \in [1..n -> FileIds] :
        sent' = [sent EXCEPT ![Cli] =
          [text |-> text, files |-> [i \in 1..n |-> Describe(files[i], disk[files[i]])]]]
  BY <1>1
<1>3. /\ UNCHANGED <<choosePin, settings, disk, blob, stored, uploads, shown, form, submits>>
      /\ at[Cli] = "idle" /\ at' = [at EXCEPT ![Cli] = "described"]
  BY DEF DescribeFiles, Goto, formVars
<1>4. Shape'
  BY <1>2, <1>3 DEF SendingInv, Shape
<1>5. PageInv' /\ PageSends'
  <2>1. PageRests
    BY <1>0, <1>2, <1>3 DEF PageRests, SendingInv, Shape
  <2>2. QED
    BY <2>1, PageStays DEF SendingInv
<1>6. ~Showing(Cli)'
  <2>1. ~Showing(Cli)
    BY <1>3 DEF SendingInv, CliSends, SenderInv, ShownInv
  <2>2. QED
    BY <1>3, <2>1 DEF Showing
<1>7. at'[Cli] = "described"
  BY <1>0, <1>3 DEF SendingInv, Shape
<1>8. sent'[Cli] \in Message
  <2>1. \A i \in 1..n : Describe(files[i], disk[files[i]]) \in File
    <3>1. ASSUME NEW i \in 1..n
          PROVE  Describe(files[i], disk[files[i]]) \in File
      <4>1. files[i] \in FileIds /\ disk[files[i]] \in Sizes
        BY DEF SendingInv, Shape
      <4>2. QED
        BY <4>1, DescribedType
    <3>2. QED
      BY <3>1
  <2>2. PICK described : described = [i \in 1..n |-> Describe(files[i], disk[files[i]])]
    OBVIOUS
  <2>3. n \in Nat /\ described \in [1..n -> File]
    BY <2>1, <2>2
  <2>4. described \in Seq(File)
    BY <2>3
  <2>5. sent'[Cli] = [text |-> text, files |-> described]
    BY <1>0, <1>2, <2>2 DEF SendingInv, Shape
  <2>6. QED
    BY <2>4, <2>5, ComposingAssumption DEF Message
<1>9. CliSends'
  BY <1>6, <1>7 DEF CliSends, SenderInv, CheckedInv, SealedInv, StoredInv, ShownInv, Checked,
                    Sealed, Answered
<1>10. CliInv'
  BY <1>3, <1>7, <1>8 DEF CliInv, CliSteps, SendingInv
<1>11. QED
  BY <1>4, <1>5, <1>9, <1>10 DEF SendingInv

LEMMA CheckKeeps ==
  ASSUME SendingInv, Check, UNCHANGED formVars
  PROVE  SendingInv'
<1>0. Page \in Senders /\ Cli \in Senders /\ Page # Cli
  BY TwoSenders
<1>1. PICK arg \in {a \in TtlArgs : a = None \/ ParsesTtl(a)}, pin \in Pins :
        /\ InRange(Ttl(arg), client.minTtl, client.maxTtl)
        /\ Take(Cli, sent[Cli], pin, Ttl(arg))
  BY DEF Check
<1>2. PICK m : m = sent[Cli]
  OBVIOUS
<1>3. /\ UNCHANGED <<choosePin, settings, disk, blob, stored, uploads, shown, form, submits>>
      /\ at[Cli] = "described" /\ at' = [at EXCEPT ![Cli] = "reading"]
      /\ CheckSize(m, client)
      /\ sent' = [sent EXCEPT ![Cli] =
           [message |-> m, pin |-> pin, ttl |-> Ttl(arg),
            size |-> BlobLen(PayloadBytes(m), client.pbkdf2Iterations)]]
  BY <1>1, <1>2 DEF Check, Take, Goto, formVars
<1>4. Shape'
  BY <1>3 DEF SendingInv, Shape
<1>5. PageInv' /\ PageSends'
  <2>1. PageRests
    BY <1>0, <1>3 DEF PageRests, SendingInv, Shape
  <2>2. QED
    BY <2>1, PageStays DEF SendingInv
<1>6. client' = client /\ settings \in Settings /\ client = ClientConfig(settings)
  BY <1>3 DEF client, SendingInv, Shape
<1>7. m \in Message
  BY <1>2, <1>3 DEF SendingInv, CliInv
<1>8. Ttl(arg) \in Nat
  <2>1. CASE arg = None
    <3>1. Ttl(arg) = ClientConfig(settings).defaultTtl
      BY <1>6, <2>1 DEF Ttl
    <3>2. QED
      BY <1>6, <3>1, ClientTimes
  <2>2. CASE arg # None
    <3>1. arg.value \in Nat /\ Unit[arg.unit] \in Nat
      BY <2>2, CliAssumption DEF ParsesTtl
    <3>2. QED
      BY <2>2, <3>1 DEF Ttl
  <2>3. QED
    BY <2>1, <2>2
<1>9. InRange(Ttl(arg) * Second, settings.min_ttl, settings.max_ttl)
  <2>1. /\ settings.min_ttl \in Nat /\ settings.max_ttl \in Nat
        /\ settings.min_ttl % Second = 0 /\ settings.max_ttl % Second = 0
    BY <1>6, SettingsParsed DEF Accepted, MessagesAccepted
  <2>2. InRange(Ttl(arg), settings.min_ttl \div Second, settings.max_ttl \div Second)
    BY <1>1, <1>6 DEF ClientConfig
  <2>3. QED
    BY <1>8, <2>1, <2>2, TicksInRange
<1>10. PICK taken : taken = [message |-> m, pin |-> pin, ttl |-> Ttl(arg),
                             size |-> BlobLen(PayloadBytes(m), client.pbkdf2Iterations)]
  OBVIOUS
<1>11. /\ taken \in SentMessage /\ taken.size <= settings.max_payload_bytes
       /\ Prepared(taken.message, client)
       /\ BlobLen(PayloadBytes(taken.message), client.pbkdf2Iterations) = taken.size
       /\ taken.ttl = Ttl(arg)
  BY <1>3, <1>6, <1>7, <1>8, <1>10, Taken
<1>12. sent'[Cli] = taken /\ at'[Cli] = "reading"
  BY <1>0, <1>3, <1>10 DEF SendingInv, Shape
<1>13. ~Showing(Cli)'
  <2>1. ~Showing(Cli)
    BY <1>3 DEF SendingInv, CliSends, SenderInv, ShownInv
  <2>2. QED
    BY <1>3, <2>1 DEF Showing
<1>14. CheckedInv(Cli)'
  BY <1>3, <1>6, <1>9, <1>11, <1>12 DEF CheckedInv
<1>15. CliSends'
  BY <1>12, <1>13, <1>14 DEF CliSends, SenderInv, SealedInv, StoredInv, ShownInv, Sealed, Answered
<1>16. CliInv'
  BY <1>3, <1>12 DEF CliInv, CliSteps, SendingInv
<1>17. QED
  BY <1>4, <1>5, <1>15, <1>16 DEF SendingInv

LEMMA ReadFilesKeeps ==
  ASSUME SendingInv, ReadFiles, UNCHANGED formVars
  PROVE  SendingInv'
<1>0. Page \in Senders /\ Cli \in Senders /\ Page # Cli
  BY TwoSenders
<1>1. PICK m : m = sent[Cli].message
  OBVIOUS
<1>2. /\ UNCHANGED <<choosePin, settings, disk, sent, stored, uploads, shown, form, submits>>
      /\ at[Cli] = "reading" /\ at' = [at EXCEPT ![Cli] = "uploading"]
      /\ blob' = [blob EXCEPT ![Cli] = Seal(m, <<Cli, uploads>>, sent[Cli].pin,
                                            client.pbkdf2Iterations)]
  BY <1>1 DEF ReadFiles, SealAndUpload, Goto, formVars
<1>3. Shape' /\ at'[Cli] = "uploading"
      /\ blob'[Cli] = Seal(m, <<Cli, uploads>>, sent[Cli].pin, client.pbkdf2Iterations)
  BY <1>0, <1>2 DEF SendingInv, Shape
<1>4. PageInv' /\ PageSends'
  <2>1. PageRests
    BY <1>0, <1>2 DEF PageRests, SendingInv, Shape
  <2>2. QED
    BY <2>1, PageStays DEF SendingInv
<1>5. client' = client /\ uploads \in Nat
  BY <1>2 DEF client, SendingInv, Shape
<1>6. ~Showing(Cli)'
  <2>1. ~Showing(Cli)
    BY <1>2 DEF SendingInv, CliSends, SenderInv, ShownInv
  <2>2. QED
    BY <1>2, <2>1 DEF Showing
<1>7. /\ sent[Cli] \in SentMessage /\ Prepared(m, client)
      /\ BlobLen(PayloadBytes(m), client.pbkdf2Iterations) = sent[Cli].size
  BY <1>1, <1>2 DEF SendingInv, CliSends, SenderInv, CheckedInv, Checked
<1>8. CheckedInv(Cli)'
  BY <1>2, <1>5 DEF SendingInv, CliSends, SenderInv, CheckedInv, Checked
<1>9. SealedInv(Cli)'
  <2>1. PICK message \in Message : message = m
    BY <1>1, <1>7 DEF SentMessage
  <2>2. SealedAs(Cli, message)'
    BY <1>0, <1>1, <1>2, <1>3, <1>5, <1>7, <2>1 DEF SealedAs
  <2>3. QED
    BY <2>2 DEF SealedInv
<1>10. StoredInv(Cli)' /\ ShownInv(Cli)'
  BY <1>3, <1>6 DEF StoredInv, ShownInv, Answered, Sealed
<1>11. CliSends'
  BY <1>8, <1>9, <1>10 DEF CliSends, SenderInv
<1>12. CliInv'
  BY <1>2, <1>3 DEF SendingInv, CliInv, CliSteps
<1>13. QED
  BY <1>3, <1>4, <1>11, <1>12 DEF SendingInv

\* After an error, with nothing shown yet.
LEMMA GiveUpKeeps ==
  ASSUME SendingInv, Fail(Cli, "ended"), UNCHANGED formVars, choosePin' = choosePin,
         at[Cli] \in {"described", "reading", "uploading", "stored"}
  PROVE  SendingInv'
<1>0. Page \in Senders /\ Cli \in Senders /\ Page # Cli
  BY TwoSenders
<1>1. /\ UNCHANGED <<settings, disk, uploads, shown, form, submits>>
      /\ at' = [at EXCEPT ![Cli] = "ended"]
      /\ sent' = [sent EXCEPT ![Cli] = None]
      /\ blob' = [blob EXCEPT ![Cli] = None]
      /\ stored' = [stored EXCEPT ![Cli] = None]
  BY DEF Fail, Goto, formVars
<1>2. Shape'
  BY <1>1 DEF SendingInv, Shape
<1>3. PageInv' /\ PageSends'
  <2>1. PageRests
    BY <1>0, <1>1 DEF PageRests, SendingInv, Shape
  <2>2. QED
    BY <2>1, PageStays DEF SendingInv
<1>4. ~Showing(Cli)'
  <2>1. ~Showing(Cli)
    BY DEF SendingInv, CliSends, SenderInv, ShownInv
  <2>2. QED
    BY <1>1, <2>1 DEF Showing
<1>5. at'[Cli] = "ended"
  BY <1>0, <1>1 DEF SendingInv, Shape
<1>6. CliSends'
  BY <1>4, <1>5 DEF CliSends, SenderInv, CheckedInv, SealedInv, StoredInv, ShownInv, Checked,
                    Sealed, Answered
<1>7. CliInv'
  BY <1>5 DEF CliInv, CliSteps, SendingInv
<1>8. QED
  BY <1>2, <1>3, <1>6, <1>7 DEF SendingInv

LEMMA CliStoreKeeps ==
  ASSUME SendingInv, Store(Cli), UNCHANGED <<formVars, choosePin>>
  PROVE  SendingInv'
<1>0. Page \in Senders /\ Cli \in Senders /\ Page # Cli
  BY TwoSenders
<1>1. /\ UNCHANGED <<settings, disk, sent, blob, shown, form, submits, choosePin>>
      /\ at[Cli] = "uploading" /\ at' = [at EXCEPT ![Cli] = "stored"]
      /\ uploads < MaxStored /\ uploads' = uploads + 1
      /\ stored' = [stored EXCEPT ![Cli] = [id |-> uploads + 1, ttl |-> sent[Cli].ttl,
                                            blob |-> blob[Cli]]]
  BY DEF Store, Goto, formVars
<1>2. Shape'
  <2>1. uploads' \in 0..MaxStored
    BY <1>1, ComposingAssumption DEF SendingInv, Shape
  <2>2. QED
    BY <1>1, <2>1 DEF SendingInv, Shape
<1>3. PageInv' /\ PageSends'
  <2>1. PageRests
    BY <1>0, <1>1 DEF PageRests, SendingInv, Shape
  <2>2. QED
    BY <2>1, PageStays DEF SendingInv
<1>4. client' = client
  BY <1>1 DEF client
<1>5. /\ at'[Cli] = "stored"
      /\ stored'[Cli] = [id |-> uploads + 1, ttl |-> sent[Cli].ttl, blob |-> blob[Cli]]
  BY <1>0, <1>1 DEF SendingInv, Shape
<1>6. ~Showing(Cli)'
  <2>1. ~Showing(Cli)
    BY <1>1 DEF SendingInv, CliSends, SenderInv, ShownInv
  <2>2. QED
    BY <1>1, <2>1 DEF Showing
<1>7. CheckedInv(Cli)'
  BY <1>1, <1>4 DEF SendingInv, CliSends, SenderInv, CheckedInv, Checked
<1>8. SealedInv(Cli)'
  BY <1>0, <1>1, <1>4, <1>6
  DEF SendingInv, CliSends, SenderInv, SealedInv, SealedAs, Sealed, Checked
<1>9. StoredInv(Cli)'
  <2>1. uploads + 1 \in Nat
    BY DEF SendingInv, Shape
  <2>2. QED
    BY <1>1, <1>5, <2>1 DEF StoredInv
<1>10. ShownInv(Cli)'
  BY <1>5, <1>6 DEF ShownInv
<1>11. CliSends'
  BY <1>7, <1>8, <1>9, <1>10 DEF CliSends, SenderInv
<1>12. CliInv'
  BY <1>1, <1>5 DEF SendingInv, CliInv, CliSteps
<1>13. QED
  BY <1>2, <1>3, <1>11, <1>12 DEF SendingInv

\* Both writes leave everything as it is but what is shown.
LEMMA PrintLinkKeeps ==
  ASSUME SendingInv, PrintLink, UNCHANGED formVars
  PROVE  SendingInv'
<1>0. Page \in Senders /\ Cli \in Senders /\ Page # Cli
  BY TwoSenders
<1>1. /\ UNCHANGED <<choosePin, settings, disk, sent, blob, stored, uploads, form, submits>>
      /\ at[Cli] = "stored"
      /\ at' = [at EXCEPT ![Cli] = IF choosePin THEN "ok" ELSE "linkShown"]
      /\ shown' = [shown EXCEPT ![Cli] =
           [id |-> stored[Cli].id, passphrase |-> blob[Cli].passphrase,
            pin |-> IF choosePin THEN sent[Cli].pin ELSE None]]
  BY DEF PrintLink, Goto, formVars
<1>2. Shape'
  BY <1>1 DEF SendingInv, Shape
<1>3. PageInv' /\ PageSends'
  <2>1. PageRests
    BY <1>0, <1>1 DEF PageRests, SendingInv, Shape
  <2>2. QED
    BY <2>1, PageStays DEF SendingInv
<1>4. client' = client
  BY <1>1 DEF client
<1>5. PICK pin \in {sent[Cli].pin, None} : pin = IF choosePin THEN sent[Cli].pin ELSE None
  BY Zenon
<1>6. /\ at'[Cli] = IF choosePin THEN "ok" ELSE "linkShown"
      /\ shown'[Cli] = [id |-> stored[Cli].id, passphrase |-> blob[Cli].passphrase, pin |-> pin]
  BY <1>0, <1>1, <1>5 DEF SendingInv, Shape
<1>7. at'[Cli] \in {"linkShown", "ok"} /\ (at'[Cli] = "ok" => pin = sent[Cli].pin)
  BY <1>5, <1>6
<1>8. Showing(Cli)'
  <2>1. PICK n \in Nat : stored[Cli] = [id |-> n, ttl |-> sent[Cli].ttl, blob |-> blob[Cli]]
    BY <1>1 DEF SendingInv, CliSends, SenderInv, StoredInv, Answered, Sealed, Checked
  <2>2. stored[Cli].id # None
    BY <2>1, ComposingAssumption
  <2>3. QED
    BY <1>6, <2>2 DEF Showing
<1>9. CheckedInv(Cli)'
  BY <1>1, <1>4 DEF SendingInv, CliSends, SenderInv, CheckedInv, Checked
<1>10. SealedInv(Cli)'
  BY <1>0, <1>1, <1>4
  DEF SendingInv, CliSends, SenderInv, SealedInv, SealedAs, Sealed, Checked
<1>11. StoredInv(Cli)'
  BY <1>1 DEF SendingInv, CliSends, SenderInv, StoredInv, Answered, Sealed, Checked
<1>12. ShownInv(Cli)'
  BY <1>1, <1>5, <1>6, <1>7, <1>8 DEF ShownInv
<1>13. CliSends'
  BY <1>9, <1>10, <1>11, <1>12 DEF CliSends, SenderInv
<1>14. CliInv'
  BY <1>1, <1>7 DEF SendingInv, CliInv, CliSteps
<1>15. QED
  BY <1>2, <1>3, <1>13, <1>14 DEF SendingInv

LEMMA PrintPinKeeps ==
  ASSUME SendingInv, PrintPin, UNCHANGED formVars
  PROVE  SendingInv'
<1>0. Page \in Senders /\ Cli \in Senders /\ Page # Cli
  BY TwoSenders
<1>1. /\ UNCHANGED <<choosePin, settings, disk, sent, blob, stored, uploads, form, submits>>
      /\ at[Cli] = "linkShown"
      /\ \/ /\ shown' = [shown EXCEPT ![Cli].pin = sent[Cli].pin]
            /\ at' = [at EXCEPT ![Cli] = "ok"]
         \/ shown' = shown /\ at' = [at EXCEPT ![Cli] = "ended"]
  BY DEF PrintPin, Goto, formVars
<1>2. Shape'
  BY <1>1 DEF SendingInv, Shape
<1>3. PageInv' /\ PageSends'
  <2>1. PageRests
    BY <1>0, <1>1 DEF PageRests, SendingInv, Shape
  <2>2. QED
    BY <2>1, PageStays DEF SendingInv
<1>4. client' = client
  BY <1>1 DEF client
<1>5. PICK pin \in {sent[Cli].pin, None} :
        shown[Cli] = [id |-> stored[Cli].id, passphrase |-> blob[Cli].passphrase, pin |-> pin]
  BY <1>1 DEF SendingInv, CliSends, SenderInv, ShownInv
<1>6. /\ at'[Cli] \in {"ok", "ended"}
      /\ \E shows \in {sent[Cli].pin, None} :
           /\ shown'[Cli] = [id |-> stored[Cli].id, passphrase |-> blob[Cli].passphrase,
                             pin |-> shows]
           /\ at'[Cli] = "ok" => shows = sent[Cli].pin
  <2>1. CASE /\ shown' = [shown EXCEPT ![Cli].pin = sent[Cli].pin]
             /\ at' = [at EXCEPT ![Cli] = "ok"]
    <3>1. shown'[Cli] = [shown[Cli] EXCEPT !.pin = sent[Cli].pin] /\ at'[Cli] = "ok"
      BY <1>0, <2>1 DEF SendingInv, Shape
    <3>2. shown'[Cli] = [id |-> stored[Cli].id, passphrase |-> blob[Cli].passphrase,
                         pin |-> sent[Cli].pin]
      BY <1>5, <3>1
    <3>3. QED
      BY <3>1, <3>2
  <2>2. CASE shown' = shown /\ at' = [at EXCEPT ![Cli] = "ended"]
    BY <1>0, <1>5, <2>2 DEF SendingInv, Shape
  <2>3. QED
    BY <1>1, <2>1, <2>2
<1>7. Showing(Cli)'
  <2>1. shown'[Cli].id = shown[Cli].id
    BY <1>5, <1>6
  <2>2. Showing(Cli)
    BY <1>1 DEF SendingInv, CliSends, SenderInv, ShownInv
  <2>3. QED
    BY <2>1, <2>2 DEF Showing
<1>8. CheckedInv(Cli)'
  BY <1>1, <1>4 DEF SendingInv, CliSends, SenderInv, CheckedInv, Checked
<1>9. SealedInv(Cli)'
  BY <1>0, <1>1, <1>4
  DEF SendingInv, CliSends, SenderInv, SealedInv, SealedAs, Sealed, Checked
<1>10. StoredInv(Cli)'
  BY <1>1 DEF SendingInv, CliSends, SenderInv, StoredInv, Answered, Sealed, Checked
<1>11. ShownInv(Cli)'
  BY <1>1, <1>6, <1>7 DEF ShownInv
<1>12. CliSends'
  BY <1>8, <1>9, <1>10, <1>11 DEF CliSends, SenderInv
<1>13. CliInv'
  BY <1>1, <1>6 DEF SendingInv, CliInv, CliSteps
<1>14. QED
  BY <1>2, <1>3, <1>12, <1>13 DEF SendingInv

LEMMA CliKeeps ==
  ASSUME SendingInv, CliNext, UNCHANGED formVars
  PROVE  SendingInv'
<1>1. CASE Give
  BY <1>1, GiveUpKeeps DEF Give
<1>2. CASE CliUploadFails
  BY <1>2, GiveUpKeeps DEF CliUploadFails, UploadFails
<1>3. QED
  BY <1>1, <1>2, DescribeFilesKeeps, CheckKeeps, ReadFilesKeeps, PrintLinkKeeps, PrintPinKeeps
  DEF CliNext

-----------------------------------------------------------------------------
\* The rest of the system, and what follows.

LEMMA FilesChange ==
  ASSUME SendingInv, ChangeFile, UNCHANGED <<formVars, choosePin>>
  PROVE  SendingInv'
<1>1. /\ UNCHANGED <<settings, at, sent, blob, stored, uploads, shown, form, submits, choosePin>>
      /\ disk' \in [FileIds -> Sizes]
  BY DEF ChangeFile, formVars, SendingInv, Shape
<1>2. Shape'
  BY <1>1 DEF SendingInv, Shape
<1>3. PageInv' /\ PageSends'
  BY <1>1, PageStays DEF PageRests, SendingInv
<1>4. CliInv' /\ CliSends'
  BY <1>1, CliStays DEF CliRests, SendingInv
<1>5. QED
  BY <1>2, <1>3, <1>4 DEF SendingInv

LEMMA NextSending == SendingInv /\ [Next]_vars => SendingInv'
<1> SUFFICES ASSUME SendingInv, [Next]_vars
             PROVE  SendingInv'
  OBVIOUS
<1>1. CASE PageNext /\ UNCHANGED choosePin
  BY <1>1, PageKeeps
<1>2. CASE CliNext /\ UNCHANGED formVars
  BY <1>2, CliKeeps
<1>3. CASE ChangeFile /\ UNCHANGED <<formVars, choosePin>>
  BY <1>3, FilesChange
<1>4. CASE (\E s \in Senders : Store(s)) /\ UNCHANGED <<formVars, choosePin>>
  <2>1. PICK s \in {Page, Cli} : Store(s)
    BY <1>4, SendingAssumption
  <2>2. CASE s = Page
    BY <1>4, <2>1, <2>2, PageStoreKeeps
  <2>3. CASE s = Cli
    BY <1>4, <2>1, <2>3, CliStoreKeeps
  <2>4. QED
    BY <2>1, <2>2, <2>3
<1>5. CASE UNCHANGED vars
  <2>1. UNCHANGED <<settings, disk, at, sent, blob, stored, uploads, shown, form, submits, choosePin>>
    BY <1>5 DEF vars, composing, formVars
  <2>2. Shape'
    BY <2>1 DEF SendingInv, Shape
  <2>3. PageInv' /\ PageSends'
    BY <2>1, PageStays DEF PageRests, SendingInv
  <2>4. CliInv' /\ CliSends'
    BY <2>1, CliStays DEF CliRests, SendingInv
  <2>5. QED
    BY <2>2, <2>3, <2>4 DEF SendingInv
<1>6. QED
  BY <1>1, <1>2, <1>3, <1>4, <1>5 DEF Next

LEMMA SendingHolds == Spec => []SendingInv
BY InitSending, NextSending, PTL DEF Spec

\* What a sender knows, whichever it is.
LEMMA EachSender ==
  ASSUME SendingInv, NEW s \in Senders
  PROVE  SenderInv(s)
BY SendingAssumption DEF SendingInv, PageSends, CliSends

\* What a sender that is uploading has sealed, of what it checked.
LEMMA SealedFacts ==
  ASSUME SendingInv, NEW s \in Senders, at[s] \in Sealed \/ Showing(s)
  PROVE  \E m \in Message :
           /\ blob[s] \in Blob /\ blob[s].payload.manifest = m
           /\ BlobBytes(blob[s]) = sent[s].size
           /\ Opens(blob[s], blob[s].passphrase, sent[s].pin)
           /\ s = Cli => m = sent[s].message
           /\ s = Page => m.text = submits.text /\ Len(m.files) = Len(submits.files)
<1>1. SenderInv(s) /\ settings \in Settings /\ client = ClientConfig(settings)
  BY EachSender DEF SendingInv, Shape, client
<1>2. PICK m \in Message : SealedAs(s, m)
  BY <1>1 DEF SenderInv, SealedInv
<1>3. PICK n \in Nat : blob[s] = Seal(m, <<s, n>>, sent[s].pin, client.pbkdf2Iterations)
  BY <1>2 DEF SealedAs
<1>4. sent[s] \in SentMessage
  BY <1>1 DEF SenderInv, CheckedInv, Sealed
<1>5. sent[s].pin \in Pins
  BY <1>4 DEF SentMessage
<1>6. client.pbkdf2Iterations \in Nat
  BY <1>1, SettingsParsed DEF ClientConfig
<1>7. blob[s] \in Blob
  BY <1>3, <1>5, <1>6, SealedType
<1>8. blob[s].payload.manifest = m /\ blob[s].passphrase = <<s, n>>
  BY <1>3 DEF Seal, Encode
<1>9. BlobBytes(blob[s]) = BlobLen(PayloadBytes(m), client.pbkdf2Iterations)
  BY <1>3, SealedBytes
<1>10. Prepared(m, ClientConfig(settings))
  BY <1>1, <1>2 DEF SealedAs
<1>11. Opens(blob[s], <<s, n>>, sent[s].pin)
  BY <1>1, <1>3, <1>10, SealedOpens
<1>12. QED
  BY <1>2, <1>7, <1>8, <1>9, <1>11 DEF SealedAs

\* What is uploaded is what was checked, for any sizes, limits and edits.
THEOREM UploadsAreChecked == Spec => []UploadedAsChecked
<1>1. SendingInv => UploadedAsChecked
  <2>1. SUFFICES ASSUME SendingInv, NEW s \in Uploading
                 PROVE  /\ BlobBytes(blob[s]) = sent[s].size
                        /\ ~TooMuch(s)
                        /\ BlobBytes(blob[s]) <= settings.max_bytes
                        /\ s = Cli => blob[s].payload.manifest = sent[s].message
    BY DEF UploadedAsChecked
  <2>2. s \in Senders /\ at[s] \in Sealed
    BY <2>1 DEF Uploading, Sealed, Checked
  <2>3. /\ BlobBytes(blob[s]) = sent[s].size
        /\ s = Cli => blob[s].payload.manifest = sent[s].message
    BY <2>1, <2>2, SealedFacts
  <2>4. /\ sent[s] \in SentMessage /\ sent[s].size <= settings.max_payload_bytes
        /\ InRange(sent[s].ttl * Second, settings.min_ttl, settings.max_ttl)
    BY <2>1, <2>2, EachSender DEF SenderInv, CheckedInv, Sealed
  <2>5. /\ settings.max_payload_bytes \in Nat /\ settings.max_bytes \in Nat
        /\ settings.max_payload_bytes <= settings.max_bytes
    BY <2>1, SettingsParsed DEF SendingInv, Shape, Accepted, StoreAccepted
  <2>6. sent[s].size \in Nat
    BY <2>4 DEF SentMessage
  <2>7. ~(BlobBytes(blob[s]) > settings.max_payload_bytes) /\ BlobBytes(blob[s]) <= settings.max_bytes
    BY <2>3, <2>4, <2>5, <2>6
  <2>8. QED
    BY <2>3, <2>4, <2>7 DEF TooMuch
<1>2. QED
  BY <1>1, SendingHolds, PTL

\* The link and the PIN that are shown open the message that was submitted and stored.
THEOREM ShownOpens == Spec => []WhatIsShownOpens
<1>1. SendingInv => WhatIsShownOpens
  <2>1. SUFFICES ASSUME SendingInv, NEW s \in Senders, Showing(s)
                 PROVE  /\ stored[s] # None /\ stored[s].id = shown[s].id
                        /\ \/ shown[s].pin = None
                           \/ Opens(stored[s].blob, shown[s].passphrase, shown[s].pin)
                        /\ s = Page =>
                             /\ stored[s].ttl = submits.ttl
                             /\ stored[s].blob.payload.manifest.text = submits.text
                             /\ Len(stored[s].blob.payload.manifest.files) = Len(submits.files)
                        /\ at[s] = "ok" => shown[s].pin # None
    BY DEF WhatIsShownOpens, Showing
  <2>2. CheckedInv(s) /\ StoredInv(s) /\ ShownInv(s)
    BY <2>1, EachSender DEF SenderInv
  <2>3. PICK n \in Nat : stored[s] = [id |-> n, ttl |-> sent[s].ttl, blob |-> blob[s]]
    BY <2>1, <2>2 DEF StoredInv
  <2>4. PICK pin \in {sent[s].pin, None} :
          shown[s] = [id |-> stored[s].id, passphrase |-> blob[s].passphrase, pin |-> pin]
    BY <2>1, <2>2 DEF ShownInv
  <2>5. sent[s].pin \in Pins /\ sent[s].ttl \in Nat
    BY <2>1, <2>2 DEF CheckedInv, SentMessage
  <2>6. /\ blob[s] \in Blob /\ Opens(blob[s], blob[s].passphrase, sent[s].pin)
        /\ s = Page => /\ blob[s].payload.manifest.text = submits.text
                       /\ Len(blob[s].payload.manifest.files) = Len(submits.files)
    BY <2>1, SealedFacts
  <2>7. stored[s] # None
    <3>1. stored[s] \in [id : Nat, ttl : Nat, blob : Blob]
      BY <2>3, <2>5, <2>6
    <3>2. QED
      BY <3>1, ComposingAssumption
  <2>8. \/ shown[s].pin = None
        \/ Opens(stored[s].blob, shown[s].passphrase, shown[s].pin)
    <3>1. /\ stored[s].blob = blob[s] /\ shown[s].passphrase = blob[s].passphrase
          /\ shown[s].pin = pin
      BY <2>3, <2>4
    <3>2. QED
      BY <2>4, <2>6, <3>1
  <2>9. s = Page => stored[s].ttl = submits.ttl
    <3>1. ASSUME s = Page
          PROVE  submits # None
      BY <2>1, <2>2, <3>1 DEF SendingInv, PageInv, ShownInv
    <3>2. QED
      BY <2>1, <2>3, <3>1 DEF SendingInv, PageInv
  <2>10. at[s] = "ok" => shown[s].pin # None
    BY <2>2, <2>5, ComposingAssumption DEF ShownInv
  <2>11. QED
    BY <2>3, <2>4, <2>6, <2>7, <2>8, <2>9, <2>10
<1>2. QED
  BY <1>1, SendingHolds, PTL

\* The types; that whatever settings a server starts with suit it and its clients; and that its
\* ids are as many as the operator's template has draws, each as likely, and fit every client.
THEOREM SendingTyped == Spec => []SendingTypeOK
<1>1. SendingInv => SendingTypeOK
  <2>1. SUFFICES ASSUME SendingInv
                 PROVE  SendingTypeOK
    OBVIOUS
  <2>2. /\ settings \in Settings /\ disk \in [FileIds -> Sizes] /\ uploads <= MaxStored
        /\ SettingsSuit(settings)
    BY <2>1, EverySettingSuits DEF SendingInv, Shape
  <2>3. ASSUME NEW s \in Uploading
        PROVE  blob[s] # None /\ sent[s] # None
    <3>1. s \in Senders /\ at[s] \in Sealed
      BY DEF Uploading, Sealed, Checked
    <3>2. blob[s] \in Blob
      BY <2>1, <3>1, SealedFacts
    <3>3. sent[s] \in SentMessage
      BY <2>1, <3>1, EachSender DEF SenderInv, CheckedInv, Sealed
    <3>4. QED
      BY <3>2, <3>3, ComposingAssumption DEF SentMessage
  <2>4. /\ form.text \in Texts /\ Len(form.files) <= MaxPicked /\ form.pin \in Pins
        /\ submits = None <=> at[Page] \in {"idle", "absent"}
    BY <2>1 DEF SendingInv, PageInv, Form
  <2>5. IdsAsDrawn(settings.template)
    <3>1. IsTemplate(settings.template) /\ Accepted(settings)
      BY <2>2, SettingsParsed
    <3>2. WordlistAccepted /\ TemplateAccepted(settings.template)
      BY <3>1 DEF Accepted, MessageIdAccepted
    <3>3. QED
      BY <3>1, <3>2, EveryTemplateDraws
  <2>6. QED
    BY <2>2, <2>3, <2>4, <2>5 DEF SendingTypeOK
<1>2. QED
  BY <1>1, SendingHolds, PTL
=============================================================================
