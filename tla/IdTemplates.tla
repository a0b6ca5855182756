---------------------------- MODULE IdTemplates ----------------------------
(***************************************************************************)
(* Random words, ids and passphrases (wordlist.rs, entropy.rs, generate.rs *)
(* and id_template.rs): an operator's template is a sequence of segments,  *)
(* as its text says, and an id is a draw from it.                          *)
(***************************************************************************)
EXTENDS Integers, FiniteSets, SequencesExt

CONSTANTS Wordlist,      \* the embedded words, as sequences of characters
          Letters,       \* a-z and the other characters of the alphabets below
          Alphabets,     \* the characters of "digits", "alnum" and "Alnum"
          OtherIdChars,  \* the characters of ids that are in no alphabet
          MaxCount, MaxIdLen,
          PassphraseWords,
          EntropyRange,  \* how many values one draw of entropy has
          Absent         \* no count

Hyphen == "-"

IsSequence(s) == s \in Seq(ToSet(s))

\* Lowercase letters, optionally joined by single hyphens.
IsWord(w) ==
  /\ w # <<>>
  /\ \A i \in DOMAIN w : w[i] \in Letters
                         \/ (w[i] = Hyphen /\ 1 < i /\ i < Len(w) /\ w[i - 1] # Hyphen)

\* The server and the command line refuse to start with any other list.
WordlistAccepted ==
  /\ \A w \in Wordlist : IsWord(w)
  /\ \A v, w \in Wordlist : v # w => ~IsPrefix(v, w)

\* uniform_below: draws at or above the largest multiple of n are discarded.
Limit(n) == EntropyRange - (EntropyRange % n)
UniformBelow(n) == [x \in 0..Limit(n) - 1 |-> x % n]

IdChars == (UNION {Alphabets[a] : a \in DOMAIN Alphabets}) \cup OtherIdChars \cup {Hyphen}

ASSUME IdAssumption ==
  /\ IsFiniteSet(Wordlist) /\ Wordlist # {} /\ \A w \in Wordlist : IsSequence(w)
  /\ Letters \subseteq IdChars /\ "." \notin Letters
  /\ \A a \in DOMAIN Alphabets : IsFiniteSet(Alphabets[a]) /\ "." \notin Alphabets[a]
  /\ {MaxCount, MaxIdLen, EntropyRange} \subseteq Nat /\ PassphraseWords \in Nat \ {0}

\* A template is literal text and placeholders: a name, with a count where it needs one.
IsTemplate(template) ==
  /\ IsSequence(template)
  /\ \A i \in DOMAIN template : template[i].name = "literal" => IsSequence(template[i].text)
Count(s) == IF s.count = Absent THEN 1 ELSE s.count
PlaceholderAccepted(s) ==
  /\ s.name = "word" \/ (s.name \in DOMAIN Alphabets /\ s.count # Absent)
  /\ Count(s) \in 1..MaxCount

LongestWord == CHOOSE n \in {Len(w) : w \in Wordlist} : \A w \in Wordlist : Len(w) <= n
LongestSegment(s) == CASE s.name = "literal" -> Len(s.text)
                       [] s.name = "word" -> Count(s) * (LongestWord + 1) - 1
                       [] OTHER -> Count(s)

\* Of some parts, one by one: of which part it is, and which one there.
Total(lengths) == Cardinality(UNION {{i} \X (1..lengths[i]) : i \in DOMAIN lengths})
MaxLen(template) == Total([i \in DOMAIN template |-> LongestSegment(template[i])])

\* IdTemplate::parse, with a wordlist that is accepted.
TemplateAccepted(template) ==
  /\ \A i \in DOMAIN template :
       IF template[i].name = "literal" THEN ToSet(template[i].text) \subseteq IdChars
                                       ELSE PlaceholderAccepted(template[i])
  /\ \E i \in DOMAIN template : template[i].name # "literal"
  /\ MaxLen(template) <= MaxIdLen

\* How many ways there are to draw a segment, from exact alphabet sizes; bits() is its logarithm.
Product(numbers) ==
  LET upTo[i \in 0..Len(numbers)] == IF i = 0 THEN 1 ELSE upTo[i - 1] * numbers[i]
  IN upTo[Len(numbers)]
Ways(s) == CASE s.name = "literal" -> 1
             [] s.name = "word" -> Product([i \in 1..Count(s) |-> Cardinality(Wordlist)])
             [] OTHER -> Product([i \in 1..Count(s) |-> Cardinality(Alphabets[s.name])])
Draws(template) == Product([i \in DOMAIN template |-> Ways(template[i])])
HasBits(template, bits) == Draws(template) >= 2^bits

\* What comes of pushing one of each of some parts, one after the other.
Appended(texts, more) == {p[1] \o p[2] : p \in texts \X more}
Pushed(parts) ==
  LET upTo[i \in 0..Len(parts)] == IF i = 0 THEN {<<>>} ELSE Appended(upTo[i - 1], parts[i])
  IN upTo[Len(parts)]

\* Words are joined with hyphens, characters are not.
Words(n) == Pushed([i \in 1..n |-> IF i = 1 THEN Wordlist ELSE Appended({<<Hyphen>>}, Wordlist)])
SegmentTexts(s) == CASE s.name = "literal" -> {s.text}
              [] s.name = "word" -> Words(Count(s))
              [] OTHER -> Pushed([i \in 1..Count(s) |-> {<<c>> : c \in Alphabets[s.name]}])

\* The ids a template can produce.
Ids(template) == Pushed([i \in DOMAIN template |-> SegmentTexts(template[i])])

\* What a client takes for an id.
IsValidId(id) == id \notin {<<>>, <<".">>, <<".", ".">>} /\ ToSet(id) \subseteq IdChars

Passphrases == Words(PassphraseWords)
=============================================================================
