------------------------------ MODULE Sending ------------------------------
(***************************************************************************)
(* The sending side as a whole: a server with any settings it starts with, *)
(* a create page and a command line, and files that change meanwhile.      *)
(***************************************************************************)
EXTENDS CreatePage, CliSend

ASSUME SendingAssumption == Senders = {Page, Cli} /\ Page # Cli

vars == <<composing, formVars, choosePin>>

Init == ComposingInit /\ PageInit /\ CliInit

Next ==
  \/ PageNext /\ UNCHANGED choosePin
  \/ CliNext /\ UNCHANGED formVars
  \/ (ChangeFile \/ \E s \in Senders : Store(s)) /\ UNCHANGED <<formVars, choosePin>>

Spec == Init /\ [][Next]_vars

-----------------------------------------------------------------------------
Uploading == {s \in Senders : at[s] \in {"uploading", "stored"}}

\* No two draws of a template are one id, however the words are hyphenated and the segments
\* adjoin, so that bits() is what there is to guess; nor are two draws one passphrase; clients
\* take every id; and every word, digit and letter is equally likely.
IdsAsDrawn(template) ==
  /\ LET ids == Ids(template)
     IN Cardinality(ids) = Draws(template) /\ \A id \in ids : IsValidId(id) /\ Len(id) <= MaxIdLen
  /\ Cardinality(Passphrases) = Product([i \in 1..PassphraseWords |-> Cardinality(Wordlist)])
  /\ \A n \in {Cardinality(Wordlist)} \cup {Cardinality(Alphabets[a]) : a \in DOMAIN Alphabets} :
       \A i, j \in 0..n - 1 : LET how(k) == {x \in DOMAIN UniformBelow(n) : UniformBelow(n)[x] = k}
                             IN Cardinality(how(i)) = Cardinality(how(j))

\* A server started with such settings suits itself and its clients.
SettingsSuit(v) ==
  /\ HashConcurrency(v) \in 1..(v.max_hash_memory_bytes \div v.hash_bytes)
  /\ Sensible(ClientConfig(v))

\* The types; and any settings a server starts with suit it and its clients: the hashes that
\* run at once fit the memory budget, the command line takes the config, and ids are as hard
\* to guess as the operator asked for.
SendingTypeOK ==
  /\ settings \in Settings /\ disk \in [FileIds -> Sizes]
  /\ \A s \in Uploading : blob[s] # None /\ sent[s] # None
  /\ uploads <= MaxStored
  /\ form.text \in Texts /\ Len(form.files) <= MaxPicked /\ form.pin \in Pins
  /\ submits = None <=> at[Page] \in {"idle", "absent"}
  /\ SettingsSuit(settings)
  /\ IdsAsDrawn(settings.template)

\* What is uploaded is what was checked, however files and form have changed since: of the
\* same size, within what the server takes of any message, and small enough for its store when
\* that is empty.  A checked message is never refused as too large or too long-lived.
UploadedAsChecked ==
  \A s \in Uploading :
    /\ BlobBytes(blob[s]) = sent[s].size
    /\ ~TooMuch(s)
    /\ BlobBytes(blob[s]) <= settings.max_bytes
    /\ s = Cli => blob[s].payload.manifest = sent[s].message

\* The link and the PIN that a sender shows open the message stored under that id, with its
\* text, its files' names and the expiry that were submitted, whatever the form says by now
\* and whichever uploads failed or were refused before.
WhatIsShownOpens ==
  \A s \in Senders : shown[s].id # None =>
    LET m == stored[s]
    IN/\ m # None /\ m.id = shown[s].id
      /\ shown[s].pin = None \/ Opens(m.blob, shown[s].passphrase, shown[s].pin)
      /\ s = Page => /\ m.ttl = submits.ttl
                     /\ m.blob.payload.manifest.text = submits.text
                     /\ Len(m.blob.payload.manifest.files) = Len(submits.files)
      /\ at[s] = "ok" => shown[s].pin # None
=============================================================================
