----------------------------- MODULE CreatePage -----------------------------
(***************************************************************************)
(* The create page (create-page.js over compose.js): a form that the user  *)
(* may go on editing while what it held at the submit is encrypted and     *)
(* uploaded, and a result that shows the link and the PIN together.        *)
(***************************************************************************)
EXTENDS Composing

CONSTANTS Page,      \* the sender
          Minute,    \* seconds
          MaxPicked  \* bound: the files in the form

ASSUME PageAssumption ==
  /\ Minute \in Nat \ {0} /\ MaxPicked \in Nat
  /\ None \notin [text : Texts, files : Seq(File), pin : Pins, ttl : Nat]

VARIABLES form,      \* text, picked files, PIN and expiry, as the form shows them
          submits    \* the form as it was at the submit that is under way

formVars == <<form, submits>>

\* The expiry choices: the presets, the default, and whole minutes within the range.
TtlChoices(config) == config.ttlPresets \cup {config.defaultTtl}
AtLeastOne(n) == IF n < 1 THEN 1 ELSE n

CustomTtlMinutes(config) ==
  AtLeastOne((config.minTtl + Minute - 1) \div Minute)..(config.maxTtl \div Minute)

\* selectedTtl, with ttlFromMinutes for a custom expiry.
SelectableTtls(config) == TtlChoices(config) \cup {m * Minute : m \in CustomTtlMinutes(config)}

PageInit ==
  /\ \E pin \in Pins : form = [text |-> 0, files |-> <<>>, pin |-> pin, ttl |-> client.defaultTtl]
  /\ submits = None

\* The inputs stay enabled and visible until a result is.  Bound: one edit while a submit is
\* under way.
Edit ==
  /\ at[Page] \notin {"shown", "absent"}
  /\ submits # None => form = submits
  /\ \/ \E text \in Texts : form' = [form EXCEPT !.text = text]
     \/ \E pin \in Pins : form' = [form EXCEPT !.pin = pin]
     \/ \E ttl \in SelectableTtls(client) : form' = [form EXCEPT !.ttl = ttl]
     \/ \E i \in DOMAIN form.files :
          form' = [form EXCEPT !.files = SubSeq(@, 1, i - 1) \o SubSeq(@, i + 1, Len(@))]
     \/ /\ Len(form.files) < MaxPicked
        /\ \E f \in FileIds : form' = [form EXCEPT !.files = Append(@, Describe(f, disk[f]))]
  /\ UNCHANGED <<submits, composing>>

\* The button is disabled; the form is checked, or an error is shown.
Submit ==
  /\ at[Page] = "idle"
  /\ Take(Page, [text |-> form.text, files |-> form.files], form.pin, form.ttl)
  /\ submits' = form
  /\ UNCHANGED <<form, settings, disk, blob, stored, uploads, shown>>

Retry(s) == Fail(s, "idle") /\ submits' = None /\ UNCHANGED form

\* The files are read and encoded without another look at the size.
ReadUnchecked ==
  /\ at[Page] = "reading"
  /\ SealAndUpload(Page, [text |-> submits.text, files |-> ReadNow(submits.files)])
  /\ UNCHANGED formVars

\* The wordlist is loaded and the files are read and encoded again: the same total size, or
\* an error.
Read ==
  /\ at[Page] = "reading"
  /\ LET message == [text |-> submits.text, files |-> ReadNow(submits.files)]
     IN \/ /\ Prepared(message, client)
           /\ BlobLen(PayloadBytes(message), client.pbkdf2Iterations) = sent[Page].size
           /\ SealAndUpload(Page, message)
           /\ UNCHANGED formVars
        \/ Retry(Page)

PageUploadFails ==
  /\ UploadFails(Page, "idle")
  /\ submits' = None /\ UNCHANGED form

\* The link with the PIN that is in the form by now.
ShowResultFromForm ==
  /\ at[Page] = "stored"
  /\ Goto(Page, "shown")
  /\ shown' = [shown EXCEPT ![Page] = [id |-> stored[Page].id, pin |-> form.pin,
                                       passphrase |-> blob[Page].passphrase]]
  /\ UNCHANGED <<formVars, settings, disk, sent, blob, stored, uploads>>

ShowResult ==
  /\ at[Page] = "stored"
  /\ Goto(Page, "shown")
  /\ shown' = [shown EXCEPT ![Page] = [id |-> stored[Page].id, pin |-> submits.pin,
                                       passphrase |-> blob[Page].passphrase]]
  /\ UNCHANGED <<formVars, settings, disk, sent, blob, stored, uploads>>

\* "Create another": text and files are cleared, a new PIN is made, the expiry stays.
CreateAnother ==
  /\ at[Page] = "shown"
  /\ \E pin \in Pins : form' = [form EXCEPT !.text = 0, !.files = <<>>, !.pin = pin]
  /\ submits' = None
  /\ Goto(Page, "idle")
  /\ sent' = [sent EXCEPT ![Page] = None] /\ blob' = [blob EXCEPT ![Page] = None]
  /\ stored' = [stored EXCEPT ![Page] = None]
  /\ shown' = [shown EXCEPT ![Page] = Nothing]
  /\ UNCHANGED <<settings, disk, uploads>>

PageNext == Edit \/ Submit \/ Read \/ PageUploadFails \/ ShowResult \/ CreateAnother
=============================================================================
