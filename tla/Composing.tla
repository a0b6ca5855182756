----------------------------- MODULE Composing -----------------------------
(***************************************************************************)
(* What the two senders share: files that change on disk while they are    *)
(* read, and a server with some settings that stores a message or refuses  *)
(* it, and whose answer may be lost.  How full its store is and who opens  *)
(* what is the matter of MessageService; here an upload may fail anyhow.   *)
(***************************************************************************)
EXTENDS Payload

CONSTANTS Senders, Pins, None,
          FileIds, NameBytes, MimeBytes,    \* what does not change about a file
          Sizes, Texts,                     \* the bytes that a file or a text may have
          Sessions,                         \* bound: the sets of senders that run at once
          MaxStored                         \* bound: the messages that are stored in all

File == [file : FileIds, name : Nat, mime : Nat, size : Nat]
Message == [text : Nat, files : Seq(File)]
Blob == [payload : [manifest : Message, body : Nat], passphrase : Senders \X Nat, pin : Pins,
         iterations : Nat]

ASSUME ComposingAssumption ==
  /\ {ManifestBase, TextEntry, FileEntryBase, HeaderBase, TagLen} \subseteq Nat
  /\ {MaxNameBytes, MaxMimeBytes, MaxStored} \subseteq Nat
  /\ NameBytes \in [FileIds -> Nat] /\ MimeBytes \in [FileIds -> Nat]
  /\ Sizes \subseteq Nat /\ Texts \subseteq Nat /\ 0 \in Texts
  /\ Sessions \subseteq SUBSET Senders
  /\ None \notin Nat \cup Pins \cup Blob
  /\ None \notin [message : Message, pin : Pins, ttl : Nat, size : Nat]
  /\ None \notin [id : Nat, ttl : Nat, blob : Blob]

VARIABLES settings,    \* the server's
          disk,        \* the size of each file
          at,          \* how far each sender is
          sent,        \* what each sender is sending, as it was checked
          blob,        \* its encrypted message, once it is uploading
          stored,      \* the message that its last upload stored
          uploads,     \* how many messages were stored in all
          shown        \* what each sender's user is shown: the link's id and passphrase, the PIN

composing == <<settings, disk, at, sent, blob, stored, uploads, shown>>

Nothing == [id |-> None, passphrase |-> None, pin |-> None]
client == ClientConfig(settings)

ComposingInit ==
  /\ settings \in Settings
  /\ disk \in [FileIds -> Sizes]
  /\ \E running \in Sessions :
       at = [s \in Senders |-> IF s \in running THEN "idle" ELSE "absent"]
  /\ sent = [s \in Senders |-> None]
  /\ blob = [s \in Senders |-> None]
  /\ stored = [s \in Senders |-> None]
  /\ uploads = 0
  /\ shown = [s \in Senders |-> Nothing]

Goto(s, to) == at' = [at EXCEPT ![s] = to]

\* A file is described when it is picked or named, and read later.
Describe(f, size) == [file |-> f, name |-> NameBytes[f], mime |-> MimeBytes[f], size |-> size]
ReadNow(files) == [i \in DOMAIN files |-> Describe(files[i].file, disk[files[i].file])]

ChangeFile ==
  /\ \E f \in FileIds, size \in Sizes : disk' = [disk EXCEPT ![f] = size]
  /\ UNCHANGED <<settings, at, sent, blob, stored, uploads, shown>>

\* A message passed every check from its metadata.
Take(s, message, pin, ttl) ==
  /\ CheckSize(message, client)
  /\ sent' = [sent EXCEPT ![s] =
       [message |-> message, pin |-> pin, ttl |-> ttl,
        size |-> BlobLen(PayloadBytes(message), client.pbkdf2Iterations)]]
  /\ Goto(s, "reading")

\* The passphrases of any two messages differ.
SealAndUpload(s, message) ==
  /\ blob' = [blob EXCEPT ![s] = Seal(message, <<s, uploads>>, sent[s].pin,
                                      client.pbkdf2Iterations)]
  /\ Goto(s, "uploading")
  /\ UNCHANGED <<settings, disk, sent, stored, uploads, shown>>

\* An error is reported and nothing more is sent.
Fail(s, to) ==
  /\ Goto(s, to)
  /\ sent' = [sent EXCEPT ![s] = None]
  /\ blob' = [blob EXCEPT ![s] = None]
  /\ stored' = [stored EXCEPT ![s] = None]
  /\ UNCHANGED <<settings, disk, uploads, shown>>

\* What a server answers 400 or 413 to, whatever its load is.
TooMuch(s) ==
  \/ ~InRange(sent[s].ttl * Second, settings.min_ttl, settings.max_ttl)
  \/ BlobBytes(blob[s]) > settings.max_payload_bytes

\* The server stores the message, of which an empty store has room; an answer with its id is
\* on its way.
Store(s) ==
  /\ at[s] = "uploading"
  /\ ~TooMuch(s) /\ BlobBytes(blob[s]) <= settings.max_bytes
  /\ uploads < MaxStored
  /\ uploads' = uploads + 1
  /\ stored' = [stored EXCEPT ![s] = [id |-> uploads + 1, ttl |-> sent[s].ttl, blob |-> blob[s]]]
  /\ Goto(s, "stored")
  /\ UNCHANGED <<settings, disk, sent, blob, shown>>

\* A refusal of any kind, a failed connection, or an answer that is lost.
UploadFails(s, to) == at[s] \in {"uploading", "stored"} /\ Fail(s, to)
=============================================================================
