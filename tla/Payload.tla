------------------------------ MODULE Payload ------------------------------
(***************************************************************************)
(* Messages as they are measured, sealed and opened (payload.rs,           *)
(* envelope.rs, crypto.rs, and their twins in the browser): the exact      *)
(* sizes, the limits of a sender and the ceilings of a recipient.  Keys    *)
(* and ciphers are ideal: a blob opens with its passphrase and its PIN.    *)
(***************************************************************************)
EXTENDS ServerConfig

CONSTANTS ManifestBase, TextEntry, FileEntryBase,    \* bytes of the parts of a manifest
          HeaderBase, TagLen,                        \* bytes of the parts of an envelope
          MaxNameBytes, MaxMimeBytes

\* The digits of a length or a count, as JSON writes it; up to 10 of them, as many as the
\* largest payload has.
Digits(n) == 1 + Cardinality({power \in {10^d : d \in 1..9} : power <= n})

\* A message has text, of so many bytes, or files, or both: [name, mime, size] in bytes.
ManifestBytes(m) ==
  ManifestBase + (IF m.text > 0 THEN TextEntry + Digits(m.text) ELSE 0)
  + Total([i \in DOMAIN m.files |-> FileEntryBase + m.files[i].name + m.files[i].mime
                                  + Digits(m.files[i].size)])

BodyBytes(m) == m.text + Total([i \in DOMAIN m.files |-> m.files[i].size])
PayloadBytes(m) == 4 + ManifestBytes(m) + BodyBytes(m)

EntriesOK(m) ==
  /\ m.text > 0 \/ m.files # <<>>
  /\ \A i \in DOMAIN m.files : /\ InRange(m.files[i].name, 1, MaxNameBytes)
                               /\ InRange(m.files[i].mime, 1, MaxMimeBytes)

\* prepare: the checks of measure_payload and encode_payload, against the server's limits.
Prepared(m, config) ==
  /\ EntriesOK(m)
  /\ Len(m.files) <= config.maxFiles
  /\ ManifestBytes(m) <= config.maxManifestBytes

\* The encrypted size of a payload.
BlobLen(bytes, iterations) == 4 + (HeaderBase + Digits(iterations)) + bytes + TagLen

\* What a sender checks from metadata alone.
CheckSize(m, config) ==
  /\ Prepared(m, config)
  /\ BlobLen(PayloadBytes(m), config.pbkdf2Iterations) <= config.maxPayloadBytes

\* encode_payload: the manifest describes what was read, the body is its text and files.
Encode(m) == [manifest |-> m, body |-> BodyBytes(m)]

Seal(m, passphrase, pin, iterations) ==
  [payload |-> Encode(m), passphrase |-> passphrase, pin |-> pin, iterations |-> iterations]
BlobBytes(blob) == BlobLen(4 + ManifestBytes(blob.payload.manifest) + blob.payload.body, blob.iterations)

\* Stage one, on the outer envelope, before any key is derived.
HeaderAccepted(blob) == IsAcceptedKdfIterations(blob.iterations)

Decrypts(blob, passphrase, pin) == passphrase = blob.passphrase /\ pin = blob.pin

\* Stage two, on what was decrypted: the ceilings, the declared lengths, the entries.
PayloadAccepted(payload) ==
  /\ ManifestBytes(payload.manifest) <= MaxManifestCeiling
  /\ Len(payload.manifest.files) <= MaxFilesCeiling
  /\ BodyBytes(payload.manifest) = payload.body
  /\ EntriesOK(payload.manifest)

Opens(blob, passphrase, pin) ==
  HeaderAccepted(blob) /\ Decrypts(blob, passphrase, pin) /\ PayloadAccepted(blob.payload)
=============================================================================
