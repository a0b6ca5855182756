------------------------------ MODULE CliSend ------------------------------
(***************************************************************************)
(* `pinveil send` (send.rs, with http.rs and profile.rs): settings, files  *)
(* described, text, the server's config, every check, the PIN, the files   *)
(* read, and after the upload the link on stdout, then the PIN on the      *)
(* terminal.  Each step may end it with an error.                          *)
(***************************************************************************)
EXTENDS Composing

CONSTANTS Cli,         \* the sender
          Unit,        \* the seconds of each unit a TTL may have
          U64,         \* the first number that is too large for a TTL
          TtlArgs,     \* what --ttl may say: a number and a unit
          MaxNamed     \* bound: the files on the command line

ASSUME CliAssumption ==
  /\ MaxNamed \in Nat /\ U64 \in Nat
  /\ \A u \in DOMAIN Unit : Unit[u] \in Nat
  /\ \A a \in TtlArgs \ {None} : a.value \in Nat

VARIABLES choosePin    \* --choose-pin: the user types the PIN, and is not shown it

\* ServerConfig::validate: what the command line makes of a server's client config.
Sensible(config) ==
  /\ config.storeMode \in {"memory", "sqlite"}
  /\ config.maxPayloadBytes # 0
  /\ InRange(config.maxFiles, 1, MaxFilesCeiling)
  /\ InRange(config.maxManifestBytes, 1, MaxManifestCeiling)
  /\ IsAcceptedKdfIterations(config.pbkdf2Iterations)
  /\ InRange(config.minTtl, 1, config.defaultTtl)
  /\ config.defaultTtl <= config.maxTtl

\* parse_ttl: a known unit, above 0, and within 64 bits.
ParsesTtl(arg) == /\ arg.unit \in DOMAIN Unit
                  /\ InRange(arg.value * Unit[arg.unit], 1, U64 - 1)
Ttl(arg) == IF arg = None THEN client.defaultTtl ELSE arg.value * Unit[arg.unit]

CliInit == choosePin \in BOOLEAN

\* The settings (options before the profile), the terminal and the files, as they are now.
DescribeFiles ==
  /\ at[Cli] = "idle"
  /\ \E n \in 0..MaxNamed, text \in Texts :
       \E files \in [1..n -> FileIds] :
         sent' = [sent EXCEPT ![Cli] =
           [text |-> text, files |-> [i \in 1..n |-> Describe(files[i], disk[files[i]])]]]
  /\ Goto(Cli, "described")
  /\ UNCHANGED <<choosePin, settings, disk, blob, stored, uploads, shown>>

\* The server's config, the TTL and the size; then the PIN.
Check ==
  /\ at[Cli] = "described"
  /\ Sensible(client)
  /\ \E arg \in {a \in TtlArgs : a = None \/ ParsesTtl(a)}, pin \in Pins :
       /\ InRange(Ttl(arg), client.minTtl, client.maxTtl)
       /\ Take(Cli, sent[Cli], pin, Ttl(arg))
  /\ UNCHANGED <<choosePin, settings, disk, blob, stored, uploads, shown>>

\* Every file still has its length, or nothing is sent.
ReadFiles ==
  /\ at[Cli] = "reading"
  /\ ReadNow(sent[Cli].message.files) = sent[Cli].message.files
  /\ SealAndUpload(Cli, sent[Cli].message)
  /\ UNCHANGED choosePin

Give == at[Cli] \in {"described", "reading"} /\ Fail(Cli, "ended") /\ UNCHANGED choosePin

CliUploadFails == UploadFails(Cli, "ended") /\ UNCHANGED choosePin

\* The link; then the PIN, unless the user chose it.  Either may fail to be written.
PrintLink ==
  /\ at[Cli] = "stored"
  /\ shown' = [shown EXCEPT ![Cli] =
       [id |-> stored[Cli].id, passphrase |-> blob[Cli].passphrase,
        pin |-> IF choosePin THEN sent[Cli].pin ELSE None]]
  /\ Goto(Cli, IF choosePin THEN "ok" ELSE "linkShown")
  /\ UNCHANGED <<choosePin, settings, disk, sent, blob, stored, uploads>>

PrintPin ==
  /\ at[Cli] = "linkShown"
  /\ \/ shown' = [shown EXCEPT ![Cli].pin = sent[Cli].pin] /\ Goto(Cli, "ok")
     \/ Goto(Cli, "ended") /\ UNCHANGED shown
  /\ UNCHANGED <<choosePin, settings, disk, sent, blob, stored, uploads>>

CliNext == DescribeFiles \/ Check \/ ReadFiles \/ Give \/ CliUploadFails \/ PrintLink \/ PrintPin
=============================================================================
