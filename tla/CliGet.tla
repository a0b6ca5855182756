------------------------------- MODULE CliGet -------------------------------
(***************************************************************************)
(* `pinveil get` (get.rs, with http.rs and links.rs): settings, the link,  *)
(* the server's config, PINs until one is right, the body, the text, the   *)
(* files (FileOutput), and the exit class of every way that ends early.    *)
(***************************************************************************)
EXTENDS Exchange, FileOutput

CONSTANTS Cli    \* the client

VARIABLES cliLink,     \* the link it is given: whole, or cut at the #
          hasText,     \* the message has a text part
          cli,         \* how far it is
          exit,        \* the exit class it ended with
          printed,     \* the text was printed
          cliSaysGone  \* its last error says that the server has deleted the message

cliVars == <<cliLink, hasText, cli, exit, printed, cliSaysGone>>

CliSteps == {"start", "pin", "waiting", "body", "text", "files", "ended"}
ExitClasses == {"ok", "usage", "network", "rejected", "unavailable", "decryption", "output"}

CliInit ==
  /\ cliLink \in {"whole", "cut"}
  /\ hasText \in (IF payload = <<>> THEN {TRUE} ELSE BOOLEAN)
  /\ cli = "start" /\ exit = None /\ printed = FALSE /\ cliSaysGone = FALSE

CliGoto(to) == cli' = to /\ UNCHANGED <<cliLink, hasText, exit, printed, cliSaysGone>>
Exit(class, saysGone) ==
  /\ cli' = "ended" /\ exit' = class /\ cliSaysGone' = saysGone
  /\ UNCHANGED <<cliLink, hasText, printed>>

\* ShareLink::parse: there is something after the #, and the rest is a message's URL.
LinkParses == cliLink # "cut"

\* The profile, the output directory, the link and the server's config: each may be refused.
Start ==
  /\ cli = "start"
  /\ \/ LinkParses /\ CliGoto("pin")
     \/ \E class \in {"usage", "output", "network"} : Exit(class, FALSE)
  /\ UNCHANGED <<exchangeVars, outVars>>

\* A PIN, asked again until it has six digits; without a terminal there is none.
EnterPin ==
  /\ cli = "pin"
  /\ \/ Ask(Cli) /\ CliGoto("waiting")
     \/ Exit("usage", FALSE) /\ UNCHANGED exchangeVars
  /\ UNCHANGED outVars

\* The connection fails or times out, with the request perhaps served.
RequestFails ==
  /\ cli = "waiting"
  /\ GiveUp(Cli) /\ Exit("network", FALSE)
  /\ UNCHANGED outVars

AnswerCli ==
  /\ cli = "waiting"
  /\ \/ Receive(Cli, 200) /\ CliGoto("body")
     \/ Receive(Cli, 403) /\ CliGoto("pin")
     \/ Receive(Cli, 404) /\ Exit("unavailable", FALSE)
     \/ Receive(Cli, 503) /\ Exit("rejected", FALSE)
  /\ UNCHANGED outVars

\* A failed download ends like a failed request.
OpenQuietly ==
  /\ cli = "body"
  /\ \/ Exit("network", FALSE)
     \/ Exit("decryption", TRUE)
     \/ CliGoto("text")
  /\ UNCHANGED <<exchangeVars, outVars>>

\* The body is cut short, or does not open, or opens.
OpenBody ==
  /\ cli = "body"
  /\ \/ Exit("network", TRUE)
     \/ Exit("decryption", TRUE)
     \/ CliGoto("text")
  /\ UNCHANGED <<exchangeVars, outVars>>

\* The text goes to stdout before any file is written.
WriteText ==
  /\ cli = "text"
  /\ IF hasText
     THEN \/ Exit("output", FALSE)
          \/ /\ cli' = "files" /\ printed' = TRUE
             /\ UNCHANGED <<cliLink, hasText, exit, cliSaysGone>>
     ELSE CliGoto("files")
  /\ UNCHANGED <<exchangeVars, outVars>>

\* The files are saved, or there are none.
SaveFiles ==
  /\ cli = "files"
  /\ \/ Save /\ payload # <<>> /\ UNCHANGED cliVars
     \/ payload = <<>> /\ Exit("ok", FALSE) /\ UNCHANGED outVars
     \/ SaveEnded /\ Exit(IF outStep = "saved" THEN "ok" ELSE "output", outStep = "quit")
        /\ UNCHANGED outVars
  /\ UNCHANGED exchangeVars

CliNext == Start \/ EnterPin \/ RequestFails \/ AnswerCli \/ OpenBody \/ WriteText \/ SaveFiles
=============================================================================
