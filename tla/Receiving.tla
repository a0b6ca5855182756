----------------------------- MODULE Receiving -----------------------------
(***************************************************************************)
(* The receiving side as a whole: pages and a command line after the same  *)
(* message, the network and the server between them, and the directories   *)
(* that the command line writes to while other processes use them.         *)
(***************************************************************************)
EXTENDS RetrievePage, CliGet

ASSUME ReceivingAssumption == Clients = Pages \cup {Cli} /\ Cli \notin Pages /\ Nobody \notin Clients

vars == <<exchangeVars, pageVars, cliVars, outVars>>

Init == ExchangeInit /\ PageInit /\ OutInit /\ CliInit

Next ==
  \/ PageNext /\ UNCHANGED <<cliVars, outVars>>
  \/ CliNext /\ UNCHANGED pageVars
  \/ (Serve \/ Expire \/ Lose) /\ UNCHANGED <<pageVars, cliVars, outVars>>
  \/ cli = "files" /\ Interfere /\ UNCHANGED <<exchangeVars, pageVars, cliVars>>

Spec == Init /\ [][Next]_vars

-----------------------------------------------------------------------------
\* The types of the clients and of what is between them and the server; and OutTypeOK.
ReceivingTypeOK ==
  /\ message \in {"stored", "opened", "gone"} /\ wrong \in 0..MaxFailed
  /\ wrong = MaxFailed => message = "gone"
  /\ attempt \in [Clients -> 0..MaxAttempts]
  /\ opener \in Clients \cup {Nobody} /\ heard \subseteq {opener}
  /\ page \in [Pages -> PageSteps] /\ cli \in CliSteps /\ exit \in ExitClasses \cup {None}
  /\ OutTypeOK

Has(c) == IF c = Cli THEN printed \/ wrote # <<>> ELSE page[c] = "shown"
SaysGone(c) == IF c = Cli THEN cliSaysGone ELSE c \in PageSaysGone
Ended(c) == IF c = Cli THEN cli = "ended" ELSE page[c] \in PageDone
MayAskAgain(c) == IF c = Cli THEN cli \in {"start", "pin", "waiting"}
                             ELSE page[c] \in {"ready", "fetching"}

\* What a recipient is told is true, whatever was lost: it is told that the server has deleted
\* the message, and is shown it, only if its own request has opened it; it can ask again until
\* it has seen a 200 and never after; once it has seen one it does not end without showing
\* something, saying that the message is gone, or failing to write what it got; and a link
\* whose fragment was lost on its way cannot cost the message.
ToldTheTruth ==
  /\ \A c \in Clients :
       /\ Has(c) \/ SaysGone(c) => opener = c /\ message = "opened"
       /\ c \in heard => opener = c /\ ~MayAskAgain(c)
       /\ c \in heard /\ Ended(c) => Has(c) \/ SaysGone(c) \/ (c = Cli /\ exit = "output")
  /\ opener \in Pages => pageLink[opener] # "cut"
  /\ opener = Cli => cliLink # "cut"
=============================================================================
