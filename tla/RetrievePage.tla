---------------------------- MODULE RetrievePage ----------------------------
(***************************************************************************)
(* The retrieve page (retrieve-page.js): its form, the fetch, and what it  *)
(* tells the recipient when something on the way is lost.  A PIN without   *)
(* six digits only changes the hint, and is left out.                      *)
(***************************************************************************)
EXTENDS Exchange

CONSTANTS Pages

VARIABLES pageLink,    \* whole, or cut: nothing after the #
          page         \* how far each page is

pageVars == <<pageLink, page>>

\* A ready page shows the form.  The others hide or disable it.
PageSteps == {"blocked", "ready", "fetching", "receiving", "shown", "lost", "unreadable"}
PageDone == {"blocked", "shown", "lost", "unreadable"}
PageSaysGone == {p \in Pages : page[p] \in {"lost", "unreadable"}}

\* The script runs when the page has loaded.
PageInit ==
  /\ pageLink \in [Pages -> {"whole", "cut"}]
  /\ page = [p \in Pages |-> IF pageLink[p] = "cut" THEN "blocked" ELSE "ready"]

PageGoto(p, to) == page' = [page EXCEPT ![p] = to] /\ UNCHANGED pageLink

Submit(p) ==
  /\ page[p] = "ready"
  /\ Ask(p)
  /\ PageGoto(p, "fetching")

\* No answer: "try again", although the request may still be on its way or have been served.
FetchFails(p) ==
  /\ page[p] = "fetching"
  /\ GiveUp(p)
  /\ PageGoto(p, "ready")

\* With a 200 the form goes for good; any other answer brings it back.
AnswerPage(p) ==
  /\ page[p] = "fetching"
  /\ \E status \in {200, 403, 404, 503} :
       Receive(p, status) /\ PageGoto(p, IF status = 200 THEN "receiving" ELSE "ready")

\* The body is cut short, or arrives; then it opens, or it is damaged or not for this link.
Render(p) ==
  /\ page[p] = "receiving"
  /\ \E to \in {"lost", "shown", "unreadable"} : PageGoto(p, to)
  /\ UNCHANGED exchangeVars

PageNext == \E p \in Pages : Submit(p) \/ FetchFails(p) \/ AnswerPage(p) \/ Render(p)
=============================================================================
