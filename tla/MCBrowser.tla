------------------------------- MODULE MCBrowser ------------------------------
(***************************************************************************)
(* Who is signed in, and where links lead: the session of the browser, the *)
(* routes, and the pages behind the links in e-mails.  One of the three is *)
(* followed at a time, chosen once; the states of the others are fixed.    *)
(***************************************************************************)
EXTENDS BrowserSession, Navigation, EmailLinks, TLC

CONSTANTS t1, t2, a1, a2

VARIABLE page

BrowserSymmetry == Permutations({t1, t2}) \cup Permutations({a1, a2})

Pages == {"session", "navigation", "links"}

BrowserInit ==
    /\ page \in Pages
    /\ page = "session" \/ stored = None
    /\ page = "navigation" \/ visitor = Visitor
    /\ page = "links" \/ (linkPage = "other" /\ linkGood = FALSE)
    /\ Init /\ NavInit /\ LinkInit

BrowserNext ==
    /\ UNCHANGED page
    /\ IF page = "session" THEN Next ELSE UNCHANGED vars
    /\ IF page = "navigation" THEN NavNext ELSE UNCHANGED navVars
    /\ IF page = "links" THEN LinkNext ELSE UNCHANGED linkVars

BrowserSpec ==
    BrowserInit
    /\ [][BrowserNext]_<<page, vars, navVars, linkVars>>
===============================================================================
