------------------------------ MODULE EmailLinks ------------------------------
(***************************************************************************)
(* The pages of the e-mails about an account: the one a verification link  *)
(* opens, which is also where a new account waits for its link, the form a *)
(* reset link opens, the two forms that ask for an e-mail, and the banner  *)
(* that asks for a verification on every other page.                       *)
(*                                                                         *)
(* The verification page verifies and, at the same time, AuthProvider asks *)
(* for the user; both end by showing a user.                               *)
(***************************************************************************)
EXTENDS Naturals

CONSTANT MaxTries   \* requests begun by clicks

VARIABLES
    account,      \* the row of the user: verified, and its password
    queued,       \* the kinds of e-mail queued for the user
    linkPage,     \* the page that was opened
    linkGood,     \* the token of the link is accepted
    verifyState,  \* state of the verification page
    linkUser,     \* the user AuthProvider holds
    resending, resent,
    formDone,     \* done or sent, of the form on the page
    waiting,      \* the requests on their way, each with what it was answered
    tries,
    overtaken     \* the user was asked for before and shown after the verification

linkVars == <<account, queued, linkPage, linkGood, verifyState, linkUser, resending, resent,
              formDone, waiting, tries, overtaken>>

LinkPages == {"verify-email", "pending", "reset-password", "forgot", "other"}
NoUser == "nobody"

\* The answer to /auth/me, when the browser has a session.
VerifiedToken(verified) == IF verified THEN "verified" ELSE "unverified"

\* A user me() has read off the access token, which does not say whether the
\* address is verified, is taken for one who has not verified it.
FromToken == "decoded"
Unverified == linkUser \in {"unverified", FromToken}

Ask(what) == [what |-> what, reply |-> "none"]

LinkInit ==
    /\ account = [verified |-> FALSE, password |-> "old"]
    /\ queued = {}
    /\ linkPage \in LinkPages
    /\ linkGood \in BOOLEAN
    /\ verifyState = IF linkPage = "verify-email" THEN "loading" ELSE "pending"
    /\ linkUser = NoUser
    /\ resending = FALSE /\ resent = FALSE /\ formDone = FALSE
    /\ waiting = {Ask("mount")}
                 \cup (IF linkPage = "verify-email" THEN {Ask("verify")} ELSE {})
    /\ tries = 0
    /\ overtaken = FALSE

\* The banner of the navigation, which the pages about accounts do not have.
BannerShown == linkPage = "other" /\ Unverified

\* A button to send another link: on the verification page after a failure or
\* while waiting, in the banner elsewhere.
ResendOffered ==
    /\ linkUser # NoUser /\ ~resent /\ ~resending
    /\ \/ linkPage = "verify-email" /\ verifyState = "error" /\ Unverified
       \/ linkPage = "pending"
       \/ BannerShown

HandleResend ==
    /\ tries < MaxTries
    /\ ResendOffered
    /\ resending' = TRUE
    /\ waiting' = waiting \cup {Ask("resend")}
    /\ tries' = tries + 1
    /\ UNCHANGED <<account, queued, linkPage, linkGood, verifyState, linkUser, resent, formDone,
                   overtaken>>

\* A form's isSubmitting keeps a second click off.
SubmitForm(what) ==
    /\ tries < MaxTries /\ tries' = tries + 1
    /\ ~formDone
    /\ ~\E r \in waiting : r.what = what
    /\ waiting' = waiting \cup {Ask(what)}
    /\ UNCHANGED <<account, queued, linkPage, linkGood, verifyState, linkUser, resending, resent,
                   formDone, overtaken>>

SubmitReset == linkPage = "reset-password" /\ SubmitForm("reset")

\* One form for two: a forgotten name, a forgotten password.
SubmitForgot == linkPage = "forgot" /\ SubmitForm("forgot")

\* The link is followed in another tab, or by the mail program.
VerifiedElsewhere ==
    /\ linkGood /\ ~account.verified
    /\ account' = [account EXCEPT !.verified = TRUE]
    /\ UNCHANGED <<queued, linkPage, linkGood, verifyState, linkUser, resending, resent, formDone,
                   waiting, tries, overtaken>>

Reply(r, reply) == waiting' = (waiting \ {r}) \cup {[r EXCEPT !.reply = reply]}

\* refreshUser asks twice, for a token and with it for the user.  When the token is
\* refused nobody is signed in; when only the second fails, the token is decoded.
ServerAnswers(r) ==
    /\ r.reply = "none"
    /\ CASE r.what \in {"mount", "show"} ->
                /\ \E user \in {VerifiedToken(account.verified), FromToken, NoUser} : Reply(r, user)
                /\ UNCHANGED <<account, queued>>
         [] r.what = "verify" ->
                /\ IF ~linkGood THEN Reply(r, "failed")
                   ELSE IF account.verified THEN Reply(r, "already") ELSE Reply(r, "ok")
                /\ account' = [account EXCEPT !.verified = @ \/ linkGood]
                /\ UNCHANGED queued
         [] r.what = "resend" ->
                /\ IF account.verified THEN Reply(r, "already") ELSE Reply(r, "ok")
                /\ queued' = IF account.verified THEN queued ELSE queued \cup {"verification"}
                /\ UNCHANGED account
         [] r.what = "reset" ->
                /\ IF linkGood THEN Reply(r, "ok") ELSE Reply(r, "failed")
                /\ account' = [account EXCEPT !.password = IF linkGood THEN "new" ELSE @]
                /\ UNCHANGED queued
         [] OTHER ->
                /\ Reply(r, "ok")
                /\ queued' = queued \cup {"recovery"}
                /\ UNCHANGED account
    /\ UNCHANGED <<linkPage, linkGood, verifyState, linkUser, resending, resent, formDone, tries,
                   overtaken>>

\* No answer, after the request was carried out or before.
AnswerLost(r) ==
    /\ r.what \notin {"mount", "show"} /\ r.reply \in {"none", "ok"}
    /\ Reply(r, "failed")
    /\ UNCHANGED <<account, queued, linkPage, linkGood, verifyState, linkUser, resending, resent,
                   formDone, tries, overtaken>>

\* refreshUser has its answer: the user is shown, whichever call came first.
UserShown(r) ==
    /\ r.what \in {"mount", "show"} /\ r.reply # "none"
    /\ linkUser' = r.reply
    /\ verifyState' = IF r.what = "show" THEN "success" ELSE verifyState
    /\ overtaken' = (overtaken \/ (r.what = "mount" /\ r.reply = "unverified" /\ account.verified))
    /\ waiting' = waiting \ {r}
    /\ UNCHANGED <<account, queued, linkPage, linkGood, resending, resent, formDone, tries>>

\* What the verification page says after its request: any failure whose message
\* does not contain "already" is an error.
AlreadyIsAnError(reply) == IF reply = "failed" THEN "already_verified" ELSE "error"
AfterFailure(reply) == IF reply = "already" THEN "already_verified" ELSE "error"

\* The page awaits refreshUser before it says anything else.
NotAwaited == "success"
WhileShowing == verifyState

VerificationHeard(r) ==
    /\ r.what = "verify" /\ r.reply # "none"
    /\ IF r.reply = "ok"
       THEN waiting' = (waiting \ {r}) \cup {Ask("show")} /\ verifyState' = WhileShowing
       ELSE waiting' = waiting \ {r} /\ verifyState' = AfterFailure(r.reply)
    /\ UNCHANGED <<account, queued, linkPage, linkGood, linkUser, resending, resent, formDone,
                   tries, overtaken>>

ClickHeard(r) ==
    /\ r.what \in {"resend", "reset", "forgot"} /\ r.reply # "none"
    /\ waiting' = waiting \ {r}
    /\ IF r.what = "resend"
       THEN /\ resending' = FALSE
            /\ resent' = (r.reply = "ok")
            /\ UNCHANGED formDone
       ELSE /\ formDone' = (r.reply = "ok")
            /\ UNCHANGED <<resending, resent>>
    /\ UNCHANGED <<account, queued, linkPage, linkGood, verifyState, linkUser, tries, overtaken>>

LinkNext ==
    \/ HandleResend \/ SubmitReset \/ SubmitForgot \/ VerifiedElsewhere
    \/ \E r \in waiting :
          ServerAnswers(r) \/ AnswerLost(r) \/ UserShown(r) \/ VerificationHeard(r) \/ ClickHeard(r)

LinkSpec == LinkInit /\ [][LinkNext]_linkVars

-------------------------------------------------------------------------------
(* What the pages claim has happened: an address said to be confirmed, before *)
(* or now, is; a password said to be updated was; an e-mail said to be sent   *)
(* is in the queue.  Lost answers, links used twice or expired, and links     *)
(* followed elsewhere at the same time do not make a page claim more.         *)
ClaimsHold ==
    /\ verifyState \in {"success", "already_verified"} => account.verified
    /\ resent => "verification" \in queued
    /\ formDone => CASE linkPage = "forgot" -> "recovery" \in queued
                     [] OTHER -> account.password = "new"

(* Once the page has verified the address and shown the user, the user it     *)
(* shows is verified, so the banner that asks for it is gone on the next      *)
(* page; unless the user AuthProvider asked for when the page opened, read    *)
(* before the verification, arrives last, or the question for the user has    *)
(* failed and the one shown was decoded from the token: the page then says    *)
(* that the address is confirmed, and the banner asks to confirm it.          *)
BannerGoes == verifyState = "success" /\ Unverified => overtaken \/ linkUser = FromToken

(* The pages behind the links tell what happened, and no more: what they say  *)
(* was done was done, and what was done is no longer asked for.               *)
LinksTold == ClaimsHold /\ BannerGoes
===============================================================================
