---------------------------- MODULE BrowserSession ----------------------------
(***************************************************************************)
(* The session of one browser.  Its tabs share the refresh token in        *)
(* localStorage and the refresh cookie; each tab keeps an access token in  *)
(* memory and the user it shows.  A token is the account it was issued     *)
(* for: rotation issues a new refresh token and leaves the old one valid,  *)
(* so which of them is stored makes no difference.                         *)
(*                                                                         *)
(* Everything a tab asks of the server is a call: a chain of requests of   *)
(* one kind, where each request carries the token it was sent with and its *)
(* answer may come after anything else has happened.                       *)
(***************************************************************************)
EXTENDS Naturals

CONSTANTS
    Tab, Account,
    Cookies,     \* whether the browser keeps a cookie of the API's site
    MaxCalls,    \* calls begun, over all tabs
    MaxFaults    \* requests without an answer, or answered by an error

None == "none"
Kind == {"mount", "login", "register", "logout", "verify", "call"}

ASSUME SessionAssumption ==
    /\ None \notin Account
    /\ Cookies \in BOOLEAN
    /\ MaxCalls \in Nat /\ MaxFaults \in Nat

VARIABLES
    stored,     \* the refresh token in localStorage
    cookie,     \* the refresh_token cookie
    access,     \* accessToken of each tab
    user,       \* the user each tab shows
    loading,    \* AuthProvider's loading
    calls,      \* the calls a tab has begun, each with the request it waits for
    begun, faults,
    out,        \* the last thing that ended was a sign-out, not a sign-in
    loose,      \* something could outlive that sign-out
    mixed       \* an account signed in while the browser held another's token

shared == <<stored, cookie>>
history == <<out, loose, mixed>>
vars == <<shared, access, user, loading, calls, begun, faults, history>>

Token == Account \cup {None}

\* The request sent after a successful refresh.
AfterRefresh == [refresh |-> "me", meRefresh |-> "meRetry",
                 verifyRefresh |-> "verifyRetry", callRefresh |-> "callRetry"]
OnUnauthorized == [me |-> "meRefresh", verify |-> "verifyRefresh", call |-> "callRefresh"]
Refreshing == DOMAIN AfterRefresh
Step == Refreshing \cup {AfterRefresh[r] : r \in Refreshing}
        \cup {"login", "register", "logout", "verify", "call"}

Call(t, k, step, token) == [tab |-> t, kind |-> k, at |-> step, token |-> token]
Of(t, k) == {c \in calls : c.tab = t /\ c.kind = k}
Advance(c, d) == calls' = (calls \ {c}) \cup {d}
Return(c) == calls' = calls \ {c}

\* The body carries the stored token; without one the server reads the cookie.
RefreshToken == IF stored # None THEN stored ELSE cookie
Kept(a) == IF Cookies THEN a ELSE cookie

\* The accounts the browser is signed in as, in storage, a tab or a request;
\* until they are answered, a login and a registration only hold a password.
Held ==
    {stored, cookie} \cup {access[t] : t \in Tab} \cup {user[t] : t \in Tab}
    \cup {c.token : c \in {d \in calls : d.at \notin {"login", "register"}}}

\* A browser that may have been used before, with no tab loaded yet.
Init ==
    /\ stored \in Token /\ cookie = IF Cookies THEN stored ELSE None
    /\ access = [t \in Tab |-> None]
    /\ user = [t \in Tab |-> None]
    /\ loading = [t \in Tab |-> FALSE]
    /\ calls = {}
    /\ begun = 0 /\ faults = 0
    /\ out = FALSE /\ loose = FALSE /\ mixed = FALSE

-------------------------------------------------------------------------------
(* What the pages begin. *)

Count == begun < MaxCalls /\ begun' = begun + 1

\* The button of a form is disabled while its request is on its way.
Always(t, k) == TRUE
Enabled(t, k) == Of(t, k) = {}

Begin(t, k, step, token) ==
    /\ Count
    /\ Enabled(t, k)
    /\ calls' = calls \cup {Call(t, k, step, token)}

\* A document is loaded: memory starts afresh, requests of the previous one are
\* dropped, and AuthProvider's effect asks for the session.
LoadDocument(t, effects) ==
    /\ Count
    /\ access' = [access EXCEPT ![t] = None]
    /\ user' = [user EXCEPT ![t] = None]
    /\ loading' = [loading EXCEPT ![t] = TRUE]
    /\ calls' = {c \in calls : c.tab # t} \cup effects
                   \cup {Call(t, "mount", "refresh", RefreshToken)}
    /\ UNCHANGED <<shared, faults, history>>

OpenTab(t) == LoadDocument(t, {})

\* The link in a verification e-mail: the effect of its page posts the token of
\* the link at the same time.
OpenVerifyLink(t) == LoadDocument(t, {Call(t, "verify", "verify", None)})

\* The forms are there while loading, and until there is a user.
OnSubmitLogin(t, a) ==
    /\ user[t] = None /\ Of(t, "register") = {}
    /\ Begin(t, "login", "login", a)
    /\ UNCHANGED <<shared, access, user, loading, faults, history>>

OnSubmitRegister(t, a) ==
    /\ user[t] = None /\ Of(t, "login") = {}
    /\ Begin(t, "register", "register", a)
    /\ UNCHANGED <<shared, access, user, loading, faults, history>>

HandleLogout(t) ==
    /\ user[t] # None /\ ~loading[t]
    /\ Begin(t, "logout", "logout", access[t])
    /\ UNCHANGED <<shared, access, user, loading, faults, history>>

\* Any other request of a page.
PageRequest(t) ==
    /\ user[t] # None /\ ~loading[t]
    /\ Begin(t, "call", "call", access[t])
    /\ UNCHANGED <<shared, access, user, loading, faults, history>>

-------------------------------------------------------------------------------
(* Answers, to the request that call c waits for. *)

Fault == faults < MaxFaults /\ faults' = faults + 1

\* doRefresh: the token is accepted, both tokens are replaced and the call goes
\* on with the access token it was given.
Refreshed(c) ==
    /\ c.at \in Refreshing /\ c.token # None
    /\ stored' = c.token /\ cookie' = Kept(c.token)
    /\ access' = [access EXCEPT ![c.tab] = c.token]
    /\ Advance(c, [c EXCEPT !.at = AfterRefresh[c.at]])
    /\ UNCHANGED <<user, loading, begun, faults, history>>

\* How a call that asks for the user ends: refreshUser shows nobody when it
\* fails, login and register leave the user alone; the effect on mount ends
\* loading.
EndIfShown(c, shown) ==
    /\ user' = [user EXCEPT ![c.tab] =
           IF c.kind \in {"mount", "verify"} \/ shown # None THEN shown ELSE @]
    /\ loading' = [loading EXCEPT ![c.tab] = @ /\ ~(c.kind = "mount" /\ shown # None)]
    /\ Return(c)
EndWith(c, shown) ==
    /\ user' = [user EXCEPT ![c.tab] =
           IF c.kind \in {"mount", "verify"} \/ shown # None THEN shown ELSE @]
    /\ loading' = [loading EXCEPT ![c.tab] = @ /\ c.kind # "mount"]
    /\ Return(c)

\* doRefresh returns null.  apiFetch forgets the access token and throws, and
\* me() has no token left to read a user from.
RefreshFailed(c) ==
    /\ c.at \in Refreshing
    /\ (c.token = None /\ UNCHANGED faults) \/ Fault
    /\ access' = [access EXCEPT ![c.tab] = None]
    /\ \/ c.at \in {"refresh", "meRefresh"} /\ EndWith(c, None)
       \/ /\ c.at \in {"verifyRefresh", "callRefresh"}
          /\ Return(c)
          /\ UNCHANGED <<user, loading>>
    /\ UNCHANGED <<shared, begun, history>>

\* The server answers /auth/me by the user of the token.
ShowMe(c) ==
    /\ c.at \in {"me", "meRetry"} /\ c.token # None
    /\ EndWith(c, c.token)
    /\ UNCHANGED <<shared, access, begun, faults, history>>

\* me() failed otherwise: it reads the token the tab has by now.  The claims
\* are sub, exp and type, so all that is known of the user is the account.
ShowFallback(c) ==
    /\ c.at \in {"me", "meRetry"}
    /\ Fault
    /\ EndWith(c, access[c.tab])
    /\ UNCHANGED <<shared, access, begun, history>>

\* 401: the access token is missing or has expired, or the link has.
Unauthorized(c) ==
    /\ c.at \in DOMAIN OnUnauthorized
    /\ Advance(c, [c EXCEPT !.at = OnUnauthorized[c.at], !.token = RefreshToken])
    /\ UNCHANGED <<shared, access, user, loading, begun, faults, history>>

\* authApi.login is answered; login() then asks for the user.
SignedIn(c) ==
    /\ c.at = "login"
    /\ stored' = c.token /\ cookie' = Kept(c.token)
    /\ access' = [access EXCEPT ![c.tab] = c.token]
    /\ Advance(c, [c EXCEPT !.at = "me"])
    /\ out' = FALSE
    /\ mixed' = (mixed \/ \E a \in Held : a \notin {None, c.token})
    /\ UNCHANGED <<user, loading, begun, faults, loose>>

\* The account exists; the answer has no token, and setAccessToken clears it.
TokenOfAccount(c) == c.token
TokenOfAnswer(c) == None
Registered(c) ==
    /\ c.at = "register"
    /\ access' = [access EXCEPT ![c.tab] = TokenOfAnswer(c)]
    /\ Advance(c, [c EXCEPT !.at = "login"])
    /\ UNCHANGED <<shared, user, loading, begun, faults, history>>

\* Wrong password, name taken, too many attempts: the page says so.
SignInRefused(c) ==
    /\ c.at \in {"login", "register"}
    /\ Return(c)
    /\ UNCHANGED <<shared, access, user, loading, begun, faults, history>>

\* logout() clears the tokens whether or not the request succeeds; the user is
\* cleared, and the cookie deleted, only if it does.
ClearAccess(c) == stored' = stored /\ access' = [access EXCEPT ![c.tab] = None]
ClearTokens(c) == stored' = None /\ access' = [access EXCEPT ![c.tab] = None]
LoggedOut(c) ==
    /\ c.at = "logout"
    /\ ClearTokens(c)
    /\ \/ /\ cookie' = None
          /\ user' = [user EXCEPT ![c.tab] = None]
          /\ UNCHANGED faults
       \/ Fault /\ UNCHANGED <<cookie, user>>
    /\ Return(c)
    /\ out' = TRUE
    /\ loose' = (cookie' # None \/ \E d \in calls : d.at \in Refreshing /\ d.token # None)
    /\ UNCHANGED <<loading, begun, mixed>>

\* The link's token is good: the address is verified and the user asked for.
Verified(c) ==
    /\ c.at \in {"verify", "verifyRetry"}
    /\ Advance(c, Call(c.tab, "verify", "refresh", RefreshToken))
    /\ UNCHANGED <<shared, access, user, loading, begun, faults, history>>

\* The request is answered or refused, the link may have been used before.
Answered(c) ==
    /\ c.at \in {"call", "callRetry", "verify", "verifyRetry"}
    /\ Return(c)
    /\ UNCHANGED <<shared, access, user, loading, begun, faults, history>>

-------------------------------------------------------------------------------
Answer(c) ==
    \/ Refreshed(c) \/ RefreshFailed(c)
    \/ ShowMe(c) \/ ShowFallback(c) \/ Unauthorized(c)
    \/ SignedIn(c) \/ Registered(c) \/ SignInRefused(c) \/ LoggedOut(c)
    \/ Verified(c) \/ Answered(c)

Page(t) ==
    \/ OpenTab(t) \/ OpenVerifyLink(t) \/ HandleLogout(t) \/ PageRequest(t)
    \/ \E a \in Account : OnSubmitLogin(t, a) \/ OnSubmitRegister(t, a)

Next == (\E t \in Tab : Page(t)) \/ (\E c \in calls : Answer(c))

Spec == Init /\ [][Next]_vars

-------------------------------------------------------------------------------
(* Tokens, users and calls keep their shape; a tab makes one call of a kind   *)
(* at a time.                                                                 *)
TypeOK ==
    /\ stored \in Token /\ cookie \in Token
    /\ access \in [Tab -> Token]
    /\ user \in [Tab -> Token]
    /\ loading \in [Tab -> BOOLEAN]
    /\ \A c \in calls : c \in [tab : Tab, kind : Kind, at : Step, token : Token]
    /\ \A c, d \in calls : c.tab = d.tab /\ c.kind = d.kind => c = d
    /\ begun \in 0 .. MaxCalls /\ faults \in 0 .. MaxFaults
    /\ out \in BOOLEAN /\ loose \in BOOLEAN /\ mixed \in BOOLEAN

(* After a sign-out in any tab the browser holds no refresh token that could  *)
(* restore the session, in storage or as a cookie, until somebody signs in:   *)
(* unless the sign-out failed on the server and the cookie stayed, or a       *)
(* refresh was on its way, whose answer doRefresh stores.                     *)
SignOutLasts == (out /\ ~loose) => stored = None /\ cookie = None

(* A tab acts as the account it shows: the access token of its requests was   *)
(* issued to the user in its header, through reloads, refreshes and sign-ins  *)
(* of other tabs, unless an account signed in while another one's token was   *)
(* still held somewhere in the browser.                                       *)
ActsAsShown ==
    ~mixed => \A t \in Tab : user[t] # None /\ access[t] # None
                                 => access[t] = user[t]

(* The spinner of a page is there exactly while the request for the session   *)
(* that AuthProvider made on mounting is on its way: it always goes away.     *)
LoadingIsAwaited == \A t \in Tab : loading[t] <=> Of(t, "mount") # {}

(* What a tab shows of the session is so, and comes to be shown: the user in  *)
(* its header is the one it acts as, and its spinner goes away.               *)
ShownTruly == ActsAsShown /\ LoadingIsAwaited
===============================================================================
