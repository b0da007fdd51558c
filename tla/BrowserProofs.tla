---------------------------- MODULE BrowserProofs -----------------------------
(***************************************************************************)
(* Proofs about who is signed in and where links lead: the session of a    *)
(* browser, for every number of tabs and accounts and any number of calls  *)
(* and failed requests; the routes; and the pages behind the links in      *)
(* e-mails.                                                                *)
(***************************************************************************)
EXTENDS MCBrowser, TLAPS

-------------------------------------------------------------------------------
(* The session of a browser. *)

\* The requests a call of each kind is made of.
AsksForUser == {"me", "meRefresh", "meRetry"}
StepsOf ==
    [mount |-> {"refresh"} \cup AsksForUser,
     login |-> {"login"} \cup AsksForUser,
     register |-> {"register", "login"} \cup AsksForUser,
     logout |-> {"logout"},
     verify |-> {"verify", "verifyRefresh", "verifyRetry", "refresh"} \cup AsksForUser,
     call |-> {"call", "callRefresh", "callRetry"}]

CallsInOrder == \A c \in calls : c.at \in StepsOf[c.kind]

\* Once a sign-out lasts, no request could undo it.
NothingReturns ==
    (out /\ ~loose) =>
        /\ stored = None /\ cookie = None
        /\ \A c \in calls : c.at \in Refreshing => c.token = None

\* The browser holds the tokens of one account.
OneAccount == ~mixed => \A a, b \in Held : a # None /\ b # None => a = b

SessionInv == TypeOK /\ CallsInOrder /\ NothingReturns /\ OneAccount /\ LoadingIsAwaited

-------------------------------------------------------------------------------
LEMMA StepsKnown ==
    /\ Refreshing = {"refresh", "meRefresh", "verifyRefresh", "callRefresh"}
    /\ Step = {"refresh", "meRefresh", "verifyRefresh", "callRefresh",
               "me", "meRetry", "verifyRetry", "callRetry",
               "login", "register", "logout", "verify", "call"}
    /\ DOMAIN OnUnauthorized = {"me", "verify", "call"}
    /\ \A s \in Refreshing : AfterRefresh[s] \in Step
    /\ \A s \in DOMAIN OnUnauthorized : OnUnauthorized[s] \in Refreshing
  BY DEF Refreshing, Step, AfterRefresh, OnUnauthorized

\* What a call goes on with belongs to its kind.
LEMMA StepsFollow ==
    ASSUME NEW k \in Kind, NEW s \in StepsOf[k]
    PROVE  /\ s \in Step
           /\ s \in Refreshing => AfterRefresh[s] \in StepsOf[k]
           /\ s \in DOMAIN OnUnauthorized => OnUnauthorized[s] \in StepsOf[k]
           /\ s = "login" => "me" \in StepsOf[k]
           /\ s = "register" => "login" \in StepsOf[k]
           /\ s \in {"verify", "verifyRefresh", "verifyRetry"} => k = "verify"
           /\ s \in {"call", "callRefresh", "callRetry"} => k = "call"
           /\ s \in {"login", "register"} => k \in {"login", "register"}
           /\ s = "logout" => k = "logout"
  BY DEF StepsOf, Kind, Step, AsksForUser, AfterRefresh, OnUnauthorized, Refreshing

\* A call is what it was made from.
LEMMA CallIs ==
    ASSUME NEW t \in Tab, NEW k \in Kind, NEW s \in Step, NEW a \in Token
    PROVE  /\ Call(t, k, s, a) \in [tab : Tab, kind : Kind, at : Step, token : Token]
           /\ Call(t, k, s, a).tab = t /\ Call(t, k, s, a).kind = k
           /\ Call(t, k, s, a).at = s /\ Call(t, k, s, a).token = a
  BY DEF Call

CallShape == [tab : Tab, kind : Kind, at : Step, token : Token]

\* A call that takes the place of another of its tab and kind.
LEMMA Replaced ==
    ASSUME TypeOK, CallsInOrder, NEW c \in calls, NEW d \in CallShape,
           d.tab = c.tab, d.kind = c.kind, d.at \in StepsOf[d.kind], Advance(c, d)
    PROVE  /\ \A e \in calls' : e \in CallShape /\ e.at \in StepsOf[e.kind]
           /\ \A e, f \in calls' : e.tab = f.tab /\ e.kind = f.kind => e = f
           /\ \A t, k : (\E e \in calls' : e.tab = t /\ e.kind = k)
                            <=> (\E e \in calls : e.tab = t /\ e.kind = k)
  BY DEF TypeOK, CallsInOrder, Advance, CallShape

\* A call that ends.
LEMMA Ended ==
    ASSUME TypeOK, CallsInOrder, NEW c \in calls, Return(c)
    PROVE  /\ \A e \in calls' : e \in CallShape /\ e.at \in StepsOf[e.kind]
           /\ \A e, f \in calls' : e.tab = f.tab /\ e.kind = f.kind => e = f
           /\ \A t, k : (\E e \in calls' : e.tab = t /\ e.kind = k)
                            <=> /\ \E e \in calls : e.tab = t /\ e.kind = k
                                /\ ~(t = c.tab /\ k = c.kind)
  BY DEF TypeOK, CallsInOrder, Return, CallShape

\* A call that begins beside those of other kinds.
LEMMA Begun ==
    ASSUME TypeOK, CallsInOrder, NEW t \in Tab, NEW k \in Kind, NEW s \in StepsOf[k],
           NEW a \in Token, Begin(t, k, s, a)
    PROVE  /\ \A e \in calls' : e \in CallShape /\ e.at \in StepsOf[e.kind]
           /\ \A e, f \in calls' : e.tab = f.tab /\ e.kind = f.kind => e = f
           /\ calls' = calls \cup {Call(t, k, s, a)}
           /\ begun' \in 0 .. MaxCalls
  <1>1. s \in Step
    BY StepsFollow
  <1>2. Enabled(t, k) /\ calls' = calls \cup {Call(t, k, s, a)}
    BY DEF Begin
  <1>3. \A e \in calls : ~(e.tab = t /\ e.kind = k)
    BY <1>2 DEF Enabled, Of
  <1>4. begun' \in 0 .. MaxCalls
    BY SessionAssumption DEF Begin, Count, SessionAssumption, TypeOK
  <1>5. QED
    BY <1>1, <1>2, <1>3, <1>4, CallIs DEF TypeOK, CallsInOrder, CallShape

LEMMA TokensTyped ==
    ASSUME TypeOK
    PROVE  RefreshToken \in Token /\ \A a \in Token : Kept(a) \in Token
  BY DEF TypeOK, RefreshToken, Kept

\* A document that is loaded drops the calls of the one before.
LEMMA Loaded ==
    ASSUME TypeOK, CallsInOrder, LoadingIsAwaited, NEW t \in Tab,
           NEW effects \in {{}, {Call(t, "verify", "verify", None)}},
           LoadDocument(t, effects)
    PROVE  TypeOK' /\ CallsInOrder' /\ LoadingIsAwaited'
  <1>1. begun' \in 0 .. MaxCalls
    BY SessionAssumption DEF LoadDocument, Count, SessionAssumption, TypeOK
  <1> DEFINE m == Call(t, "mount", "refresh", RefreshToken)
             v == Call(t, "verify", "verify", None)
  <1>2. /\ m \in CallShape /\ m.tab = t /\ m.kind = "mount" /\ m.at = "refresh"
        /\ v \in CallShape /\ v.tab = t /\ v.kind = "verify" /\ v.at = "verify"
    <2>1. "refresh" \in Step /\ "verify" \in Step
      BY StepsKnown
    <2>2. "mount" \in Kind /\ "verify" \in Kind
      BY DEF Kind
    <2>3. RefreshToken \in Token /\ None \in Token
      BY TokensTyped DEF Token
    <2>4. /\ m \in [tab : Tab, kind : Kind, at : Step, token : Token]
          /\ m.tab = t /\ m.kind = "mount" /\ m.at = "refresh"
      BY <2>1, <2>2, <2>3, CallIs
    <2>5. /\ v \in [tab : Tab, kind : Kind, at : Step, token : Token]
          /\ v.tab = t /\ v.kind = "verify" /\ v.at = "verify"
      BY <2>1, <2>2, <2>3, CallIs
    <2>6. QED
      BY <2>4, <2>5 DEF CallShape
  <1>3. m.at \in StepsOf[m.kind] /\ v.at \in StepsOf[v.kind]
    BY <1>2 DEF StepsOf
  <1>4. \A e \in calls' : (e \in calls /\ e.tab # t) \/ e = m \/ (e = v /\ v \in effects)
    BY DEF LoadDocument
  <1>5. m \in calls' /\ \A e \in calls : e.tab # t => e \in calls'
    BY DEF LoadDocument
  <1> HIDE DEF m, v
  <1>6. TypeOK'
    BY <1>1, <1>2, <1>4, <1>5 DEF TypeOK, LoadDocument, CallShape, shared, history, Token
  <1>7. CallsInOrder'
    BY <1>3, <1>4 DEF CallsInOrder
  <1>8. \A u \in Tab : loading'[u] = IF u = t THEN TRUE ELSE loading[u]
    BY DEF LoadDocument, TypeOK
  <1>9. \A u \in Tab : (Of(u, "mount") # {})' <=> (u = t \/ Of(u, "mount") # {})
    BY <1>2, <1>4, <1>5 DEF Of
  <1>10. QED
    BY <1>6, <1>7, <1>8, <1>9 DEF LoadingIsAwaited

\* A call of a page begins; the tokens and what is shown stay.
LEMMA BegunTyped ==
    ASSUME TypeOK, CallsInOrder, LoadingIsAwaited,
           NEW t \in Tab, NEW k \in Kind, NEW s \in StepsOf[k], NEW a \in Token,
           k # "mount", Begin(t, k, s, a),
           UNCHANGED <<shared, access, user, loading, faults, history>>
    PROVE  TypeOK' /\ CallsInOrder' /\ LoadingIsAwaited'
  <1>1. /\ \A e \in calls' : e \in CallShape /\ e.at \in StepsOf[e.kind]
        /\ \A e, f \in calls' : e.tab = f.tab /\ e.kind = f.kind => e = f
        /\ calls' = calls \cup {Call(t, k, s, a)}
        /\ begun' \in 0 .. MaxCalls
    BY Begun
  <1>2. TypeOK' /\ CallsInOrder'
    BY <1>1 DEF TypeOK, CallsInOrder, CallShape, shared, history
  <1>3. Call(t, k, s, a).kind # "mount"
    BY DEF Call
  <1>4. \A u \in Tab : Of(u, "mount")' = Of(u, "mount")
    BY <1>1, <1>3 DEF Of
  <1>5. QED
    BY <1>2, <1>4 DEF LoadingIsAwaited

\* A call goes on; it is a mount exactly if it was one.
LEMMA AdvancedTyped ==
    ASSUME TypeOK, CallsInOrder, LoadingIsAwaited, NEW c \in calls, NEW d \in CallShape,
           d.tab = c.tab, d.kind = c.kind, d.at \in StepsOf[d.kind], Advance(c, d),
           stored' \in Token, cookie' \in Token, access' \in [Tab -> Token],
           out' \in BOOLEAN, mixed' \in BOOLEAN,
           UNCHANGED <<user, loading, begun, faults, loose>>
    PROVE  TypeOK' /\ CallsInOrder' /\ LoadingIsAwaited'
  <1>1. /\ \A e \in calls' : e \in CallShape /\ e.at \in StepsOf[e.kind]
        /\ \A e, f \in calls' : e.tab = f.tab /\ e.kind = f.kind => e = f
        /\ \A t, k : (\E e \in calls' : e.tab = t /\ e.kind = k)
                         <=> (\E e \in calls : e.tab = t /\ e.kind = k)
    BY Replaced
  <1>2. TypeOK' /\ CallsInOrder'
    BY <1>1 DEF TypeOK, CallsInOrder, CallShape
  <1>3. \A u \in Tab : (Of(u, "mount") # {})' <=> Of(u, "mount") # {}
    BY <1>1 DEF Of
  <1>4. QED
    BY <1>2, <1>3 DEF LoadingIsAwaited

\* A call ends; if it is a mount, the spinner of its tab goes away with it.
LEMMA EndedTyped ==
    ASSUME TypeOK, CallsInOrder, LoadingIsAwaited, NEW c \in calls, Return(c),
           stored' \in Token, cookie' \in Token,
           access' \in [Tab -> Token], user' \in [Tab -> Token],
           loading' = [loading EXCEPT ![c.tab] = @ /\ c.kind # "mount"],
           faults' \in 0 .. MaxFaults, out' \in BOOLEAN, loose' \in BOOLEAN,
           UNCHANGED <<begun, mixed>>
    PROVE  TypeOK' /\ CallsInOrder' /\ LoadingIsAwaited'
  <1>1. /\ \A e \in calls' : e \in CallShape /\ e.at \in StepsOf[e.kind]
        /\ \A e, f \in calls' : e.tab = f.tab /\ e.kind = f.kind => e = f
        /\ \A t, k : (\E e \in calls' : e.tab = t /\ e.kind = k)
                         <=> /\ \E e \in calls : e.tab = t /\ e.kind = k
                             /\ ~(t = c.tab /\ k = c.kind)
    BY Ended
  <1>2. TypeOK' /\ CallsInOrder'
    BY <1>1 DEF TypeOK, CallsInOrder, CallShape
  <1>3. \A u \in Tab : (Of(u, "mount") # {})'
                          <=> Of(u, "mount") # {} /\ ~(u = c.tab /\ c.kind = "mount")
    <2>1. \A u \in Tab : Of(u, "mount") # {} <=> \E e \in calls : e.tab = u /\ e.kind = "mount"
      BY DEF Of
    <2>2. \A u \in Tab : (Of(u, "mount") # {})'
                            <=> \E e \in calls' : e.tab = u /\ e.kind = "mount"
      BY DEF Of
    <2>3. \A u \in Tab : (\E e \in calls' : e.tab = u /\ e.kind = "mount")
                            <=> /\ \E e \in calls : e.tab = u /\ e.kind = "mount"
                                /\ ~(u = c.tab /\ "mount" = c.kind)
      BY <1>1
    <2>4. QED
      BY <2>1, <2>2, <2>3
  <1>4. \A u \in Tab : loading'[u] <=> loading[u] /\ ~(u = c.tab /\ c.kind = "mount")
    BY DEF TypeOK
  <1>5. QED
    BY <1>2, <1>3, <1>4 DEF LoadingIsAwaited

LEMMA FaultTyped ==
    ASSUME TypeOK, Fault PROVE faults' \in 0 .. MaxFaults
  BY SessionAssumption DEF Fault, SessionAssumption, TypeOK

\* What the answers do.
LEMMA AnswerTyped ==
    ASSUME TypeOK, CallsInOrder, LoadingIsAwaited, NEW c \in calls, Answer(c)
    PROVE  TypeOK' /\ CallsInOrder' /\ LoadingIsAwaited'
  <1> DEFINE Goal == TypeOK' /\ CallsInOrder' /\ LoadingIsAwaited'
  <1>1. /\ c \in CallShape /\ c.at \in StepsOf[c.kind]
        /\ c.tab \in Tab /\ c.kind \in Kind /\ c.at \in Step /\ c.token \in Token
    BY DEF TypeOK, CallsInOrder, CallShape
  <1>2. /\ c.at \in Refreshing => AfterRefresh[c.at] \in StepsOf[c.kind]
        /\ c.at \in DOMAIN OnUnauthorized => OnUnauthorized[c.at] \in StepsOf[c.kind]
        /\ c.at = "login" => "me" \in StepsOf[c.kind]
        /\ c.at = "register" => "login" \in StepsOf[c.kind]
        /\ c.at \in {"verify", "verifyRefresh", "verifyRetry"} => c.kind = "verify"
        /\ c.at \in {"call", "callRefresh", "callRetry"} => c.kind = "call"
        /\ c.at \in {"login", "register"} => c.kind \in {"login", "register"}
        /\ c.at = "logout" => c.kind = "logout"
    BY <1>1, StepsFollow
  <1>3. RefreshToken \in Token /\ Kept(c.token) \in Token /\ None \in Token
    BY <1>1, TokensTyped DEF Token
  <1>4. ASSUME NEW s \in StepsOf[c.kind]
        PROVE  /\ [c EXCEPT !.at = s] \in CallShape
               /\ [c EXCEPT !.at = s].at = s
               /\ [c EXCEPT !.at = s].tab = c.tab
               /\ [c EXCEPT !.at = s].kind = c.kind
    <2>1. s \in Step
      BY <1>1, StepsFollow
    <2>2. QED
      BY <1>1, <2>1 DEF CallShape
  <1>5. /\ stored \in Token /\ cookie \in Token
        /\ access \in [Tab -> Token] /\ user \in [Tab -> Token] /\ loading \in [Tab -> BOOLEAN]
        /\ faults \in 0 .. MaxFaults
        /\ out \in BOOLEAN /\ loose \in BOOLEAN /\ mixed \in BOOLEAN
    BY DEF TypeOK
  <1>6. CASE Refreshed(c)
    <2>1. AfterRefresh[c.at] \in StepsOf[c.kind]
      BY <1>2, <1>6 DEF Refreshed
    <2>2. stored' \in Token /\ cookie' \in Token /\ access' \in [Tab -> Token]
      BY <1>1, <1>3, <1>5, <1>6 DEF Refreshed
    <2>3. Advance(c, [c EXCEPT !.at = AfterRefresh[c.at]])
      BY <1>6 DEF Refreshed
    <2>4. /\ UNCHANGED <<user, loading, begun, faults, loose>>
          /\ out' \in BOOLEAN /\ mixed' \in BOOLEAN
      BY <1>5, <1>6 DEF Refreshed, history
    <2>5. QED
      BY <1>4, <2>1, <2>2, <2>3, <2>4, AdvancedTyped
  <1>7. ASSUME NEW shown \in Token, EndWith(c, shown)
        PROVE  /\ user' \in [Tab -> Token] /\ Return(c)
               /\ loading' = [loading EXCEPT ![c.tab] = @ /\ c.kind # "mount"]
    BY <1>1, <1>5, <1>7 DEF EndWith
  <1>8. CASE RefreshFailed(c)
    <2>1. /\ faults' \in 0 .. MaxFaults
          /\ access' \in [Tab -> Token] /\ stored' \in Token /\ cookie' \in Token
          /\ out' \in BOOLEAN /\ loose' \in BOOLEAN /\ UNCHANGED <<begun, mixed>>
      BY <1>3, <1>5, <1>8, FaultTyped DEF RefreshFailed, shared, history
    <2>2. CASE EndWith(c, None)
      BY <1>3, <1>7, <2>1, <2>2, EndedTyped
    <2>3. CASE c.at \in {"verifyRefresh", "callRefresh"} /\ Return(c) /\ UNCHANGED <<user, loading>>
      <3>1. c.kind # "mount"
        BY <1>2, <2>3
      <3>2. loading' = [loading EXCEPT ![c.tab] = @ /\ c.kind # "mount"]
        BY <1>1, <1>5, <2>3, <3>1
      <3>3. QED
        BY <1>5, <2>1, <2>3, <3>2, EndedTyped
    <2>4. QED
      BY <1>8, <2>2, <2>3 DEF RefreshFailed
  <1>9. CASE ShowMe(c)
    <2>1. /\ faults' \in 0 .. MaxFaults
          /\ access' \in [Tab -> Token] /\ stored' \in Token /\ cookie' \in Token
          /\ out' \in BOOLEAN /\ loose' \in BOOLEAN /\ UNCHANGED <<begun, mixed>>
          /\ EndWith(c, c.token)
      BY <1>5, <1>9 DEF ShowMe, shared, history
    <2>2. QED
      BY <1>1, <1>7, <2>1, EndedTyped
  <1>10. CASE ShowFallback(c)
    <2>1. /\ faults' \in 0 .. MaxFaults
          /\ access' \in [Tab -> Token] /\ stored' \in Token /\ cookie' \in Token
          /\ out' \in BOOLEAN /\ loose' \in BOOLEAN /\ UNCHANGED <<begun, mixed>>
          /\ EndWith(c, access[c.tab]) /\ access[c.tab] \in Token
      BY <1>1, <1>5, <1>10, FaultTyped DEF ShowFallback, shared, history
    <2>2. QED
      BY <1>7, <2>1, EndedTyped
  <1>11. CASE Unauthorized(c)
    <2> DEFINE d == [c EXCEPT !.at = OnUnauthorized[c.at], !.token = RefreshToken]
    <2>1. OnUnauthorized[c.at] \in StepsOf[c.kind]
      BY <1>2, <1>11 DEF Unauthorized
    <2>2. OnUnauthorized[c.at] \in Step
      BY <1>1, <2>1, StepsFollow
    <2>3. /\ d \in CallShape /\ d.at = OnUnauthorized[c.at]
          /\ d.tab = c.tab /\ d.kind = c.kind
      BY <1>1, <1>3, <2>2 DEF CallShape
    <2>4. /\ Advance(c, d) /\ UNCHANGED <<user, loading, begun, faults, loose>>
          /\ stored' \in Token /\ cookie' \in Token /\ access' \in [Tab -> Token]
          /\ out' \in BOOLEAN /\ mixed' \in BOOLEAN
      BY <1>5, <1>11 DEF Unauthorized, shared, history
    <2>5. QED
      BY <2>1, <2>3, <2>4, AdvancedTyped
  <1>12. CASE SignedIn(c)
    <2>1. "me" \in StepsOf[c.kind]
      BY <1>2, <1>12 DEF SignedIn
    <2>2. stored' \in Token /\ cookie' \in Token /\ access' \in [Tab -> Token]
      BY <1>1, <1>3, <1>5, <1>12 DEF SignedIn
    <2>3. /\ Advance(c, [c EXCEPT !.at = "me"])
          /\ UNCHANGED <<user, loading, begun, faults, loose>>
      BY <1>12 DEF SignedIn
    <2>4. out' \in BOOLEAN /\ mixed' \in BOOLEAN
      BY <1>5, <1>12 DEF SignedIn
    <2>5. QED
      BY <1>4, <2>1, <2>2, <2>3, <2>4, AdvancedTyped
  <1>13. CASE Registered(c)
    <2>1. "login" \in StepsOf[c.kind]
      BY <1>2, <1>13 DEF Registered
    <2>2. /\ stored' \in Token /\ cookie' \in Token /\ access' \in [Tab -> Token]
          /\ out' \in BOOLEAN /\ mixed' \in BOOLEAN
      BY <1>1, <1>3, <1>5, <1>13 DEF Registered, TokenOfAnswer, shared, history
    <2>3. /\ Advance(c, [c EXCEPT !.at = "login"])
          /\ UNCHANGED <<user, loading, begun, faults, loose>>
      BY <1>13 DEF Registered, history
    <2>4. QED
      BY <1>4, <2>1, <2>2, <2>3, AdvancedTyped
  <1>14. ASSUME c.at \in {"login", "register", "call", "callRetry", "verify", "verifyRetry"},
                Return(c), UNCHANGED <<shared, access, user, loading, begun, faults, history>>
         PROVE  Goal
    <2>1. c.kind # "mount"
      BY <1>2, <1>14
    <2>2. loading' = [loading EXCEPT ![c.tab] = @ /\ c.kind # "mount"]
      BY <1>1, <1>5, <1>14, <2>1
    <2>3. QED
      BY <1>5, <1>14, <2>2, EndedTyped DEF shared, history
  <1>15. CASE SignInRefused(c)
    BY <1>14, <1>15 DEF SignInRefused
  <1>16. CASE LoggedOut(c)
    <2>1. c.kind # "mount"
      BY <1>2, <1>16 DEF LoggedOut
    <2>2. loading' = [loading EXCEPT ![c.tab] = @ /\ c.kind # "mount"]
      BY <1>1, <1>5, <1>16, <2>1 DEF LoggedOut
    <2>3. /\ stored' \in Token /\ access' \in [Tab -> Token]
          /\ out' \in BOOLEAN /\ loose' \in BOOLEAN
          /\ Return(c) /\ UNCHANGED <<begun, mixed>>
      BY <1>1, <1>3, <1>5, <1>16 DEF LoggedOut, ClearTokens
    <2>4. cookie' \in Token /\ user' \in [Tab -> Token] /\ faults' \in 0 .. MaxFaults
      BY <1>1, <1>3, <1>5, <1>16, FaultTyped DEF LoggedOut
    <2>5. QED
      BY <2>2, <2>3, <2>4, EndedTyped
  <1>17. CASE Verified(c)
    <2> DEFINE d == Call(c.tab, "verify", "refresh", RefreshToken)
    <2>1. c.kind = "verify"
      BY <1>2, <1>17 DEF Verified
    <2>2. "refresh" \in Step /\ "verify" \in Kind /\ "refresh" \in StepsOf["verify"]
      BY StepsKnown DEF Kind, StepsOf
    <2>3. /\ d \in [tab : Tab, kind : Kind, at : Step, token : Token]
          /\ d.tab = c.tab /\ d.kind = "verify" /\ d.at = "refresh"
      BY <1>1, <1>3, <2>2, CallIs
    <2>4. /\ Advance(c, d) /\ UNCHANGED <<user, loading, begun, faults, loose>>
          /\ stored' \in Token /\ cookie' \in Token /\ access' \in [Tab -> Token]
          /\ out' \in BOOLEAN /\ mixed' \in BOOLEAN
      BY <1>5, <1>17 DEF Verified, shared, history
    <2> HIDE DEF d
    <2>5. QED
      BY <2>1, <2>2, <2>3, <2>4, AdvancedTyped DEF CallShape
  <1>18. CASE Answered(c)
    BY <1>14, <1>18 DEF Answered
  <1>19. QED
    BY <1>6, <1>8, <1>9, <1>10, <1>11, <1>12, <1>13, <1>15, <1>16, <1>17, <1>18 DEF Answer

LEMMA InitSessionInv == Init => SessionInv
  <1> SUFFICES ASSUME Init PROVE SessionInv
    OBVIOUS
  <1>1. TypeOK
    <2>1. stored \in Token /\ cookie \in Token /\ None \in Token
      BY DEF Init, Token
    <2>2. begun \in 0 .. MaxCalls /\ faults \in 0 .. MaxFaults
      BY SessionAssumption DEF Init, SessionAssumption
    <2>3. QED
      BY <2>1, <2>2 DEF Init, TypeOK
  <1>2. CallsInOrder /\ NothingReturns
    BY DEF Init, CallsInOrder, NothingReturns
  <1>3. LoadingIsAwaited
    <2>1. \A t \in Tab : Of(t, "mount") = {} /\ loading[t] = FALSE
      BY DEF Init, Of
    <2>2. QED
      BY <2>1 DEF LoadingIsAwaited
  <1>4. OneAccount
    BY DEF Init, OneAccount, Held
  <1>5. QED
    BY <1>1, <1>2, <1>3, <1>4 DEF SessionInv

\* Types, the order of the requests of a call, and the spinner.
LEMMA NextTyped ==
    ASSUME TypeOK, CallsInOrder, LoadingIsAwaited, [Next]_vars
    PROVE  TypeOK' /\ CallsInOrder' /\ LoadingIsAwaited'
  <1>1. ASSUME NEW c \in calls, Answer(c)
        PROVE  TypeOK' /\ CallsInOrder' /\ LoadingIsAwaited'
    BY <1>1, AnswerTyped
  <1>2. ASSUME NEW t \in Tab, OpenTab(t)
        PROVE  TypeOK' /\ CallsInOrder' /\ LoadingIsAwaited'
    BY <1>2, Loaded DEF OpenTab
  <1>3. ASSUME NEW t \in Tab, OpenVerifyLink(t)
        PROVE  TypeOK' /\ CallsInOrder' /\ LoadingIsAwaited'
    BY <1>3, Loaded DEF OpenVerifyLink
  <1>4. ASSUME NEW t \in Tab, NEW a \in Account, OnSubmitLogin(t, a) \/ OnSubmitRegister(t, a)
        PROVE  TypeOK' /\ CallsInOrder' /\ LoadingIsAwaited'
    <2>1. /\ a \in Token /\ "login" \in Kind /\ "register" \in Kind
          /\ "login" \in StepsOf["login"] /\ "register" \in StepsOf["register"]
      BY DEF Token, Kind, StepsOf
    <2>2. QED
      BY <1>4, <2>1, BegunTyped DEF OnSubmitLogin, OnSubmitRegister
  <1>5. ASSUME NEW t \in Tab, HandleLogout(t) \/ PageRequest(t)
        PROVE  TypeOK' /\ CallsInOrder' /\ LoadingIsAwaited'
    <2>1. /\ access[t] \in Token /\ "logout" \in Kind /\ "call" \in Kind
          /\ "logout" \in StepsOf["logout"] /\ "call" \in StepsOf["call"]
      BY DEF TypeOK, Kind, StepsOf
    <2>2. QED
      BY <1>5, <2>1, BegunTyped DEF HandleLogout, PageRequest
  <1>6. CASE UNCHANGED vars
    BY <1>6 DEF vars, shared, history, TypeOK, CallsInOrder, LoadingIsAwaited, Of
  <1>7. QED
    BY <1>1, <1>2, <1>3, <1>4, <1>5, <1>6 DEF Next, Page

-------------------------------------------------------------------------------
(* What happens to the tokens. *)

\* What a call knows does not come from nowhere: a page's call begins with the
\* token of its tab or the browser's, or with the account of a form.
LEMMA PageCalls ==
    ASSUME TypeOK, NEW t \in Tab, Page(t)
    PROVE  /\ UNCHANGED <<stored, cookie, history>>
           /\ \A u \in Tab : access'[u] \in {access[u], None} /\ user'[u] \in {user[u], None}
           /\ \A e \in calls' :
                  \/ e \in calls
                  \/ e.at = "refresh" /\ e.token = RefreshToken
                  \/ e.at \in {"login", "register"}
                  \/ e.at = "verify" /\ e.token = None
                  \/ e.at \in {"logout", "call"} /\ e.token = access[t]
  <1>1. ASSUME NEW effects \in {{}, {Call(t, "verify", "verify", None)}}, LoadDocument(t, effects)
        PROVE  /\ UNCHANGED <<stored, cookie, history>>
               /\ \A u \in Tab : access'[u] \in {access[u], None} /\ user'[u] \in {user[u], None}
               /\ \A e \in calls' :
                      \/ e \in calls
                      \/ e.at = "refresh" /\ e.token = RefreshToken
                      \/ e.at = "verify" /\ e.token = None
    <2>1. UNCHANGED <<stored, cookie, history>>
      BY <1>1 DEF LoadDocument, shared
    <2>2. \A u \in Tab : access'[u] \in {access[u], None} /\ user'[u] \in {user[u], None}
      BY <1>1 DEF LoadDocument, TypeOK
    <2>3. \A e \in calls' : e \in calls \/ e = Call(t, "mount", "refresh", RefreshToken)
                                        \/ e = Call(t, "verify", "verify", None)
      BY <1>1 DEF LoadDocument
    <2>4. QED
      BY <2>1, <2>2, <2>3 DEF Call
  <1>2. CASE OpenTab(t) \/ OpenVerifyLink(t)
    BY <1>1, <1>2 DEF OpenTab, OpenVerifyLink
  <1>3. ASSUME NEW a \in Account, OnSubmitLogin(t, a) \/ OnSubmitRegister(t, a)
        PROVE  /\ UNCHANGED <<stored, cookie, history, access, user>>
               /\ \A e \in calls' : e \in calls \/ e.at \in {"login", "register"}
    BY <1>3 DEF OnSubmitLogin, OnSubmitRegister, Begin, Call, shared
  <1>4. ASSUME HandleLogout(t) \/ PageRequest(t)
        PROVE  /\ UNCHANGED <<stored, cookie, history, access, user>>
               /\ \A e \in calls' : e \in calls \/ (e.at \in {"logout", "call"} /\ e.token = access[t])
    BY <1>4 DEF HandleLogout, PageRequest, Begin, Call, shared
  <1>5. QED
    BY <1>2, <1>3, <1>4 DEF Page

\* A sign-out that lasts: what follows it holds no token to refresh with.
LEMMA NextNothingReturns ==
    ASSUME TypeOK, NothingReturns, [Next]_vars
    PROVE  NothingReturns'
  <1>1. ASSUME UNCHANGED <<stored, cookie, history>>,
               \A e \in calls' : e \in calls \/ e.at \notin Refreshing \/ e.token = RefreshToken
        PROVE  NothingReturns'
    BY <1>1 DEF NothingReturns, RefreshToken, history
  <1>2. ASSUME NEW t \in Tab, Page(t) PROVE NothingReturns'
    <2>1. {"login", "register", "verify", "logout", "call"} \cap Refreshing = {}
      BY StepsKnown
    <2>2. QED
      BY <1>1, <1>2, <2>1, PageCalls
  <1>3. ASSUME NEW c \in calls, Answer(c) PROVE NothingReturns'
    <2>1. c \in CallShape
      BY DEF TypeOK, CallShape
    <2>2. ASSUME UNCHANGED <<stored, cookie, history>>, Return(c) PROVE NothingReturns'
      BY <1>1, <2>2 DEF Return
    <2>3. ASSUME UNCHANGED <<stored, cookie, history>>, NEW d, Advance(c, d),
                 d.at \notin Refreshing \/ d.token = RefreshToken
          PROVE  NothingReturns'
      BY <1>1, <2>3 DEF Advance
    <2>4. CASE Refreshed(c)
      <3>1. ~(out /\ ~loose)
        BY <2>4 DEF Refreshed, NothingReturns
      <3>2. QED
        BY <2>4, <3>1 DEF Refreshed, NothingReturns, history
    <2>5. CASE RefreshFailed(c) \/ ShowMe(c) \/ ShowFallback(c) \/ SignInRefused(c) \/ Answered(c)
      BY <2>2, <2>5 DEF RefreshFailed, ShowMe, ShowFallback, SignInRefused, Answered,
         EndWith, shared
    <2>6. CASE Unauthorized(c)
      BY <2>1, <2>3, <2>6 DEF Unauthorized, CallShape, shared
    <2>7. CASE SignedIn(c)
      BY <2>7 DEF SignedIn, NothingReturns
    <2>8. CASE Registered(c)
      <3>1. [c EXCEPT !.at = "login"].at = "login" /\ "login" \notin Refreshing
        BY <2>1, StepsKnown DEF CallShape
      <3>2. QED
        BY <2>3, <2>8, <3>1 DEF Registered, shared
    <2>9. CASE LoggedOut(c)
      BY <2>9 DEF LoggedOut, ClearTokens, Return, NothingReturns
    <2>10. CASE Verified(c)
      BY <2>3, <2>10 DEF Verified, Call, shared
    <2>11. QED
      BY <1>3, <2>4, <2>5, <2>6, <2>7, <2>8, <2>9, <2>10 DEF Answer
  <1>4. CASE UNCHANGED vars
    BY <1>1, <1>4 DEF vars, shared
  <1>5. QED
    BY <1>2, <1>3, <1>4 DEF Next

\* Nothing is held that was not, but the account that signs in.
LEMMA HeldFrom ==
    ASSUME TypeOK, [Next]_vars, ~mixed'
    PROVE  \/ Held' \subseteq Held \cup {None} /\ ~mixed
           \/ \E a \in Token : Held' \subseteq {a, None}
  <1>1. /\ RefreshToken \in Held /\ stored \in Held /\ cookie \in Held
        /\ \A t \in Tab : access[t] \in Held /\ user[t] \in Held
        /\ \A c \in calls : c.at \notin {"login", "register"} => c.token \in Held
    BY DEF Held, RefreshToken
  <1>2. ASSUME stored' \in Held \cup {None}, cookie' \in Held \cup {None},
               \A t \in Tab : access'[t] \in Held \cup {None} /\ user'[t] \in Held \cup {None},
               \A c \in calls' : c.at \notin {"login", "register"} => c.token \in Held \cup {None}
        PROVE  Held' \subseteq Held \cup {None}
    <2>1. Held' = {stored', cookie'} \cup {access'[t] : t \in Tab} \cup {user'[t] : t \in Tab}
                   \cup {c.token : c \in {d \in calls' : d.at \notin {"login", "register"}}}
      BY DEF Held
    <2>2. QED
      BY <1>2, <2>1
  <1>3. ASSUME NEW t \in Tab, Page(t) PROVE Held' \subseteq Held \cup {None} /\ ~mixed
    <2>1. Held' \subseteq Held \cup {None}
      BY <1>1, <1>2, <1>3, PageCalls
    <2>2. QED
      BY <1>3, <2>1, PageCalls DEF history
  <1>4. ASSUME NEW c \in calls, Answer(c), ~SignedIn(c)
        PROVE  Held' \subseteq Held \cup {None} /\ ~mixed
    <2>1. /\ c \in CallShape
          /\ c.at \notin {"login", "register"} => c.token \in Held
          /\ c.tab \in Tab
          /\ access \in [Tab -> Token] /\ user \in [Tab -> Token]
      BY <1>1 DEF TypeOK, CallShape
    <2>2. ASSUME NEW d, Advance(c, d),
                 d.at \in {"login", "register"} \/ d.token \in Held \cup {None}
          PROVE  \A e \in calls' : e.at \notin {"login", "register"} => e.token \in Held \cup {None}
      BY <1>1, <2>2 DEF Advance
    <2>3. ASSUME Return(c)
          PROVE  \A e \in calls' : e.at \notin {"login", "register"} => e.token \in Held \cup {None}
      BY <1>1, <2>3 DEF Return
    <2>4. ASSUME NEW shown \in Held \cup {None}, EndWith(c, shown)
          PROVE  Return(c) /\ \A t \in Tab : user'[t] \in Held \cup {None}
      BY <1>1, <2>1, <2>4 DEF EndWith
    <2>5. CASE Refreshed(c)
      <3>1. c.token \in Held
        BY <2>1, <2>5, StepsKnown DEF Refreshed
      <3>2. /\ stored' \in Held /\ cookie' \in Held
            /\ \A t \in Tab : access'[t] \in Held /\ user'[t] \in Held
        BY <1>1, <2>1, <2>5, <3>1 DEF Refreshed, Kept
      <3>3. [c EXCEPT !.at = AfterRefresh[c.at]].token = c.token
        BY <2>1 DEF CallShape
      <3>4. \A e \in calls' : e.at \notin {"login", "register"} => e.token \in Held \cup {None}
        BY <2>2, <2>5, <3>1, <3>3 DEF Refreshed
      <3>5. ~mixed
        BY <2>5 DEF Refreshed, history
      <3>6. QED
        BY <1>2, <3>2, <3>4, <3>5
    <2>6. CASE RefreshFailed(c)
      <3>1. /\ stored' \in Held /\ cookie' \in Held /\ ~mixed
            /\ \A t \in Tab : access'[t] \in Held \cup {None}
        BY <1>1, <2>1, <2>6 DEF RefreshFailed, shared, history
      <3>2. Return(c) /\ \A t \in Tab : user'[t] \in Held \cup {None}
        BY <1>1, <2>4, <2>6 DEF RefreshFailed
      <3>3. QED
        BY <1>2, <2>3, <3>1, <3>2
    <2>7. CASE ShowMe(c) \/ ShowFallback(c)
      <3>1. /\ stored' \in Held /\ cookie' \in Held /\ ~mixed
            /\ \A t \in Tab : access'[t] \in Held
        BY <1>1, <2>7 DEF ShowMe, ShowFallback, shared, history
      <3>2. Return(c) /\ \A t \in Tab : user'[t] \in Held \cup {None}
        <4>1. CASE ShowMe(c)
          BY <2>1, <2>4, <4>1 DEF ShowMe
        <4>2. CASE ShowFallback(c)
          BY <1>1, <2>1, <2>4, <4>2 DEF ShowFallback
        <4>3. QED
          BY <2>7, <4>1, <4>2
      <3>3. QED
        BY <1>2, <2>3, <3>1, <3>2
    <2>8. CASE Unauthorized(c) \/ Verified(c)
      <3>1. /\ stored' \in Held /\ cookie' \in Held /\ ~mixed
            /\ \A t \in Tab : access'[t] \in Held /\ user'[t] \in Held
        BY <1>1, <2>8 DEF Unauthorized, Verified, shared, history
      <3>2. /\ [c EXCEPT !.at = OnUnauthorized[c.at], !.token = RefreshToken].token = RefreshToken
            /\ Call(c.tab, "verify", "refresh", RefreshToken).token = RefreshToken
        BY <2>1 DEF CallShape, Call
      <3>3. \A e \in calls' : e.at \notin {"login", "register"} => e.token \in Held \cup {None}
        BY <1>1, <2>2, <2>8, <3>2 DEF Unauthorized, Verified
      <3>4. QED
        BY <1>2, <3>1, <3>3
    <2>9. CASE Registered(c)
      <3>1. /\ stored' \in Held /\ cookie' \in Held /\ ~mixed
            /\ \A t \in Tab : access'[t] \in Held \cup {None} /\ user'[t] \in Held
        BY <1>1, <2>1, <2>9 DEF Registered, TokenOfAnswer, shared, history
      <3>2. [c EXCEPT !.at = "login"].at = "login"
        BY <2>1 DEF CallShape
      <3>3. \A e \in calls' : e.at \notin {"login", "register"} => e.token \in Held \cup {None}
        BY <2>2, <2>9, <3>2 DEF Registered
      <3>4. QED
        BY <1>2, <3>1, <3>3
    <2>10. CASE SignInRefused(c) \/ Answered(c)
      BY <1>1, <1>2, <2>3, <2>10 DEF SignInRefused, Answered, shared, history
    <2>11. CASE LoggedOut(c)
      <3>1. /\ stored' \in Held \cup {None} /\ cookie' \in Held \cup {None} /\ ~mixed
            /\ \A t \in Tab : access'[t] \in Held \cup {None} /\ user'[t] \in Held \cup {None}
        BY <1>1, <2>1, <2>11 DEF LoggedOut, ClearTokens
      <3>2. QED
        BY <1>2, <2>3, <2>11, <3>1 DEF LoggedOut
    <2>12. QED
      BY <1>4, <2>5, <2>6, <2>7, <2>8, <2>9, <2>10, <2>11 DEF Answer
  <1>5. ASSUME NEW c \in calls, SignedIn(c) PROVE \E a \in Token : Held' \subseteq {a, None}
    <2>1. /\ c \in CallShape /\ c.token \in Token
          /\ access \in [Tab -> Token] /\ user \in [Tab -> Token]
      BY DEF TypeOK, CallShape
    <2>2. \A a \in Held : a \in {None, c.token}
      BY <1>5 DEF SignedIn
    <2>3. /\ stored' \in {c.token, None} /\ cookie' \in {c.token, None}
          /\ \A t \in Tab : access'[t] \in {c.token, None} /\ user'[t] \in {c.token, None}
      BY <1>1, <1>5, <2>1, <2>2 DEF SignedIn, Kept
    <2>4. [c EXCEPT !.at = "me"].token = c.token
      BY <2>1 DEF CallShape
    <2>5. \A e \in calls' : e.at \notin {"login", "register"} => e.token \in {c.token, None}
      BY <1>1, <1>5, <2>2, <2>4 DEF SignedIn, Advance
    <2>6. Held' \subseteq {c.token, None}
      BY <2>3, <2>5 DEF Held
    <2>7. QED
      BY <2>1, <2>6
  <1>6. CASE UNCHANGED vars
    BY <1>6 DEF vars, shared, history, Held
  <1>7. QED
    BY <1>3, <1>4, <1>5, <1>6 DEF Next

LEMMA NextOneAccount ==
    ASSUME TypeOK, OneAccount, [Next]_vars PROVE OneAccount'
  BY HeldFrom DEF OneAccount

LEMMA NextSessionInv ==
    ASSUME SessionInv, [Next]_vars PROVE SessionInv'
  BY NextTyped, NextNothingReturns, NextOneAccount DEF SessionInv

-------------------------------------------------------------------------------
LEMMA SessionConsistent == Spec => []SessionInv
  BY InitSessionInv, NextSessionInv, PTL DEF Spec

\* Tokens, users and calls keep their shape, and a tab makes one call of a kind
\* at a time, however the answers arrive.
THEOREM TypeCorrect == Spec => []TypeOK
  <1>1. SessionInv => TypeOK
    BY DEF SessionInv
  <1>2. QED
    BY <1>1, SessionConsistent, PTL

\* After a sign-out no refresh token is left anywhere in the browser, unless the
\* sign-out failed on the server or a refresh was on its way.
THEOREM SignOutIsLasting == Spec => []SignOutLasts
  <1>1. SessionInv => SignOutLasts
    BY DEF SessionInv, NothingReturns, SignOutLasts
  <1>2. QED
    BY <1>1, SessionConsistent, PTL

\* What a tab shows is the account it acts as, unless two accounts met in the
\* browser; and its spinner is there exactly while its session is asked for.
THEOREM SessionIsShownTruly == Spec => []ShownTruly
  <1>1. SessionInv => ActsAsShown
    BY DEF SessionInv, OneAccount, ActsAsShown, Held
  <1>2. SessionInv => LoadingIsAwaited
    BY DEF SessionInv
  <1>3. SessionInv => ShownTruly
    BY <1>1, <1>2 DEF ShownTruly
  <1>4. QED
    BY <1>3, SessionConsistent, PTL

-------------------------------------------------------------------------------
(* Where links lead. *)

User == Person \cup {Visitor}
NavInv == visitor \in User /\ visitedAt \in Places

\* What the tables ask of a user.
LEMMA UserIs ==
    ASSUME NEW u \in User
    PROVE  /\ u.role \in {"none", "submitter", "reviewer", "program_chair", "admin"}
           /\ u = Visitor <=> u.role = "none"
           /\ u.role = "none" => ~u.is_reviewer /\ ~u.is_admin_viewer
           /\ u.is_reviewer \in BOOLEAN /\ u.is_admin_viewer \in BOOLEAN
<1>1. CASE u \in Person
  <2>1. u.role \in Role /\ u.is_reviewer \in BOOLEAN /\ u.is_admin_viewer \in BOOLEAN
    BY <1>1 DEF Person
  <2>2. u.role \in {"submitter", "reviewer", "program_chair", "admin"} /\ u # Visitor
    BY <2>1 DEF Role, Visitor
  <2> QED
    BY <2>1, <2>2
<1>2. CASE u = Visitor
  <2>1. u.role = "none" /\ u.is_reviewer = FALSE /\ u.is_admin_viewer = FALSE
    BY <1>2 DEF Visitor
  <2> QED
    BY <1>2, <2>1
<1> QED
  BY <1>1, <1>2 DEF User

LEMMA PagesAre ==
    AdminPages =
        {"/admin", "/admin/abstracts", "/admin/assign-reviewers", "/admin/decisions",
         "/admin/sessions", "/admin/presenters", "/admin/files", "/admin/email",
         "/admin/notifications", "/admin/users", "/admin/audit-log", "/admin/email-templates",
         "/admin/settings", "/admin/reviews", "/admin/documentation", "/admin/sessions/templates",
         "/admin/abstracts/id", "/admin/sessions/id", "/admin/sessions/new"}
  BY DEF AdminPages, SidebarRoles, SidebarAdminOnly

\* The pages that turn nobody away who reached them.
LEMMA AdminStays ==
    ASSUME NEW u \in User, CanEnterAdmin(u), NEW p \in AdminPages
    PROVE  Destination(p, u) = p
<1>1. u # Visitor
  BY UserIs DEF CanEnterAdmin, CanViewAll, CanActChair
<1>2. p \notin {"/", "/login", "/register"}
  BY PagesAre
<1> QED
  BY <1>1, <1>2 DEF Destination, AdminLayout

LEMMA Arrives ==
    ASSUME NEW u \in User, NEW p \in Places
    PROVE  /\ Destination(p, u) \in Places
           /\ Destination(Destination(Destination(p, u), u), u) = Destination(Destination(p, u), u)
<1> USE DEF Places, AuthPages
<1>1. /\ u.role \in {"none", "submitter", "reviewer", "program_chair", "admin"}
      /\ u = Visitor <=> u.role = "none"
  BY UserIs
<1>2. {"/admin", "/admin/reviews"} \subseteq AdminPages /\ AdminPages \cap {"/", "/login", "/register", "/verify-email", "/program"} = {}
  BY PagesAre
<1>3. CASE u.role = "none"
  <2>1. /\ Destination("/", u) = "/login" /\ Destination("/login", u) = "/login"
        /\ Destination("/register", u) = "/register"
        /\ \A q \in AdminPages : Destination(q, u) = "/login"
        /\ \A q \in {"/verify-email", "/program"} : Destination(q, u) = q
    BY <1>1, <1>2, <1>3 DEF Destination, SubmitterLayout, LoginPage, RegisterPage, AdminLayout
  <2> QED
    BY <2>1
<1>4. CASE u.role \in {"reviewer", "program_chair", "admin"}
  <2>1. CanEnterAdmin(u)
    BY <1>4 DEF CanEnterAdmin, CanViewAll, CanActChair
  <2>2. \A q \in AdminPages : Destination(q, u) = q
    BY <2>1, AdminStays
  <2>3. /\ Destination("/", u) = "/admin" /\ Destination("/login", u) \in {"/admin", "/admin/reviews"}
        /\ Destination("/register", u) \in {"/", "/verify-email"}
        /\ \A q \in {"/verify-email", "/program"} : Destination(q, u) = q
    BY <1>1, <1>2, <1>4 DEF Destination, SubmitterLayout, IsStaff, LoginPage, CanActChair,
       RegisterPage
  <2> QED
    BY <1>2, <2>2, <2>3
<1>5. CASE u.role = "submitter"
  <2>1. /\ Destination("/", u) = "/" /\ Destination("/login", u) = "/"
        /\ Destination("/register", u) \in {"/", "/verify-email"}
        /\ \A q \in AdminPages : Destination(q, u) \in {q, "/"}
        /\ \A q \in {"/verify-email", "/program"} : Destination(q, u) = q
    BY <1>1, <1>2, <1>5 DEF Destination, SubmitterLayout, IsStaff, LoginPage, CanActChair,
       RegisterPage, AdminLayout
  <2> QED
    BY <1>2, <2>1
<1> QED
  BY <1>1, <1>3, <1>4, <1>5

\* A link of the page that is open.
Offered(at, p, u) ==
    /\ Destination(at, u) = at
    /\ p \in Links(at, u)
    /\ ~(/\ at \in {"/admin", "/admin/sessions"} /\ ~CanViewAll(u)
         /\ p \in {"/admin/sessions", "/admin/sessions/id", "/admin/sessions/new"})

LEMMA OfferedIs ==
    ASSUME NEW u \in User, NEW at \in Places, NEW p, Offered(at, p, u)
    PROVE  \/ p \in NavLinks(u)
           \/ CanEnterAdmin(u) /\ p \in SidebarLinks(u)
           \/ CanEnterAdmin(u) /\ at \in AdminPages /\ p \in PageLinks(at, u)
<1>1. ASSUME at \in AdminPages PROVE CanEnterAdmin(u)
  <2>1. at \notin {"/", "/login", "/register"}
    BY <1>1, PagesAre
  <2>2. Destination(at, u) = AdminLayout(at, u)
    BY <1>1, <2>1 DEF Destination
  <2> QED
    BY <2>1, <2>2 DEF Offered, AdminLayout
<1> QED
  BY <1>1 DEF Offered, Links

LEMMA OfferedLeads ==
    ASSUME NEW u \in User, NEW at \in Places, NEW p, Offered(at, p, u)
    PROVE  /\ Destination(p, u) = p
           /\ ~PageRefuses(p, u)
           /\ ~ServerRefuses(p, u)
           /\ \A guard \in Controls(p, u) :
                 RoleAllows(guard, u) \/ (guard = "admin" /\ u.role = "program_chair" /\ u.is_admin_viewer)
<1>1. /\ u.role \in {"none", "submitter", "reviewer", "program_chair", "admin"}
      /\ u = Visitor <=> u.role = "none"
      /\ u.role = "none" => ~u.is_reviewer /\ ~u.is_admin_viewer
  BY UserIs
<1> DEFINE Good == /\ Destination(p, u) = p
                   /\ ~PageRefuses(p, u)
                   /\ ~ServerRefuses(p, u)
                   /\ \A guard \in Controls(p, u) :
                         RoleAllows(guard, u) \/ (guard = "admin" /\ u.role = "program_chair" /\ u.is_admin_viewer)
<1>2. CASE p \in NavLinks(u)
  <2>1. CASE p \in {"/program", "/login", "/register", "/"}
    <3>1. Destination(p, u) = p
      BY <1>1, <1>2, <2>1, PagesAre DEF Destination, NavLinks, IsStaff, SubmitterLayout,
         LoginPage, RegisterPage
    <3>2. ~PageRefuses(p, u) /\ ~ServerRefuses(p, u) /\ Controls(p, u) = {}
      BY <2>1 DEF PageRefuses, ServerRefuses, Controls
    <3> QED
      BY <3>1, <3>2
  <2>2. CASE p \in {"/admin", "/admin/reviews"}
    <3>1. CanEnterAdmin(u)
      BY <1>1, <1>2, <2>2 DEF NavLinks, IsStaff, CanEnterAdmin, CanViewAll, CanActChair
    <3>2. Destination(p, u) = p
      BY <2>2, <3>1, PagesAre, AdminStays
    <3>3. ~PageRefuses(p, u) /\ ~ServerRefuses(p, u)
      BY <2>2 DEF PageRefuses, ServerRefuses
    <3>4. \A guard \in Controls(p, u) : guard = "chair" /\ CanActAdmin(u)
      BY <2>2 DEF Controls, OverviewControls
    <3> QED
      BY <3>2, <3>3, <3>4 DEF CanActAdmin, RoleAllows
  <2> QED
    BY <1>2, <2>1, <2>2 DEF NavLinks
<1>3. CASE CanEnterAdmin(u) /\ p \in SidebarLinks(u)
  <2>1. p \in AdminPages
    BY <1>3 DEF SidebarLinks
  <2>2. Destination(p, u) = p
    BY <1>3, <2>1, AdminStays
  <2>3. \/ p \in DOMAIN SidebarRoles /\ CanViewAll(u) /\ ~(p = "/admin/email" /\ IsReadOnlyAdmin(u))
        \/ p \in SidebarAdminOnly /\ CanViewAdmin(u)
        \/ p \in {"/admin/documentation", "/admin/reviews"}
    BY <1>3 DEF SidebarLinks, ListedFor, SidebarRoles, CanViewAll, CanActChair, CanViewAdmin,
       CanActAdmin
  <2> QED
    BY <1>1, <2>2, <2>3 DEF SidebarRoles, SidebarAdminOnly, PageRefuses, ServerRefuses,
       Controls, CanViewAll, CanActChair, CanViewAdmin, CanActAdmin, IsReadOnlyAdmin,
       ServerViewAll, ServerViewAdmin, RoleAllows, OverviewControls, AbstractControls,
       SessionListControls, SessionControls, MatrixControls, NotificationControls,
       UserControls, SettingsControls, TextControls, TemplateControls, UnlessReadOnly
<1>4. CASE CanEnterAdmin(u) /\ at \in AdminPages /\ p \in PageLinks(at, u)
  <2>1. p \in {"/admin/abstracts", "/admin/sessions", "/admin/users", "/admin/settings",
               "/admin/abstracts/id", "/admin/sessions/id", "/admin/sessions/templates", "/admin/sessions/new"}
    BY <1>4 DEF PageLinks, QuickActions
  <2>2. Destination(p, u) = p
    BY <1>4, <2>1, PagesAre, AdminStays
  <2>3. p \in {"/admin/users", "/admin/settings"} => CanActAdmin(u)
    BY <1>4 DEF PageLinks, QuickActions
  <2>4. p = "/admin/sessions/templates" => CanViewAdmin(u)
    BY <1>4 DEF PageLinks, QuickActions
  <2>5. p \in {"/admin/sessions", "/admin/sessions/id", "/admin/sessions/new"} =>
            CanViewAll(u) /\ (p = "/admin/sessions/new" => ~IsReadOnlyAdmin(u))
    BY <1>4 DEF PageLinks, QuickActions, Offered
  <2> QED
    BY <1>1, <2>1, <2>2, <2>3, <2>4, <2>5 DEF PageRefuses, ServerRefuses, Controls,
       CanViewAll, CanActChair, CanViewAdmin, CanActAdmin, IsReadOnlyAdmin, ServerViewAll,
       ServerViewAdmin, RoleAllows, OverviewControls, AbstractControls, SessionListControls,
       SessionControls, MatrixControls, NotificationControls, UserControls, SettingsControls,
       TextControls, TemplateControls, UnlessReadOnly
<1> QED
  BY <1>2, <1>3, <1>4, OfferedIs

\* A link is to a place.
LEMMA LinksArePlaces == ASSUME NEW u, NEW at, NEW p \in Links(at, u) PROVE p \in Places
<1>1. p \in NavLinks(u) => p \in {"/admin", "/program", "/login", "/register", "/", "/admin/reviews"}
  BY DEF NavLinks
<1>2. p \in SidebarLinks(u) => p \in AdminPages
  BY DEF SidebarLinks
<1>3. p \in PageLinks(at, u) =>
          p \in {"/admin/abstracts", "/admin/sessions", "/admin/users", "/admin/settings",
                 "/admin/abstracts/id", "/admin/sessions/id", "/admin/sessions/templates", "/admin/sessions/new"}
  BY DEF PageLinks, QuickActions
<1> QED
  BY <1>1, <1>2, <1>3, PagesAre DEF Links, Places, AuthPages

LEMMA NavInvPermits == ASSUME NavInv PROVE Permitted
<1>1. \A p \in Links(visitedAt, visitor) :
          Settled /\ ~ByQuickAction(p, visitor) => Offered(visitedAt, p, visitor)
  BY DEF Settled, ByQuickAction, Offered
<1>2. LinksLead
  BY <1>1, OfferedLeads DEF LinksLead, NavInv
<1>3. ControlsGranted
  BY <1>1, OfferedLeads DEF ControlsGranted, NavInv
<1>4. RedirectsEnd
  BY Arrives DEF RedirectsEnd, NavInv
<1> QED
  BY <1>2, <1>3, <1>4 DEF Permitted

LEMMA NextNavInv == ASSUME NavInv, [NavNext]_navVars PROVE NavInv'
  BY Arrives, LinksArePlaces
  DEF NavInv, NavNext, navVars, Redirect, Follow, TypeAddress, SessionChanges, User

\* Wherever they are and however their session changes, every user finds links
\* that lead somewhere, controls that work there and redirects that end.
THEOREM WhereUsersMayGo == NavSpec => []Permitted
<1>1. NavInit => NavInv
  BY DEF NavInit, NavInv, User, Places
<1>2. NavInv /\ [NavNext]_navVars => NavInv'
  BY NextNavInv
<1>3. NavInv => Permitted
  BY NavInvPermits
<1> QED
  BY <1>1, <1>2, <1>3, PTL DEF NavSpec

-------------------------------------------------------------------------------
(* The pages behind the links in e-mails. *)

\* What is asked for, and what it can be answered with.
Replies == {"ok", "already", "failed", "verified", "unverified", FromToken, NoUser}
Question == [what : {"mount", "show", "verify", "resend", "reset", "forgot"},
             reply : Replies \cup {"none"}]

LinkTyped ==
    /\ account.verified \in BOOLEAN /\ account.password \in {"old", "new"}
    /\ account = [verified |-> account.verified, password |-> account.password]
    /\ waiting \subseteq Question

\* An answer on its way says what has happened; who the user is, only what was
\* true when it was read; and a request for the user after a verification is
\* only made when there was one.
AnswersHold ==
    \A r \in waiting :
        /\ r.what = "show" => account.verified /\ r.reply # "unverified"
        /\ r.what = "verify" /\ r.reply \in {"ok", "already"} => account.verified
        /\ r.what = "resend" /\ r.reply = "ok" => "verification" \in queued
        /\ r.what = "reset" => /\ linkPage = "reset-password"
                               /\ r.reply = "ok" => account.password = "new"
        /\ r.what = "forgot" => /\ linkPage = "forgot"
                                /\ r.reply = "ok" => "recovery" \in queued

LinkInv == LinkTyped /\ AnswersHold /\ ClaimsHold /\ BannerGoes

\* An answer comes for a request of the same kind.
LEMMA AnAnswer ==
    ASSUME NEW r \in Question, NEW reply \in Replies \cup {"none"}
    PROVE  /\ [r EXCEPT !.reply = reply] \in Question
           /\ [r EXCEPT !.reply = reply].what = r.what
           /\ [r EXCEPT !.reply = reply].reply = reply
  BY DEF Question

LEMMA AQuestion ==
    ASSUME NEW what \in {"mount", "show", "verify", "resend", "reset", "forgot"}
    PROVE  Ask(what) \in Question /\ Ask(what).what = what /\ Ask(what).reply = "none"
  BY DEF Ask, Question

LEMMA InitLinkInv == ASSUME LinkInit PROVE LinkInv
<1>1. account = [verified |-> FALSE, password |-> "old"]
  BY DEF LinkInit
<1>2. waiting \subseteq {Ask("mount"), Ask("verify")}
  BY DEF LinkInit
<1>3. \A r \in waiting : r \in Question /\ r.what \in {"mount", "verify"} /\ r.reply = "none"
  BY <1>2, AQuestion
<1>4. LinkTyped
  BY <1>1, <1>3 DEF LinkTyped
<1>5. AnswersHold
  BY <1>3 DEF AnswersHold
<1> QED
  BY <1>4, <1>5 DEF LinkInv, ClaimsHold, BannerGoes, LinkInit

\* The two changes of the user's row.
LEMMA RowChanges ==
    ASSUME LinkTyped, NEW v \in BOOLEAN
    PROVE  /\ [account EXCEPT !.verified = v] = [verified |-> v, password |-> account.password]
           /\ [account EXCEPT !.password = "new"] = [verified |-> account.verified, password |-> "new"]
  BY DEF LinkTyped

LEMMA ServerAnswersKeeps ==
    ASSUME LinkInv, NEW r \in waiting, ServerAnswers(r)
    PROVE  LinkInv'
<1> USE DEF LinkInv
<1>1. r \in Question /\ r.reply = "none"
  BY DEF ServerAnswers, LinkTyped
<1>2. UNCHANGED <<linkPage, linkGood, verifyState, linkUser, resending, resent, formDone, overtaken>>
  BY DEF ServerAnswers
<1>3. /\ account' = [verified |-> account'.verified, password |-> account'.password]
      /\ account'.verified \in BOOLEAN /\ account'.password \in {"old", "new"}
      /\ (account.verified => account'.verified)
      /\ (account.password = "new" => account'.password = "new")
      /\ queued \subseteq queued'
      /\ \E reply \in Replies :
            /\ Reply(r, reply)
            /\ r.what = "show" => reply # "unverified"
            /\ r.what = "verify" /\ reply \in {"ok", "already"} => account'.verified
            /\ r.what = "resend" /\ reply = "ok" => "verification" \in queued'
            /\ r.what = "reset" /\ reply = "ok" => account'.password = "new"
            /\ r.what = "forgot" /\ reply = "ok" => "recovery" \in queued'
  <2>0. account = [verified |-> account.verified, password |-> account.password]
        /\ account.verified \in BOOLEAN /\ account.password \in {"old", "new"}
    BY DEF LinkTyped
  <2>1. CASE r.what \in {"mount", "show"}
    <3>1. account' = account /\ queued' = queued
      BY <2>1 DEF ServerAnswers
    <3>2. PICK told \in {VerifiedToken(account.verified), FromToken, NoUser} : Reply(r, told)
      BY <2>1 DEF ServerAnswers
    <3>3. r.what = "show" => VerifiedToken(account.verified) = "verified"
      BY DEF AnswersHold, VerifiedToken
    <3>4. told \in Replies
      BY <3>2 DEF VerifiedToken, Replies
    <3>5. r.what = "show" => told # "unverified"
      BY <3>2, <3>3 DEF FromToken, NoUser
    <3> QED
      BY <2>0, <2>1, <3>1, <3>2, <3>4, <3>5
  <2>2. CASE r.what = "verify"
    <3>1. account' = [account EXCEPT !.verified = account.verified \/ linkGood] /\ queued' = queued
      BY <2>2 DEF ServerAnswers
    <3>2. PICK v \in BOOLEAN : v = (account.verified \/ linkGood)
      OBVIOUS
    <3>3. account' = [verified |-> v, password |-> account.password]
      BY <3>1, <3>2, RowChanges
    <3>4. \/ Reply(r, "failed")
          \/ linkGood /\ (Reply(r, "already") \/ Reply(r, "ok"))
      BY <2>2 DEF ServerAnswers
    <3>5. linkGood => v
      BY <3>2
    <3>6. account'.verified = v /\ account'.password = account.password
      BY <3>3
    <3>7. account.verified => v
      BY <3>2
    <3> QED
      BY <2>0, <2>2, <3>1, <3>3, <3>4, <3>5, <3>6, <3>7 DEF Replies
  <2>3. CASE r.what = "resend"
    BY <2>0, <2>3 DEF ServerAnswers, Replies
  <2>4. CASE r.what = "reset"
    <3>1. account' = [account EXCEPT !.password = IF linkGood THEN "new" ELSE account.password]
          /\ queued' = queued
      BY <2>4 DEF ServerAnswers
    <3>2. CASE linkGood
      <4>1. account' = [verified |-> account.verified, password |-> "new"]
        BY <2>0, <3>1, <3>2
      <4>2. Reply(r, "ok")
        BY <2>4, <3>2 DEF ServerAnswers
      <4> QED
        BY <2>0, <2>4, <3>1, <4>1, <4>2 DEF Replies
    <3>3. CASE ~linkGood
      <4>1. account' = account
        BY <2>0, <3>1, <3>3
      <4>2. Reply(r, "failed")
        BY <2>4, <3>3 DEF ServerAnswers
      <4> QED
        BY <2>0, <2>4, <3>1, <4>1, <4>2 DEF Replies
    <3> QED
      BY <3>2, <3>3
  <2>5. CASE r.what = "forgot"
    BY <2>0, <2>5 DEF ServerAnswers, Replies
  <2> QED
    BY <1>1, <2>1, <2>2, <2>3, <2>4, <2>5 DEF Question
<1>4. PICK reply \in Replies :
            /\ Reply(r, reply)
            /\ r.what = "show" => reply # "unverified"
            /\ r.what = "verify" /\ reply \in {"ok", "already"} => account'.verified
            /\ r.what = "resend" /\ reply = "ok" => "verification" \in queued'
            /\ r.what = "reset" /\ reply = "ok" => account'.password = "new"
            /\ r.what = "forgot" /\ reply = "ok" => "recovery" \in queued'
  BY <1>3
<1> DEFINE q == [r EXCEPT !.reply = reply]
<1>5. q \in Question /\ q.what = r.what /\ q.reply = reply
  <2>1. reply \in Replies \cup {"none"}
    BY <1>4
  <2> QED
    BY <1>1, <2>1, AnAnswer
<1>6. waiting' = (waiting \ {r}) \cup {q}
  BY <1>4 DEF Reply
<1> HIDE DEF q
<1>7. LinkTyped'
  BY <1>3, <1>5, <1>6 DEF LinkTyped
<1>8. AnswersHold'
  <2> SUFFICES ASSUME NEW s \in waiting'
               PROVE  /\ s.what = "show" => account'.verified /\ s.reply # "unverified"
                      /\ s.what = "verify" /\ s.reply \in {"ok", "already"} => account'.verified
                      /\ s.what = "resend" /\ s.reply = "ok" => "verification" \in queued'
                      /\ s.what = "reset" => /\ linkPage' = "reset-password"
                                             /\ s.reply = "ok" => account'.password = "new"
                      /\ s.what = "forgot" => /\ linkPage' = "forgot"
                                              /\ s.reply = "ok" => "recovery" \in queued'
    BY DEF AnswersHold
  <2>1. CASE s \in waiting
    BY <1>2, <1>3, <2>1 DEF AnswersHold
  <2>2. CASE s = q
    BY <1>2, <1>3, <1>4, <1>5, <2>2 DEF AnswersHold
  <2> QED
    BY <1>6, <2>1, <2>2
<1>9. ClaimsHold' /\ BannerGoes'
  BY <1>2, <1>3 DEF ClaimsHold, BannerGoes, Unverified
<1> QED
  BY <1>7, <1>8, <1>9

LEMMA NextLinkInv == ASSUME LinkInv, [LinkNext]_linkVars PROVE LinkInv'
<1> USE DEF LinkInv
<1>1. ASSUME NEW what \in {"resend", "reset", "forgot"}, waiting' = waiting \cup {Ask(what)},
             what = "reset" => linkPage = "reset-password", what = "forgot" => linkPage = "forgot",
             UNCHANGED <<account, queued, linkPage, linkGood, verifyState, linkUser, resent, formDone,
                         overtaken>>
      PROVE  LinkInv'
  <2>1. Ask(what) \in Question /\ Ask(what).what = what /\ Ask(what).reply = "none"
    BY AQuestion
  <2>2. LinkTyped'
    BY <1>1, <2>1 DEF LinkTyped
  <2>3. AnswersHold'
    BY <1>1, <2>1 DEF AnswersHold
  <2> QED
    BY <1>1, <2>2, <2>3 DEF ClaimsHold, BannerGoes, Unverified
<1>2. CASE HandleResend
  BY <1>1, <1>2 DEF HandleResend
<1>3. CASE SubmitReset
  BY <1>1, <1>3 DEF SubmitReset, SubmitForm
<1>4. CASE SubmitForgot
  BY <1>1, <1>4 DEF SubmitForgot, SubmitForm
<1>5. CASE VerifiedElsewhere
  <2>1. account' = [account EXCEPT !.verified = TRUE] /\ waiting' = waiting /\ queued' = queued
        /\ UNCHANGED <<linkPage, verifyState, linkUser, resent, formDone, overtaken>>
    BY <1>5 DEF VerifiedElsewhere
  <2>2. account' = [verified |-> TRUE, password |-> account.password]
    BY <2>1, RowChanges
  <2> QED
    BY <2>1, <2>2 DEF LinkTyped, AnswersHold, ClaimsHold, BannerGoes, Unverified
<1>6. ASSUME NEW r \in waiting, AnswerLost(r) PROVE LinkInv'
  <2>1. /\ r \in Question /\ r.what \notin {"mount", "show"}
        /\ UNCHANGED <<account, queued, linkPage, verifyState, linkUser, resent, formDone, overtaken>>
    BY <1>6 DEF AnswerLost, LinkTyped
  <2> DEFINE q == [r EXCEPT !.reply = "failed"]
  <2>2. q \in Question /\ q.what = r.what /\ q.reply = "failed"
    BY <2>1, AnAnswer DEF Replies
  <2>3. waiting' = (waiting \ {r}) \cup {q}
    BY <1>6 DEF AnswerLost, Reply
  <2> HIDE DEF q
  <2>4. LinkTyped'
    BY <2>1, <2>2, <2>3 DEF LinkTyped
  <2>5. AnswersHold'
    BY <1>6, <2>1, <2>2, <2>3 DEF AnswersHold
  <2> QED
    BY <2>1, <2>4, <2>5 DEF ClaimsHold, BannerGoes, Unverified
<1>7. ASSUME NEW r \in waiting, UserShown(r) PROVE LinkInv'
  <2>1. /\ r \in Question /\ waiting' = waiting \ {r}
        /\ UNCHANGED <<account, queued, linkPage, resent, formDone>>
        /\ r.what \in {"mount", "show"} /\ linkUser' = r.reply
        /\ verifyState' = IF r.what = "show" THEN "success" ELSE verifyState
        /\ overtaken' = (overtaken \/ (r.what = "mount" /\ r.reply = "unverified" /\ account.verified))
    BY <1>7 DEF UserShown, LinkTyped
  <2>2. LinkTyped' /\ AnswersHold'
    BY <2>1 DEF LinkTyped, AnswersHold
  <2>3. ClaimsHold'
    BY <1>7, <2>1 DEF ClaimsHold, AnswersHold
  <2>4. BannerGoes'
    BY <1>7, <2>1 DEF BannerGoes, Unverified, ClaimsHold, AnswersHold
  <2> QED
    BY <2>2, <2>3, <2>4
<1>8. ASSUME NEW r \in waiting, VerificationHeard(r) PROVE LinkInv'
  <2>1. /\ r.what = "verify"
        /\ UNCHANGED <<account, queued, linkPage, linkUser, resent, formDone, overtaken>>
    BY <1>8 DEF VerificationHeard
  <2>2. CASE r.reply = "ok"
    <3>1. waiting' = (waiting \ {r}) \cup {Ask("show")} /\ verifyState' = verifyState
      BY <1>8, <2>2 DEF VerificationHeard, WhileShowing
    <3>2. Ask("show") \in Question /\ Ask("show").what = "show" /\ Ask("show").reply = "none"
      BY AQuestion
    <3>3. account.verified
      BY <1>8, <2>1, <2>2 DEF AnswersHold
    <3>4. LinkTyped'
      BY <2>1, <3>1, <3>2 DEF LinkTyped
    <3>5. AnswersHold'
      BY <2>1, <3>1, <3>2, <3>3 DEF AnswersHold
    <3> QED
      BY <2>1, <3>1, <3>4, <3>5 DEF ClaimsHold, BannerGoes, Unverified
  <2>3. CASE r.reply # "ok"
    <3>1. waiting' = waiting \ {r} /\ verifyState' = AfterFailure(r.reply)
      BY <1>8, <2>3 DEF VerificationHeard
    <3>2. verifyState' # "success" /\ (verifyState' = "already_verified" => account.verified)
      BY <1>8, <2>1, <3>1 DEF AfterFailure, AnswersHold
    <3> QED
      BY <2>1, <3>1, <3>2 DEF LinkTyped, AnswersHold, ClaimsHold, BannerGoes, Unverified
  <2> QED
    BY <2>2, <2>3
<1>9. ASSUME NEW r \in waiting, ClickHeard(r) PROVE LinkInv'
  <2>1. /\ waiting' = waiting \ {r} /\ r.what \in {"resend", "reset", "forgot"}
        /\ UNCHANGED <<account, queued, linkPage, verifyState, linkUser, overtaken>>
    BY <1>9 DEF ClickHeard
  <2>2. /\ resent' => resent \/ (r.what = "resend" /\ r.reply = "ok")
        /\ formDone' => formDone \/ (r.what \in {"reset", "forgot"} /\ r.reply = "ok")
    BY <1>9 DEF ClickHeard
  <2>3. LinkTyped' /\ AnswersHold' /\ BannerGoes'
    BY <2>1 DEF LinkTyped, AnswersHold, BannerGoes, Unverified
  <2>4. ClaimsHold'
    BY <1>9, <2>1, <2>2 DEF ClaimsHold, AnswersHold
  <2> QED
    BY <2>3, <2>4
<1>10. CASE UNCHANGED linkVars
  BY <1>10 DEF linkVars, LinkTyped, AnswersHold, ClaimsHold, BannerGoes, Unverified
<1> QED
  BY <1>2, <1>3, <1>4, <1>5, <1>6, <1>7, <1>8, <1>9, <1>10, ServerAnswersKeeps DEF LinkNext

THEOREM LinksTellTheTruth == LinkSpec => []LinksTold
<1>1. LinkInit => LinkInv
  BY InitLinkInv
<1>2. LinkInv /\ [LinkNext]_linkVars => LinkInv'
  BY NextLinkInv
<1>3. LinkInv => LinksTold
  BY DEF LinkInv, LinksTold
<1> QED
  BY <1>1, <1>2, <1>3, PTL DEF LinkSpec

-------------------------------------------------------------------------------
(* The three together. *)

\* The run goes through behaviours of each part's own specification: what is
\* proved of a part holds of the run.
THEOREM BrowserFollowsParts == BrowserSpec => Spec /\ NavSpec /\ LinkSpec
<1>1. BrowserInit => Init /\ NavInit /\ LinkInit
  BY DEF BrowserInit
<1>2. [BrowserNext]_<<page, vars, navVars, linkVars>>
      => [Next]_vars /\ [NavNext]_navVars /\ [LinkNext]_linkVars
  BY DEF BrowserNext
<1> QED
  BY <1>1, <1>2, PTL DEF BrowserSpec, Spec, NavSpec, LinkSpec

\* Signing out lasts, a tab shows whom the browser is, users find only links and
\* controls that work for them, and pages claim what happened.
THEOREM BrowserKeepsAll ==
    BrowserSpec => [](SignOutLasts /\ ShownTruly /\ Permitted /\ LinksTold)
  BY BrowserFollowsParts, SignOutIsLasting, SessionIsShownTruly, WhereUsersMayGo,
     LinksTellTheTruth, PTL
===============================================================================
