--------------------------- MODULE CommitteeProofs ----------------------------
(***************************************************************************)
(* Proofs about the other pages of the committee: accounts, types and      *)
(* deadlines, reviews, one abstract, mails and their texts; each page on   *)
(* its own, for every set of people, submissions and mails and any number  *)
(* of requests, whatever order their answers come in; and, at the end, all *)
(* of them together.                                                       *)
(***************************************************************************)
EXTENDS MCCommittee, ProgramPageProofs, SequenceTheorems

-------------------------------------------------------------------------------
(* The table of accounts. *)

AccountRow == [role : Primary \cup {"gone"}, reviewer : BOOLEAN, edition : Nat]
Change == [n : Nat, by : Chief, of : Holder, field : {"role", "reviewer", "delete"},
           value : Primary \cup {"on", "off", "gone"},
           at : {"sent", "allowed", "loaded", "written", "refused", "done"}, row : AccountRow]

AccountsTyped ==
    /\ accounts \in [Holder -> AccountRow]
    /\ shownRow \in [Chief -> [Holder -> AccountRow]]
    /\ updating \in [Chief -> Holder \cup {NoAccount}]
    /\ deletes \in [Chief -> Holder \cup {NoAccount}]
    /\ changes \subseteq Change /\ askedFor \in Nat
    /\ lateRow \in BOOLEAN /\ apart \in [Chief -> BOOLEAN] /\ roleCrossed \in BOOLEAN

\* Nobody takes the role from themselves, and what the server is about to do was
\* asked by an administrator.
OthersAreChanged ==
    \A c \in changes :
        /\ c.field # "reviewer" => c.of # c.by
        /\ c.field = "role" => c.value \in Primary
AllowedByAdmin ==
    ~roleCrossed => \A c \in changes : c.at \in Pending => accounts[c.by].role = "admin"

\* An answer is not newer than the account it is about ...
NotNewer(r, u) ==
    IF r = Gone THEN accounts[u] = Gone
    ELSE accounts[u] = Gone \/ r.edition < accounts[u].edition \/ r = accounts[u]
AnswersAreOld ==
    /\ \A c \in changes : c.at = "done" => NotNewer(c.row, c.of)
    /\ \A a \in Chief, u \in Holder : NotNewer(shownRow[a][u], u)

\* ... and the newest is shown, or on its way, or about to be read.
BringsAccount(c, u) == c.of = u /\ (c.at = "written" \/ (c.at = "done" /\ c.row = accounts[u]))
NewestIsComing(a, u) ==
    \/ shownRow[a][u] = accounts[u]
    \/ \E c \in changes : c.by = a /\ BringsAccount(c, u)
NewestIsKnown ==
    ~lateRow => \A a \in Chief : ~apart[a] => \A u \in Holder : NewestIsComing(a, u)

AccountsInv ==
    /\ AccountsTyped /\ OthersAreChanged /\ AllowedByAdmin /\ SomeAdmin
    /\ AnswersAreOld /\ NewestIsKnown

LEMMA InitAccountsInv == AccountsInit => AccountsInv
  <1> SUFFICES ASSUME AccountsInit PROVE AccountsInv
    OBVIOUS
  <1>1. AccountsTyped
    BY DEF AccountsInit, AccountsTyped, AccountRow, Primary, Holder
  <1>2. SomeAdmin
    BY AccountsAssumption DEF AccountsInit, SomeAdmin, Holder
  <1>3. QED
    BY <1>1, <1>2 DEF AccountsInit, AccountsInv, OthersAreChanged, AllowedByAdmin, AnswersAreOld,
       NewestIsKnown, NewestIsComing, NotNewer, Pending

AllowedNow(c) == ~roleCrossed => accounts[c.by].role = "admin"

\* Requests that begin, that are allowed, refused or dropped leave the accounts as they are.
LEMMA ChangesKeepAccounts ==
    ASSUME AccountsInv, UNCHANGED <<accounts, shownRow, lateRow, roleCrossed>>,
           AccountsTyped', OthersAreChanged',
           \A a \in Chief : apart[a] => apart'[a],
           \A c \in changes' : c.at \in Pending => c \in changes \/ AllowedNow(c),
           \A c \in changes' : c.at = "done" => c \in changes \/ c.row = accounts[c.of],
           \A c \in changes : c.at \in {"written", "done"} =>
              \/ c \in changes' \/ apart'[c.by]
              \/ \E d \in changes' : d.by = c.by /\ BringsAccount(d, c.of)
    PROVE  AccountsInv'
  <1>1. AllowedByAdmin' /\ SomeAdmin'
    BY DEF AccountsInv, AllowedByAdmin, AllowedNow, SomeAdmin, Pending
  <1>2. AnswersAreOld'
    <2>1. ASSUME NEW c \in changes', c.at = "done" PROVE NotNewer(c.row, c.of)
      BY <2>1 DEF AccountsInv, AnswersAreOld, NotNewer
    <2>2. QED
      BY <2>1 DEF AccountsInv, AnswersAreOld, NotNewer
  <1>3. NewestIsKnown'
    <2>1. SUFFICES ASSUME ~lateRow, NEW a \in Chief, ~apart'[a], NEW u \in Holder
                   PROVE  NewestIsComing(a, u)'
      BY DEF NewestIsKnown
    <2>2. NewestIsComing(a, u)
      BY <2>1 DEF AccountsInv, NewestIsKnown
    <2>3. ASSUME NEW c \in changes, c.by = a, BringsAccount(c, u)
          PROVE  \E d \in changes' : d.by = a /\ BringsAccount(d, u)
      BY <2>1, <2>3 DEF BringsAccount
    <2>4. QED
      BY <2>2, <2>3 DEF NewestIsComing, BringsAccount
  <1>4. QED
    BY <1>1, <1>2, <1>3 DEF AccountsInv

LEMMA AskKeepsAccounts ==
    ASSUME AccountsInv, NEW a \in Chief, NEW u \in Holder,
           NEW field \in {"role", "reviewer", "delete"},
           NEW value \in Primary \cup {"on", "off", "gone"},
           AskFor(a, u, field, value), UNCHANGED apart,
           field # "reviewer" => u # a, field = "role" => value \in Primary,
           updating' \in [Chief -> Holder \cup {NoAccount}],
           deletes' \in [Chief -> Holder \cup {NoAccount}]
    PROVE  AccountsInv'
  <1> DEFINE c == [n |-> askedFor, by |-> a, of |-> u, field |-> field, value |-> value,
                   at |-> "sent", row |-> Gone]
  <1>1. c \in Change /\ c.at = "sent" /\ c.field = field /\ c.of = u /\ c.by = a /\ c.value = value
    BY DEF AccountsInv, AccountsTyped, Change, Gone, AccountRow
  <1>2. changes' = changes \cup {c} /\ UNCHANGED <<accounts, shownRow, lateRow, roleCrossed>>
    BY DEF AskFor
  <1> HIDE DEF c
  <1>3. AccountsTyped'
    BY <1>1, <1>2 DEF AskFor, AccountsInv, AccountsTyped
  <1>4. OthersAreChanged'
    BY <1>1, <1>2 DEF AccountsInv, OthersAreChanged
  <1>5. QED
    BY <1>1, <1>2, <1>3, <1>4, ChangesKeepAccounts DEF Pending

LEMMA AuthoriseKeepsAccounts ==
    ASSUME AccountsInv, NEW c \in changes, Authorise(c) \/ Declined(c)
    PROVE  AccountsInv'
  <1>1. PICK at \in {"allowed", "refused"} :
           /\ at = "allowed" => accounts[c.by].role = "admin"
           /\ changes' = (changes \ {c}) \cup {[c EXCEPT !.at = at]}
    BY DEF Authorise, Declined
  <1> DEFINE d == [c EXCEPT !.at = at]
  <1>2. c \in Change /\ c.at \notin {"written", "done"}
    BY DEF AccountsInv, AccountsTyped, Authorise, Declined
  <1>3. d \in Change /\ d.at = at /\ d.by = c.by /\ d.of = c.of /\ d.field = c.field /\ d.value = c.value
    BY <1>2 DEF Change
  <1>4. changes' = (changes \ {c}) \cup {d}
    BY <1>1
  <1> HIDE DEF d
  <1>5. UNCHANGED <<accounts, shownRow, updating, deletes, askedFor, lateRow, apart, roleCrossed>>
    BY DEF Authorise, Declined
  <1>6. AccountsTyped'
    BY <1>3, <1>4, <1>5 DEF AccountsInv, AccountsTyped
  <1>7. OthersAreChanged'
    BY <1>3, <1>4 DEF AccountsInv, OthersAreChanged
  <1>8. \A k \in changes' : k.at \in Pending => k \in changes \/ AllowedNow(k)
    BY <1>1, <1>3, <1>4 DEF Pending, AllowedNow
  <1>9. QED
    BY <1>1, <1>2, <1>3, <1>4, <1>5, <1>6, <1>7, <1>8, ChangesKeepAccounts

\* Reading the account, before the change and after it.
LEMMA ReadingKeepsAccounts ==
    ASSUME AccountsInv, NEW c \in changes, LoadAccount(c) \/ Refresh(c)
    PROVE  AccountsInv'
  <1>1. PICK at \in {"loaded", "done"} :
           /\ at = "loaded" <=> c.at = "allowed"
           /\ at = "done" <=> c.at = "written"
           /\ changes' = (changes \ {c}) \cup {[c EXCEPT !.at = at, !.row = accounts[c.of]]}
    BY DEF LoadAccount, Refresh
  <1> DEFINE d == [c EXCEPT !.at = at, !.row = accounts[c.of]]
  <1>2. c \in Change /\ accounts[c.of] \in AccountRow
    BY DEF AccountsInv, AccountsTyped, Change
  <1>3. /\ d \in Change /\ d.at = at /\ d.by = c.by /\ d.of = c.of /\ d.field = c.field
        /\ d.value = c.value /\ d.row = accounts[c.of]
    BY <1>2 DEF Change
  <1>4. changes' = (changes \ {c}) \cup {d}
    BY <1>1
  <1> HIDE DEF d
  <1>5. UNCHANGED <<accounts, shownRow, updating, deletes, askedFor, lateRow, apart, roleCrossed>>
    BY DEF LoadAccount, Refresh
  <1>6. AccountsTyped'
    BY <1>3, <1>4, <1>5 DEF AccountsInv, AccountsTyped
  <1>7. OthersAreChanged'
    BY <1>3, <1>4 DEF AccountsInv, OthersAreChanged
  <1>8. \A k \in changes' : k.at \in Pending => k \in changes \/ AllowedNow(k)
    BY <1>1, <1>3, <1>4 DEF Pending, AllowedNow, AccountsInv, AllowedByAdmin
  <1>9. c.at = "written" => BringsAccount(d, c.of)
    BY <1>1, <1>3 DEF BringsAccount
  <1>10. \A k \in changes : k.at \in {"written", "done"} =>
              \/ k \in changes' \/ apart'[k.by]
              \/ \E x \in changes' : x.by = k.by /\ BringsAccount(x, k.of)
    BY <1>1, <1>3, <1>4, <1>9
  <1>11. \A k \in changes' : k.at = "done" => k \in changes \/ k.row = accounts[k.of]
    BY <1>3, <1>4
  <1>12. QED
    BY <1>5, <1>6, <1>7, <1>8, <1>10, <1>11, ChangesKeepAccounts

LEMMA PerformKeepsAccounts ==
    ASSUME AccountsInv, NEW c \in changes, Perform(c)
    PROVE  AccountsInv'
  <1> DEFINE entry == IF c.field = "delete" THEN Gone ELSE Updated(c)
             at == IF c.field = "delete" THEN "done" ELSE "written"
             d == [c EXCEPT !.at = at, !.row = entry]
  <1>1. /\ c \in Change /\ c.at = "loaded" /\ (c.field = "delete" \/ accounts[c.of] # Gone)
        /\ accounts \in [Holder -> AccountRow] /\ accounts[c.of] \in AccountRow
        /\ c.of \in Holder /\ c.by \in Chief
    BY DEF AccountsInv, AccountsTyped, Perform, Change
  <1>2. /\ entry \in AccountRow
        /\ c.field = "delete" => entry = Gone
        /\ c.field # "delete" => entry.edition = accounts[c.of].edition + 1
        /\ c.field = "reviewer" => entry.role = accounts[c.of].role
        /\ Gone.role # "admin"
    <2>1. c.field = "role" => c.value \in Primary
      BY DEF AccountsInv, OthersAreChanged
    <2>2. Gone \in AccountRow /\ Gone.role = "gone"
      BY DEF Gone, AccountRow
    <2>3. CASE c.field = "delete"
      BY <2>2, <2>3
    <2>4. CASE c.field # "delete"
      <3>1. /\ accounts[c.of].role \in Primary \cup {"gone"} /\ accounts[c.of].reviewer \in BOOLEAN
            /\ accounts[c.of].edition \in Nat
        BY <1>1 DEF AccountRow
      <3>2. RoleAfter(c) \in Primary \cup {"gone"} /\ (c.field = "reviewer" => RoleAfter(c) = accounts[c.of].role)
        BY <2>1, <3>1 DEF RoleAfter
      <3>3. ReviewerAfter(c) \in BOOLEAN
        BY <3>1 DEF ReviewerAfter
      <3>4. entry = [role |-> RoleAfter(c), reviewer |-> ReviewerAfter(c),
                     edition |-> accounts[c.of].edition + 1]
        BY <2>4 DEF Updated
      <3> HIDE DEF entry
      <3>5. QED
        BY <2>2, <2>4, <3>1, <3>2, <3>3, <3>4 DEF AccountRow
    <2>5. QED
      BY <2>3, <2>4
  <1>3. /\ d \in Change /\ d.at \in {"written", "done"} /\ d.row = entry /\ d.of = c.of /\ d.by = c.by
        /\ d.field = c.field /\ d.value = c.value
    BY <1>1, <1>2 DEF Change
  <1>4. /\ accounts' = [accounts EXCEPT ![c.of] = entry]
        /\ changes' = (changes \ {c}) \cup {d}
        /\ roleCrossed' = (roleCrossed \/ (entry.role # "admin" /\
                             \E k \in changes \ {c} : k.by = c.of /\ k.at \in Pending))
        /\ apart' = [a \in Chief |-> apart[a] \/ a # c.by]
        /\ UNCHANGED <<shownRow, updating, deletes, askedFor, lateRow>>
    BY DEF Perform
  <1> HIDE DEF entry, d
  <1>5. accounts'[c.of] = entry /\ \A u \in Holder : u # c.of => accounts'[u] = accounts[u]
    BY <1>1, <1>4
  <1>6. AccountsTyped'
    BY <1>1, <1>2, <1>3, <1>4 DEF AccountsInv, AccountsTyped
  <1>7. OthersAreChanged'
    BY <1>3, <1>4 DEF AccountsInv, OthersAreChanged
  <1>8. \A k \in changes : k \in Change
    BY DEF AccountsInv, AccountsTyped
  <1>9. AllowedByAdmin'
    <2>1. SUFFICES ASSUME ~roleCrossed', NEW k \in changes', k.at \in Pending
                   PROVE  accounts'[k.by].role = "admin"
      BY DEF AllowedByAdmin
    <2>2. k \in changes \ {c} /\ k.by \in Holder
      BY <1>3, <1>4, <1>8, <2>1 DEF Change, Holder, Pending
    <2>3. accounts[k.by].role = "admin"
      BY <1>4, <2>1, <2>2 DEF AccountsInv, AllowedByAdmin
    <2>4. k.by = c.of => entry.role = "admin"
      BY <1>4, <2>1, <2>2
    <2>5. QED
      BY <1>5, <2>2, <2>3, <2>4
  <1>10. SomeAdmin'
    <2>1. SUFFICES ASSUME ~roleCrossed' PROVE \E u \in Holder : accounts'[u].role = "admin"
      BY DEF SomeAdmin
    <2>2. accounts[c.by].role = "admin" /\ c.by \in Holder
      BY <1>1, <1>4, <2>1 DEF AccountsInv, AllowedByAdmin, Holder, Pending
    <2>3. CASE c.field = "reviewer"
      <3>1. PICK u \in Holder : accounts[u].role = "admin"
        BY <1>4, <2>1 DEF AccountsInv, SomeAdmin
      <3>2. QED
        BY <1>2, <1>5, <2>3, <3>1
    <2>4. CASE c.field # "reviewer"
      BY <1>5, <2>2, <2>4 DEF AccountsInv, OthersAreChanged
    <2>5. QED
      BY <2>3, <2>4
  <1>11. ASSUME NEW r \in AccountRow, NEW u \in Holder, NotNewer(r, u) PROVE NotNewer(r, u)'
    <2>1. CASE u # c.of
      BY <1>5, <1>11, <2>1 DEF NotNewer
    <2>2. CASE u = c.of
      <3>1. accounts[u] # Gone => r # Gone /\ r.edition <= accounts[u].edition
        BY <1>1, <1>11, <2>2 DEF NotNewer, AccountRow
      <3>2. entry = Gone \/ (r # Gone /\ r.edition < entry.edition)
        BY <1>1, <1>2, <1>11, <2>2, <3>1 DEF AccountRow, Change
      <3>3. QED
        BY <1>5, <2>2, <3>1, <3>2 DEF NotNewer
    <2>3. QED
      BY <2>1, <2>2
  <1>12. AnswersAreOld'
    <2>1. ASSUME NEW k \in changes', k.at = "done" PROVE NotNewer(k.row, k.of)'
      <3>1. CASE k = d
        BY <1>3, <1>5, <3>1 DEF NotNewer
      <3>2. CASE k \in changes
        BY <1>8, <1>11, <2>1, <3>2 DEF AccountsInv, AnswersAreOld, Change
      <3>3. QED
        BY <1>4, <3>1, <3>2
    <2>2. ASSUME NEW a \in Chief, NEW u \in Holder PROVE NotNewer(shownRow[a][u], u)'
      <3>1. NotNewer(shownRow[a][u], u) /\ shownRow[a][u] \in AccountRow
        BY DEF AccountsInv, AnswersAreOld, AccountsTyped
      <3>2. shownRow'[a][u] = shownRow[a][u]
        BY <1>4
      <3>3. QED
        BY <1>11, <3>1, <3>2 DEF NotNewer
    <2>3. QED
      BY <2>1, <2>2 DEF AnswersAreOld
  <1>13. NewestIsKnown'
    <2>1. SUFFICES ASSUME ~lateRow', NEW a \in Chief, ~apart'[a], NEW u \in Holder
                   PROVE  NewestIsComing(a, u)'
      BY DEF NewestIsKnown
    <2>2. a = c.by /\ NewestIsComing(a, u)
      BY <1>4, <2>1 DEF AccountsInv, NewestIsKnown
    <2>3. CASE u = c.of
      BY <1>3, <1>4, <1>5, <2>2, <2>3 DEF NewestIsComing, BringsAccount
    <2>4. CASE u # c.of
      BY <1>1, <1>4, <1>5, <2>2, <2>4 DEF NewestIsComing, BringsAccount
    <2>5. QED
      BY <2>3, <2>4
  <1>14. QED
    BY <1>6, <1>7, <1>9, <1>10, <1>12, <1>13 DEF AccountsInv

LEMMA IdleKeepsTypes ==
    ASSUME AccountsTyped, NEW c \in changes, Idle(c)
    PROVE  /\ changes' = changes \ {c}
           /\ updating' \in [Chief -> Holder \cup {NoAccount}]
           /\ deletes' \in [Chief -> Holder \cup {NoAccount}]
  BY DEF AccountsTyped, Idle

LEMMA RowAnsweredKeepsAccounts ==
    ASSUME AccountsInv, NEW c \in changes, RowAnswered(c)
    PROVE  AccountsInv'
  <1>1. /\ c \in Change /\ c.at = "done" /\ c.by \in Chief /\ c.of \in Holder /\ c.row \in AccountRow
        /\ AccountsTyped /\ shownRow \in [Chief -> [Holder -> AccountRow]]
    BY DEF AccountsInv, AccountsTyped, RowAnswered, Change
  <1>2. /\ changes' = changes \ {c}
        /\ updating' \in [Chief -> Holder \cup {NoAccount}]
        /\ deletes' \in [Chief -> Holder \cup {NoAccount}]
    BY <1>1, IdleKeepsTypes DEF RowAnswered
  <1>3. /\ UNCHANGED <<accounts, askedFor, apart, roleCrossed>>
        /\ lateRow' = (lateRow \/ (c.row # Gone /\ c.row.edition < shownRow[c.by][c.of].edition))
        /\ shownRow' = IF shownRow[c.by][c.of] = Gone THEN shownRow
                       ELSE [shownRow EXCEPT ![c.by][c.of] = c.row]
    BY DEF RowAnswered, WholeRow
  <1>4. /\ \A a \in Chief, u \in Holder :
              (a # c.by \/ u # c.of) => shownRow'[a][u] = shownRow[a][u]
        /\ shownRow'[c.by][c.of] =
              IF shownRow[c.by][c.of] = Gone THEN Gone ELSE c.row
        /\ shownRow' \in [Chief -> [Holder -> AccountRow]]
    BY <1>1, <1>3
  <1>5. AccountsTyped'
    BY <1>1, <1>2, <1>3, <1>4 DEF AccountsTyped
  <1>6. OthersAreChanged' /\ AllowedByAdmin' /\ SomeAdmin'
    BY <1>2, <1>3 DEF AccountsInv, OthersAreChanged, AllowedByAdmin, SomeAdmin, Pending
  <1>7. NotNewer(c.row, c.of)
    BY <1>1 DEF AccountsInv, AnswersAreOld
  <1>8. AnswersAreOld'
    <2>1. ASSUME NEW a \in Chief, NEW u \in Holder PROVE NotNewer(shownRow[a][u], u)'
      <3>1. NotNewer(shownRow[a][u], u)
        BY DEF AccountsInv, AnswersAreOld
      <3>2. QED
        BY <1>3, <1>4, <1>7, <3>1 DEF NotNewer
    <2>2. QED
      BY <1>2, <1>3, <2>1 DEF AnswersAreOld, AccountsInv, NotNewer
  <1>9. NewestIsKnown'
    <2>1. SUFFICES ASSUME ~lateRow', NEW a \in Chief, ~apart'[a], NEW u \in Holder
                   PROVE  NewestIsComing(a, u)'
      BY DEF NewestIsKnown
    <2>2. NewestIsComing(a, u) /\ ~(c.row # Gone /\ c.row.edition < shownRow[c.by][c.of].edition)
      BY <1>3, <2>1 DEF AccountsInv, NewestIsKnown
    <2>3. CASE a = c.by /\ u = c.of
      <3>1. CASE shownRow[a][u] = accounts[u]
        <4>1. shownRow[a][u] # Gone => c.row = accounts[u]
          BY <1>1, <1>7, <2>2, <2>3, <3>1 DEF NotNewer, AccountRow
        <4>2. QED
          BY <1>3, <1>4, <2>3, <3>1, <4>1 DEF NewestIsComing
      <3>2. CASE shownRow[a][u] # accounts[u]
        <4>1. shownRow[a][u] # Gone
          BY <3>2 DEF AccountsInv, AnswersAreOld, NotNewer
        <4>2. PICK k \in changes : k.by = a /\ BringsAccount(k, u)
          BY <2>2, <3>2 DEF NewestIsComing
        <4>3. QED
          BY <1>1, <1>2, <1>3, <1>4, <2>3, <4>1, <4>2 DEF NewestIsComing, BringsAccount
      <3>3. QED
        BY <3>1, <3>2
    <2>4. CASE ~(a = c.by /\ u = c.of)
      BY <1>1, <1>2, <1>3, <1>4, <2>2, <2>4 DEF NewestIsComing, BringsAccount
    <2>5. QED
      BY <2>3, <2>4
  <1>10. QED
    BY <1>5, <1>6, <1>8, <1>9 DEF AccountsInv

LEMMA RowRefusedKeepsAccounts ==
    ASSUME AccountsInv, NEW c \in changes, RowRefused(c)
    PROVE  AccountsInv'
  <1>1. c.by \in Chief /\ AccountsTyped /\ Idle(c)
    BY DEF AccountsInv, AccountsTyped, Change, RowRefused
  <1>2. /\ changes' = changes \ {c}
        /\ updating' \in [Chief -> Holder \cup {NoAccount}]
        /\ deletes' \in [Chief -> Holder \cup {NoAccount}]
    BY <1>1, IdleKeepsTypes
  <1>3. /\ UNCHANGED <<accounts, shownRow, askedFor, lateRow, roleCrossed>>
        /\ apart' = [apart EXCEPT ![c.by] = @ \/ c.at # "refused"]
    BY DEF RowRefused
  <1>4. apart' \in [Chief -> BOOLEAN] /\ \A a \in Chief : apart[a] => apart'[a]
    BY <1>1, <1>3 DEF AccountsTyped
  <1>5. c.at # "refused" => apart'[c.by]
    BY <1>1, <1>3 DEF AccountsTyped
  <1>6. AccountsTyped' /\ OthersAreChanged'
    BY <1>1, <1>2, <1>3, <1>4 DEF AccountsTyped, AccountsInv, OthersAreChanged
  <1>7. QED
    BY <1>2, <1>3, <1>4, <1>5, <1>6, ChangesKeepAccounts

LEMMA NextAccountsInv == AccountsInv /\ [AccountsNext]_accountVars => AccountsInv'
  <1> SUFFICES ASSUME AccountsInv, [AccountsNext]_accountVars PROVE AccountsInv'
    OBVIOUS
  <1>1. updating \in [Chief -> Holder \cup {NoAccount}] /\ deletes \in [Chief -> Holder \cup {NoAccount}]
    BY DEF AccountsInv, AccountsTyped
  <1>2. ASSUME NEW a \in Chief, NEW u \in Holder, NEW role \in Primary, HandleRoleChange(a, u, role)
        PROVE  AccountsInv'
    <2>1. AskFor(a, u, "role", role) /\ u # a /\ UNCHANGED <<apart, deletes>>
          /\ updating' = [updating EXCEPT ![a] = u]
      BY <1>2 DEF HandleRoleChange, HasRoleControl, NotOwn, AskFor
    <2>2. QED
      BY <1>1, <2>1, AskKeepsAccounts
  <1>3. ASSUME NEW a \in Chief, NEW u \in Holder, HandleReviewerToggle(a, u) PROVE AccountsInv'
    <2>1. PICK value \in {"on", "off"} : AskFor(a, u, "reviewer", value)
      BY <1>3 DEF HandleReviewerToggle
    <2>2. UNCHANGED <<apart, deletes>> /\ updating' = [updating EXCEPT ![a] = u]
      BY <1>3, <2>1 DEF HandleReviewerToggle, AskFor
    <2>3. QED
      BY <1>1, <2>1, <2>2, AskKeepsAccounts
  <1>4. ASSUME NEW a \in Chief, NEW u \in Holder, HandleDelete(a, u) PROVE AccountsInv'
    <2>1. AskFor(a, u, "delete", "gone") /\ u # a /\ UNCHANGED <<apart, updating>>
          /\ deletes' = [deletes EXCEPT ![a] = u]
      BY <1>4 DEF HandleDelete, AskFor
    <2>2. QED
      BY <1>1, <2>1, AskKeepsAccounts
  <1>5. CASE UNCHANGED accountVars
    BY <1>5, ChangesKeepAccounts DEF accountVars, AccountsInv, AccountsTyped, OthersAreChanged
  <1>6. QED
    BY <1>2, <1>3, <1>4, <1>5, AuthoriseKeepsAccounts, ReadingKeepsAccounts, PerformKeepsAccounts,
       RowAnsweredKeepsAccounts, RowRefusedKeepsAccounts
    DEF AccountsNext

\* An administrator remains, and a page nobody interferes with shows the accounts
\* as they are, for any number of administrators, accounts and requests.
THEOREM AdministratorRemains == AccountsSpec => [](SomeAdmin /\ RowsSettle)
  <1>1. AccountsInv => SomeAdmin /\ RowsSettle
    <2> SUFFICES ASSUME AccountsInv PROVE RowsSettle
      BY DEF AccountsInv
    <2>1. SUFFICES ASSUME NEW a \in Chief, ~\E c \in changes : c.by = a, ~lateRow, ~apart[a]
                   PROVE  shownRow[a] = accounts
      BY DEF RowsSettle
    <2>2. \A u \in Holder : shownRow[a][u] = accounts[u]
      BY <2>1 DEF AccountsInv, NewestIsKnown, NewestIsComing
    <2>3. QED
      BY <2>2 DEF AccountsInv, AccountsTyped
  <1>2. QED
    BY InitAccountsInv, NextAccountsInv, <1>1, PTL DEF AccountsSpec

-------------------------------------------------------------------------------
(* The form of the settings: types. *)

TypeEntry == [key : Seq(Letter), label : Seq(Letter)]
FormShape == [loaded : BOOLEAN, types : Seq(TypeEntry), saving : BOOLEAN, removed : BOOLEAN,
              outdated : BOOLEAN, unread : BOOLEAN, passed : BOOLEAN,
              sent : [types : Seq(TypeEntry), removed : BOOLEAN]]

SettingsTyped ==
    /\ types \in Seq(TypeEntry)
    /\ form \in [Editor -> FormShape]
    /\ racedTypes \in BOOLEAN /\ wronglyRefused \in BOOLEAN

KeysAreNamed(list) == <<>> \notin Keys(list)

\* What a form that was read, lost no entry, and is not older than a save of
\* another one, knows: every key there is, or will be by its own save.
FormKnows(f) ==
    /\ f.passed => f.saving
    /\ f.saving => f.loaded /\ KeysAreNamed(f.sent.types)
    /\ (f.loaded /\ ~f.outdated /\ ~f.unread /\ ~f.removed) => Keys(types) \subseteq Keys(f.types)
    /\ (f.saving /\ ~f.removed) => Keys(f.sent.types) \subseteq Keys(f.types)
    /\ (f.saving /\ ~f.outdated /\ ~f.unread /\ ~f.sent.removed) => Keys(types) \subseteq Keys(f.sent.types)

\* What was looked up is still so when it is acted on, unless the two crossed.
LookupsHold ==
    ~racedTypes =>
        /\ \A a \in Editor : form[a].passed => inUse \subseteq Keys(form[a].sent.types)
        /\ booking \subseteq Keys(types)

SettingsInv ==
    /\ SettingsTyped /\ KeysAreNamed(types) /\ \A a \in Editor : FormKnows(form[a])
    /\ LookupsHold /\ InUseConfigured /\ RenamesAccepted

LEMMA InitSettingsInv == SettingsInit => SettingsInv
  <1> SUFFICES ASSUME SettingsInit PROVE SettingsInv
    OBVIOUS
  <1>1. PICK c \in Letter : types = <<[key |-> <<c>>, label |-> <<c>>]>>
    BY DEF SettingsInit
  <1>2. <<c>> \in Seq(Letter) /\ <<c>> # <<>>
    OBVIOUS
  <1>3. types \in Seq(TypeEntry) /\ KeysAreNamed(types)
    BY <1>1, <1>2 DEF TypeEntry, KeysAreNamed, Keys
  <1>4. Blank \in FormShape /\ ~Blank.passed /\ ~Blank.saving /\ ~Blank.loaded
    BY DEF Blank, NothingSent, FormShape
  <1>5. form = [a \in Editor |-> Blank] /\ inUse \subseteq Keys(types)
    BY DEF SettingsInit
  <1> HIDE DEF Blank
  <1>6. \A a \in Editor : form[a] = Blank
    BY <1>5
  <1>7. QED
    BY <1>3, <1>4, <1>5, <1>6 DEF SettingsInit, SettingsInv, SettingsTyped, FormKnows, LookupsHold,
       InUseConfigured, RenamesAccepted

\* One form changes, and nothing else that anything here is said about.
LEMMA OneFormChanges ==
    ASSUME SettingsInv, NEW a \in Editor, NEW f \in FormShape, FormKnows(f),
           form' = [form EXCEPT ![a] = f],
           UNCHANGED <<types, inUse, wronglyRefused, booking, racedTypes>>,
           (f.passed /\ ~racedTypes) => inUse \subseteq Keys(f.sent.types)
    PROVE  SettingsInv'
  <1>1. form'[a] = f /\ \A b \in Editor : b # a => form'[b] = form[b]
    BY DEF SettingsInv, SettingsTyped
  <1>2. SettingsTyped'
    BY DEF SettingsInv, SettingsTyped
  <1>3. ASSUME NEW b \in Editor PROVE FormKnows(form[b])'
    <2>1. CASE b = a
      BY <1>1, <2>1 DEF FormKnows
    <2>2. CASE b # a
      <3>1. FormKnows(form[b])
        BY DEF SettingsInv
      <3>2. QED
        BY <1>1, <2>2, <3>1 DEF FormKnows
    <2>3. QED
      BY <2>1, <2>2
  <1>4. LookupsHold'
    BY <1>1 DEF SettingsInv, LookupsHold, Keys
  <1>5. QED
    BY <1>2, <1>3, <1>4 DEF SettingsInv, InUseConfigured, RenamesAccepted, KeysAreNamed, Keys

LEMMA OpenKeepsSettings ==
    ASSUME SettingsInv, NEW a \in Editor, OpenSettings(a) \/ OpenUnread(a)
    PROVE  SettingsInv'
  <1> DEFINE full == [Blank EXCEPT !.loaded = TRUE, !.types = types]
             empty == [Blank EXCEPT !.loaded = TRUE, !.unread = TRUE]
  <1>0. types \in Seq(TypeEntry) /\ NothingSent \in [types : Seq(TypeEntry), removed : BOOLEAN]
    BY DEF SettingsInv, SettingsTyped, NothingSent
  <1>. HIDE DEF NothingSent
  <1>a. Blank \in FormShape /\ ~Blank.saving /\ ~Blank.passed
    BY <1>0 DEF Blank, FormShape
  <1>. HIDE DEF Blank
  <1>1. /\ full \in FormShape /\ full.types = types /\ ~full.saving /\ ~full.passed
        /\ empty \in FormShape /\ empty.unread /\ ~empty.saving /\ ~empty.passed
    BY <1>0, <1>a DEF FormShape
  <1>2. /\ form' = [form EXCEPT ![a] = full] \/ form' = [form EXCEPT ![a] = empty]
        /\ UNCHANGED <<types, inUse, wronglyRefused, booking, racedTypes>>
    BY DEF OpenSettings, OpenUnread
  <1> HIDE DEF full, empty
  <1>3. FormKnows(full) /\ FormKnows(empty)
    BY <1>1 DEF FormKnows
  <1>4. QED
    BY <1>1, <1>2, <1>3, OneFormChanges

\* An edit changes the entries, and loses no key without saying so.
LEMMA EditKeepsSettings ==
    ASSUME SettingsInv, NEW a \in Editor, NEW list \in Seq(TypeEntry), NEW removed \in BOOLEAN,
           EditForm(a, [form[a] EXCEPT !.types = list, !.removed = removed]),
           form[a].removed => removed,
           ~removed => Keys(form[a].types) \ {<<>>} \subseteq Keys(list)
    PROVE  SettingsInv'
  <1> DEFINE f == [form[a] EXCEPT !.types = list, !.removed = removed]
  <1>1. form[a] \in FormShape /\ FormKnows(form[a]) /\ KeysAreNamed(types)
    BY DEF SettingsInv, SettingsTyped
  <1>2. /\ f.loaded = form[a].loaded /\ f.saving = form[a].saving /\ f.outdated = form[a].outdated /\ f.unread = form[a].unread
        /\ f.passed = form[a].passed /\ f.sent = form[a].sent /\ f.types = list /\ f.removed = removed
    BY <1>1 DEF FormShape
  <1>3. f \in FormShape
    BY <1>1 DEF FormShape
  <1>4. form' = [form EXCEPT ![a] = f] /\ UNCHANGED <<types, inUse, wronglyRefused, booking, racedTypes>>
    BY DEF EditForm
  <1> HIDE DEF f
  <1>5. FormKnows(f)
    BY <1>1, <1>2 DEF FormKnows, KeysAreNamed
  <1>6. (f.passed /\ ~racedTypes) => inUse \subseteq Keys(f.sent.types)
    BY <1>2 DEF SettingsInv, LookupsHold
  <1>7. QED
    BY <1>3, <1>4, <1>5, <1>6, OneFormChanges

LEMMA ReplacedKeepsKeys ==
    ASSUME NEW list \in Seq(TypeEntry), NEW i \in DOMAIN list, NEW t \in TypeEntry,
           list[i].key # <<>> => t.key = list[i].key
    PROVE  LET other == [list EXCEPT ![i] = t]
           IN other \in Seq(TypeEntry) /\ Keys(list) \ {<<>>} \subseteq Keys(other)
  <1> DEFINE other == [list EXCEPT ![i] = t]
  <1>1. other \in Seq(TypeEntry) /\ DOMAIN other = DOMAIN list
    BY ExceptSeq
  <1>2. \A j \in DOMAIN list : list[j].key # <<>> => other[j].key = list[j].key
    OBVIOUS
  <1>3. QED
    BY <1>1, <1>2 DEF Keys

LEMMA EditsKeepSettings ==
    ASSUME SettingsInv, NEW a \in Editor,
           \/ AddType(a)
           \/ \E i \in DOMAIN form[a].types :
                \/ ClearLabel(a, i) \/ RemoveType(a, i)
                \/ \E c \in Letter : TypeInLabel(a, i, c)
    PROVE  SettingsInv'
  <1> DEFINE list == form[a].types
             removed == form[a].removed
  <1>1. form[a] \in FormShape /\ list \in Seq(TypeEntry) /\ removed \in BOOLEAN
    BY DEF SettingsInv, SettingsTyped, FormShape
  <1>2. ASSUME NEW new PROVE [form[a] EXCEPT !.types = new] = [form[a] EXCEPT !.types = new, !.removed = removed]
    BY <1>1 DEF FormShape
  <1>3. CASE AddType(a)
    <2> DEFINE e == [key |-> <<>>, label |-> NoLabel]
               new == Append(list, e)
    <2>1. e \in TypeEntry
      BY DEF TypeEntry, NoLabel
    <2>2. new \in Seq(TypeEntry) /\ \A i \in DOMAIN list : i \in DOMAIN new /\ new[i] = list[i]
      BY <1>1, <2>1
    <2>3. Keys(list) \subseteq Keys(new)
      BY <2>2 DEF Keys
    <2>4. EditForm(a, [form[a] EXCEPT !.types = new, !.removed = removed])
      BY <1>2, <1>3 DEF AddType
    <2> HIDE DEF new, removed
    <2>5. QED
      BY <1>1, <2>2, <2>3, <2>4, EditKeepsSettings DEF removed
  <1>4. ASSUME NEW i \in DOMAIN list, ClearLabel(a, i) PROVE SettingsInv'
    <2> DEFINE t == [list[i] EXCEPT !.label = NoLabel]
               new == [list EXCEPT ![i] = t]
    <2>1. list[i] \in TypeEntry
      BY <1>1
    <2>0. NoLabel \in Seq(Letter)
      BY DEF NoLabel
    <2>. HIDE DEF NoLabel
    <2>2. t \in TypeEntry /\ t.key = list[i].key
      BY <2>0, <2>1 DEF TypeEntry
    <2>3. EditForm(a, [form[a] EXCEPT !.types = new, !.removed = removed])
      BY <1>1, <1>2, <1>4 DEF ClearLabel, FormShape
    <2>4. new \in Seq(TypeEntry) /\ Keys(list) \ {<<>>} \subseteq Keys(new)
      BY <1>1, <2>2, ReplacedKeepsKeys
    <2> HIDE DEF new, removed
    <2>5. QED
      BY <1>1, <2>3, <2>4, EditKeepsSettings DEF removed
  <1>5. ASSUME NEW i \in DOMAIN list, NEW c \in Letter, TypeInLabel(a, i, c) PROVE SettingsInv'
    <2> DEFINE old == list[i]
               label == IF Len(old.label) < MaxLabel THEN Append(old.label, c) ELSE <<c>>
               t == [key |-> KeyFor(old, label), label |-> label]
               new == [list EXCEPT ![i] = t]
    <2>1. old \in TypeEntry
      BY <1>1
    <2>2. label \in Seq(Letter)
      BY <2>1 DEF TypeEntry
    <2>3. EditForm(a, [form[a] EXCEPT !.types = new, !.removed = removed])
      BY <1>1, <1>2, <1>5 DEF TypeInLabel, FormShape
    <2> HIDE DEF label
    <2>4. t \in TypeEntry /\ (old.key # <<>> => t.key = old.key)
      BY <2>1, <2>2 DEF TypeEntry, KeyFor, KeyOnce
    <2>5. new \in Seq(TypeEntry) /\ Keys(list) \ {<<>>} \subseteq Keys(new)
      BY <1>1, <2>4, ReplacedKeepsKeys
    <2> HIDE DEF new, removed
    <2>6. QED
      BY <1>1, <2>3, <2>5, EditKeepsSettings DEF removed
  <1>6. ASSUME NEW i \in DOMAIN list, RemoveType(a, i) PROVE SettingsInv'
    <2> DEFINE new == SubSeq(list, 1, i - 1) \o SubSeq(list, i + 1, Len(list))
    <2>1. new \in Seq(TypeEntry)
      BY <1>1
    <2>2. EditForm(a, [form[a] EXCEPT !.types = new, !.removed = TRUE])
      BY <1>6 DEF RemoveType
    <2> HIDE DEF new
    <2>3. QED
      BY <2>1, <2>2, EditKeepsSettings
  <1>7. QED
    BY <1>3, <1>4, <1>5, <1>6

LEMMA SaveKeepsSettings ==
    ASSUME SettingsInv, NEW a \in Editor, OnSaveSettings(a)
    PROVE  SettingsInv'
  <1> DEFINE sent == [types |-> form[a].types, removed |-> form[a].removed]
             f == [form[a] EXCEPT !.saving = TRUE, !.sent = sent]
  <1>1. form[a] \in FormShape /\ FormKnows(form[a]) /\ form[a].loaded /\ ~form[a].saving
    BY DEF SettingsInv, SettingsTyped, OnSaveSettings
  <1>2. KeysAreNamed(form[a].types)
    BY DEF OnSaveSettings, Validated, KeysAreNamed, Keys
  <1>3. /\ f.loaded /\ f.saving /\ f.outdated = form[a].outdated /\ f.unread = form[a].unread
        /\ ~f.passed /\ f.sent.types = f.types /\ f.types = form[a].types
        /\ f.removed = form[a].removed /\ f.sent.removed = f.removed
    BY <1>1 DEF FormShape, FormKnows
  <1>4. f \in FormShape
    BY <1>1 DEF FormShape
  <1>5. form' = [form EXCEPT ![a] = f] /\ UNCHANGED <<types, inUse, wronglyRefused, booking, racedTypes>>
    BY <1>1 DEF OnSaveSettings, SettingsInv, SettingsTyped
  <1> HIDE DEF f
  <1>6. FormKnows(f)
    BY <1>1, <1>2, <1>3 DEF FormKnows
  <1>7. QED
    BY <1>3, <1>4, <1>5, <1>6, OneFormChanges

LEMMA GuardKeepsSettings ==
    ASSUME SettingsInv, NEW a \in Editor, GuardPasses(a)
    PROVE  SettingsInv'
  <1> DEFINE f == [form[a] EXCEPT !.passed = TRUE]
  <1>1. form[a] \in FormShape /\ FormKnows(form[a]) /\ form[a].saving
        /\ inUse \subseteq Keys(form[a].sent.types)
    BY DEF SettingsInv, SettingsTyped, GuardPasses, GuardTypeRemoval, RemovalGuard
  <1>2. /\ f.loaded = form[a].loaded /\ f.saving = form[a].saving /\ f.outdated = form[a].outdated /\ f.unread = form[a].unread
        /\ f.sent = form[a].sent /\ f.types = form[a].types /\ f.removed = form[a].removed
    BY <1>1 DEF FormShape
  <1>3. f \in FormShape
    BY <1>1 DEF FormShape
  <1>4. form' = [form EXCEPT ![a] = f] /\ UNCHANGED <<types, inUse, wronglyRefused, booking, racedTypes>>
    BY DEF GuardPasses
  <1> HIDE DEF f
  <1>5. FormKnows(f)
    BY <1>1, <1>2 DEF FormKnows
  <1>6. QED
    BY <1>1, <1>2, <1>3, <1>4, <1>5, OneFormChanges

LEMMA PatchKeepsSettings ==
    ASSUME SettingsInv, NEW a \in Editor, PatchSettings(a)
    PROVE  SettingsInv'
  <1> DEFINE F(b) == [form[b] EXCEPT
                    !.saving = @ /\ b # a, !.passed = @ /\ b # a,
                    !.sent = IF b = a THEN NothingSent ELSE @,
                    !.outdated = @ \/ (b # a /\ form[b].loaded)]
  <1>1. \A b \in Editor : form[b] \in FormShape /\ FormKnows(form[b])
    BY DEF SettingsInv, SettingsTyped
  <1>2. form[a].passed /\ form[a].saving /\ form[a].loaded /\ KeysAreNamed(form[a].sent.types)
    BY <1>1 DEF PatchSettings, FormKnows
  <1>3. /\ types' = form[a].sent.types /\ UNCHANGED <<inUse, wronglyRefused, booking>>
        /\ racedTypes' = (racedTypes \/ booking # {})
        /\ form' = [b \in Editor |-> F(b)]
    BY DEF PatchSettings
  <1>4. ASSUME NEW b \in Editor
        PROVE  /\ F(b) \in FormShape /\ F(b).loaded = form[b].loaded /\ F(b).types = form[b].types
               /\ F(b).removed = form[b].removed /\ F(b).unread = form[b].unread
               /\ b = a => ~F(b).saving /\ ~F(b).passed
               /\ b # a => /\ F(b).saving = form[b].saving /\ F(b).passed = form[b].passed
                           /\ F(b).sent = form[b].sent
                           /\ F(b).loaded => F(b).outdated
    <2>1. form[b] \in FormShape /\ NothingSent \in [types : Seq(TypeEntry), removed : BOOLEAN]
      BY <1>1 DEF NothingSent
    <2>2. CASE b = a
      <3>1. F(b) = [form[b] EXCEPT !.saving = FALSE, !.passed = FALSE, !.sent = NothingSent]
        BY <2>1, <2>2 DEF FormShape
      <3>2. QED
        BY <2>1, <2>2, <3>1 DEF FormShape
    <2>3. CASE b # a
      <3>1. F(b) = [form[b] EXCEPT !.outdated = form[b].outdated \/ form[b].loaded]
        BY <2>1, <2>3 DEF FormShape
      <3>2. QED
        BY <2>1, <2>3, <3>1 DEF FormShape
    <2>4. QED
      BY <2>2, <2>3
  <1> HIDE DEF F
  <1>5. \A b \in Editor : form'[b] = F(b)
    BY <1>3
  <1>6. SettingsTyped' /\ KeysAreNamed(types)'
    BY <1>1, <1>2, <1>3, <1>4 DEF SettingsInv, SettingsTyped, FormShape, KeysAreNamed, Keys
  <1>7. ASSUME NEW b \in Editor PROVE FormKnows(form[b])'
    <2>1. FormKnows(form[b])
      BY <1>1
    <2>2. QED
      BY <1>2, <1>3, <1>4, <1>5, <2>1 DEF FormKnows
  <1>8. ~racedTypes' => /\ ~racedTypes /\ booking = {} /\ inUse \subseteq Keys(form[a].sent.types)
                        /\ ~wronglyRefused
    BY <1>2, <1>3 DEF SettingsInv, LookupsHold, RenamesAccepted
  <1>a. ASSUME NEW b \in Editor, form'[b].passed, ~racedTypes'
        PROVE  inUse \subseteq Keys(form'[b].sent.types)
    <2>1. b # a /\ form[b].passed /\ form'[b].sent = form[b].sent
      BY <1>4, <1>5, <1>a
    <2>2. QED
      BY <1>8, <1>a, <2>1 DEF SettingsInv, LookupsHold
  <1>b. LookupsHold' /\ InUseConfigured' /\ RenamesAccepted'
    BY <1>3, <1>8, <1>a DEF LookupsHold, InUseConfigured, RenamesAccepted
  <1>9. QED
    BY <1>6, <1>7, <1>b DEF SettingsInv

LEMMA RefuseKeepsSettings ==
    ASSUME SettingsInv, NEW a \in Editor, RefuseSettings(a)
    PROVE  SettingsInv'
  <1> DEFINE f == [form[a] EXCEPT !.saving = FALSE, !.sent = NothingSent]
  <1>1. /\ form[a] \in FormShape /\ FormKnows(form[a]) /\ form[a].saving /\ ~form[a].passed
        /\ ~(inUse \subseteq Keys(form[a].sent.types))
        /\ \A b \in Editor : FormKnows(form[b])
    BY DEF SettingsInv, SettingsTyped, RefuseSettings, GuardTypeRemoval, RemovalGuard
  <1>0. NothingSent \in [types : Seq(TypeEntry), removed : BOOLEAN]
    BY DEF NothingSent
  <1>. HIDE DEF NothingSent
  <1>2. /\ f \in FormShape
        /\ f.loaded = form[a].loaded /\ ~f.saving /\ f.outdated = form[a].outdated /\ f.unread = form[a].unread
        /\ f.types = form[a].types /\ f.removed = form[a].removed /\ f.passed = form[a].passed
    BY <1>0, <1>1 DEF FormShape
  <1>3. /\ form' = [form EXCEPT ![a] = f] /\ UNCHANGED <<types, inUse, booking, racedTypes>>
        /\ wronglyRefused' = (wronglyRefused
              \/ ~(form[a].sent.removed \/ form[a].outdated \/ form[a].unread))
    BY DEF RefuseSettings, SettingsInv, SettingsTyped
  <1> HIDE DEF f
  <1>4. form'[a] = f /\ \A b \in Editor : b # a => form'[b] = form[b]
    BY <1>3 DEF SettingsInv, SettingsTyped
  <1>5. SettingsTyped' /\ KeysAreNamed(types)'
    BY <1>1, <1>2, <1>3 DEF SettingsInv, SettingsTyped, KeysAreNamed, Keys, FormShape
  <1>6. ASSUME NEW b \in Editor PROVE FormKnows(form[b])'
    <2>1. CASE b = a
      BY <1>1, <1>2, <1>3, <1>4, <2>1 DEF FormKnows
    <2>2. CASE b # a
      BY <1>1, <1>3, <1>4, <2>2 DEF FormKnows
    <2>3. QED
      BY <2>1, <2>2
  <1>7. ~racedTypes => (form[a].sent.removed \/ form[a].outdated \/ form[a].unread)
    BY <1>1 DEF FormKnows, SettingsInv, InUseConfigured
  <1>8. LookupsHold' /\ InUseConfigured' /\ RenamesAccepted'
    BY <1>1, <1>2, <1>3, <1>4, <1>7 DEF SettingsInv, LookupsHold, InUseConfigured, RenamesAccepted
  <1>9. QED
    BY <1>5, <1>6, <1>8 DEF SettingsInv

LEMMA BookingKeepsSettings ==
    ASSUME SettingsInv, UseType \/ \E k \in Keys(types) : CheckType(k)
    PROVE  SettingsInv'
  <1>1. UNCHANGED <<types, form, wronglyRefused>>
    BY DEF UseType, CheckType
  <1>2. racedTypes' \in BOOLEAN
    BY DEF SettingsInv, SettingsTyped, UseType, CheckType
  <1>3. SettingsTyped' /\ KeysAreNamed(types)'
    BY <1>1, <1>2 DEF SettingsInv, SettingsTyped
  <1>a. ASSUME NEW a \in Editor PROVE FormKnows(form[a])'
    <2>1. FormKnows(form[a])
      BY DEF SettingsInv
    <2>2. QED
      BY <1>1, <2>1 DEF FormKnows
  <1>b. ASSUME ~racedTypes' PROVE ~racedTypes
    BY <1>b DEF UseType, CheckType
  <1>c. LookupsHold' /\ InUseConfigured' /\ RenamesAccepted'
    <2>1. CASE UseType
      <3>1. /\ inUse' = inUse \cup booking /\ booking' = {}
            /\ racedTypes' = (racedTypes \/ \E a \in Editor : form[a].passed)
        BY <2>1 DEF UseType
      <3>2. RenamesAccepted'
        BY <1>1, <1>b DEF SettingsInv, RenamesAccepted
      <3>3. ~racedTypes' => \A a \in Editor : ~form[a].passed
        BY <3>1
      <3>4. ~racedTypes' => booking \subseteq Keys(types) /\ inUse \subseteq Keys(types)
        BY <1>b DEF SettingsInv, LookupsHold, InUseConfigured
      <3>5. LookupsHold' /\ InUseConfigured'
        BY <1>1, <3>1, <3>3, <3>4 DEF LookupsHold, InUseConfigured
      <3>6. QED
        BY <3>2, <3>5
    <2>2. CASE \E k \in Keys(types) : CheckType(k)
      BY <1>1, <1>b, <2>2 DEF SettingsInv, LookupsHold, InUseConfigured, RenamesAccepted, CheckType
    <2>3. QED
      BY <2>1, <2>2
  <1>4. QED
    BY <1>3, <1>a, <1>c DEF SettingsInv

LEMMA NextSettingsInv == SettingsInv /\ [SettingsNext]_settingsVars => SettingsInv'
  <1> SUFFICES ASSUME SettingsInv, [SettingsNext]_settingsVars PROVE SettingsInv'
    OBVIOUS
  <1>1. CASE UNCHANGED settingsVars
    BY <1>1 DEF settingsVars, SettingsInv, SettingsTyped, FormKnows, LookupsHold,
       InUseConfigured, RenamesAccepted
  <1>2. CASE SettingsNext
    BY <1>2, OpenKeepsSettings, EditsKeepSettings, SaveKeepsSettings, GuardKeepsSettings,
       PatchKeepsSettings, RefuseKeepsSettings, BookingKeepsSettings
    DEF SettingsNext
  <1>3. QED
    BY <1>1, <1>2

\* Types in use stay configured, and may be renamed, for any number of
\* administrators, types and saves.
THEOREM UsedTypesStay == SettingsSpec => [](InUseConfigured /\ RenamesAccepted)
  <1>1. SettingsInv => InUseConfigured /\ RenamesAccepted
    BY DEF SettingsInv
  <1>2. QED
    BY InitSettingsInv, NextSettingsInv, <1>1, PTL DEF SettingsSpec

-------------------------------------------------------------------------------
(* The pages that assign reviewers. *)

Review3 == [cell : Cell, id : Nat, done : BOOLEAN]
Status3 == Open3 \cup {"decided"}
CellCall == [n : Nat, cell : Cell, op : {"assign", "unassign"}, review : Review3 \cup {NoReview},
             warned : BOOLEAN, at : {"sent", "done", "refused"}, seen : SUBSET Review3,
             submitted : BOOLEAN]

ReviewsTyped ==
    /\ assigned \in SUBSET Review3 /\ heldReviews \in SUBSET Review3
    /\ status3 \in [Entry -> Status3] /\ heldStatus \in [Entry -> Status3]
    /\ issued \in Nat \ {0} /\ toggles \in Nat /\ cellCalls \in SUBSET CellCall
    /\ changedElse \in BOOLEAN

\* Two copies of one review.
Same3(r, s) == r.id = s.id /\ r.cell = s.cell

\* A copy of a review is as the server has it, or the review was submitted since.
CopyOf(h) == \A r \in assigned : Same3(r, h) => r = h \/ r \in finished

IdsAreNew ==
    /\ \A r \in assigned \cup heldReviews : r.id < issued
    /\ \A c \in cellCalls : c.review.id < issued
    /\ \A r, s \in assigned : Same3(r, s) => r = s
    /\ \A h \in heldReviews : CopyOf(h)

Assigns(c) == c.op = "assign" /\ c.at = "done"
Unassigns(c) == c.op = "unassign" /\ c.at = "done"

\* A review just assigned is not on the page, so it cannot be unassigned there;
\* one that was unassigned is gone.
CallFollows(c) ==
    /\ c.op = "unassign" =>
          /\ c.review \in Review3 /\ c.review.cell = c.cell /\ CopyOf(c.review)
          /\ c.review.done => c.warned
          /\ c.at = "done" => \A r \in assigned : ~Same3(r, c.review)
    /\ Assigns(c) =>
          /\ c.review \in Review3 /\ c.review.cell = c.cell /\ CopyOf(c.review)
          /\ \E r \in assigned : Same3(r, c.review)
          /\ \A h \in heldReviews : ~Same3(h, c.review)
          /\ \A d \in cellCalls : (d.op = "unassign" \/ (Assigns(d) /\ d # c)) => ~Same3(d.review, c.review)

\* The page and the server differ by what is on its way.
ReviewsFollow ==
    ~changedElse =>
        /\ \A r \in assigned : \/ \E h \in heldReviews : Same3(r, h)
                               \/ \E c \in cellCalls : Assigns(c) /\ Same3(r, c.review)
        /\ \A h \in heldReviews : \/ \E r \in assigned : Same3(r, h)
                                  \/ \E c \in cellCalls : Unassigns(c) /\ Same3(h, c.review)

UnderReview(s) == status3[s] = "under_review"
StatusFollows(s) ==
    \/ heldStatus[s] = status3[s]
    \/ /\ heldStatus[s] = "submitted" /\ UnderReview(s)
       /\ \E c \in cellCalls : Assigns(c) /\ c.cell[1] = s /\ c.submitted
StatusesFollow ==
    (onMatrix /\ ~changedElse) =>
        /\ \A s \in Entry : StatusFollows(s)
        /\ \A c \in cellCalls :
              (c.op = "assign" /\ (c.at = "done" \/ ~c.submitted)) => UnderReview(c.cell[1])

ReviewsInv ==
    /\ ReviewsTyped /\ IdsAreNew /\ \A c \in cellCalls : CallFollows(c)
    /\ ReviewsFollow /\ StatusesFollow /\ FeedbackNotErased

LEMMA InitReviewsInv == ReviewsInit => ReviewsInv
  <1> SUFFICES ASSUME ReviewsInit PROVE ReviewsInv
    OBVIOUS
  <1>1. PICK some \in SUBSET (Cell \ OwnCell) :
            assigned = {[cell |-> cell, id |-> 0, done |-> FALSE] : cell \in some}
    BY DEF ReviewsInit
  <1>2. /\ issued = 1 /\ heldReviews = assigned /\ heldStatus = status3 /\ cellCalls = {} /\ toggles = 0
        /\ changedElse = FALSE /\ erased = FALSE /\ status3 \in [Entry -> Status3]
    BY DEF ReviewsInit, Status3
  <1>a. ASSUME NEW r \in assigned
        PROVE  \E cell \in some : r = [cell |-> cell, id |-> 0, done |-> FALSE]
    BY <1>1
  <1>b. ASSUME NEW r \in assigned PROVE r \in Review3 /\ r.id = 0
    <2>1. PICK cell \in Cell : r = [cell |-> cell, id |-> 0, done |-> FALSE]
      BY <1>a
    <2>2. QED
      BY <2>1 DEF Review3
  <1>3. assigned \in SUBSET Review3 /\ \A r \in assigned : r.id = 0
    BY <1>b
  <1>4. \A r, s \in assigned : Same3(r, s) => r = s
    <2>1. SUFFICES ASSUME NEW r \in assigned, NEW s \in assigned, r.cell = s.cell PROVE r = s
      BY DEF Same3
    <2>2. PICK x \in Cell : r = [cell |-> x, id |-> 0, done |-> FALSE]
      BY <1>a
    <2>3. PICK y \in Cell : s = [cell |-> y, id |-> 0, done |-> FALSE]
      BY <1>a
    <2>4. QED
      BY <2>1, <2>2, <2>3
  <1>e. issued = 1 /\ toggles = 0 /\ changedElse = FALSE /\ cellCalls = {}
    BY <1>2
  <1>f. issued \in Nat \ {0}
    BY <1>e
  <1>g. toggles \in Nat
    BY <1>e
  <1>h. changedElse \in BOOLEAN
    BY <1>e
  <1>i. cellCalls \in SUBSET CellCall
    BY <1>e
  <1>c. issued \in Nat \ {0} /\ toggles \in Nat /\ changedElse \in BOOLEAN /\ cellCalls \in SUBSET CellCall
    BY <1>f, <1>g, <1>h, <1>i
  <1>d. heldReviews \in SUBSET Review3 /\ heldStatus \in [Entry -> Status3]
    BY <1>2, <1>3
  <1>5. ReviewsTyped
    BY <1>2, <1>3, <1>c, <1>d DEF ReviewsTyped
  <1>6. IdsAreNew
    BY <1>2, <1>3, <1>4 DEF IdsAreNew, CopyOf
  <1>7. ReviewsFollow /\ StatusesFollow
    BY <1>2 DEF ReviewsFollow, StatusesFollow, Same3, StatusFollows
  <1>8. QED
    BY <1>2, <1>5, <1>6, <1>7 DEF ReviewsInv, FeedbackNotErased

\* A cell is clicked.
LEMMA SendKeepsReviews ==
    ASSUME ReviewsInv, NEW c \in CellCall, Send3(c), c.at = "sent", c.review.id < issued,
           c.op = "unassign" => CallFollows(c) /\ c.review \in heldReviews,
           (c.op = "assign" /\ onMatrix /\ ~changedElse /\ ~c.submitted) => UnderReview(c.cell[1])
    PROVE  ReviewsInv'
  <1>1. /\ cellCalls' = cellCalls \cup {c} /\ toggles' = toggles + 1
        /\ UNCHANGED <<assigned, status3, issued, onMatrix, heldReviews, heldStatus, finished,
                       changedElse, erased>>
    BY DEF Send3
  <1>2. ReviewsTyped'
    BY <1>1 DEF ReviewsInv, ReviewsTyped
  <1>3. IdsAreNew'
    BY <1>1 DEF ReviewsInv, IdsAreNew, CopyOf
  <1>4. ASSUME NEW d \in cellCalls PROVE CallFollows(d)'
    <2>1. CallFollows(d)
      BY DEF ReviewsInv
    <2>2. Assigns(d) => (c.op = "unassign" => ~Same3(c.review, d.review)) /\ ~Assigns(c)
      BY <2>1 DEF CallFollows, Assigns
    <2>3. QED
      BY <1>1, <2>1, <2>2 DEF CallFollows, CopyOf, Assigns
  <1>5. CallFollows(c)'
    BY <1>1 DEF CallFollows, CopyOf, Assigns
  <1>6. \A d \in cellCalls' : CallFollows(d)'
    BY <1>1, <1>4, <1>5
  <1>7. ReviewsFollow'
    BY <1>1 DEF ReviewsInv, ReviewsFollow, Assigns, Unassigns
  <1>8. StatusesFollow'
    BY <1>1 DEF ReviewsInv, StatusesFollow, StatusFollows, UnderReview, Assigns
  <1>9. QED
    BY <1>1, <1>2, <1>3, <1>6, <1>7, <1>8 DEF ReviewsInv, FeedbackNotErased

LEMMA AssignKeepsReviews ==
    ASSUME ReviewsInv, NEW cell \in Cell, AssignCell(cell)
    PROVE  ReviewsInv'
  <1> DEFINE submitted == heldStatus[cell[1]] = "submitted"
             c == [n |-> toggles, cell |-> cell, op |-> "assign", review |-> NoReview, warned |-> FALSE,
                   at |-> "sent", seen |-> heldReviews, submitted |-> submitted]
  <1>1. CellState(cell) = "assignable" /\ Send3(c)
    BY DEF AssignCell, Toggled
  <1>2. submitted \in BOOLEAN /\ heldReviews \in SUBSET Review3 /\ toggles \in Nat /\ issued \in Nat
    BY DEF ReviewsInv, ReviewsTyped
  <1>3. cell[1] \in Entry
    BY DEF Cell
  <1>4. onMatrix => heldStatus[cell[1]] \in Open3
    BY <1>1 DEF CellState
  <1>5. NoReview.id < issued
    <2>1. NoReview.id = 0
      BY DEF NoReview
    <2>2. issued > 0
      BY DEF ReviewsInv, ReviewsTyped
    <2>3. QED
      BY <2>1, <2>2
  <1>6. (onMatrix /\ ~changedElse /\ ~submitted) => UnderReview(cell[1])
    BY <1>3, <1>4 DEF ReviewsInv, StatusesFollow, StatusFollows, UnderReview, Open3
  <1> HIDE DEF submitted, NoReview
  <1>7. /\ c \in CellCall /\ c.at = "sent" /\ c.review = NoReview /\ c.op = "assign" /\ c.cell = cell
        /\ c.submitted = submitted
    BY <1>2 DEF CellCall
  <1> HIDE DEF c
  <1>8. QED
    BY <1>1, <1>5, <1>6, <1>7, SendKeepsReviews

LEMMA UnassignKeepsReviews ==
    ASSUME ReviewsInv, NEW cell \in Cell, UnassignCell(cell)
    PROVE  ReviewsInv'
  <1>1. PICK r \in At(heldReviews, cell) : Send3(Toggled(cell, "unassign", r, Warning(r)))
    BY DEF UnassignCell
  <1> DEFINE submitted == heldStatus[cell[1]] = "submitted"
             c == [n |-> toggles, cell |-> cell, op |-> "unassign", review |-> r, warned |-> r.done,
                   at |-> "sent", seen |-> heldReviews, submitted |-> submitted]
  <1>2. Send3(c)
    BY <1>1 DEF Toggled, Warning
  <1>3. r \in heldReviews /\ r.cell = cell /\ r \in Review3 /\ r.done \in BOOLEAN
    BY <1>1 DEF At, ReviewsInv, ReviewsTyped, Review3
  <1>4. submitted \in BOOLEAN /\ heldReviews \in SUBSET Review3 /\ toggles \in Nat
    BY DEF ReviewsInv, ReviewsTyped
  <1> HIDE DEF submitted
  <1>5. /\ c \in CellCall /\ c.at = "sent" /\ c.review = r /\ c.op = "unassign" /\ c.cell = cell
        /\ c.warned = r.done
    BY <1>3, <1>4 DEF CellCall
  <1> HIDE DEF c
  <1>6. r.id < issued /\ CopyOf(r)
    BY <1>3 DEF ReviewsInv, IdsAreNew
  <1>7. CallFollows(c)
    BY <1>3, <1>5, <1>6 DEF CallFollows, Assigns
  <1>8. QED
    BY <1>2, <1>3, <1>5, <1>6, <1>7, SendKeepsReviews

\* The server answers a call, and neither adds nor removes a review.
LEMMA RefusalKeepsReviews ==
    ASSUME ReviewsInv, NEW c \in cellCalls, NEW q \in CellCall, c.at = "sent",
           cellCalls' = (cellCalls \ {c}) \cup {q}, q.at = "refused",
           q.op = c.op, q.review.id < issued, q.cell = c.cell, q.submitted = c.submitted,
           c.op = "unassign" => q.review = c.review /\ q.warned = c.warned,
           UNCHANGED <<assigned, issued, status3, onMatrix, heldReviews, heldStatus, toggles, finished,
                       changedElse, erased>>
    PROVE  ReviewsInv'
  <1>1. ReviewsTyped'
    BY DEF ReviewsInv, ReviewsTyped
  <1>2. IdsAreNew'
    BY DEF ReviewsInv, IdsAreNew, CopyOf
  <1>3. CallFollows(c) /\ ~Assigns(q) /\ ~Assigns(c) /\ ~Unassigns(q) /\ ~Unassigns(c)
    BY DEF ReviewsInv, Assigns, Unassigns
  <1>4. ASSUME NEW d \in cellCalls, d # c PROVE CallFollows(d)'
    <2>1. CallFollows(d)
      BY DEF ReviewsInv
    <2>2. QED
      BY <1>3, <2>1 DEF CallFollows, CopyOf, Assigns
  <1>5. CallFollows(q)'
    BY <1>3 DEF CallFollows, CopyOf, Assigns
  <1>6. \A d \in cellCalls' : CallFollows(d)'
    BY <1>4, <1>5
  <1>7. ReviewsFollow'
    BY <1>3 DEF ReviewsInv, ReviewsFollow
  <1>8. StatusesFollow'
    BY <1>3 DEF ReviewsInv, StatusesFollow, StatusFollows, UnderReview
  <1>9. QED
    BY <1>1, <1>2, <1>6, <1>7, <1>8 DEF ReviewsInv, FeedbackNotErased
LEMMA ServeAssignKeepsReviews ==
    ASSUME ReviewsInv, NEW c \in cellCalls, ServeAssign(c)
    PROVE  ReviewsInv'
  <1>1. /\ c.op = "assign" /\ c.at = "sent" /\ c \in CellCall /\ c.cell \in Cell
        /\ issued \in Nat /\ issued > 0
        /\ UNCHANGED <<onMatrix, heldReviews, heldStatus, toggles, finished, changedElse, erased>>
    BY DEF ServeAssign, ReviewsInv, ReviewsTyped, CellCall
  <1>2. CASE ~MayAssign(c.cell) /\ Answer3(c, "refused", NoReview) /\ UNCHANGED <<assigned, issued, status3>>
    <2> DEFINE q == [c EXCEPT !.at = "refused", !.review = NoReview]
    <2>1. cellCalls' = (cellCalls \ {c}) \cup {q} /\ NoReview.id = 0
      BY <1>2 DEF Answer3, NoReview
    <2> HIDE DEF NoReview
    <2>2. /\ q \in CellCall /\ q.at = "refused" /\ q.op = c.op /\ q.cell = c.cell /\ q.review = NoReview
          /\ q.submitted = c.submitted
      BY <1>1 DEF CellCall
    <2> HIDE DEF q
    <2>3. QED
      BY <1>1, <1>2, <2>1, <2>2, RefusalKeepsReviews
  <1>3. CASE /\ MayAssign(c.cell)
             /\ LET r == [cell |-> c.cell, id |-> issued, done |-> FALSE]
                IN assigned' = assigned \cup {r} /\ Answer3(c, "done", r)
             /\ issued' = issued + 1
             /\ status3' = [status3 EXCEPT ![c.cell[1]] = "under_review"]
    <2>0. PICK k : k = issued
      OBVIOUS
    <2> DEFINE r == [cell |-> c.cell, id |-> k, done |-> FALSE]
               q == [c EXCEPT !.at = "done", !.review = r]
               s == c.cell[1]
    <2>1. /\ assigned' = assigned \cup {r} /\ cellCalls' = (cellCalls \ {c}) \cup {q} /\ issued' = issued + 1
          /\ status3' = [status3 EXCEPT ![s] = "under_review"] /\ status3[s] \in Open3
      BY <1>3, <2>0 DEF Answer3, MayAssign
    <2>2. r \in Review3 /\ r.id = issued /\ r.cell = c.cell /\ s \in Entry
      BY <1>1, <2>0 DEF Review3, Cell
    <2> HIDE DEF r
    <2>3. /\ q \in CellCall /\ q.at = "done" /\ q.op = "assign" /\ q.cell = c.cell /\ q.review = r
          /\ q.submitted = c.submitted
      BY <1>1, <2>2 DEF CellCall
    <2> HIDE DEF q, s
    <2>4. ReviewsTyped'
      <3>1. status3' \in [Entry -> Status3]
        BY <2>1 DEF ReviewsInv, ReviewsTyped, Status3, Open3
      <3>2. issued' \in Nat \ {0}
        BY <1>1, <2>1
      <3>3. QED
        BY <1>1, <2>1, <2>2, <2>3, <3>1, <3>2 DEF ReviewsInv, ReviewsTyped
    <2>5. \A t \in assigned \cup heldReviews : t.id < issued /\ t.id \in Nat
      BY DEF ReviewsInv, ReviewsTyped, IdsAreNew, Review3
    <2>6. \A d \in cellCalls : d.review.id < issued /\ d.review.id # issued
      <3>1. \A d \in cellCalls : d.review.id < issued /\ d.review.id \in Nat
        BY DEF ReviewsInv, ReviewsTyped, IdsAreNew, CellCall, Review3, NoReview
      <3>2. QED
        BY <3>1, <1>1
    <2>7. /\ \A t \in assigned \cup heldReviews : ~Same3(t, r) /\ ~Same3(r, t)
          /\ \A d \in cellCalls : ~Same3(d.review, r) /\ ~Same3(r, d.review)
      BY <1>1, <2>2, <2>5, <2>6 DEF Same3
    <2>8. IdsAreNew'
      <3>1. \A t \in assigned' \cup heldReviews' : t.id < issued'
        BY <1>1, <2>1, <2>2, <2>5
      <3>2. \A d \in cellCalls' : d.review.id < issued'
        <4>1. \A d \in cellCalls : d.review.id < issued + 1
          BY DEF ReviewsInv, ReviewsTyped, IdsAreNew, CellCall, Review3, NoReview
        <4>2. QED
          BY <1>1, <2>1, <2>2, <2>3, <4>1
      <3>3. \A t, u \in assigned' : Same3(t, u) => t = u
        BY <2>1, <2>7 DEF ReviewsInv, IdsAreNew
      <3>4. \A h \in heldReviews' : CopyOf(h)'
        BY <1>1, <2>1, <2>7 DEF ReviewsInv, IdsAreNew, CopyOf
      <3>5. QED
        BY <3>1, <3>2, <3>3, <3>4 DEF IdsAreNew
    <2>9. ASSUME NEW d \in cellCalls, d # c PROVE CallFollows(d)'
      <3>1. CallFollows(d) /\ ~Same3(r, d.review) /\ ~Same3(d.review, r)
        BY <2>7 DEF ReviewsInv
      <3>2. CopyOf(d.review) => CopyOf(d.review)'
        BY <1>1, <2>1, <3>1 DEF CopyOf
      <3>3. QED
        BY <1>1, <2>1, <2>3, <3>1, <3>2, <2>7 DEF CallFollows, Assigns, Same3
    <2>10. ASSUME NEW d, d = q PROVE CallFollows(d)'
      <3>1. CopyOf(r)'
        BY <2>1, <2>7 DEF CopyOf
      <3>2. Same3(r, r) /\ r \in assigned'
        BY <2>1 DEF Same3
      <3>3. QED
        BY <1>1, <2>1, <2>2, <2>3, <2>7, <2>10, <3>1, <3>2 DEF CallFollows, Assigns
    <2>11. \A d \in cellCalls' : CallFollows(d)'
      BY <2>1, <2>9, <2>10
    <2>12. Assigns(q) /\ ~Assigns(c) /\ ~Unassigns(c) /\ q \in cellCalls' /\ Same3(r, q.review)
      BY <1>1, <2>1, <2>3 DEF Assigns, Unassigns, Same3
    <2>13. ReviewsFollow'
      BY <1>1, <2>1, <2>12 DEF ReviewsInv, ReviewsFollow
    <2>14. ASSUME onMatrix, ~changedElse, NEW t \in Entry PROVE StatusFollows(t)'
      <3>1. StatusFollows(t)
        BY <2>14 DEF ReviewsInv, StatusesFollow
      <3>2. CASE t # s
        <4>1. status3'[t] = status3[t]
          BY <2>1, <3>2 DEF ReviewsInv, ReviewsTyped
        <4>2. QED
          BY <1>1, <2>1, <2>12, <3>1, <4>1 DEF StatusFollows, UnderReview
      <3>3. CASE t = s
        <4>1. status3'[s] = "under_review"
          BY <2>1, <2>2 DEF ReviewsInv, ReviewsTyped
        <4>2. ~c.submitted => status3[s] = "under_review"
          BY <1>1, <2>14 DEF ReviewsInv, StatusesFollow, UnderReview, s
        <4>3. heldStatus[s] = "under_review" \/ heldStatus[s] = "submitted"
          BY <2>1, <3>1, <3>3 DEF StatusFollows, Open3
        <4>4. heldStatus[s] = "submitted" =>
                  c.submitted \/ \E d \in cellCalls : Assigns(d) /\ d.cell[1] = s /\ d.submitted
          BY <3>1, <3>3, <4>2 DEF StatusFollows
        <4>5. q.cell[1] = s
          BY <2>3 DEF s
        <4>6. heldStatus[s] = "submitted" => \E d \in cellCalls' : Assigns(d) /\ d.cell[1] = s /\ d.submitted
          BY <2>1, <2>3, <2>12, <4>4, <4>5
        <4>7. QED
          BY <1>1, <3>3, <4>1, <4>3, <4>6 DEF StatusFollows, UnderReview, Assigns
      <3>4. QED
        BY <3>2, <3>3
    <2>15. ASSUME onMatrix, ~changedElse, NEW d \in cellCalls', d.op = "assign", d.at = "done" \/ ~d.submitted
           PROVE  UnderReview(d.cell[1])'
      <3>1. status3'[s] = "under_review"
        BY <2>1, <2>2 DEF ReviewsInv, ReviewsTyped
      <3>2. CASE d = q
        BY <2>3, <3>1, <3>2 DEF UnderReview, s
      <3>3. CASE d \in cellCalls
        <4>1. UnderReview(d.cell[1]) /\ d.cell[1] \in Entry
          BY <2>15, <3>3 DEF ReviewsInv, StatusesFollow, ReviewsTyped, CellCall, Cell
        <4>2. QED
          BY <2>1, <4>1 DEF UnderReview, ReviewsInv, ReviewsTyped
      <3>4. QED
        BY <2>1, <3>2, <3>3
    <2>16. StatusesFollow'
      BY <1>1, <2>14, <2>15 DEF StatusesFollow
    <2>17. QED
      BY <1>1, <2>4, <2>8, <2>11, <2>13, <2>16 DEF ReviewsInv, FeedbackNotErased
  <1>4. QED
    BY <1>2, <1>3 DEF ServeAssign

LEMMA ServeUnassignKeepsReviews ==
    ASSUME ReviewsInv, NEW c \in cellCalls, ServeUnassign(c)
    PROVE  ReviewsInv'
  <1> DEFINE same == {r \in assigned : r.id = c.review.id /\ r.cell = c.cell}
             q == [c EXCEPT !.at = IF same = {} THEN "refused" ELSE "done", !.review = c.review]
  <1>1. /\ c.op = "unassign" /\ c.at = "sent" /\ c \in CellCall
        /\ assigned' = assigned \ same /\ cellCalls' = (cellCalls \ {c}) \cup {q}
        /\ erased' = (erased \/ \E r \in same : r.done /\ ~c.warned /\ r \notin finished)
        /\ UNCHANGED <<status3, issued, onMatrix, heldReviews, heldStatus, toggles, finished, changedElse>>
    BY DEF ServeUnassign, Answer3, ReviewsInv, ReviewsTyped
  <1>2. /\ c.review \in Review3 /\ c.review.cell = c.cell /\ CopyOf(c.review) /\ (c.review.done => c.warned)
    BY <1>1 DEF ReviewsInv, CallFollows
  <1>3. same = {r \in assigned : Same3(r, c.review)}
    BY <1>2 DEF Same3
  <1>4. /\ q \in CellCall /\ q.op = "unassign" /\ q.cell = c.cell /\ q.review = c.review /\ q.warned = c.warned
        /\ q.at = IF same = {} THEN "refused" ELSE "done"
    BY <1>1, <1>2 DEF CellCall
  <1> HIDE DEF q, same
  <1>5. \A r \in same : r.done /\ ~c.warned => r \in finished
    BY <1>2, <1>3 DEF CopyOf
  <1>6. FeedbackNotErased'
    BY <1>1, <1>5 DEF ReviewsInv, FeedbackNotErased
  <1>7. ReviewsTyped'
    BY <1>1, <1>4 DEF ReviewsInv, ReviewsTyped
  <1>8. IdsAreNew'
    BY <1>1, <1>4 DEF ReviewsInv, IdsAreNew, CopyOf
  <1>9. ~Assigns(q) /\ ~Assigns(c) /\ ~Unassigns(c) /\ (same # {} => Unassigns(q))
    BY <1>1, <1>4 DEF Assigns, Unassigns
  <1>10. ASSUME NEW d \in cellCalls, d # c PROVE CallFollows(d)'
    <2>1. CallFollows(d) /\ d \in CellCall
      BY DEF ReviewsInv, ReviewsTyped
    <2>2. CopyOf(d.review) => CopyOf(d.review)'
      BY <1>1 DEF CopyOf
    <2>3. Assigns(d) => \E r \in assigned' : Same3(r, d.review)
      <3>1. Assigns(d) => ~Same3(c.review, d.review)
        BY <1>1, <2>1 DEF CallFollows
      <3>2. QED
        BY <1>1, <1>3, <2>1, <3>1 DEF CallFollows, Same3
    <2>4. d.op = "unassign" => CallFollows(d)'
      BY <1>1, <2>1, <2>2 DEF CallFollows, Assigns
    <2>5. Assigns(d) => CallFollows(d)'
      <3>1. ASSUME Assigns(d), NEW e \in cellCalls', e.op = "unassign" \/ (Assigns(e) /\ e # d)
            PROVE  ~Same3(e.review, d.review)
        BY <1>1, <1>4, <1>9, <2>1, <3>1 DEF CallFollows
      <3>2. QED
        BY <1>1, <2>1, <2>2, <2>3, <3>1 DEF CallFollows, Assigns
    <2>6. QED
      BY <2>4, <2>5 DEF CallFollows, Assigns
  <1>11. ASSUME NEW d, d = q PROVE CallFollows(d)'
    <2>1. CopyOf(d.review)'
      BY <1>1, <1>2, <1>4, <1>11 DEF CopyOf
    <2>2. \A r \in assigned' : ~Same3(r, d.review)
      BY <1>1, <1>3, <1>4, <1>11
    <2>3. QED
      BY <1>1, <1>2, <1>4, <1>9, <1>11, <2>1, <2>2 DEF CallFollows, Assigns
  <1>12. \A d \in cellCalls' : CallFollows(d)'
    BY <1>1, <1>10, <1>11
  <1>13. ReviewsFollow'
    <2>1. SUFFICES ASSUME ~changedElse PROVE ReviewsFollow'
      BY <1>1 DEF ReviewsFollow
    <2>2. \A r \in assigned' : \/ \E h \in heldReviews : Same3(r, h)
                               \/ \E d \in cellCalls' : Assigns(d) /\ Same3(r, d.review)
      BY <1>1, <1>9, <2>1 DEF ReviewsInv, ReviewsFollow
    <2>3. ASSUME NEW h \in heldReviews
          PROVE  \/ \E r \in assigned' : Same3(r, h)
                 \/ \E d \in cellCalls' : Unassigns(d) /\ Same3(h, d.review)
      <3>1. CASE \E r \in assigned : Same3(r, h)
        <4>1. PICK r \in assigned : Same3(r, h)
          BY <3>1
        <4>2. r \in same => Same3(h, q.review) /\ Unassigns(q) /\ q \in cellCalls'
          BY <1>1, <1>3, <1>4, <1>9, <4>1 DEF Same3
        <4>3. QED
          BY <1>1, <4>1, <4>2
      <3>2. CASE \E d \in cellCalls : Unassigns(d) /\ Same3(h, d.review)
        BY <1>1, <1>9, <3>2
      <3>3. QED
        BY <2>1, <3>1, <3>2 DEF ReviewsInv, ReviewsFollow
    <2>4. QED
      BY <1>1, <2>2, <2>3 DEF ReviewsFollow
  <1>14. StatusesFollow'
    <2>1. \A d \in cellCalls : d.op = "assign" => d \in cellCalls'
      BY <1>1
    <2>2. \A d \in cellCalls' : d.op = "assign" => d \in cellCalls
      BY <1>1, <1>4
    <2>3. QED
      BY <1>1, <2>1, <2>2 DEF ReviewsInv, StatusesFollow, StatusFollows, UnderReview, Assigns
  <1>15. QED
    BY <1>6, <1>7, <1>8, <1>12, <1>13, <1>14 DEF ReviewsInv
LEMMA AnsweredKeepsReviews ==
    ASSUME ReviewsInv, NEW c \in cellCalls, CellAnswered(c)
    PROVE  ReviewsInv'
  <1>1. /\ c.at = "done" /\ cellCalls' = cellCalls \ {c} /\ c \in CellCall /\ CallFollows(c)
        /\ UNCHANGED <<assigned, status3, issued, onMatrix, toggles, finished, changedElse, erased>>
    BY DEF CellAnswered, ReviewsInv, ReviewsTyped
  <1>2. c.op \in {"assign", "unassign"} /\ c.cell[1] \in Entry
    BY <1>1 DEF CellCall, Cell
  <1>3. CASE c.op = "assign"
    <2>1. /\ heldReviews' = heldReviews \cup {c.review}
          /\ heldStatus' = (IF c.submitted /\ onMatrix
                            THEN [heldStatus EXCEPT ![c.cell[1]] = "under_review"] ELSE heldStatus)
      BY <1>3 DEF CellAnswered, Patched, AsItIs
    <2>2. Assigns(c) /\ ~Unassigns(c)
      BY <1>1, <1>3 DEF Assigns, Unassigns
    <2>3. /\ c.review \in Review3 /\ CopyOf(c.review) /\ \E r \in assigned : Same3(r, c.review)
          /\ \A d \in cellCalls : (d.op = "unassign" \/ (Assigns(d) /\ d # c)) => ~Same3(d.review, c.review)
      BY <1>1, <2>2 DEF CallFollows
    <2>4. heldStatus' \in [Entry -> Status3]
      BY <2>1 DEF ReviewsInv, ReviewsTyped, Status3, Open3
    <2>5. ReviewsTyped'
      BY <1>1, <2>1, <2>3, <2>4 DEF ReviewsInv, ReviewsTyped
    <2>6. IdsAreNew'
      BY <1>1, <2>1, <2>3 DEF ReviewsInv, IdsAreNew, CopyOf
    <2>7. ASSUME NEW d \in cellCalls, d # c PROVE CallFollows(d)'
      <3>1. CallFollows(d) /\ (d.op = "unassign" \/ Assigns(d) => ~Same3(d.review, c.review) /\ ~Same3(c.review, d.review))
        BY <2>3, <2>7 DEF ReviewsInv, Same3
      <3>2. CopyOf(d.review) => CopyOf(d.review)'
        BY <1>1 DEF CopyOf
      <3>3. QED
        BY <1>1, <2>1, <3>1, <3>2 DEF CallFollows, Assigns
    <2>8. \A d \in cellCalls' : CallFollows(d)'
      BY <1>1, <2>7
    <2>9. ReviewsFollow'
      BY <1>1, <2>1, <2>2, <2>3 DEF ReviewsInv, ReviewsFollow, Same3
    <2>10. ASSUME onMatrix, ~changedElse, NEW s \in Entry PROVE StatusFollows(s)'
      <3>1. StatusFollows(s)
        BY <2>10 DEF ReviewsInv, StatusesFollow
      <3>2. status3[c.cell[1]] = "under_review"
        BY <1>1, <1>3, <2>10 DEF ReviewsInv, StatusesFollow, UnderReview
      <3>3. CASE c.submitted /\ s = c.cell[1]
        <4>1. heldStatus'[s] = "under_review"
          BY <1>2, <2>1, <2>10, <3>3 DEF ReviewsInv, ReviewsTyped
        <4>2. QED
          BY <1>1, <3>2, <3>3, <4>1 DEF StatusFollows
      <3>4. CASE ~(c.submitted /\ s = c.cell[1])
        <4>1. heldStatus'[s] = heldStatus[s]
          BY <1>2, <2>1, <2>10, <3>4 DEF ReviewsInv, ReviewsTyped
        <4>2. \A d \in cellCalls : Assigns(d) /\ d.cell[1] = s /\ d.submitted => d \in cellCalls'
          BY <1>1, <3>4
        <4>3. QED
          BY <1>1, <3>1, <4>1, <4>2 DEF StatusFollows, UnderReview, Assigns
      <3>5. QED
        BY <3>3, <3>4
    <2>11. StatusesFollow'
      BY <1>1, <2>10 DEF ReviewsInv, StatusesFollow, UnderReview
    <2>12. QED
      BY <1>1, <2>5, <2>6, <2>8, <2>9, <2>11 DEF ReviewsInv, FeedbackNotErased
  <1>4. CASE c.op = "unassign"
    <2>1. /\ heldReviews' = {r \in heldReviews : r.id # c.review.id \/ r.cell # c.cell}
          /\ heldStatus' = heldStatus
      BY <1>4 DEF CellAnswered, Patched, AsItIs
    <2>2. Unassigns(c) /\ ~Assigns(c)
      BY <1>1, <1>4 DEF Assigns, Unassigns
    <2>3. c.review.cell = c.cell /\ \A r \in assigned : ~Same3(r, c.review)
      BY <1>1, <1>4 DEF CallFollows
    <2>4. heldReviews' = {r \in heldReviews : ~Same3(r, c.review)}
      BY <2>1, <2>3 DEF Same3
    <2>5. ReviewsTyped'
      BY <1>1, <2>1 DEF ReviewsInv, ReviewsTyped
    <2>6. IdsAreNew'
      BY <1>1, <2>4 DEF ReviewsInv, IdsAreNew, CopyOf
    <2>7. ASSUME NEW d \in cellCalls, d # c PROVE CallFollows(d)'
      <3>1. CallFollows(d)
        BY DEF ReviewsInv
      <3>2. CopyOf(d.review) => CopyOf(d.review)'
        BY <1>1 DEF CopyOf
      <3>3. QED
        BY <1>1, <2>4, <3>1, <3>2 DEF CallFollows, Assigns
    <2>8. \A d \in cellCalls' : CallFollows(d)'
      BY <1>1, <2>7
    <2>9. ReviewsFollow'
      <3>1. SUFFICES ASSUME ~changedElse PROVE ReviewsFollow'
        BY <1>1 DEF ReviewsFollow
      <3>2. ASSUME NEW r \in assigned
            PROVE  \/ \E h \in heldReviews' : Same3(r, h)
                   \/ \E d \in cellCalls' : Assigns(d) /\ Same3(r, d.review)
        <4>1. CASE \E h \in heldReviews : Same3(r, h)
          BY <2>3, <2>4, <4>1 DEF Same3
        <4>2. CASE \E d \in cellCalls : Assigns(d) /\ Same3(r, d.review)
          BY <1>1, <2>2, <4>2
        <4>3. QED
          BY <3>1, <4>1, <4>2 DEF ReviewsInv, ReviewsFollow
      <3>3. ASSUME NEW h \in heldReviews'
            PROVE  \/ \E r \in assigned : Same3(r, h)
                   \/ \E d \in cellCalls' : Unassigns(d) /\ Same3(h, d.review)
        BY <1>1, <2>4, <3>1 DEF ReviewsInv, ReviewsFollow
      <3>4. QED
        BY <1>1, <3>2, <3>3 DEF ReviewsFollow
    <2>10. StatusesFollow'
      <3>1. \A d \in cellCalls : d.op = "assign" => d \in cellCalls'
        BY <1>1, <1>4
      <3>2. \A d \in cellCalls' : d \in cellCalls
        BY <1>1
      <3>3. QED
        BY <1>1, <2>1, <3>1, <3>2 DEF ReviewsInv, StatusesFollow, StatusFollows,
           UnderReview, Assigns
    <2>11. QED
      BY <1>1, <2>5, <2>6, <2>8, <2>9, <2>10 DEF ReviewsInv, FeedbackNotErased
  <1>5. QED
    BY <1>2, <1>3, <1>4

LEMMA RefusedKeepsReviews ==
    ASSUME ReviewsInv, NEW c \in cellCalls, CellRefused(c)
    PROVE  ReviewsInv'
  <1>1. /\ cellCalls' = cellCalls \ {c}
        /\ changedElse' \in BOOLEAN /\ (~changedElse' => ~changedElse /\ c.at # "done")
        /\ UNCHANGED <<assigned, status3, issued, onMatrix, heldReviews, heldStatus, toggles, finished, erased>>
    BY DEF CellRefused, ReviewsInv, ReviewsTyped
  <1>2. ReviewsTyped' /\ IdsAreNew'
    BY <1>1 DEF ReviewsInv, ReviewsTyped, IdsAreNew, CopyOf
  <1>3. ASSUME NEW d \in cellCalls, d # c PROVE CallFollows(d)'
    <2>1. CallFollows(d)
      BY DEF ReviewsInv
    <2>2. QED
      BY <1>1, <2>1 DEF CallFollows, Assigns, CopyOf
  <1>4. \A d \in cellCalls' : CallFollows(d)'
    BY <1>1, <1>3
  <1>5. ~changedElse' => \A d \in cellCalls : Assigns(d) \/ Unassigns(d) => d \in cellCalls'
    BY <1>1 DEF Assigns, Unassigns
  <1>6. ReviewsFollow'
    BY <1>1, <1>5 DEF ReviewsInv, ReviewsFollow, Assigns, Unassigns
  <1>7. StatusesFollow'
    BY <1>1, <1>5 DEF ReviewsInv, StatusesFollow, StatusFollows, UnderReview, Assigns
  <1>8. QED
    BY <1>1, <1>2, <1>4, <1>6, <1>7 DEF ReviewsInv, FeedbackNotErased

LEMMA SubmissionKeepsReviews ==
    ASSUME ReviewsInv, NEW r \in assigned, ReviewerSubmits(r)
    PROVE  ReviewsInv'
  <1> DEFINE s == [r EXCEPT !.done = TRUE]
  <1>1. /\ assigned' = (assigned \ {r}) \cup {s} /\ finished' = finished \cup {s}
        /\ UNCHANGED <<status3, issued, onMatrix, heldReviews, heldStatus, cellCalls, toggles,
                       changedElse, erased>>
    BY DEF ReviewerSubmits
  <1>2. r \in Review3
    BY DEF ReviewsInv, ReviewsTyped
  <1>3. s \in Review3 /\ s.id = r.id /\ s.cell = r.cell
    BY <1>2 DEF Review3
  <1> HIDE DEF s
  <1>4. \A t : (Same3(s, t) <=> Same3(r, t)) /\ (Same3(t, s) <=> Same3(t, r))
    BY <1>3 DEF Same3
  <1>5. \A t \in assigned : t # r => ~Same3(t, r) /\ ~Same3(r, t)
    BY DEF ReviewsInv, IdsAreNew, Same3
  <1>6. ReviewsTyped'
    BY <1>1, <1>3 DEF ReviewsInv, ReviewsTyped
  <1>7. \A h : CopyOf(h) => CopyOf(h)'
    BY <1>1 DEF CopyOf
  <1>8. IdsAreNew'
    <2>1. \A t \in assigned' \cup heldReviews' : t.id < issued'
      BY <1>1, <1>3 DEF ReviewsInv, IdsAreNew
    <2>2. \A t, u \in assigned' : Same3(t, u) => t = u
      BY <1>1, <1>4, <1>5 DEF ReviewsInv, IdsAreNew
    <2>3. QED
      BY <1>1, <1>7, <2>1, <2>2 DEF ReviewsInv, IdsAreNew
  <1>9. ASSUME NEW t
        PROVE  (\E u \in assigned' : Same3(u, t)) <=> (\E u \in assigned : Same3(u, t))
    BY <1>1, <1>4
  <1>10. ASSUME NEW d \in cellCalls PROVE CallFollows(d)'
    <2>1. CallFollows(d)
      BY DEF ReviewsInv
    <2>2. QED
      BY <1>1, <1>7, <1>9, <2>1 DEF CallFollows, Assigns
  <1>11. ReviewsFollow'
    BY <1>1, <1>4, <1>9 DEF ReviewsInv, ReviewsFollow
  <1>12. QED
    BY <1>1, <1>6, <1>8, <1>10, <1>11 DEF ReviewsInv, StatusesFollow, StatusFollows, UnderReview,
       FeedbackNotErased

LEMMA ReadingKeepsReviews ==
    ASSUME ReviewsInv, ReadAgain
    PROVE  ReviewsInv'
  <1>1. /\ cellCalls = {} /\ heldReviews' = assigned /\ heldStatus' = status3 /\ finished' = {}
        /\ changedElse' = FALSE
        /\ UNCHANGED <<assigned, status3, issued, onMatrix, cellCalls, toggles, erased>>
    BY DEF ReadAgain
  <1>2. ReviewsTyped'
    BY <1>1 DEF ReviewsInv, ReviewsTyped
  <1>3. IdsAreNew'
    BY <1>1 DEF ReviewsInv, IdsAreNew, CopyOf
  <1>4. ReviewsFollow' /\ StatusesFollow'
    BY <1>1 DEF ReviewsFollow, StatusesFollow, StatusFollows, Same3
  <1>5. QED
    BY <1>1, <1>2, <1>3, <1>4 DEF ReviewsInv, FeedbackNotErased

LEMMA NextReviewsInv == ReviewsInv /\ [ReviewsNext]_reviewVars => ReviewsInv'
  <1> SUFFICES ASSUME ReviewsInv, [ReviewsNext]_reviewVars PROVE ReviewsInv'
    OBVIOUS
  <1>1. CASE UNCHANGED reviewVars
    <2>1. \A c \in cellCalls : CallFollows(c)'
      BY <1>1 DEF reviewVars, ReviewsInv, CallFollows, CopyOf, Assigns
    <2>2. QED
      BY <1>1, <2>1 DEF reviewVars, ReviewsInv, ReviewsTyped, IdsAreNew, CopyOf, Assigns, Unassigns,
         ReviewsFollow, StatusesFollow, StatusFollows, UnderReview, FeedbackNotErased
  <1>2. ASSUME NEW s \in Entry, CommitteeDecides(s) PROVE ReviewsInv'
    <2>1. /\ status3' = [status3 EXCEPT ![s] = "decided"] /\ changedElse' = TRUE
          /\ UNCHANGED <<assigned, issued, onMatrix, heldReviews, heldStatus, cellCalls, toggles,
                         finished, erased>>
      BY <1>2 DEF CommitteeDecides
    <2>2. status3' \in [Entry -> Status3]
      BY <2>1 DEF ReviewsInv, ReviewsTyped, Status3
    <2>3. ReviewsTyped' /\ IdsAreNew'
      BY <2>1, <2>2 DEF ReviewsInv, ReviewsTyped, IdsAreNew, CopyOf
    <2>4. \A c \in cellCalls : CallFollows(c)'
      BY <2>1 DEF ReviewsInv, CallFollows, CopyOf, Assigns
    <2>5. QED
      BY <2>1, <2>3, <2>4 DEF ReviewsInv, ReviewsFollow, StatusesFollow, FeedbackNotErased
  <1>3. CASE ReviewsNext
    BY <1>2, <1>3, AssignKeepsReviews, UnassignKeepsReviews, ServeAssignKeepsReviews,
       ServeUnassignKeepsReviews, AnsweredKeepsReviews, RefusedKeepsReviews, SubmissionKeepsReviews,
       ReadingKeepsReviews
    DEF ReviewsNext
  <1>4. QED
    BY <1>1, <1>3

\* The pages that assign reviewers show the reviews there are, and no submitted
\* one is deleted unwarned, for any number of abstracts, reviewers and cells.
THEOREM ReviewsAreShown == ReviewsSpec => [](ReviewsShown /\ FeedbackNotErased)
  <1>1. ReviewsInv => ReviewsShown /\ FeedbackNotErased
    <2> SUFFICES ASSUME ReviewsInv, cellCalls = {}, ~changedElse
                 PROVE  /\ {r.id : r \in heldReviews} = {r.id : r \in assigned}
                        /\ \A r \in assigned : r \in heldReviews \cup finished
                        /\ onMatrix => heldStatus = status3
      BY DEF ReviewsInv, ReviewsShown
    <2>1. /\ \A r \in assigned : \E h \in heldReviews : Same3(r, h)
          /\ \A h \in heldReviews : \E r \in assigned : Same3(r, h)
      BY DEF ReviewsInv, ReviewsFollow
    <2>2. {r.id : r \in heldReviews} = {r.id : r \in assigned}
      BY <2>1 DEF Same3
    <2>3. \A r \in assigned : r \in heldReviews \cup finished
      BY <2>1 DEF ReviewsInv, IdsAreNew, CopyOf
    <2>4. onMatrix => heldStatus = status3
      BY DEF ReviewsInv, ReviewsTyped, StatusesFollow, StatusFollows
    <2>5. QED
      BY <2>2, <2>3, <2>4
  <1>2. QED
    BY InitReviewsInv, NextReviewsInv, <1>1, PTL DEF ReviewsSpec

-------------------------------------------------------------------------------
(* The page of one abstract. *)

DeskWords == Verdict \cup {NoVerdict} \cup DeskStatus \cup Account4 \cup {"details"}
RowShape == [status : DeskWords, author : DeskWords, edition : Nat]
VerdictShape == [is : DeskWords, edition : Nat]
ErrandShape == [op : {"decide", "overrule", "status", "reassign", "presenter", "slot"},
                arg : DeskWords, at : {"sent", "found", "loaded", "done", "asking", "read"},
                row : RowShape, was : DeskWords, edition : Nat, mixed : BOOLEAN]

DeskTyped ==
    /\ row \in RowShape /\ held \in RowShape
    /\ verdict \in VerdictShape /\ heldVerdict \in VerdictShape
    /\ errands \in SUBSET ErrandShape
    /\ behind \in BOOLEAN /\ unread \in BOOLEAN

\* What is known of the row and of the decision is older, or as they are: what
\* was read for a request, and what it is answered with.
RowKnown(r) == r.edition <= row.edition /\ (r.edition = row.edition => r = row)
ErrandKnows(e) ==
    /\ e.at \in {"found", "loaded", "done", "read"} => RowKnown(e.row)
    /\ e.at \in {"asking", "read"} => Decides(e)
    /\ (Decides(e) /\ e.at = "loaded") =>
           e.edition <= verdict.edition /\ (e.edition = verdict.edition => e.was = verdict.is)
    /\ (Decides(e) /\ e.at \in Effective) =>
           e.edition <= verdict.edition /\ (e.edition = verdict.edition => e.arg = verdict.is)

\* The newest is shown or on its way, or what tells of it will be found missing
\* or mixed.
BringsRow(e) ==
    \/ e.at = "asking"
    \/ e.at = "done" /\ (Decides(e) \/ e.op = "slot" \/ e.mixed)
    \/ e.at \in {"done", "read"} /\ e.row.edition = row.edition
BringsVerdict(e) == Decides(e) /\ e.at \in Effective /\ e.edition = verdict.edition

PageKnows ==
    /\ held.edition <= row.edition /\ heldVerdict.edition <= verdict.edition
    /\ ~behind => /\ RowKnown(held)
                  /\ heldVerdict.edition = verdict.edition => heldVerdict = verdict
PageFollows ==
    (~behind /\ ~unread) =>
        /\ held.edition = row.edition \/ \E e \in errands : BringsRow(e)
        /\ heldVerdict.edition = verdict.edition \/ \E e \in errands : BringsVerdict(e)

DeskInv == DeskTyped /\ (\A e \in errands : ErrandKnows(e)) /\ PageKnows /\ PageFollows

LEMMA InitDeskInv == DeskInit => DeskInv
  <1> SUFFICES ASSUME DeskInit PROVE DeskInv
    OBVIOUS
  <1>1. /\ row \in RowShape /\ verdict \in VerdictShape /\ row.edition = 0 /\ verdict.edition = 0
        /\ held = row /\ heldVerdict = verdict /\ errands = {} /\ behind = FALSE /\ unread = FALSE
    BY DEF DeskInit, RowShape, VerdictShape, DeskWords
  <1>2. DeskTyped
    BY <1>1 DEF DeskTyped
  <1>3. held.edition = 0 /\ heldVerdict.edition = 0
    BY <1>1
  <1>4. PageKnows
    BY <1>1, <1>3 DEF PageKnows, RowKnown
  <1>5. PageFollows
    BY <1>1 DEF PageFollows
  <1>6. QED
    BY <1>1, <1>2, <1>4, <1>5 DEF DeskInv

LEMMA ErrandKeepsDesk ==
    ASSUME DeskInv, NEW op, NEW arg, Errand(op, arg), arg \in DeskWords,
           op \in {"decide", "overrule", "status", "reassign", "presenter", "slot"}
    PROVE  DeskInv'
  <1> DEFINE new == [op |-> op, arg |-> arg, at |-> "sent", row |-> held, was |-> NoVerdict,
                     edition |-> 0, mixed |-> FALSE]
  <1>1. /\ errands' = errands \cup {new}
        /\ UNCHANGED <<row, verdict, held, heldVerdict, behind, unread>>
    BY DEF Errand
  <1>2. new \in ErrandShape /\ new.at = "sent"
    BY DEF DeskInv, DeskTyped, ErrandShape, DeskWords
  <1> HIDE DEF new
  <1>3. DeskTyped'
    BY <1>1, <1>2 DEF DeskInv, DeskTyped
  <1>4. \A e \in errands' : ErrandKnows(e)'
    BY <1>1, <1>2 DEF DeskInv, ErrandKnows, RowKnown, Effective, Decides
  <1>5. PageKnows' /\ PageFollows'
    BY <1>1 DEF DeskInv, PageKnows, PageFollows, RowKnown, BringsRow, BringsVerdict, Effective, Decides
  <1>6. QED
    BY <1>3, <1>4, <1>5 DEF DeskInv

LEMMA CardsKeepDesk ==
    ASSUME DeskInv,
           \/ \E o \in Verdict : OnDecide(o) \/ OnOverrideDecision(o)
           \/ \E s \in DeskStatus : OnOverride(s)
           \/ \E a \in Account4 : OnReassign(a)
           \/ HandleSavePresenter \/ OnAssign
    PROVE  DeskInv'
  <1>1. heldVerdict.is \in DeskWords
    BY DEF DeskInv, DeskTyped, VerdictShape
  <1>2. \E op \in {"decide", "overrule", "status", "reassign", "presenter", "slot"}, arg \in DeskWords :
            Errand(op, arg)
    BY <1>1 DEF OnDecide, OnOverrideDecision, OnOverride, OnReassign, HandleSavePresenter, OnAssign,
       DeskWords
  <1>3. QED
    BY <1>2, ErrandKeepsDesk

LEMMA LoadKeepsDesk ==
    ASSUME DeskInv, NEW e \in errands, LoadRow(e) \/ LoadVerdict(e)
    PROVE  DeskInv'
  <1>1. PICK q :
        /\ \/ /\ e.at = "sent"
              /\ q = [e EXCEPT !.at = IF Decides(e) \/ e.op = "slot" THEN "found" ELSE "loaded",
                               !.row = row]
           \/ /\ e.at = "found"
              /\ q = [e EXCEPT !.at = "loaded", !.was = verdict.is, !.edition = verdict.edition]
        /\ errands' = (errands \ {e}) \cup {q}
        /\ UNCHANGED <<row, verdict, held, heldVerdict, behind, unread>>
    BY DEF LoadRow, LoadVerdict
  <1>2. /\ e \in ErrandShape /\ row \in RowShape /\ verdict \in VerdictShape /\ ErrandKnows(e)
        /\ verdict.is \in DeskWords /\ verdict.edition \in Nat /\ row.edition \in Nat
    BY DEF DeskInv, DeskTyped, RowShape, VerdictShape
  <1>3. /\ q \in ErrandShape /\ q.op = e.op /\ q.arg = e.arg
        /\ \/ q.at \in {"found", "loaded"} /\ q.row = row /\ (Decides(e) => q.at = "found")
           \/ q.at = "loaded" /\ q.row = e.row /\ e.at = "found"
              /\ q.was = verdict.is /\ q.edition = verdict.edition
    BY <1>1, <1>2 DEF ErrandShape
  <1>4. DeskTyped'
    BY <1>1, <1>3 DEF DeskInv, DeskTyped
  <1>5. RowKnown(q.row)
    BY <1>2, <1>3 DEF ErrandKnows, RowKnown
  <1>6. ErrandKnows(q)
    BY <1>2, <1>3, <1>5 DEF ErrandKnows, Effective, Decides
  <1>7. \A d \in errands' : ErrandKnows(d)'
    <2>1. \A d \in errands' : ErrandKnows(d)
      BY <1>1, <1>6 DEF DeskInv
    <2>2. QED
      BY <1>1, <2>1 DEF ErrandKnows, RowKnown, Decides
  <1>8. PageKnows'
    BY <1>1 DEF DeskInv, PageKnows, RowKnown
  <1>9. ~BringsRow(e) /\ ~BringsVerdict(e)
    BY <1>1 DEF BringsRow, BringsVerdict, Effective
  <1>10. \A d \in errands' : (BringsRow(d) => BringsRow(d)') /\ (BringsVerdict(d) => BringsVerdict(d)')
    BY <1>1 DEF BringsRow, BringsVerdict, Decides
  <1>11. PageFollows'
    BY <1>1, <1>9, <1>10 DEF DeskInv, PageFollows
  <1>12. QED
    BY <1>4, <1>7, <1>8, <1>11 DEF DeskInv

LEMMA CommitKeepsDesk ==
    ASSUME DeskInv, NEW e \in errands, CommitErrand(e)
    PROVE  DeskInv'
  <1>0. PICK r, v : r = row' /\ v = verdict'
    OBVIOUS
  <1> DEFINE mine == Written(e, e.row)
             news == Decides(e) /\ e.arg # e.was
             told == IF news THEN v.edition ELSE e.edition
             mixed == row.edition # e.row.edition
             q == [e EXCEPT !.at = "done", !.row = mine, !.edition = told, !.mixed = mixed]
  <1>1. /\ e.at = "loaded" /\ errands' = (errands \ {e}) \cup {q}
        /\ r = Written(e, row) /\ v = VerdictAfter(e)
        /\ UNCHANGED <<held, heldVerdict, behind, unread>>
    BY <1>0 DEF CommitErrand
  <1>2. e \in ErrandShape /\ row \in RowShape /\ verdict \in VerdictShape /\ ErrandKnows(e)
    BY DEF DeskInv, DeskTyped
  <1>3. /\ e.arg \in DeskWords /\ e.row \in RowShape /\ e.row.edition \in Nat /\ e.edition \in Nat
        /\ row.edition \in Nat /\ verdict.edition \in Nat
    BY <1>2 DEF ErrandShape, RowShape, VerdictShape
  <1>4. RowKnown(e.row)
    BY <1>1, <1>2 DEF ErrandKnows
  <1>5. ASSUME NEW x \in RowShape
        PROVE  /\ Written(e, x) \in RowShape
               /\ e.op = "overrule" => Written(e, x) = x
               /\ e.op # "overrule" => Written(e, x).edition = x.edition + 1
    <2>1. StatusAfter(e, x) \in DeskWords /\ x.author \in DeskWords /\ x.edition \in Nat
      BY <1>3 DEF StatusAfter, RowShape, DeskWords, DeskStatus
    <2>2. QED
      BY <1>3, <2>1 DEF Written, RowShape
  <1>6. r \in RowShape /\ mine \in RowShape /\ (e.op # "overrule" => r.edition = row.edition + 1)
        /\ (e.op = "overrule" => r = row /\ mine = e.row)
        /\ (e.op # "overrule" => mine.edition = e.row.edition + 1)
    BY <1>1, <1>2, <1>3, <1>5
  <1>7. mixed \/ mine = r
    BY <1>1, <1>4 DEF RowKnown
  <1>8. mine.edition <= r.edition /\ (mine.edition = r.edition => mine = r)
    BY <1>3, <1>4, <1>6, <1>7 DEF RowKnown
  <1>9. /\ v \in VerdictShape
        /\ news => v.edition = verdict.edition + 1 /\ v.is = e.arg
        /\ ~news => v = verdict
    BY <1>1, <1>2, <1>3 DEF VerdictAfter, VerdictShape
  <1>10. told \in Nat /\ v.edition \in Nat
    BY <1>3, <1>9 DEF VerdictShape
  <1>11. Decides(e) => told <= v.edition /\ (told = v.edition => e.arg = v.is)
    BY <1>1, <1>2, <1>9, <1>10 DEF ErrandKnows
  <1> HIDE DEF mine
  <1>12. /\ q \in ErrandShape /\ q.at = "done" /\ q.row = mine /\ q.edition = told /\ q.op = e.op
         /\ q.arg = e.arg /\ q.mixed = mixed
    BY <1>2, <1>6, <1>10 DEF ErrandShape
  <1> HIDE DEF q, told, mixed
  <1>13. DeskTyped'
    BY <1>0, <1>1, <1>6, <1>9, <1>12 DEF DeskInv, DeskTyped
  <1>14. Decides(q) = Decides(e)
    BY <1>12 DEF Decides
  <1>15. row.edition <= r.edition /\ (row.edition = r.edition => row = r)
    BY <1>3, <1>6
  <1>16. verdict.edition <= v.edition /\ (verdict.edition = v.edition => verdict = v)
    BY <1>3, <1>9
  <1>17. ASSUME NEW d \in errands PROVE ErrandKnows(d)'
    <2>1. ErrandKnows(d) /\ d \in ErrandShape
      BY DEF DeskInv, DeskTyped
    <2>2. d.row.edition \in Nat /\ d.edition \in Nat
      BY <2>1 DEF ErrandShape, RowShape
    <2>3. RowKnown(d.row) => RowKnown(d.row)'
      BY <1>0, <1>3, <1>6, <1>15, <2>2 DEF RowKnown, RowShape
    <2>4. d.edition <= verdict.edition =>
             d.edition <= v.edition /\ (d.edition = v.edition => d.edition = verdict.edition /\ v = verdict)
      BY <1>3, <1>10, <1>16, <2>2
    <2>5. QED
      BY <1>0, <2>1, <2>3, <2>4 DEF ErrandKnows, Decides
  <1>18. ASSUME NEW d, d = q PROVE ErrandKnows(d)'
    BY <1>0, <1>8, <1>11, <1>12, <1>14, <1>18 DEF ErrandKnows, RowKnown, Decides
  <1>19. \A d \in errands' : ErrandKnows(d)'
    BY <1>1, <1>17, <1>18
  <1>20. held.edition \in Nat /\ heldVerdict.edition \in Nat
    BY DEF DeskInv, DeskTyped, RowShape, VerdictShape
  <1>21. PageKnows'
    <2>1. held.edition <= r.edition /\ (~behind => (held.edition = r.edition => held = r))
      BY <1>3, <1>6, <1>15, <1>20 DEF DeskInv, PageKnows, RowKnown, RowShape
    <2>2. heldVerdict.edition <= v.edition /\ (~behind => (heldVerdict.edition = v.edition => heldVerdict = v))
      BY <1>3, <1>10, <1>16, <1>20 DEF DeskInv, PageKnows
    <2>3. QED
      BY <1>0, <1>1, <2>1, <2>2 DEF PageKnows, RowKnown
  <1>22. \E d \in errands' : BringsRow(d)'
    <2>1. ASSUME NEW d, d = q PROVE BringsRow(d)'
      BY <1>0, <1>7, <1>12, <2>1 DEF BringsRow
    <2>2. QED
      BY <1>1, <2>1
  <1>23. (~behind /\ ~unread) => (heldVerdict.edition = v.edition \/ \E d \in errands' : BringsVerdict(d)')
    <2>1. CASE news
      <3>1. ASSUME NEW d, d = q PROVE BringsVerdict(d)'
        BY <1>0, <1>12, <1>14, <2>1, <3>1 DEF BringsVerdict, Effective, Decides, told
      <3>2. QED
        BY <1>1, <3>1
    <2>2. CASE ~news
      <3>1. \A d \in errands : BringsVerdict(d) => d \in errands' /\ BringsVerdict(d)'
        BY <1>0, <1>1, <1>9, <2>2 DEF BringsVerdict, Effective, Decides
      <3>2. QED
        BY <1>9, <2>2, <3>1 DEF DeskInv, PageFollows
    <2>3. QED
      BY <2>1, <2>2
  <1>24. PageFollows'
    BY <1>0, <1>1, <1>22, <1>23 DEF PageFollows
  <1>25. QED
    BY <1>13, <1>19, <1>21, <1>24 DEF DeskInv

LEMMA AskingKeepsDesk ==
    ASSUME DeskInv, NEW e \in errands, AskForRow(e) \/ ReadRow(e)
    PROVE  DeskInv'
  <1>1. PICK q :
        /\ \/ e.at = "done" /\ Decides(e) /\ q = [e EXCEPT !.at = "asking"]
           \/ e.at = "asking" /\ q = [e EXCEPT !.at = "read", !.row = row]
        /\ errands' = (errands \ {e}) \cup {q}
        /\ UNCHANGED <<row, verdict, held, heldVerdict, behind, unread>>
    BY DEF AskForRow, ReadRow
  <1>2. e \in ErrandShape /\ row \in RowShape /\ ErrandKnows(e) /\ row.edition \in Nat
    BY DEF DeskInv, DeskTyped, RowShape
  <1>3. /\ q \in ErrandShape /\ q.op = e.op /\ q.arg = e.arg /\ q.edition = e.edition
        /\ q.at = "asking" \/ (q.at = "read" /\ q.row = row)
    BY <1>1, <1>2 DEF ErrandShape
  <1>4. Decides(e) /\ Decides(q) /\ e.at \in Effective
    BY <1>1, <1>2, <1>3 DEF ErrandKnows, Effective, Decides
  <1>5. DeskTyped'
    BY <1>1, <1>3 DEF DeskInv, DeskTyped
  <1>6. ErrandKnows(q)
    BY <1>2, <1>3, <1>4 DEF ErrandKnows, RowKnown, Effective, Decides
  <1>7. \A d \in errands' : ErrandKnows(d)'
    <2>1. \A d \in errands' : ErrandKnows(d)
      BY <1>1, <1>6 DEF DeskInv
    <2>2. QED
      BY <1>1, <2>1 DEF ErrandKnows, RowKnown, Decides
  <1>8. PageKnows'
    BY <1>1 DEF DeskInv, PageKnows, RowKnown
  <1>9. BringsRow(q)
    BY <1>3 DEF BringsRow
  <1>10. BringsVerdict(e) => BringsVerdict(q)
    BY <1>3, <1>4 DEF BringsVerdict, Effective
  <1>11. \A d \in errands' : (BringsRow(d) => BringsRow(d)') /\ (BringsVerdict(d) => BringsVerdict(d)')
    BY <1>1 DEF BringsRow, BringsVerdict, Decides
  <1>12. PageFollows'
    BY <1>1, <1>9, <1>10, <1>11 DEF DeskInv, PageFollows
  <1>13. QED
    BY <1>5, <1>7, <1>8, <1>12 DEF DeskInv

\* An answer with a row is shown.
LEMMA ShownRowKnown ==
    ASSUME DeskInv, NEW r \in RowShape, RowKnown(r), ShowRow(r), row' = row
    PROVE  /\ held' \in RowShape
           /\ held'.edition <= row.edition /\ r.edition <= held'.edition /\ held.edition <= held'.edition
           /\ ~(r.edition < held.edition) => held' = r
  <1>1. r.edition \in Nat /\ held.edition \in Nat /\ row.edition \in Nat
    BY DEF DeskInv, DeskTyped, RowShape
  <1>2. held' = [r EXCEPT !.edition = Newer(r.edition, held.edition)]
    BY DEF ShowRow
  <1>3. /\ Newer(r.edition, held.edition) \in Nat
        /\ Newer(r.edition, held.edition) >= r.edition /\ Newer(r.edition, held.edition) >= held.edition
        /\ Newer(r.edition, held.edition) <= row.edition
        /\ ~(r.edition < held.edition) => Newer(r.edition, held.edition) = r.edition
    BY <1>1 DEF Newer, DeskInv, PageKnows, RowKnown
  <1>4. QED
    BY <1>2, <1>3 DEF RowShape

LEMMA DecisionKeepsDesk ==
    ASSUME DeskInv, NEW e \in errands, ShowDecision(e)
    PROVE  DeskInv'
  <1> DEFINE n == Newer(e.edition, heldVerdict.edition)
  <1>1. /\ e.at = "read" /\ ShowRow(e.row) /\ heldVerdict' = [is |-> e.arg, edition |-> n]
        /\ behind' = (behind \/ e.row.edition < held.edition \/ e.edition < heldVerdict.edition)
        /\ errands' = errands \ {e} /\ UNCHANGED <<row, verdict, unread>>
    BY DEF ShowDecision, AnswerOf
  <1>2. /\ e \in ErrandShape /\ ErrandKnows(e) /\ e.row \in RowShape /\ e.arg \in DeskWords /\ e.edition \in Nat
        /\ heldVerdict.edition \in Nat /\ verdict.edition \in Nat /\ verdict \in VerdictShape
    BY DEF DeskInv, DeskTyped, ErrandShape, VerdictShape
  <1>3. Decides(e) /\ RowKnown(e.row) /\ e.edition <= verdict.edition
        /\ (e.edition = verdict.edition => e.arg = verdict.is)
    BY <1>1, <1>2 DEF ErrandKnows, Effective
  <1>4. /\ n \in Nat /\ n >= e.edition /\ n >= heldVerdict.edition /\ n <= verdict.edition
        /\ ~(e.edition < heldVerdict.edition) => n = e.edition
    BY <1>2, <1>3 DEF Newer, DeskInv, PageKnows
  <1> HIDE DEF n
  <1>5. /\ held' \in RowShape
        /\ held'.edition <= row.edition /\ e.row.edition <= held'.edition /\ held.edition <= held'.edition
        /\ ~(e.row.edition < held.edition) => held' = e.row
    BY <1>1, <1>2, <1>3, ShownRowKnown
  <1>6. behind' \in BOOLEAN /\ (~behind' => ~behind /\ ~(e.row.edition < held.edition)
                                             /\ ~(e.edition < heldVerdict.edition))
    BY <1>1 DEF DeskInv, DeskTyped
  <1>7. heldVerdict' \in VerdictShape /\ heldVerdict'.edition = n /\ heldVerdict'.is = e.arg
    BY <1>1, <1>2, <1>4 DEF VerdictShape
  <1>8. DeskTyped'
    BY <1>1, <1>5, <1>6, <1>7 DEF DeskInv, DeskTyped
  <1>9. \A d \in errands' : ErrandKnows(d)'
    BY <1>1 DEF DeskInv, ErrandKnows, RowKnown, Decides
  <1>10. n = verdict.edition /\ n = e.edition => heldVerdict' = verdict
    BY <1>1, <1>2, <1>3 DEF VerdictShape
  <1>11. PageKnows'
    BY <1>1, <1>3, <1>4, <1>5, <1>6, <1>7, <1>10 DEF PageKnows, RowKnown
  <1>12. \A d \in errands' : (BringsRow(d) => BringsRow(d)') /\ (BringsVerdict(d) => BringsVerdict(d)')
    BY <1>1 DEF BringsRow, BringsVerdict, Decides
  <1>13. held.edition \in Nat /\ row.edition \in Nat /\ held'.edition \in Nat /\ e.row.edition \in Nat
    BY <1>2, <1>5 DEF DeskInv, DeskTyped, RowShape
  <1>14. (~behind' /\ ~unread) => held'.edition = row.edition \/ \E d \in errands' : BringsRow(d)
    <2>1. BringsRow(e) => e.row.edition = row.edition
      BY <1>1 DEF BringsRow
    <2>2. QED
      BY <1>1, <1>5, <1>6, <1>13, <2>1 DEF DeskInv, PageFollows
  <1>15. (~behind' /\ ~unread) => n = verdict.edition \/ \E d \in errands' : BringsVerdict(d)
    <2>1. BringsVerdict(e) => e.edition = verdict.edition
      BY DEF BringsVerdict
    <2>2. QED
      BY <1>1, <1>2, <1>4, <1>6, <2>1 DEF DeskInv, PageFollows
  <1>16. PageFollows'
    BY <1>1, <1>7, <1>12, <1>14, <1>15 DEF PageFollows
  <1>17. QED
    BY <1>8, <1>9, <1>11, <1>16 DEF DeskInv

LEMMA AnswerKeepsDesk ==
    ASSUME DeskInv, NEW e \in errands, ShowAnswer(e)
    PROVE  DeskInv'
  <1>1. /\ e.at = "done" /\ ~Decides(e) /\ e.op # "slot" /\ ShowRow(e.row)
        /\ behind' = (behind \/ e.mixed \/ e.row.edition < held.edition)
        /\ errands' = errands \ {e} /\ UNCHANGED <<row, verdict, heldVerdict, unread>>
    BY DEF ShowAnswer
  <1>2. e \in ErrandShape /\ ErrandKnows(e) /\ e.row \in RowShape
    BY DEF DeskInv, DeskTyped, ErrandShape
  <1>3. RowKnown(e.row)
    BY <1>1, <1>2 DEF ErrandKnows
  <1>4. /\ held' \in RowShape
        /\ held'.edition <= row.edition /\ e.row.edition <= held'.edition /\ held.edition <= held'.edition
        /\ ~(e.row.edition < held.edition) => held' = e.row
    BY <1>1, <1>2, <1>3, ShownRowKnown
  <1>5. behind' \in BOOLEAN /\ (~behind' => ~behind /\ ~e.mixed /\ ~(e.row.edition < held.edition))
    BY <1>1, <1>2 DEF DeskInv, DeskTyped, ErrandShape
  <1>6. DeskTyped'
    BY <1>1, <1>4, <1>5 DEF DeskInv, DeskTyped
  <1>7. \A d \in errands' : ErrandKnows(d)'
    BY <1>1 DEF DeskInv, ErrandKnows, RowKnown, Decides
  <1>8. PageKnows'
    BY <1>1, <1>3, <1>4, <1>5 DEF DeskInv, PageKnows, RowKnown
  <1>9. \A d \in errands' : (BringsRow(d) => BringsRow(d)') /\ (BringsVerdict(d) => BringsVerdict(d)')
    BY <1>1 DEF BringsRow, BringsVerdict, Decides
  <1>10. held.edition \in Nat /\ row.edition \in Nat /\ held'.edition \in Nat /\ e.row.edition \in Nat
    BY <1>2, <1>4 DEF DeskInv, DeskTyped, RowShape
  <1>11. (~behind' /\ ~unread) => held'.edition = row.edition \/ \E d \in errands' : BringsRow(d)
    <2>1. ~e.mixed /\ BringsRow(e) => e.row.edition = row.edition
      BY <1>1 DEF BringsRow
    <2>2. QED
      BY <1>1, <1>4, <1>5, <1>10, <2>1 DEF DeskInv, PageFollows
  <1>12. (~behind' /\ ~unread) => heldVerdict.edition = verdict.edition \/ \E d \in errands' : BringsVerdict(d)
    <2>1. ~BringsVerdict(e)
      BY <1>1 DEF BringsVerdict
    <2>2. QED
      BY <1>1, <1>5, <2>1 DEF DeskInv, PageFollows
  <1>13. PageFollows'
    BY <1>1, <1>9, <1>11, <1>12 DEF PageFollows
  <1>14. QED
    BY <1>6, <1>7, <1>8, <1>13 DEF DeskInv

LEMMA FailureKeepsDesk ==
    ASSUME DeskInv, NEW e \in errands, ShowAssigned(e) \/ ErrandFails(e)
    PROVE  DeskInv'
  <1>1. /\ errands' = errands \ {e} /\ UNCHANGED <<row, verdict, held, heldVerdict, behind>>
        /\ unread' \in BOOLEAN /\ (~unread' => ~unread /\ e.at \notin Effective)
    BY DEF ShowAssigned, ErrandFails, DeskInv, DeskTyped
  <1>2. DeskTyped' /\ PageKnows'
    BY <1>1 DEF DeskInv, DeskTyped, PageKnows, RowKnown
  <1>3. \A d \in errands' : ErrandKnows(d)'
    BY <1>1 DEF DeskInv, ErrandKnows, RowKnown, Decides
  <1>4. \A d \in errands' : (BringsRow(d) => BringsRow(d)') /\ (BringsVerdict(d) => BringsVerdict(d)')
    BY <1>1 DEF BringsRow, BringsVerdict, Decides
  <1>5. ~unread' => ~BringsRow(e) /\ ~BringsVerdict(e)
    BY <1>1 DEF BringsRow, BringsVerdict, Effective
  <1>6. PageFollows'
    BY <1>1, <1>4, <1>5 DEF DeskInv, PageFollows
  <1>7. QED
    BY <1>2, <1>3, <1>6 DEF DeskInv

LEMMA NextDeskInv == DeskInv /\ [DeskNext]_deskVars => DeskInv'
  <1> SUFFICES ASSUME DeskInv, [DeskNext]_deskVars PROVE DeskInv'
    OBVIOUS
  <1>1. CASE UNCHANGED deskVars
    BY <1>1 DEF deskVars, DeskInv, DeskTyped, ErrandKnows, RowKnown, PageKnows, PageFollows,
       BringsRow,
       BringsVerdict, Decides
  <1>2. CASE DeskNext
    BY <1>2, CardsKeepDesk, LoadKeepsDesk, CommitKeepsDesk, AskingKeepsDesk, DecisionKeepsDesk, AnswerKeepsDesk,
       FailureKeepsDesk
    DEF DeskNext
  <1>3. QED
    BY <1>1, <1>2

\* The page of an abstract shows it as it is, for any number of overlapping
\* requests, outcomes and accounts.
THEOREM DeskIsCurrent == DeskSpec => []DeskSettles
  <1>1. DeskInv => DeskSettles
    BY DEF DeskInv, DeskSettles, PageKnows, PageFollows, RowKnown
  <1>2. QED
    BY InitDeskInv, NextDeskInv, <1>1, PTL DEF DeskSpec

-------------------------------------------------------------------------------
(* The mails to an audience. *)

MailFilters == [roles : SUBSET MailRole, statuses : SUBSET MailStatus]
MailCall == [n : Nat, op : {"preview", "send"}, filters : MailFilters, at : {"sent", "done"},
             audience : SUBSET Recipient, crossed : BOOLEAN]

MailTyped ==
    /\ filters \in MailFilters
    /\ preview \in [shown : BOOLEAN, audience : SUBSET Recipient]
    /\ mailCalls \in SUBSET MailCall /\ mailed \in Nat
    /\ inbox \in [Recipient -> Nat]
    /\ crossedPreview \in BOOLEAN /\ changedWorld \in BOOLEAN /\ retried \in BOOLEAN /\ wronged \in BOOLEAN

\* A preview counts those who match, on its way, on the page and in what was
\* confirmed with it.
CallCounts(c) ==
    /\ (c.op = "preview" /\ c.at = "done") => c.audience = Audience(c.filters)
    /\ (c.op = "send" /\ ~c.crossed) => c.audience = Audience(c.filters)

PreviewCounts ==
    ~changedWorld =>
        /\ (preview.shown /\ ~crossedPreview) => preview.audience = Audience(filters)
        /\ \A c \in mailCalls : CallCounts(c)

\* One sending at a time, and nobody has the text before it was handled.
OneSending ==
    /\ \A c, d \in mailCalls : c.op = d.op => c = d
    /\ ~retried => \/ \A p \in Recipient : inbox[p] = 0
                   \/ /\ \E c \in mailCalls : c.op = "send" /\ c.at = "done"
                      /\ \A p \in Recipient : inbox[p] <= 1

MailInv == MailTyped /\ PreviewCounts /\ OneSending /\ OnlyThePreviewed

LEMMA InitMailInv == MailInit => MailInv
  <1> SUFFICES ASSUME MailInit PROVE MailInv
    OBVIOUS
  <1>1. /\ filters = [roles |-> {}, statuses |-> {}] /\ preview = NoPreview /\ mailCalls = {} /\ mailed = 0
        /\ inbox = [p \in Recipient |-> 0]
        /\ crossedPreview = FALSE /\ changedWorld = FALSE /\ retried = FALSE /\ wronged = FALSE
    BY DEF MailInit
  <1>2. NoPreview \in [shown : BOOLEAN, audience : SUBSET Recipient] /\ NoPreview.shown = FALSE
    BY DEF NoPreview
  <1> HIDE DEF NoPreview
  <1>3. MailTyped
    BY <1>1, <1>2 DEF MailTyped, MailFilters
  <1>4. PreviewCounts /\ OneSending /\ OnlyThePreviewed
    BY <1>1, <1>2 DEF PreviewCounts, OneSending, OnlyThePreviewed
  <1>5. QED
    BY <1>3, <1>4 DEF MailInv

LEMMA FiltersKeepMail ==
    ASSUME MailInv, NEW f \in MailFilters, SetFilters(f)
    PROVE  MailInv'
  <1>1. /\ filters' = f /\ preview' = NoPreview
        /\ UNCHANGED <<world, mailCalls, mailed, inbox, crossedPreview, changedWorld, retried, wronged>>
    BY DEF SetFilters, Invalidate
  <1>2. NoPreview \in [shown : BOOLEAN, audience : SUBSET Recipient] /\ NoPreview.shown = FALSE
    BY DEF NoPreview
  <1> HIDE DEF NoPreview
  <1>3. MailTyped'
    BY <1>1, <1>2 DEF MailInv, MailTyped
  <1>4. \A c \in mailCalls : CallCounts(c) => CallCounts(c)'
    BY <1>1 DEF CallCounts, Audience, Matches
  <1>5. PreviewCounts'
    BY <1>1, <1>2, <1>4 DEF MailInv, PreviewCounts
  <1>6. QED
    BY <1>1, <1>3, <1>5 DEF MailInv, OneSending, OnlyThePreviewed

LEMMA TogglesKeepMail ==
    ASSUME MailInv,
           \/ \E r \in MailRole : ToggleRole(r)
           \/ \E s \in MailStatus : ToggleStatus(s)
           \/ ApplyPreset({"reviewer"}, {}) \/ ApplyPreset({}, {"notified"}) \/ ApplyPreset({"submitter"}, {})
    PROVE  MailInv'
  <1>1. filters \in MailFilters
    BY DEF MailInv, MailTyped
  <1>2. \A r \in MailRole : [filters EXCEPT !.roles = Toggle4(@, r)] \in MailFilters
    BY <1>1 DEF MailFilters, Toggle4
  <1>3. \A s \in MailStatus : [filters EXCEPT !.statuses = Toggle4(@, s)] \in MailFilters
    BY <1>1 DEF MailFilters, Toggle4
  <1>4. \A r \in SUBSET MailRole, s \in SUBSET MailStatus : [roles |-> r, statuses |-> s] \in MailFilters
    BY DEF MailFilters
  <1>5. /\ {"reviewer"} \in SUBSET MailRole /\ {"submitter"} \in SUBSET MailRole /\ {} \in SUBSET MailRole
        /\ {"notified"} \in SUBSET MailStatus /\ {} \in SUBSET MailStatus
    BY DEF MailRole, MailStatus
  <1>6. \E f \in MailFilters : SetFilters(f)
    BY <1>2, <1>3, <1>4, <1>5 DEF ToggleRole, ToggleStatus, ApplyPreset
  <1>7. QED
    BY <1>6, FiltersKeepMail

LEMMA MailKeepsMail ==
    ASSUME MailInv, HandlePreview \/ HandleSend
    PROVE  MailInv'
  <1>1. PICK op \in {"preview", "send"} : Mail(op) /\ (op = "send" => preview.shown)
    BY DEF HandlePreview, HandleSend
  <1> DEFINE new == [n |-> mailed, op |-> op, filters |-> filters, at |-> "sent",
                     audience |-> preview.audience, crossed |-> crossedPreview]
  <1>2. /\ mailCalls' = mailCalls \cup {new} /\ mailed' = mailed + 1
        /\ \A c \in mailCalls : c.op # op
        /\ UNCHANGED <<world, filters, preview, inbox, crossedPreview, changedWorld, retried, wronged>>
    BY <1>1 DEF Mail, NotWaiting
  <1>3. /\ filters \in MailFilters /\ preview.audience \in SUBSET Recipient /\ crossedPreview \in BOOLEAN
        /\ mailed \in Nat
    BY DEF MailInv, MailTyped
  <1>4. /\ new \in MailCall /\ new.op = op /\ new.at = "sent" /\ new.filters = filters
        /\ new.audience = preview.audience /\ new.crossed = crossedPreview
    BY <1>3 DEF MailCall
  <1> HIDE DEF new
  <1>5. MailTyped'
    BY <1>2, <1>4 DEF MailInv, MailTyped
  <1>6. \A c \in mailCalls : CallCounts(c) => CallCounts(c)'
    BY <1>2 DEF CallCounts, Audience, Matches
  <1>7. ASSUME NEW d, d = new, ~changedWorld PROVE CallCounts(d)'
    <2>1. CallCounts(d)
      BY <1>1, <1>4, <1>7 DEF MailInv, PreviewCounts, CallCounts
    <2>2. QED
      BY <1>2, <2>1 DEF CallCounts, Audience, Matches
  <1>8. Audience(filters)' = Audience(filters)
    BY <1>2 DEF Audience, Matches
  <1>9. PreviewCounts'
    BY <1>2, <1>6, <1>7, <1>8 DEF MailInv, PreviewCounts
  <1>10. OneSending'
    BY <1>2, <1>4 DEF MailInv, OneSending
  <1>11. QED
    BY <1>2, <1>5, <1>9, <1>10 DEF MailInv, OnlyThePreviewed

LEMMA PreviewKeepsMail ==
    ASSUME MailInv, NEW c \in mailCalls, PreviewAudience(c)
    PROVE  MailInv'
  <1> DEFINE q == [c EXCEPT !.at = "done", !.audience = Audience(c.filters)]
  <1>1. /\ c.op = "preview" /\ mailCalls' = (mailCalls \ {c}) \cup {q}
        /\ UNCHANGED <<world, filters, preview, mailed, inbox, crossedPreview, changedWorld, retried, wronged>>
    BY DEF PreviewAudience
  <1>2. c \in MailCall /\ Audience(c.filters) \in SUBSET Recipient
    BY DEF MailInv, MailTyped, Audience
  <1>3. q \in MailCall /\ q.op = c.op /\ q.filters = c.filters /\ q.audience = Audience(c.filters)
    BY <1>2 DEF MailCall
  <1> HIDE DEF q
  <1>4. MailTyped'
    BY <1>1, <1>3 DEF MailInv, MailTyped
  <1>5. \A d \in mailCalls : CallCounts(d) => CallCounts(d)'
    BY <1>1 DEF CallCounts, Audience, Matches
  <1>6. ASSUME NEW d, d = q PROVE CallCounts(d)'
    <2>1. CallCounts(d)
      BY <1>1, <1>3, <1>6 DEF CallCounts
    <2>2. QED
      BY <1>1, <2>1 DEF CallCounts, Audience, Matches
  <1>7. Audience(filters)' = Audience(filters)
    BY <1>1 DEF Audience, Matches
  <1>8. PreviewCounts'
    BY <1>1, <1>5, <1>6, <1>7 DEF MailInv, PreviewCounts
  <1>9. OneSending'
    BY <1>1, <1>3 DEF MailInv, OneSending
  <1>10. QED
    BY <1>1, <1>4, <1>8, <1>9 DEF MailInv, OnlyThePreviewed

LEMMA ShownKeepsMail ==
    ASSUME MailInv, NEW c \in mailCalls, PreviewShown(c)
    PROVE  MailInv'
  <1> DEFINE q == [shown |-> TRUE, audience |-> c.audience]
  <1>1. /\ c.op = "preview" /\ c.at = "done" /\ mailCalls' = mailCalls \ {c} /\ preview' = q
        /\ crossedPreview' = (c.filters # filters)
        /\ UNCHANGED <<world, filters, mailed, inbox, changedWorld, retried, wronged>>
    BY DEF PreviewShown
  <1>2. c.audience \in SUBSET Recipient
    BY DEF MailInv, MailTyped, MailCall
  <1>3. q \in [shown : BOOLEAN, audience : SUBSET Recipient] /\ q.audience = c.audience
    BY <1>2
  <1> HIDE DEF q
  <1>4. MailTyped'
    BY <1>1, <1>3 DEF MailInv, MailTyped
  <1>5. \A d \in mailCalls : CallCounts(d) => CallCounts(d)'
    BY <1>1 DEF CallCounts, Audience, Matches
  <1>6. (~changedWorld /\ ~crossedPreview') => c.audience = Audience(filters)
    BY <1>1 DEF MailInv, PreviewCounts, CallCounts
  <1>7. Audience(filters)' = Audience(filters)
    BY <1>1 DEF Audience, Matches
  <1>8. PreviewCounts'
    BY <1>1, <1>3, <1>5, <1>6, <1>7 DEF MailInv, PreviewCounts
  <1>9. OneSending'
    BY <1>1 DEF MailInv, OneSending
  <1>10. QED
    BY <1>1, <1>4, <1>8, <1>9 DEF MailInv, OnlyThePreviewed

LEMMA BroadcastKeepsMail ==
    ASSUME MailInv, NEW c \in mailCalls, SendBroadcast(c)
    PROVE  MailInv'
  <1> DEFINE reached == Audience(c.filters)
             q == [c EXCEPT !.at = "done"]
  <1>1. /\ c.op = "send" /\ c.at = "sent" /\ mailCalls' = (mailCalls \ {c}) \cup {q}
        /\ inbox' = [p \in Recipient |-> inbox[p] + IF p \in reached THEN 1 ELSE 0]
        /\ wronged' = (wronged \/ ~(reached \subseteq c.audience \/ c.crossed \/ changedWorld))
        /\ UNCHANGED <<world, filters, preview, mailed, crossedPreview, changedWorld, retried>>
    BY DEF SendBroadcast
  <1>2. c \in MailCall
    BY DEF MailInv, MailTyped
  <1>3. /\ q \in MailCall /\ q.op = c.op /\ q.filters = c.filters /\ q.audience = c.audience
        /\ q.crossed = c.crossed /\ q.at = "done"
    BY <1>2 DEF MailCall
  <1>4. (~c.crossed /\ ~changedWorld) => c.audience = reached
    BY <1>1 DEF MailInv, PreviewCounts, CallCounts
  <1> HIDE DEF q, reached
  <1>5. OnlyThePreviewed'
    BY <1>1, <1>4 DEF MailInv, OnlyThePreviewed
  <1>6. inbox' \in [Recipient -> Nat]
    BY <1>1 DEF MailInv, MailTyped
  <1>7. MailTyped'
    BY <1>1, <1>3, <1>5, <1>6 DEF MailInv, MailTyped, OnlyThePreviewed
  <1>8. \A d \in mailCalls : CallCounts(d) => CallCounts(d)'
    BY <1>1 DEF CallCounts, Audience, Matches
  <1>9. ~changedWorld => CallCounts(q)'
    <2>1. ~changedWorld => CallCounts(q)
      BY <1>1, <1>3 DEF MailInv, PreviewCounts, CallCounts
    <2>2. QED
      BY <1>1, <2>1 DEF CallCounts, Audience, Matches
  <1>10. Audience(filters)' = Audience(filters)
    BY <1>1 DEF Audience, Matches
  <1>11. PreviewCounts'
    BY <1>1, <1>8, <1>9, <1>10 DEF MailInv, PreviewCounts
  <1>12. \A d, e \in mailCalls : d.op = e.op => d = e
    BY DEF MailInv, OneSending
  <1>13. ~retried => \A p \in Recipient : inbox[p] = 0
    BY <1>1, <1>12 DEF MailInv, OneSending
  <1>14. ~retried => \A p \in Recipient : inbox'[p] <= 1
    BY <1>1, <1>13
  <1>15. OneSending'
    BY <1>1, <1>3, <1>12, <1>14 DEF OneSending
  <1>16. QED
    BY <1>5, <1>7, <1>11, <1>15 DEF MailInv

LEMMA AnswerKeepsMail ==
    ASSUME MailInv, NEW c \in mailCalls, SentShown(c) \/ MailFails(c)
    PROVE  MailInv'
  <1>1. /\ mailCalls' = mailCalls \ {c}
        /\ UNCHANGED <<world, filters, mailed, crossedPreview, changedWorld, wronged>>
    BY DEF SentShown, MailFails
  <1>2. NoPreview \in [shown : BOOLEAN, audience : SUBSET Recipient] /\ NoPreview.shown = FALSE
    BY DEF NoPreview
  <1>3. preview' = NoPreview \/ preview' = preview
    BY DEF SentShown, MailFails
  <1> HIDE DEF NoPreview
  <1>4. \/ inbox' = [p \in Recipient |-> 0] /\ retried' = retried
        \/ inbox' = inbox /\ retried' = (c.op = "send" /\ c.at = "done") /\ ~retried
    BY DEF SentShown, MailFails
  <1>a. retried' \in BOOLEAN
    BY <1>4 DEF MailInv, MailTyped
  <1>b. inbox' \in [Recipient -> Nat]
    BY <1>4 DEF MailInv, MailTyped
  <1>5. MailTyped'
    BY <1>1, <1>2, <1>3, <1>a, <1>b DEF MailInv, MailTyped
  <1>6. \A d \in mailCalls : CallCounts(d) => CallCounts(d)'
    BY <1>1 DEF CallCounts, Audience, Matches
  <1>7. Audience(filters)' = Audience(filters)
    BY <1>1 DEF Audience, Matches
  <1>8. PreviewCounts'
    BY <1>1, <1>2, <1>3, <1>6, <1>7 DEF MailInv, PreviewCounts
  <1>9. OneSending'
    BY <1>1, <1>4 DEF MailInv, OneSending
  <1>10. QED
    BY <1>1, <1>5, <1>8, <1>9 DEF MailInv, OnlyThePreviewed

LEMMA NextMailInv == MailInv /\ [MailNext]_mailVars => MailInv'
  <1> SUFFICES ASSUME MailInv, [MailNext]_mailVars PROVE MailInv'
    OBVIOUS
  <1>1. CASE UNCHANGED mailVars
    BY <1>1 DEF mailVars, MailInv, MailTyped, PreviewCounts, CallCounts, Audience, Matches,
       OneSending,
       OnlyThePreviewed
  <1>2. ASSUME NEW p \in Recipient, NEW s \in MailStatus, PersonChanges(p, s) PROVE MailInv'
    BY <1>2 DEF PersonChanges, MailInv, MailTyped, PreviewCounts, OneSending, OnlyThePreviewed
  <1>3. CASE MailNext
    BY <1>2, <1>3, TogglesKeepMail, MailKeepsMail, PreviewKeepsMail, ShownKeepsMail,
       BroadcastKeepsMail,
       AnswerKeepsMail
    DEF MailNext
  <1>4. QED
    BY <1>1, <1>3

\* Only those whom the confirmed preview counted are written to, and once, for
\* any number of recipients and requests.
THEOREM SentAsPreviewed == MailSpec => [](OnlyThePreviewed /\ OncePerText)
  <1>1. MailInv => OnlyThePreviewed /\ OncePerText
    BY DEF MailInv, MailTyped, OneSending, OncePerText
  <1>2. QED
    BY InitMailInv, NextMailInv, <1>1, PTL DEF MailSpec

-------------------------------------------------------------------------------
(* The texts of the mails. *)

Texts == Wording \cup {Original}
TextPut == [n : Nat, alias : Alias, text : Texts, at : {"sent", "done"}]

TextsTyped ==
    /\ wording \in [Alias -> Texts] /\ texts \in [Alias -> Texts] /\ edits \in [Alias -> Texts]
    /\ puts \in SUBSET TextPut /\ putCount \in Nat /\ failedPut \in BOOLEAN

\* The saves of one text: there is one at most, it is of what is in the field,
\* and before and after it the page knows the text there is.
TextFollowed(a) ==
    /\ \A p, q \in puts : p.alias = a /\ q.alias = a => p = q
    /\ \A p \in puts : p.alias = a =>
          /\ a \notin retyped => edits[a] = p.text
          /\ p.at = "done" => wording[a] = p.text
    /\ (\A p \in puts : p.alias # a) => texts[a] = wording[a] /\ (IsDirty(a) => a \in retyped)

TextsInv == TextsTyped /\ (failedPut \/ \A a \in Alias \ doubled : TextFollowed(a))

LEMMA InitTextsInv == TextsInit => TextsInv
  <1> SUFFICES ASSUME TextsInit PROVE TextsInv
    OBVIOUS
  <1>1. wording = [a \in Alias |-> Original] /\ texts = wording /\ edits = wording /\ puts = {}
        /\ putCount = 0 /\ failedPut = FALSE
    BY DEF TextsInit
  <1>2. TextsTyped
    BY <1>1 DEF TextsTyped, Texts
  <1>3. \A a \in Alias : TextFollowed(a)
    BY <1>1 DEF TextFollowed, IsDirty
  <1>4. QED
    BY <1>2, <1>3 DEF TextsInv

LEMMA FieldKeepsTexts ==
    ASSUME TextsInv, NEW a \in Alias, HandleReset(a) \/ \E w \in Wording : Type(a, w)
    PROVE  TextsInv'
  <1>1. /\ \E w \in Texts : edits' = [edits EXCEPT ![a] = w]
        /\ retyped' = retyped \cup {a}
        /\ UNCHANGED <<wording, texts, puts, putCount, doubled, failedPut>>
    BY DEF TextsInv, TextsTyped, HandleReset, Type, Texts
  <1>2. TextsTyped'
    BY <1>1 DEF TextsInv, TextsTyped
  <1>3. ASSUME NEW b \in Alias, TextFollowed(b) PROVE TextFollowed(b)'
    <2>1. b = a \/ edits'[b] = edits[b]
      BY <1>1 DEF TextsInv, TextsTyped
    <2>2. QED
      BY <1>1, <1>3, <2>1 DEF TextFollowed, IsDirty
  <1>4. QED
    BY <1>1, <1>2, <1>3 DEF TextsInv

LEMMA SaveKeepsTexts ==
    ASSUME TextsInv, NEW a \in Alias, HandleSaveText(a)
    PROVE  TextsInv'
  <1> DEFINE new == [n |-> putCount, alias |-> a, text |-> edits[a], at |-> "sent"]
  <1>1. /\ puts' = puts \cup {new} /\ putCount' = putCount + 1 /\ retyped' = retyped \ {a}
        /\ doubled' = (IF \E p \in puts : p.alias = a THEN doubled \cup {a} ELSE doubled)
        /\ UNCHANGED <<wording, texts, edits, failedPut>>
    BY DEF HandleSaveText
  <1>2. new \in TextPut /\ new.alias = a /\ new.text = edits[a] /\ new.at = "sent"
    BY DEF TextsInv, TextsTyped, TextPut
  <1> HIDE DEF new
  <1>3. TextsTyped'
    BY <1>1, <1>2 DEF TextsInv, TextsTyped
  <1>4. ASSUME NEW b \in Alias \ doubled', TextFollowed(b) PROVE TextFollowed(b)'
    <2>1. CASE b = a
      <3>1. \A p \in puts : p.alias # a
        BY <1>1, <1>4, <2>1
      <3>2. QED
        BY <1>1, <1>2, <2>1, <3>1 DEF TextFollowed
    <2>2. CASE b # a
      BY <1>1, <1>2, <1>4, <2>2 DEF TextFollowed, IsDirty
    <2>3. QED
      BY <2>1, <2>2
  <1>5. QED
    BY <1>1, <1>3, <1>4 DEF TextsInv

LEMMA UpdateKeepsTexts ==
    ASSUME TextsInv, NEW p \in puts, UpdateEmailTemplate(p)
    PROVE  TextsInv'
  <1> DEFINE q == [p EXCEPT !.at = "done"]
  <1>1. /\ p.at = "sent" /\ wording' = [wording EXCEPT ![p.alias] = p.text]
        /\ puts' = (puts \ {p}) \cup {q}
        /\ UNCHANGED <<texts, edits, putCount, retyped, doubled, failedPut>>
    BY DEF UpdateEmailTemplate
  <1>2. p \in TextPut /\ p.alias \in Alias /\ p.text \in Texts
    BY DEF TextsInv, TextsTyped, TextPut
  <1>3. q \in TextPut /\ q.alias = p.alias /\ q.text = p.text /\ q.at = "done"
    BY <1>2 DEF TextPut
  <1> HIDE DEF q
  <1>4. TextsTyped'
    BY <1>1, <1>2, <1>3 DEF TextsInv, TextsTyped
  <1>5. ASSUME NEW b \in Alias, TextFollowed(b) PROVE TextFollowed(b)'
    <2>1. wording'[b] = IF b = p.alias THEN p.text ELSE wording[b]
      BY <1>1 DEF TextsInv, TextsTyped
    <2>2. CASE b = p.alias
      BY <1>1, <1>3, <1>5, <2>1, <2>2 DEF TextFollowed
    <2>3. CASE b # p.alias
      BY <1>1, <1>3, <1>5, <2>1, <2>3 DEF TextFollowed, IsDirty
    <2>4. QED
      BY <2>2, <2>3
  <1>6. QED
    BY <1>1, <1>4, <1>5 DEF TextsInv

LEMMA SavedKeepsTexts ==
    ASSUME TextsInv, NEW p \in puts, TextSaved(p)
    PROVE  TextsInv'
  <1>1. /\ p.at = "done" /\ texts' = [texts EXCEPT ![p.alias] = p.text] /\ puts' = puts \ {p}
        /\ UNCHANGED <<wording, edits, putCount, retyped, doubled, failedPut>>
    BY DEF TextSaved, WithUpdated
  <1>2. p.alias \in Alias /\ p.text \in Texts
    BY DEF TextsInv, TextsTyped, TextPut
  <1>3. TextsTyped'
    BY <1>1, <1>2 DEF TextsInv, TextsTyped
  <1>4. ASSUME NEW b \in Alias, TextFollowed(b) PROVE TextFollowed(b)'
    <2>1. texts'[b] = IF b = p.alias THEN p.text ELSE texts[b]
      BY <1>1 DEF TextsInv, TextsTyped
    <2>2. CASE b = p.alias
      BY <1>1, <1>4, <2>1, <2>2 DEF TextFollowed, IsDirty
    <2>3. CASE b # p.alias
      BY <1>1, <1>4, <2>1, <2>3 DEF TextFollowed, IsDirty
    <2>4. QED
      BY <2>2, <2>3
  <1>5. QED
    BY <1>1, <1>3, <1>4 DEF TextsInv

LEMMA NextTextsInv == TextsInv /\ [TextsNext]_textVars => TextsInv'
  <1> SUFFICES ASSUME TextsInv, [TextsNext]_textVars PROVE TextsInv'
    OBVIOUS
  <1>1. CASE UNCHANGED textVars
    BY <1>1 DEF textVars, TextsInv, TextsTyped, TextFollowed, IsDirty
  <1>2. ASSUME NEW p \in puts, TextNotSaved(p) PROVE TextsInv'
    BY <1>2 DEF TextNotSaved, TextsInv, TextsTyped
  <1>3. CASE TextsNext
    BY <1>2, <1>3, FieldKeepsTexts, SaveKeepsTexts, UpdateKeepsTexts, SavedKeepsTexts DEF TextsNext
  <1>4. QED
    BY <1>1, <1>3

\* The page knows the texts the mails are sent with, for any number of kinds of
\* mail, texts and saves.
THEOREM TextsKnown == TextsSpec => []TextsSettle
  <1>1. TextsInv => TextsSettle
    BY DEF TextsInv, TextsSettle, TextFollowed
  <1>2. QED
    BY InitTextsInv, NextTextsInv, <1>1, PTL DEF TextsSpec

-------------------------------------------------------------------------------
(* The form of the settings: deadlines. *)

Dates == {NoDate} \cup {Date(h) : h \in Int}
SentShape == [date : Dates, meant : Dates, byHand : BOOLEAN]
DateForm == [open : BOOLEAN, field : Dates, byHand : BOOLEAN, typed : BOOLEAN, old : BOOLEAN,
             saving : BOOLEAN, sent : SentShape]

DatesTyped ==
    /\ deadline \in Dates /\ intended \in Dates /\ carried \in BOOLEAN
    /\ zone \in [Browser -> Int]
    /\ dates \in [Browser -> DateForm]

\* The field of a form that is not older than the last change, was not entered in
\* since it was saved, and sends what it shows, is the deadline.
FieldIsDeadline(b, f) ==
    (f.open /\ ~f.typed /\ f.field.set /\ ~f.old /\ (zone[b] = 0 \/ f.byHand) /\ ~carried)
        => AsLocal(b, f.field) = deadline

\* A save is of what was meant, or of the field of such a form.
SaveIsMeant(b, f) ==
    /\ f.open
    /\ f.sent.meant.set => f.sent.date = f.sent.meant
    /\ (f.sent.meant.set /\ ~f.typed) => AsLocal(b, f.field) = f.sent.meant
    /\ (~f.sent.date.set /\ ~f.typed) => ~f.field.set
    /\ (~f.sent.meant.set /\ f.sent.date.set /\ ~f.old /\ (zone[b] = 0 \/ f.sent.byHand) /\ ~carried)
           => f.sent.date = deadline

DateFormKept(b, f) ==
    /\ f.saving => SaveIsMeant(b, f)
    /\ (f.saving /\ f.sent.meant.set) \/ FieldIsDeadline(b, f)

DatesInv == DatesTyped /\ (\A b \in Browser : DateFormKept(b, dates[b])) /\ DeadlinesKept

LEMMA LocalTime ==
    ASSUME DatesTyped, NEW b \in Browser, NEW d \in Dates
    PROVE  /\ AsLocal(b, d) \in Dates /\ AsLocal(b, d).set = d.set
           /\ zone[b] = 0 => AsLocal(b, d) = d
  <1>1. zone[b] \in Int
    BY DEF DatesTyped
  <1>2. CASE d = NoDate
    BY <1>2 DEF NoDate, AsLocal, Dates
  <1>3. CASE \E h \in Int : d = Date(h)
    <2>1. PICK h \in Int : d = Date(h)
      BY <1>3
    <2>2. d.set /\ d.hour = h /\ AsLocal(b, d) = Date(h - zone[b])
      BY <2>1 DEF AsLocal, Date
    <2>3. h - zone[b] \in Int /\ (zone[b] = 0 => h - zone[b] = h)
      BY <1>1
    <2>4. Date(h - zone[b]) \in Dates /\ Date(h - zone[b]).set = TRUE /\ d.set = TRUE
      BY <2>1, <2>3 DEF Date, Dates
    <2>5. zone[b] = 0 => Date(h - zone[b]) = d
      BY <2>1, <2>3
    <2>6. QED
      BY <2>2, <2>4, <2>5
  <1>4. QED
    BY <1>2, <1>3 DEF Dates

LEMMA InitDatesInv == DatesInit => DatesInv
  <1> SUFFICES ASSUME DatesInit PROVE DatesInv
    OBVIOUS
  <1>1. NoDate \in Dates /\ \A w \in Wall : Date(w) \in Dates
    BY DeadlineAssumption DEF Dates
  <1>2. Closed \in DateForm /\ ~Closed.open /\ ~Closed.saving
    <2> HIDE DEF NoDate
    <2>1. QED
      BY <1>1 DEF Closed, Unsent, DateForm, SentShape
  <1>3. zone \in [Browser -> Int]
    BY DeadlineAssumption DEF DatesInit
  <1>4. dates = [b \in Browser |-> Closed] /\ intended = deadline /\ carried = FALSE /\ deadline \in Dates
    BY <1>1 DEF DatesInit
  <1> HIDE DEF Closed
  <1>5. QED
    BY <1>2, <1>3, <1>4 DEF DatesInv, DatesTyped, DateFormKept, FieldIsDeadline, DeadlinesKept

\* One form changes, and nothing else.
LEMMA OneDateFormChanges ==
    ASSUME DatesInv, NEW b \in Browser, NEW f \in DateForm, DateFormKept(b, f),
           dates' = [dates EXCEPT ![b] = f],
           UNCHANGED <<deadline, zone, intended, carried>>
    PROVE  DatesInv'
  <1>1. dates'[b] = f /\ \A c \in Browser : c # b => dates'[c] = dates[c]
    BY DEF DatesInv, DatesTyped
  <1>2. DatesTyped'
    BY DEF DatesInv, DatesTyped
  <1>3. ASSUME NEW c \in Browser PROVE DateFormKept(c, dates[c])'
    <2>1. DateFormKept(c, dates'[c])
      BY <1>1 DEF DatesInv
    <2>2. QED
      BY <2>1 DEF DateFormKept, FieldIsDeadline, SaveIsMeant, AsLocal
  <1>4. QED
    BY <1>2, <1>3 DEF DatesInv, DeadlinesKept

LEMMA OpenKeepsDates ==
    ASSUME DatesInv, NEW b \in Browser, OpenDates(b)
    PROVE  DatesInv'
  <1> DEFINE f == [Closed EXCEPT !.open = TRUE, !.field = deadline]
  <1>1. NoDate \in Dates /\ deadline \in Dates
    BY DEF DatesInv, DatesTyped, Dates
  <1>2. Closed \in DateForm /\ ~Closed.saving /\ ~Closed.byHand
    <2> HIDE DEF NoDate
    <2>1. QED
      BY <1>1 DEF Closed, Unsent, DateForm, SentShape
  <1>3. dates' = [dates EXCEPT ![b] = f] /\ UNCHANGED <<deadline, zone, intended, carried>>
    BY DEF OpenDates
  <1> HIDE DEF Closed
  <1>4. f \in DateForm /\ ~f.saving /\ ~f.byHand /\ f.field = deadline
    BY <1>1, <1>2 DEF DateForm
  <1> HIDE DEF f
  <1>5. DateFormKept(b, f)
    BY <1>1, <1>4, LocalTime DEF DatesInv, DateFormKept, FieldIsDeadline
  <1>6. QED
    BY <1>3, <1>4, <1>5, OneDateFormChanges

LEMMA TypeKeepsDates ==
    ASSUME DatesInv, NEW b \in Browser, NEW d \in Dates, TypeDate(b, d)
    PROVE  DatesInv'
  <1> DEFINE f == [dates[b] EXCEPT !.field = d, !.byHand = TRUE, !.typed = TRUE]
  <1>1. dates[b] \in DateForm /\ DateFormKept(b, dates[b])
    BY DEF DatesInv, DatesTyped
  <1>2. dates' = [dates EXCEPT ![b] = f] /\ UNCHANGED <<deadline, zone, intended, carried>>
    BY DEF TypeDate, DatesInv, DatesTyped
  <1>3. /\ f \in DateForm /\ f.open = dates[b].open /\ f.saving = dates[b].saving
        /\ f.sent = dates[b].sent /\ f.old = dates[b].old /\ f.typed = TRUE
    BY <1>1 DEF DateForm
  <1> HIDE DEF f
  <1>4. DateFormKept(b, f)
    BY <1>1, <1>3 DEF DateFormKept, FieldIsDeadline, SaveIsMeant
  <1>5. QED
    BY <1>2, <1>3, <1>4, OneDateFormChanges

LEMMA SaveKeepsDates ==
    ASSUME DatesInv, NEW b \in Browser, SaveDates(b)
    PROVE  DatesInv'
  <1> DEFINE g == dates[b]
             meant == IF g.typed THEN AsLocal(b, g.field) ELSE NoDate
             sent == [date |-> AsLocal(b, g.field), byHand |-> g.byHand, meant |-> meant]
             f == [g EXCEPT !.saving = TRUE, !.typed = FALSE, !.sent = sent]
  <1>1. g \in DateForm /\ DateFormKept(b, g) /\ g.open /\ ~g.saving
    BY DEF DatesInv, DatesTyped, SaveDates
  <1>2. dates' = [dates EXCEPT ![b] = f] /\ UNCHANGED <<deadline, zone, intended, carried>>
    BY DEF SaveDates, DatesInv, DatesTyped, Instant
  <1>3. /\ g.field \in Dates /\ AsLocal(b, g.field) \in Dates
        /\ AsLocal(b, g.field).set = g.field.set /\ g.byHand \in BOOLEAN
    BY <1>1, LocalTime DEF DatesInv, DateForm
  <1>4. /\ g.typed => meant = AsLocal(b, g.field)
        /\ ~g.typed => ~meant.set
        /\ meant \in Dates
    BY <1>3 DEF Dates, NoDate
  <1> HIDE DEF meant
  <1>5. sent \in SentShape /\ sent.date = AsLocal(b, g.field) /\ sent.meant = meant /\ sent.byHand = g.byHand
    BY <1>3, <1>4 DEF SentShape
  <1> HIDE DEF sent
  <1>6. /\ f \in DateForm /\ f.open /\ f.saving /\ f.field = g.field /\ f.byHand = g.byHand
        /\ f.sent = sent /\ f.old = g.old /\ f.typed = FALSE
    BY <1>1, <1>5 DEF DateForm
  <1> HIDE DEF f
  <1>7. FieldIsDeadline(b, g)
    BY <1>1 DEF DateFormKept
  <1>8. SaveIsMeant(b, f)
    BY <1>1, <1>3, <1>4, <1>5, <1>6, <1>7 DEF SaveIsMeant, FieldIsDeadline
  <1>9. meant.set \/ FieldIsDeadline(b, f)
    BY <1>1, <1>3, <1>4, <1>6, <1>7 DEF FieldIsDeadline
  <1>10. DateFormKept(b, f)
    BY <1>5, <1>6, <1>8, <1>9 DEF DateFormKept
  <1> HIDE DEF g
  <1>11. QED
    BY <1>2, <1>6, <1>10, OneDateFormChanges

LEMMA RefusalKeepsDates ==
    ASSUME DatesInv, NEW b \in Browser, DatesRefused(b)
    PROVE  DatesInv'
  <1> DEFINE g == dates[b]
             entered == g.typed \/ g.sent.meant.set
             f == [g EXCEPT !.saving = FALSE, !.sent = Unsent, !.typed = entered]
  <1>1. g \in DateForm /\ DateFormKept(b, g) /\ g.saving
    BY DEF DatesInv, DatesTyped, DatesRefused
  <1>2. dates' = [dates EXCEPT ![b] = f] /\ UNCHANGED <<deadline, zone, intended, carried>>
    BY DEF DatesRefused, DatesInv, DatesTyped
  <1>3. Unsent \in SentShape
    BY DEF Unsent, SentShape, NoDate, Dates
  <1>4. entered \in BOOLEAN /\ (~entered => ~g.typed /\ ~g.sent.meant.set)
    OBVIOUS
  <1> HIDE DEF entered, Unsent
  <1>5. /\ f \in DateForm /\ f.open = g.open /\ f.saving = FALSE /\ f.field = g.field /\ f.byHand = g.byHand
        /\ f.old = g.old /\ f.typed = entered
    BY <1>1, <1>3, <1>4 DEF DateForm
  <1> HIDE DEF f
  <1>6. DateFormKept(b, f)
    BY <1>1, <1>4, <1>5 DEF DateFormKept, FieldIsDeadline
  <1> HIDE DEF g
  <1>7. QED
    BY <1>2, <1>5, <1>6, OneDateFormChanges

LEMMA PatchKeepsDates ==
    ASSUME DatesInv, NEW b \in Browser, PatchDates(b)
    PROVE  DatesInv'
  <1> DEFINE g == dates[b]
             F(c) == IF c = b THEN [g EXCEPT !.saving = FALSE, !.sent = Unsent, !.old = FALSE]
                     ELSE [dates[c] EXCEPT !.old = @ \/ (dates[c].open /\ g.sent.date.set)]
  <1>1. /\ g \in DateForm /\ g.saving /\ SaveIsMeant(b, g)
        /\ (g.sent.meant.set \/ FieldIsDeadline(b, g))
    BY DEF DatesInv, DatesTyped, PatchDates, DateFormKept
  <1>2. /\ deadline' = IF g.sent.date.set THEN g.sent.date ELSE deadline
        /\ intended' = IF g.sent.meant.set THEN g.sent.meant ELSE intended
        /\ carried' = (carried \/ (Carries(b) /\ ((zone[b] # 0 /\ ~g.sent.byHand) \/ g.old)))
        /\ dates' = [c \in Browser |-> F(c)] /\ zone' = zone
    BY DEF PatchDates
  <1>3. Unsent \in SentShape
    BY DEF Unsent, SentShape, NoDate, Dates
  <1> HIDE DEF Unsent
  <1>4. /\ F(b) \in DateForm /\ ~F(b).saving /\ F(b).field = g.field /\ F(b).typed = g.typed
        /\ F(b).open = g.open /\ F(b).byHand = g.byHand
    BY <1>1, <1>3 DEF DateForm
  <1>5. ASSUME NEW c \in Browser, c # b
        PROVE  /\ F(c) \in DateForm /\ F(c).saving = dates[c].saving /\ F(c).field = dates[c].field
               /\ F(c).open = dates[c].open /\ F(c).typed = dates[c].typed
               /\ F(c).byHand = dates[c].byHand /\ F(c).sent = dates[c].sent
               /\ ~g.sent.date.set => F(c).old = dates[c].old
               /\ (g.sent.date.set /\ F(c).open) => F(c).old
    <2> DEFINE old == dates[c].old \/ (dates[c].open /\ g.sent.date.set)
    <2>1. dates[c] \in DateForm /\ dates[c].old \in BOOLEAN
      BY DEF DatesInv, DatesTyped, DateForm
    <2>2. F(c) = [dates[c] EXCEPT !.old = old]
      BY <1>5
    <2>3. old \in BOOLEAN /\ (~g.sent.date.set => old = dates[c].old) /\ (g.sent.date.set /\ dates[c].open => old)
      BY <2>1
    <2> HIDE DEF old, F
    <2>4. QED
      BY <2>1, <2>2, <2>3 DEF DateForm
  <1> HIDE DEF F
  <1>6. dates'[b] = F(b) /\ \A c \in Browser : c # b => dates'[c] = F(c)
    BY <1>2
  <1>7. carried' \/ (~carried /\ (g.sent.meant.set \/ ~g.sent.date.set
                                    \/ (~g.old /\ (zone[b] = 0 \/ g.sent.byHand) /\ g.sent.date = deadline)))
    <2>1. DatesTyped
      BY DEF DatesInv
    <2>2. QED
      BY <1>1, <1>2, <2>1 DEF Carries, SaveIsMeant, DatesTyped
  <1>8. g.sent \in SentShape /\ g.sent.date \in Dates /\ g.sent.meant \in Dates
    BY <1>1 DEF DateForm, SentShape
  <1>9. DatesTyped'
    <2>1. carried' \in BOOLEAN
      BY <1>2 DEF DatesInv, DatesTyped
    <2>2. dates' \in [Browser -> DateForm]
      BY <1>2, <1>4, <1>5
    <2>3. QED
      BY <1>2, <1>8, <2>1, <2>2 DEF DatesInv, DatesTyped
  <1>10. (g.sent.meant.set => g.sent.date = g.sent.meant) /\ (~g.sent.date.set /\ ~g.typed => ~g.field.set)
         /\ (g.sent.meant.set /\ ~g.typed => AsLocal(b, g.field) = g.sent.meant)
    BY <1>1 DEF SaveIsMeant
  <1>11. DeadlinesKept'
    BY <1>2, <1>7, <1>10 DEF DatesInv, DeadlinesKept
  <1>12. DateFormKept(b, dates[b])'
    <2>1. (F(b).open /\ ~F(b).typed /\ F(b).field.set /\ (zone[b] = 0 \/ F(b).byHand) /\ ~carried')
              => AsLocal(b, F(b).field) = deadline'
      BY <1>1, <1>2, <1>4, <1>7, <1>10 DEF FieldIsDeadline
    <2>2. QED
      BY <1>2, <1>4, <1>6, <2>1 DEF DateFormKept, FieldIsDeadline, AsLocal
  <1>13. ASSUME NEW c \in Browser, c # b PROVE DateFormKept(c, dates[c])'
    <2>1. DateFormKept(c, dates[c])
      BY DEF DatesInv
    <2>2. ~g.sent.date.set => deadline' = deadline /\ (carried => carried')
      BY <1>2
    <2>3. (dates[c].saving => SaveIsMeant(c, dates[c]))
          /\ ((dates[c].saving /\ dates[c].sent.meant.set) \/ FieldIsDeadline(c, dates[c]))
      BY <2>1 DEF DateFormKept
    <2>4. F(c).saving => SaveIsMeant(c, dates[c])'
      BY <1>2, <1>5, <1>6, <1>13, <2>2, <2>3 DEF SaveIsMeant, AsLocal
    <2>5. (F(c).saving /\ F(c).sent.meant.set) \/ FieldIsDeadline(c, dates[c])'
      BY <1>2, <1>5, <1>6, <1>13, <2>2, <2>3 DEF FieldIsDeadline, AsLocal
    <2>6. QED
      BY <1>6, <1>13, <2>4, <2>5 DEF DateFormKept
  <1>14. \A c \in Browser : DateFormKept(c, dates[c])'
    BY <1>12, <1>13
  <1>15. QED
    BY <1>9, <1>11, <1>14 DEF DatesInv

LEMMA NextDatesInv == DatesInv /\ [DatesNext]_dateVars => DatesInv'
  <1> SUFFICES ASSUME DatesInv, [DatesNext]_dateVars PROVE DatesInv'
    OBVIOUS
  <1>1. CASE UNCHANGED dateVars
    BY <1>1 DEF dateVars, DatesInv, DatesTyped, DateFormKept, FieldIsDeadline, SaveIsMeant, AsLocal,
       DeadlinesKept
  <1>2. CASE DatesNext
    <2>1. NoDate \in Dates /\ \A w \in Wall : Date(w) \in Dates
      BY DeadlineAssumption DEF Dates
    <2>2. QED
      BY <1>2, <2>1, OpenKeepsDates, TypeKeepsDates, SaveKeepsDates, RefusalKeepsDates,
         PatchKeepsDates
      DEF DatesNext
  <1>3. QED
    BY <1>1, <1>2

\* The deadline is the instant that was meant, for any number of administrators
\* in any time zones.
THEOREM DeadlineAsMeant == DatesSpec => []DeadlinesKept
  <1>1. DatesInv => DeadlinesKept
    BY DEF DatesInv
  <1>2. QED
    BY InitDatesInv, NextDatesInv, <1>1, PTL DEF DatesSpec

-------------------------------------------------------------------------------
(* All the pages: one of them moves, the others are closed. *)

\* The run goes through behaviours of each page's own specification: what is
\* proved of a page holds of the run.
THEOREM CommitteeFollowsPages ==
    CommitteeSpec =>
        /\ EditorSpec /\ SessionsSpec /\ SettingsSpec /\ AccountsSpec /\ ReviewsSpec
        /\ DeskSpec /\ MailSpec /\ TemplatesSpec /\ TextsSpec /\ DatesSpec
<1>1. CommitteeInit =>
          /\ EditorInit /\ SessionsInit /\ SettingsInit /\ AccountsInit /\ ReviewsInit
          /\ DeskInit /\ MailInit /\ TemplatesInit /\ TextsInit /\ DatesInit
  BY DEF CommitteeInit
<1> DEFINE committeeVars ==
               <<page, editorVars, pageVars, settingsVars, accountVars, reviewVars, deskVars,
                 mailVars, templateVars, textVars, dateVars>>
<1>2. [CommitteeNext]_committeeVars =>
          /\ [EditorNext]_editorVars /\ [SessionsNext]_pageVars /\ [SettingsNext]_settingsVars
          /\ [AccountsNext]_accountVars /\ [ReviewsNext]_reviewVars /\ [DeskNext]_deskVars
          /\ [MailNext]_mailVars /\ [TemplatesNext]_templateVars /\ [TextsNext]_textVars
          /\ [DatesNext]_dateVars
  BY DEF CommitteeNext
<1> QED
  BY <1>1, <1>2, PTL
  DEF CommitteeSpec, EditorSpec, SessionsSpec, SettingsSpec, AccountsSpec, ReviewsSpec, DeskSpec,
      MailSpec, TemplatesSpec, TextsSpec, DatesSpec

\* Whatever was pressed at once and in whichever order the answers came, a page
\* with nothing on its way shows what the server has and offers what it accepts.
THEOREM EveryPageSettles == CommitteeSpec => []PagesSettle
<1>1. /\ LineupShown /\ OfferedIsAssignable /\ ListSettles /\ RowsSettle
      /\ ReviewsShown /\ DeskSettles /\ TemplatesSettle /\ TextsSettle
      => PagesSettle
  BY DEF PagesSettle
<1> QED
  BY <1>1, CommitteeFollowsPages, LineupIsShown, SessionsAreShown, AdministratorRemains,
     ReviewsAreShown, DeskIsCurrent, TemplatesAreListed, TextsKnown, PTL

\* No fate is decided and no feedback erased that was not named before.
THEOREM WhatIsLostWasNamed == CommitteeSpec => []NothingLostUnnamed
<1>1. FateWasNamed /\ FeedbackNotErased => NothingLostUnnamed
  BY DEF NothingLostUnnamed
<1> QED
  BY <1>1, CommitteeFollowsPages, SessionsAreShown, ReviewsAreShown, PTL

\* An administrator remains, types in use stay configured and can be renamed,
\* and deadlines stay where they were put.
THEOREM AdministrationIsKept == CommitteeSpec => []AdministrationKept
<1>1. InUseConfigured /\ RenamesAccepted /\ DeadlinesKept /\ SomeAdmin => AdministrationKept
  BY DEF AdministrationKept
<1> QED
  BY <1>1, CommitteeFollowsPages, UsedTypesStay, DeadlineAsMeant, AdministratorRemains, PTL

\* Mails go once and to whom the preview counted, a template is added once.
THEOREM ConfirmedIsDone == CommitteeSpec => []DoneAsConfirmed
<1>1. OnlyThePreviewed /\ OncePerText /\ AppliedOnce => DoneAsConfirmed
  BY DEF DoneAsConfirmed
<1> QED
  BY <1>1, CommitteeFollowsPages, SentAsPreviewed, TemplatesAreListed, PTL
===============================================================================
