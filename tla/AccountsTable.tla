----------------------------- MODULE AccountsTable -----------------------------
(***************************************************************************)
(* The table of accounts on the pages of the administrators.  A control    *)
(* sends the one field it is for; the server reads the account, writes the *)
(* field, and reads the account again for the answer, which replaces the   *)
(* row.  The page remembers one account whose controls wait for an answer; *)
(* those of another may be used meanwhile.                                 *)
(***************************************************************************)
EXTENDS Naturals, FiniteSets

CONSTANTS
    Chief,        \* administrators with the page open
    Member,       \* other accounts
    MaxChanges    \* changes asked for

ASSUME AccountsAssumption == Chief # {}

Holder == Chief \cup Member
Gone == [role |-> "gone", reviewer |-> FALSE, edition |-> 0]
NoAccount == "no account"

VARIABLES
    accounts,     \* the rows of users, or Gone
    shownRow,     \* users, as each administrator's page shows them
    updating,     \* the account whose controls are disabled, on each page
    deletes,      \* setDeleting: the account with a spinner, on each page
    changes, askedFor,
    lateRow,      \* an answer replaced a row by an older one
    apart,        \* an account was changed from elsewhere, or an answer failed after the change
    roleCrossed       \* somebody lost the role of an administrator amid a request

accountVars == <<accounts, shownRow, updating, deletes, changes, askedFor, lateRow, apart, roleCrossed>>

Primary == {"submitter", "admin"}

AccountsInit ==
    /\ accounts = [u \in Holder |-> [role |-> IF u \in Chief THEN "admin" ELSE "submitter",
                                     reviewer |-> FALSE, edition |-> 0]]
    /\ shownRow = [a \in Chief |-> accounts]
    /\ updating = [a \in Chief |-> NoAccount]
    /\ deletes = [a \in Chief |-> NoAccount]
    /\ changes = {} /\ askedFor = 0
    /\ lateRow = FALSE /\ apart = [a \in Chief |-> FALSE] /\ roleCrossed = FALSE

AskFor(a, u, field, value) ==
    /\ askedFor < MaxChanges /\ askedFor' = askedFor + 1
    /\ changes' = changes \cup {[n |-> askedFor, by |-> a, of |-> u, field |-> field,
                                 value |-> value, at |-> "sent", row |-> Gone]}
    /\ UNCHANGED <<accounts, shownRow, lateRow, apart, roleCrossed>>

\* An administrator's own role is a badge, not a control.
NotOwn(a, u) == u # a
Anyone(a, u) == TRUE
HasRoleControl(a, u) == NotOwn(a, u)

HandleRoleChange(a, u, role) ==
    /\ HasRoleControl(a, u) /\ updating[a] # u
    /\ shownRow[a][u] # Gone /\ shownRow[a][u].role # role
    /\ updating' = [updating EXCEPT ![a] = u] /\ UNCHANGED deletes
    /\ AskFor(a, u, "role", role)

HandleReviewerToggle(a, u) ==
    /\ updating[a] # u /\ shownRow[a][u] # Gone
    /\ updating' = [updating EXCEPT ![a] = u] /\ UNCHANGED deletes
    /\ AskFor(a, u, "reviewer", IF shownRow[a][u].reviewer THEN "off" ELSE "on")

HandleDelete(a, u) ==
    /\ u # a /\ deletes[a] # u /\ shownRow[a][u] # Gone
    /\ deletes' = [deletes EXCEPT ![a] = u] /\ UNCHANGED updating
    /\ AskFor(a, u, "delete", "gone")

\* AdminUser: the role of the actor is read before the handler begins.
Authorise(c) ==
    /\ c.at = "sent"
    /\ changes' = (changes \ {c}) \cup
           {[c EXCEPT !.at = IF accounts[c.by].role = "admin" THEN "allowed" ELSE "refused"]}
    /\ UNCHANGED <<accounts, shownRow, updating, deletes, askedFor, lateRow, apart, roleCrossed>>

Pending == {"allowed", "loaded"}

LoadAccount(c) ==
    /\ c.at = "allowed" /\ accounts[c.of] # Gone
    /\ changes' = (changes \ {c}) \cup {[c EXCEPT !.at = "loaded", !.row = accounts[c.of]]}
    /\ UNCHANGED <<accounts, shownRow, updating, deletes, askedFor, lateRow, apart, roleCrossed>>

\* A column set to the value that was read for it is not written.
RoleAfter(c) ==
    IF c.field = "role" /\ c.value # c.row.role THEN c.value ELSE accounts[c.of].role
ReviewerAfter(c) ==
    IF c.field = "reviewer" /\ (c.value = "on") # c.row.reviewer THEN c.value = "on"
    ELSE accounts[c.of].reviewer

Updated(c) ==
    [role |-> RoleAfter(c), reviewer |-> ReviewerAfter(c), edition |-> accounts[c.of].edition + 1]

Perform(c) ==
    /\ c.at = "loaded" /\ (c.field = "delete" \/ accounts[c.of] # Gone)
    /\ LET row == IF c.field = "delete" THEN Gone ELSE Updated(c)
           at == IF c.field = "delete" THEN "done" ELSE "written"
       IN /\ accounts' = [accounts EXCEPT ![c.of] = row]
          /\ changes' = (changes \ {c}) \cup {[c EXCEPT !.at = at, !.row = row]}
          /\ roleCrossed' = (roleCrossed \/ (row.role # "admin" /\
                             \E d \in changes \ {c} : d.by = c.of /\ d.at \in Pending))
    /\ apart' = [a \in Chief |-> apart[a] \/ a # c.by]
    /\ UNCHANGED <<shownRow, updating, deletes, askedFor, lateRow>>

\* db.refresh(user), which fails once the account is deleted.
Refresh(c) ==
    /\ c.at = "written" /\ accounts[c.of] # Gone
    /\ changes' = (changes \ {c}) \cup {[c EXCEPT !.at = "done", !.row = accounts[c.of]]}
    /\ UNCHANGED <<accounts, shownRow, updating, deletes, askedFor, lateRow, apart, roleCrossed>>

\* The account is gone, or has submissions or submitted reviews that keep it.
Declined(c) ==
    /\ \/ c.at = "allowed" /\ (accounts[c.of] = Gone \/ c.field = "delete")
       \/ c.at = "loaded" /\ accounts[c.of] = Gone /\ c.field # "delete"
    /\ changes' = (changes \ {c}) \cup {[c EXCEPT !.at = "refused"]}
    /\ UNCHANGED <<accounts, shownRow, updating, deletes, askedFor, lateRow, apart, roleCrossed>>

\* The one spinner is taken away, whichever account it is on by now.
Idle(c) ==
    /\ changes' = changes \ {c}
    /\ updating' = IF c.field = "delete" THEN updating ELSE [updating EXCEPT ![c.by] = NoAccount]
    /\ deletes' = IF c.field = "delete" THEN [deletes EXCEPT ![c.by] = NoAccount] ELSE deletes

OnlyTheField(c) ==
    IF c.field = "reviewer" THEN [c.row EXCEPT !.role = shownRow[c.by][c.of].role]
    ELSE shownRow[c.by][c.of]
WholeRow(c) == c.row

RowAnswered(c) ==
    /\ c.at = "done"
    /\ Idle(c)
    /\ shownRow' = IF shownRow[c.by][c.of] = Gone THEN shownRow
                   ELSE [shownRow EXCEPT ![c.by][c.of] = WholeRow(c)]
    /\ lateRow' = (lateRow \/ (c.row # Gone /\ c.row.edition < shownRow[c.by][c.of].edition))
    /\ UNCHANGED <<accounts, askedFor, apart, roleCrossed>>

RowRefused(c) ==
    /\ c.at \in {"refused", "written", "done"}
    /\ Idle(c)
    /\ apart' = [apart EXCEPT ![c.by] = @ \/ c.at # "refused"]
    /\ UNCHANGED <<accounts, shownRow, askedFor, lateRow, roleCrossed>>

AccountsNext ==
    \/ \E a \in Chief, u \in Holder :
          \/ \E role \in Primary : HandleRoleChange(a, u, role)
          \/ HandleReviewerToggle(a, u) \/ HandleDelete(a, u)
    \/ \E c \in changes :
          \/ Authorise(c) \/ LoadAccount(c) \/ Perform(c) \/ Refresh(c)
          \/ Declined(c) \/ RowAnswered(c) \/ RowRefused(c)

AccountsSpec == AccountsInit /\ [][AccountsNext]_accountVars

-------------------------------------------------------------------------------
(* There is always an administrator, although the server lets one change any  *)
(* role and only refuses to delete one's own account: nobody can take the     *)
(* role from themselves on the page, and two administrators can only take it  *)
(* from each other when one loses it between the check of a request and its   *)
(* effect.                                                                    *)
SomeAdmin == ~roleCrossed => \E u \in Holder : accounts[u].role = "admin"

(* When nothing is on its way a page shows the accounts as they are, although *)
(* changes to several fields of several accounts overlapped: unless another   *)
(* page changed them, an answer was lost, or answers for one account came in  *)
(* another order than the account was read for them.                          *)
RowsSettle ==
    \A a \in Chief :
        (~(\E c \in changes : c.by = a) /\ ~lateRow /\ ~apart[a]) => shownRow[a] = accounts
===============================================================================
