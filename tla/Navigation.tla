------------------------------ MODULE Navigation ------------------------------
(***************************************************************************)
(* Where each kind of user can go.  The browser decides with the helpers   *)
(* of lib/permissions.ts, in the layouts and in the links they show; the   *)
(* server decides again, with app/permissions.py and the guards of the     *)
(* routers, for the requests a page makes when it opens.                   *)
(***************************************************************************)
EXTENDS Naturals

VARIABLES
    visitor,    \* the user AuthProvider holds, or Visitor
    visitedAt   \* the pathname

navVars == <<visitor, visitedAt>>

Role == {"submitter", "reviewer", "program_chair", "admin"}
Person == [role : Role, is_reviewer : BOOLEAN, is_admin_viewer : BOOLEAN,
           email_verified : BOOLEAN]
Visitor == [role |-> "none", is_reviewer |-> FALSE, is_admin_viewer |-> FALSE,
            email_verified |-> FALSE]

CanActAdmin(u) == u.role = "admin"
CanActChair(u) == u.role \in {"admin", "program_chair"}
CanViewAdmin(u) == CanActAdmin(u) \/ u.is_admin_viewer
CanViewAll(u) == CanActChair(u) \/ u.is_admin_viewer
IsReadOnlyAdmin(u) == ~CanActChair(u) /\ u.is_admin_viewer
CanEnterAdmin(u) ==
    CanViewAll(u) \/ u.role = "reviewer" \/ u.is_reviewer \/ u.is_admin_viewer

\* The pages of the sidebar and the roles they are listed for.
SidebarRoles ==
    [p \in {"/admin", "/admin/abstracts", "/admin/assign-reviewers", "/admin/decisions",
            "/admin/sessions", "/admin/presenters", "/admin/files", "/admin/email",
            "/admin/notifications"} |-> {"admin", "program_chair"}]
SidebarAdminOnly == {"/admin/users", "/admin/audit-log", "/admin/email-templates", "/admin/settings"}
AdminPages == DOMAIN SidebarRoles \cup SidebarAdminOnly
              \cup {"/admin/reviews", "/admin/documentation", "/admin/sessions/templates",
                    "/admin/abstracts/id", "/admin/sessions/id", "/admin/sessions/new"}
ListedFor(p, role) ==
    \/ p \in DOMAIN SidebarRoles /\ role \in SidebarRoles[p]
    \/ p \in SidebarAdminOnly /\ role = "admin"
    \/ p = "/admin/documentation" /\ role \in {"admin", "program_chair", "reviewer"}

WithEmail(u) ==
    {p \in AdminPages :
        \/ ListedFor(p, u.role)
        \/ u.is_admin_viewer /\ ListedFor(p, "admin")
        \/ p = "/admin/reviews" /\ (u.role = "reviewer" \/ u.is_reviewer)}
SidebarLinks(u) ==
    {p \in AdminPages :
        /\ ~(p = "/admin/email" /\ IsReadOnlyAdmin(u))
        /\ \/ ListedFor(p, u.role)
           \/ u.is_admin_viewer /\ ListedFor(p, "admin")
           \/ p = "/admin/reviews" /\ (u.role = "reviewer" \/ u.is_reviewer)}

IsStaff(u) == u.role \in {"admin", "program_chair", "reviewer"}

NavLinks(u) ==
    IF IsStaff(u) THEN {"/admin", "/program"}
    ELSE {"/program"}
         \cup (IF u = Visitor THEN {"/login", "/register"} ELSE {})
         \cup (IF u.role = "submitter" THEN {"/"} ELSE {})
         \cup (IF u.role = "submitter" /\ u.is_reviewer THEN {"/admin/reviews"} ELSE {})
         \cup (IF u.role = "submitter" /\ u.is_admin_viewer THEN {"/admin"} ELSE {})

\* The quick actions of the overview, and what the page of the sessions links to.
QuickActions(u) ==
    {"/admin/abstracts", "/admin/sessions"}
    \cup (IF CanActAdmin(u) THEN {"/admin/users", "/admin/settings"} ELSE {})
PageLinks(p, u) ==
    CASE p = "/admin" -> QuickActions(u)
      [] p = "/admin/abstracts" -> {"/admin/abstracts/id"}
      [] p = "/admin/sessions" ->
             {"/admin/sessions/id"}
             \cup (IF CanViewAdmin(u) THEN {"/admin/sessions/templates"} ELSE {})
             \cup (IF IsReadOnlyAdmin(u) THEN {} ELSE {"/admin/sessions/new"})
      [] OTHER -> {}

Links(p, u) ==
    NavLinks(u) \cup (IF p \in AdminPages THEN SidebarLinks(u) \cup PageLinks(p, u) ELSE {})

AuthPages == {"/login", "/register", "/verify-email"}
Places == AuthPages \cup AdminPages \cup {"/", "/program"}

\* Where the layouts and the pages of the (auth) group send who is there.
SubmitterLayout(u) ==
    IF u = Visitor THEN "/login" ELSE IF IsStaff(u) THEN "/admin" ELSE "/"
ViewersOnly(p, u) ==
    IF u = Visitor THEN "/login" ELSE IF ~CanViewAll(u) THEN "/" ELSE p
AdminLayout(p, u) ==
    IF u = Visitor THEN "/login" ELSE IF ~CanEnterAdmin(u) THEN "/" ELSE p
LoginPage(u) ==
    IF u = Visitor THEN "/login"
    ELSE IF CanActChair(u) THEN "/admin"
    ELSE IF u.role = "reviewer" THEN "/admin/reviews" ELSE "/"
RegisterPage(u) ==
    IF u = Visitor THEN "/register" ELSE IF u.email_verified THEN "/" ELSE "/verify-email"

Destination(p, u) ==
    CASE p = "/" -> SubmitterLayout(u)
      [] p \in AdminPages -> AdminLayout(p, u)
      [] p = "/login" -> LoginPage(u)
      [] p = "/register" -> RegisterPage(u)
      [] OTHER -> p

\* What a page says itself instead of its contents.
PageRefuses(p, u) ==
    \/ p \in {"/admin/users", "/admin/settings", "/admin/email-templates",
              "/admin/sessions/templates"} /\ ~CanViewAdmin(u)
    \/ p \in {"/admin/assign-reviewers", "/admin/notifications"} /\ ~CanViewAll(u)
    \/ p = "/admin/email" /\ IsReadOnlyAdmin(u)

\* The guards of the server, for the requests without which a page shows an error.
ServerViewAdmin(u) == u.is_admin_viewer \/ u.role = "admin"
ServerViewAll(u) == u.is_admin_viewer \/ u.role \in {"program_chair", "admin"}
ServerRefuses(p, u) ==
    \/ p \in {"/admin/users", "/admin/audit-log", "/admin/settings", "/admin/email-templates",
              "/admin/sessions/templates"} /\ ~ServerViewAdmin(u)
    \/ p \in {"/admin/decisions", "/admin/files", "/admin/sessions", "/admin/sessions/id",
              "/admin/notifications"} /\ ~ServerViewAll(u)
    \/ p = "/admin/email" /\ u.role \notin {"program_chair", "admin"}

-------------------------------------------------------------------------------
(* What the pages let a user change, as the guards of the requests that do.  *)

OverviewControls(u) == IF CanActAdmin(u) THEN {"chair"} ELSE {}
AbstractControls(u) ==
    (IF CanActAdmin(u) THEN {"admin"} ELSE {}) \cup (IF CanActChair(u) THEN {"chair"} ELSE {})
Shown(u, guards) == guards
UnlessReadOnly(u, guards) == IF IsReadOnlyAdmin(u) THEN {} ELSE guards

SessionListControls(u) == UnlessReadOnly(u, {"chair"})
SessionControls(u) == UnlessReadOnly(u, {"chair"})
MatrixControls(u) == UnlessReadOnly(u, {"chair"})
NotificationControls(u) == UnlessReadOnly(u, {"chair"})
UserControls(u) == UnlessReadOnly(u, {"admin"})
SettingsControls(u) == UnlessReadOnly(u, {"admin"})
TextControls(u) == UnlessReadOnly(u, {"admin"})
TemplateControls(u) == UnlessReadOnly(u, {"admin"})

Controls(p, u) ==
    CASE p = "/admin" -> OverviewControls(u)
      [] p = "/admin/abstracts/id" -> AbstractControls(u)
      [] p = "/admin/sessions" -> SessionListControls(u)
      [] p = "/admin/sessions/id" -> SessionControls(u)
      [] p = "/admin/assign-reviewers" -> MatrixControls(u)
      [] p = "/admin/notifications" -> NotificationControls(u)
      [] p = "/admin/users" -> UserControls(u)
      [] p = "/admin/settings" -> SettingsControls(u)
      [] p = "/admin/email-templates" -> TextControls(u)
      [] p = "/admin/sessions/templates" -> TemplateControls(u)
      [] p \in {"/admin/email", "/admin/sessions/new"} -> {"chair"}
      [] OTHER -> {}

\* require_admin and require_program_chair.
RoleAllows(guard, u) == u.role \in IF guard = "admin" THEN {"admin"} ELSE {"program_chair", "admin"}

-------------------------------------------------------------------------------
NavInit == visitor \in Person \cup {Visitor} /\ visitedAt = "/program"

Settled == Destination(visitedAt, visitor) = visitedAt

Redirect ==
    /\ ~Settled
    /\ visitedAt' = Destination(visitedAt, visitor)
    /\ UNCHANGED visitor

Follow ==
    /\ Settled
    /\ visitedAt' \in Links(visitedAt, visitor)
    /\ UNCHANGED visitor

TypeAddress == visitedAt' \in Places /\ UNCHANGED visitor

\* The session ends or another account's begins, in this tab or by a refresh.
SessionChanges == visitor' \in Person \cup {Visitor} /\ UNCHANGED visitedAt

NavNext == Redirect \/ Follow \/ TypeAddress \/ SessionChanges
NavSpec == NavInit /\ [][NavNext]_navVars

\* A plain reviewer may enter the overview, whose quick actions are for everyone.
ByQuickAction(p, u) ==
    /\ visitedAt \in {"/admin", "/admin/sessions"} /\ ~CanViewAll(u)
    /\ p \in {"/admin/sessions", "/admin/sessions/id", "/admin/sessions/new"}

(* No link leads to a dead end: whoever sees a link may open its page, that   *)
(* is, neither the layout of the page nor the page itself turns them away,    *)
(* and the server answers the requests the page makes.  Only the overview     *)
(* sends reviewers to the sessions, whose blocks the server does not list for *)
(* them.                                                                      *)
LinksLead ==
    \A p \in Links(visitedAt, visitor) :
        (Settled /\ ~ByQuickAction(p, visitor)) =>
            /\ Destination(p, visitor) = p
            /\ ~PageRefuses(p, visitor)
            /\ ~ServerRefuses(p, visitor)

(* Nor does it lead to a page of buttons that fail: "write/action controls    *)
(* stay gated by the base role", so what a linked page lets its user change   *)
(* the server lets them change, except that a program chair who is an Admin   *)
(* Viewer as well is given the controls of the pages only administrators may  *)
(* use: read-only is decided by the role of a chair.                          *)
ControlsGranted ==
    \A p \in Links(visitedAt, visitor) :
        (Settled /\ ~ByQuickAction(p, visitor)) =>
            \A guard \in Controls(p, visitor) :
                \/ RoleAllows(guard, visitor)
                \/ guard = "admin" /\ visitor.role = "program_chair" /\ visitor.is_admin_viewer

(* The redirects of the layouts end: from any address, for any user, a page    *)
(* that stays is reached after two of them at most; the layouts and the pages *)
(* of the (auth) group do not send a user back and forth.                     *)
RedirectsEnd ==
    LET hop(p) == Destination(p, visitor)
    IN hop(hop(hop(visitedAt))) = hop(hop(visitedAt))

(* The permission tables of the browser and of the server fit together, for   *)
(* every kind of user, wherever they are and however their session changes:   *)
(* the links of the navigation, the sidebar, the overview and the list of     *)
(* sessions lead somewhere, the controls there work, and redirects end.  The  *)
(* user is the one the browser shows: a role changed since it was asked for,  *)
(* or decoded from a token, which names none, is not followed.                *)
Permitted == LinksLead /\ ControlsGranted /\ RedirectsEnd
===============================================================================
