------------------------------ MODULE Identity ------------------------------
(***************************************************************************)
(* Who may enter: organizations, the accounts with their roles and places  *)
(* in them, the invites sent to their addresses and the refresh tokens     *)
(* that keep them signed in.  An account is named by its address; offices  *)
(* stay open.                                                              *)
(***************************************************************************)
EXTENDS ApiProcess

CONSTANTS
  Users, Organizations,
  Offices, OfficeOrg,    \* offices and the organization of each
  Platform,              \* the seeded platform administrators
  InviteIds, TokenIds,
  LastPassword           \* bound: passwords an account goes through

Nowhere == "nowhere"   \* of no organization
NoOne == "no one"      \* no account, no token

ASSUME IdentityAssumption ==
  /\ OfficeOrg \in [Offices -> Organizations]
  /\ Platform \subseteq Users
  /\ LastPassword \in Nat
  /\ Nowhere \notin Organizations
  /\ NoOne \notin Users \cup InviteIds \cup TokenIds

VARIABLES
  organization,  \* the status of each organization
  account,       \* User with its role, membership, office and employee rows
  invite,        \* the table Invite
  token          \* the table RefreshToken

identityVars == <<organization, account, invite, token, apiVars>>

Roles == {"SUPER_ADMIN", "ORG_ADMIN", "OFFICE_ADMIN", "EMPLOYEE"}

NoAccount ==
  [exists |-> FALSE, active |-> TRUE, temporary |-> TRUE, password |-> 0,
   roles |-> {}, member |-> {}, admin |-> {}, offices |-> {}, employee |-> Nowhere]

NoInvite == [status |-> "NONE", type |-> "EMPLOYEE", user |-> NoOne, org |-> Nowhere,
             due |-> FALSE]

\* A token remembers the password its session was opened with and the token
\* it replaces.
NoToken == [state |-> "NONE", user |-> NoOne, context |-> "none", password |-> 0,
            parent |-> NoOne]

IsOpen(o) == organization[o] = "ACTIVE"

IsPlatform(a) == "SUPER_ADMIN" \in a.roles

OfficesIn(a, o) == {f \in a.offices : OfficeOrg[f] = o}

\* The organizations of an account: of its memberships, its companies and its
\* employment.
Known(a) == (a.member \cup a.admin \cup {a.employee}) \cap Organizations

\* buildContextsForUser: the contexts an account may sign in to.
Contexts(a) ==
  {<<"platform", Nowhere>> : r \in a.roles \cap {"SUPER_ADMIN"}}
    \cup {<<"org_admin", o>> : o \in {p \in Known(a) : IsOpen(p) /\ p \in a.admin}}
    \cup {<<"office_admin", o>> : o \in {p \in Known(a) :
            IsOpen(p) /\ "OFFICE_ADMIN" \in a.roles /\ OfficesIn(a, p) # {}}}
    \cup {<<"employee", o>> : o \in {p \in Known(a) :
            IsOpen(p) /\ "EMPLOYEE" \in a.roles /\ a.employee = p}}

\* resolveScopedIdentity
MaySignIn(a, context) == a.exists /\ a.active /\ context \in Contexts(a)

\* A role and a membership are added unless they are there.
Granted(a, role, o) ==
  [a EXCEPT !.exists = TRUE, !.roles = @ \cup {role}, !.member = @ \cup {o}]

\* A password is replaced; whether it has to be changed, and the account is on.
WithPassword(a, temporary, active) ==
  [a EXCEPT !.password = @ + 1, !.temporary = temporary, !.active = active]

\* Whether an account still has a place in an organization.
HasPlace(a, o) == o \in a.admin \/ OfficesIn(a, o) # {} \/ a.employee = o

\* Every live token of an account is revoked.
SignedOut(u) ==
  [t \in TokenIds |->
    IF token[t].user = u /\ token[t].state = "LIVE"
    THEN [token[t] EXCEPT !.state = "REVOKED"] ELSE token[t]]

HasPending(u, o, type) ==
  \E i \in InviteIds : /\ invite[i].status = "PENDING" /\ invite[i].type = type
                       /\ invite[i].user = u /\ invite[i].org = o

\* A row of the table that was never used.
FreeInvite(i) == invite[i].status = "NONE"

NewInvite(type, u, o) ==
  [status |-> "PENDING", type |-> type, user |-> u, org |-> o, due |-> FALSE]

PlatformAccount == [NoAccount EXCEPT !.exists = TRUE, !.roles = {"SUPER_ADMIN"}]

SeededAccounts == [u \in Users |-> IF u \in Platform THEN PlatformAccount ELSE NoAccount]

IdentityInit ==
  /\ organization = [o \in Organizations |-> "NONE"]
  /\ account = SeededAccounts
  /\ invite = [i \in InviteIds |-> NoInvite]
  /\ token = [t \in TokenIds |-> NoToken]
  /\ ApiInit
=============================================================================
