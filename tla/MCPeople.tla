------------------------------ MODULE MCPeople ------------------------------
(***************************************************************************)
(* Accounts, invites and sessions on small instances.  The scenarios share *)
(* no step: each starts where its part of the services is busy, and TLC    *)
(* explores them side by side.                                             *)
(***************************************************************************)
EXTENDS IdentityProperties, TLC

CONSTANTS o1, f1, i1

VARIABLE scenario

OfficeOrgs == [f \in {f1} |-> o1]

Symmetry ==
  Permutations(Handlers) \cup Permutations(Users) \cup Permutations(TokenIds)

CancelledInvite == [NewInvite("EMPLOYEE", NoOne, Nowhere) EXCEPT !.status = "CANCELLED"]

\* An open company with some rows of invites left.
OpenCompany(free) ==
  /\ organization = [o \in Organizations |-> "ACTIVE"]
  /\ invite = [i \in InviteIds |-> IF i \in free THEN NoInvite ELSE CancelledInvite]
  /\ token = [t \in TokenIds |-> NoToken]
  /\ ApiInit

\* Somebody who runs the company and an office of it and works there.
OneAccount ==
  \E w \in Users :
    account = [u \in Users |->
      IF u = w
      THEN [NoAccount EXCEPT !.exists = TRUE, !.temporary = FALSE, !.employee = o1,
              !.roles = {"ORG_ADMIN", "OFFICE_ADMIN", "EMPLOYEE"},
              !.member = {o1}, !.admin = {o1}, !.offices = {f1}]
      ELSE NoAccount]

PeopleInit ==
  \/ scenario = "companies" /\ IdentityInit
  \/ scenario = "administrators" /\ OpenCompany({}) /\ account = SeededAccounts
  \/ scenario = "appointments" /\ OpenCompany({i1}) /\ account = SeededAccounts
  \/ scenario = "invites" /\ OpenCompany(InviteIds) /\ account = SeededAccounts
  \/ scenario = "sessions" /\ OpenCompany({}) /\ OneAccount

PeopleNext ==
  /\ \/ scenario = "companies" /\ OrganizationsNext
     \/ /\ scenario = "administrators"
        /\ AppointmentNext \/ WithdrawalNext \/ EmploymentNext
     \/ scenario = "appointments" /\ (AppointmentNext \/ InvitesNext)
     \/ scenario = "invites" /\ InvitesNext
     \/ scenario = "sessions" /\ (SessionsNext \/ StatusNext)
     \/ IdentityFailure
  /\ UNCHANGED scenario

PeopleSpec == PeopleInit /\ [][PeopleNext]_<<identityVars, scenario>>
=============================================================================
