------------------------------ MODULE Accounts ------------------------------
(***************************************************************************)
(* Platform, company and office administration of accounts: organizations  *)
(* and their administrators, office administrators, employees.  An account *)
(* that exists is attached; one that does not is made.                     *)
(***************************************************************************)
EXTENDS Identity

Kept == UNCHANGED <<organization, account, invite, token>>

CreateOrganization(o) ==
  /\ organization[o] = "NONE"
  /\ organization' = [organization EXCEPT ![o] = "ACTIVE"]
  /\ AtOnce
  /\ UNCHANGED <<account, invite, token>>

\* changeOrganizationStatus, updateOrganization: sessions are left alone.
ChangeOrganizationStatus(o) ==
  /\ organization[o] # "NONE"
  /\ organization' = [organization EXCEPT ![o] = IF IsOpen(o) THEN "INACTIVE" ELSE "ACTIVE"]
  /\ AtOnce
  /\ UNCHANGED <<account, invite, token>>

CheckOrgAdmin(h, u, o, send) ==
  /\ IsOpen(o)
  /\ Hold(h, [op |-> "orgAdmin", user |-> u, org |-> o, send |-> send])
  /\ Kept

\* The invite of the transaction that makes an administrator, if asked for.
\* A pending one fails the transaction.
Invited(r, type) ==
  IF r.send
  THEN /\ ~HasPending(r.user, r.org, type)
       /\ \E i \in InviteIds :
            FreeInvite(i) /\ invite' = [invite EXCEPT ![i] = NewInvite(type, r.user, r.org)]
  ELSE UNCHANGED invite

WithCompany(a, o) == [a EXCEPT !.admin = @ \cup {o}]

\* The check that refuses platform accounts and administrators of the company
\* is not awaited: the rows are written whatever it says.
AssignOrgAdmin(h) ==
  LET r == request[h]
  IN /\ r.op = "orgAdmin"
     /\ account' = [account EXCEPT ![r.user] =
                     WithCompany(Granted(@, "ORG_ADMIN", r.org), r.org)]
     /\ Invited(r, "ORG_ADMIN")
     /\ Answer(h)
     /\ UNCHANGED <<organization, token>>

IsRefusedOrgAdmin(a, o) == IsPlatform(a) \/ o \in a.admin

\* ... or the rejection nobody handles ends the process with all its requests,
\* where nothing in the process catches it.
RejectionEndsProcess(h) ==
  LET r == request[h]
  IN /\ r.op = "orgAdmin"
     /\ IsRefusedOrgAdmin(account[r.user], r.org)
     /\ request' = [g \in Handlers |-> NoRequest]
     /\ UNCHANGED <<overlapped, organization, account, invite, token>>

AdminsOf(o) == {u \in Users : o \in account[u].admin}

MayLoseOne(o) == Cardinality(AdminsOf(o)) > 1

\* Fault: the role is kept.
KeepsRole(rest) == FALSE

\* What the transaction of an unassignment counts, of an account as it leaves it.
DropsRole(rest) == rest = {}

WithoutCompany(a, o) == [a EXCEPT !.admin = @ \ {o}]

CheckUnassignOrgAdmin(h, u, o) ==
  LET left == WithoutCompany(account[u], o)
  IN /\ o \in account[u].admin
     /\ MayLoseOne(o)
     /\ Hold(h, [op |-> "unassignOrgAdmin", user |-> u, org |-> o,
                 drop |-> DropsRole(left.admin), leave |-> ~HasPlace(left, o)])
     /\ Kept

\* The rows that the counts said are unused go with the assignment, and the
\* sessions end.
Left(a, r, role) ==
  [a EXCEPT !.roles = IF r.drop THEN @ \ {role} ELSE @,
            !.member = IF r.leave THEN @ \ {r.org} ELSE @]

\* The deletion fails when the assignment has gone meanwhile.
UnassignOrgAdmin(h) ==
  LET r == request[h]
  IN /\ r.op = "unassignOrgAdmin"
     /\ IF r.org \in account[r.user].admin
        THEN /\ account' = [account EXCEPT ![r.user] =
                             Left(WithoutCompany(@, r.org), r, "ORG_ADMIN")]
             /\ token' = SignedOut(r.user)
        ELSE UNCHANGED <<account, token>>
     /\ Answer(h)
     /\ UNCHANGED <<organization, invite>>

-----------------------------------------------------------------------------
CheckOfficeAdmin(h, u, o, offices, send) ==
  /\ offices # {}
  /\ \A f \in offices : OfficeOrg[f] = o
  /\ organization[o] # "NONE"
  /\ Hold(h, [op |-> "officeAdmin", user |-> u, org |-> o, offices |-> offices, send |-> send])
  /\ Kept

AlsoIn(a, offices) == [a EXCEPT !.offices = @ \cup offices]

AssignOfficeAdmin(h) ==
  LET r == request[h]
  IN /\ r.op = "officeAdmin"
     /\ IF IsPlatform(account[r.user]) THEN UNCHANGED <<account, invite>>
        ELSE /\ account' = [account EXCEPT ![r.user] =
                             AlsoIn(Granted(@, "OFFICE_ADMIN", r.org), r.offices)]
             /\ Invited(r, "OFFICE_ADMIN")
     /\ Answer(h)
     /\ UNCHANGED <<organization, token>>

IsOfficeAdmin(a, o) == "OFFICE_ADMIN" \in a.roles /\ OfficesIn(a, o) # {}

WithOffices(a, o, offices) == [a EXCEPT !.offices = (@ \ OfficesIn(a, o)) \cup offices]

WithoutOffice(a, f) == [a EXCEPT !.offices = @ \ {f}]

CheckUnassignOffice(h, u, f) ==
  LET left == WithoutOffice(account[u], f)
      o == OfficeOrg[f]
  IN /\ f \in account[u].offices
     /\ Hold(h, [op |-> "unassignOffice", user |-> u, org |-> o, office |-> f,
                 drop |-> DropsRole(left.offices), leave |-> ~HasPlace(left, o)])
     /\ Kept

UnassignOffice(h) ==
  LET r == request[h]
  IN /\ r.op = "unassignOffice"
     /\ IF r.office \in account[r.user].offices
        THEN /\ account' = [account EXCEPT ![r.user] =
                             Left(WithoutOffice(@, r.office), r, "OFFICE_ADMIN")]
             /\ token' = SignedOut(r.user)
        ELSE UNCHANGED <<account, token>>
     /\ Answer(h)
     /\ UNCHANGED <<organization, invite>>

CheckUpdateOffices(h, u, o, offices) ==
  LET left == WithOffices(account[u], o, offices)
  IN /\ IsOfficeAdmin(account[u], o)
     /\ \A f \in offices : OfficeOrg[f] = o
     /\ Hold(h, [op |-> "updateOffices", user |-> u, org |-> o, offices |-> offices,
                 drop |-> DropsRole(left.offices), leave |-> ~HasPlace(left, o)])
     /\ Kept

UpdateOffices(h) ==
  LET r == request[h]
  IN /\ r.op = "updateOffices"
     /\ account' = [account EXCEPT ![r.user] =
                     Left(WithOffices(@, r.org, r.offices), r, "OFFICE_ADMIN")]
     /\ token' = SignedOut(r.user)
     /\ Answer(h)
     /\ UNCHANGED <<organization, invite>>

-----------------------------------------------------------------------------
\* Whether the account exists is looked at before a password is prepared.
CheckEmployee(h, u, o, given) ==
  /\ organization[o] # "NONE"
  /\ Hold(h, [op |-> "employ", user |-> u, org |-> o, i |-> NoOne,
              password |-> given \/ ~account[u].exists])
  /\ Kept

MayBeEmployed(a) == ~IsPlatform(a) /\ a.employee = Nowhere

\* employeeService.create: the account is attached or made, and takes the
\* password that was prepared, while its sessions go on.  One chosen with an
\* invite need not be changed.
Employed(a, r) ==
  [Granted(a, "EMPLOYEE", r.org) EXCEPT
     !.employee = r.org,
     !.password = IF r.password /\ a.exists THEN @ + 1 ELSE @,
     !.temporary = @ /\ ~(r.password /\ r.i # NoOne)]

\* The request of an invite goes on to accept it; one that is refused ends.
Employ(h) ==
  LET r == request[h]
  IN /\ r.op = "employ"
     /\ IF MayBeEmployed(account[r.user])
        THEN /\ r.password => account[r.user].password < LastPassword
             /\ account' = [account EXCEPT ![r.user] = Employed(@, r)]
             /\ IF r.i = NoOne THEN Answer(h) ELSE Continue(h, [op |-> "accept", i |-> r.i])
        ELSE Answer(h) /\ UNCHANGED account
     /\ UNCHANGED <<organization, invite, token>>

\* An account is switched on or off; off ends its sessions.
SwitchStatus(u) ==
  /\ account' = [account EXCEPT ![u].active = ~@]
  /\ token' = IF account[u].active THEN SignedOut(u) ELSE token
  /\ AtOnce
  /\ UNCHANGED <<organization, invite>>

ChangeEmployeeStatus(u) == account[u].employee # Nowhere /\ SwitchStatus(u)

ChangeOrgAdminStatus(u) == account[u].admin # {} /\ SwitchStatus(u)

ChangeOfficeAdminStatus(u) ==
  (\E o \in Organizations : IsOfficeAdmin(account[u], o)) /\ SwitchStatus(u)

\* Fault: the sessions go on.
GivePasswordOnly(u) ==
  /\ account[u].password < LastPassword
  /\ account' = [account EXCEPT ![u].password = @ + 1]
  /\ AtOnce
  /\ UNCHANGED <<organization, invite, token>>

\* A temporary password, also for an account that was off, which is then on.
GiveTemporaryPassword(u) ==
  /\ account[u].password < LastPassword
  /\ account' = [account EXCEPT ![u] = WithPassword(@, TRUE, TRUE)]
  /\ token' = SignedOut(u)
  /\ AtOnce
  /\ UNCHANGED <<organization, invite>>

ResetEmployeePassword(u) == account[u].employee # Nowhere /\ GiveTemporaryPassword(u)

ResetOrgAdminPassword(u) == account[u].admin # {} /\ GiveTemporaryPassword(u)

ResetOfficeAdminPassword(u) ==
  (\E o \in Organizations : IsOfficeAdmin(account[u], o)) /\ GiveTemporaryPassword(u)

-----------------------------------------------------------------------------
OrganizationsNext ==
  \E o \in Organizations : CreateOrganization(o) \/ ChangeOrganizationStatus(o)

StatusNext ==
  \E u \in Users :
    \/ ChangeEmployeeStatus(u) \/ ChangeOrgAdminStatus(u) \/ ChangeOfficeAdminStatus(u)
    \/ ResetEmployeePassword(u) \/ ResetOrgAdminPassword(u) \/ ResetOfficeAdminPassword(u)

AppointmentNext ==
  \E h \in Handlers :
    \/ AssignOrgAdmin(h) \/ RejectionEndsProcess(h) \/ AssignOfficeAdmin(h)
    \/ \E u \in Users, o \in Organizations, send \in BOOLEAN :
         \/ CheckOrgAdmin(h, u, o, send)
         \/ \E offices \in SUBSET Offices : CheckOfficeAdmin(h, u, o, offices, send)

WithdrawalNext ==
  \E h \in Handlers :
    \/ UnassignOrgAdmin(h) \/ UpdateOffices(h) \/ UnassignOffice(h)
    \/ \E u \in Users, f \in Offices : CheckUnassignOffice(h, u, f)
    \/ \E u \in Users, o \in Organizations :
         \/ CheckUnassignOrgAdmin(h, u, o)
         \/ \E offices \in SUBSET Offices : CheckUpdateOffices(h, u, o, offices)

EmploymentNext ==
  \E h \in Handlers :
    \/ Employ(h)
    \/ \E u \in Users, o \in Organizations, given \in BOOLEAN : CheckEmployee(h, u, o, given)

AccountsNext ==
  OrganizationsNext \/ StatusNext \/ AppointmentNext \/ WithdrawalNext \/ EmploymentNext

IdentityFailure ==
  \E h \in Handlers : BreakOff(h) /\ UNCHANGED <<organization, account, invite, token>>
=============================================================================
