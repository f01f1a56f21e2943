------------------------ MODULE IdentityProperties ------------------------
(***************************************************************************)
(* What accounts, invites and sessions promise.  The services read, check  *)
(* and then write what they decided: most promises hold while requests     *)
(* come one after the other, with failures anywhere in them.               *)
(***************************************************************************)
EXTENDS Invites, Sessions

IdentityNext == AccountsNext \/ InvitesNext \/ SessionsNext \/ IdentityFailure

IdentitySpec == IdentityInit /\ [][IdentityNext]_identityVars

InTurn == ~overlapped

\* Every row of the four tables is one the schema allows.
IdentityTypeOK ==
  /\ organization \in [Organizations -> {"NONE", "ACTIVE", "INACTIVE"}]
  /\ \A u \in Users :
       LET a == account[u]
       IN /\ {a.exists, a.active, a.temporary} \subseteq BOOLEAN
          /\ a.password \in 0..LastPassword
          /\ a.roles \subseteq Roles /\ a.member \subseteq Organizations
          /\ a.admin \subseteq Organizations /\ a.offices \subseteq Offices
          /\ a.employee \in Organizations \cup {Nowhere}
          /\ ~a.exists => a = NoAccount
  /\ \A i \in InviteIds : /\ invite[i].status \in InviteStatuses
                          /\ invite[i].due \in BOOLEAN
                          /\ FreeInvite(i) => invite[i] = NoInvite
  /\ \A t \in TokenIds : /\ token[t].state \in {"NONE", "LIVE", "REVOKED"}
                         /\ token[t].parent \in TokenIds \cup {NoOne}

\* Company administrators and employees can sign in as such, however the
\* withdrawal of other places of theirs interleaves: buildContextsForUser
\* looks at the assignments, not at memberships only.
WhoBelongsCanEnter ==
  \A u \in Users, o \in Organizations :
    IsOpen(o) =>
      /\ o \in account[u].admin => <<"org_admin", o>> \in Contexts(account[u])
      /\ o = account[u].employee => <<"employee", o>> \in Contexts(account[u])

\* The role of an administrator is there exactly with an assignment that needs
\* it, and a membership exactly with a place in the organization: what
\* syncOrgAdminTenantState and syncOfficeAdminTenantState keep in step.
RolesMatchPlaces ==
  InTurn => \A u \in Users :
    LET a == account[u]
    IN /\ "ORG_ADMIN" \in a.roles <=> a.admin # {}
       /\ "OFFICE_ADMIN" \in a.roles <=> a.offices # {}
       /\ a.member = {o \in Organizations : HasPlace(a, o)}

\* The five tables that say who somebody is agree: what an account is assigned
\* to decides its roles, its memberships and the contexts it may sign in to.
AccountsAgree == IdentityTypeOK /\ WhoBelongsCanEnter /\ RolesMatchPlaces

\* An invite that was accepted or cancelled stays what it is, and one that is
\* accepted names somebody who has the place it is for.
AnswersOnce(i) ==
  LET old == invite[i]
      new == invite'[i]
  IN /\ old.status \in {"ACCEPTED", "CANCELLED"} => new = old
     /\ (old.status # "ACCEPTED" /\ new.status = "ACCEPTED") =>
          IF old.type = "EMPLOYEE" THEN account[old.user].employee = old.org
          ELSE account[old.user].exists /\ ~account'[old.user].temporary

\* One request after the other, an invite that was accepted or cancelled stays
\* what it is, late links and resends included; and it is accepted by somebody
\* who has the place it is for: as an employee of its organization, or as an
\* administrator who chose a password (acceptEmployee, acceptAdmin, resend,
\* cancel, loadUsableInvite).
InvitesAreAnsweredOnce == [][InTurn' => \A i \in InviteIds : AnswersOnce(i)]_identityVars

\* "Platform administrator accounts cannot be assigned tenant roles".
PlatformStaysPlatform ==
  \A u \in Users : IsPlatform(account[u]) => account[u].roles = {"SUPER_ADMIN"}

\* A refresh token that was used or revoked yields no further session: the
\* sessions of a device form a chain.
OneSuccessor ==
  InTurn => \A t, s \in TokenIds :
    (token[t].parent = token[s].parent /\ token[t].parent # NoOne) => t = s

\* A token that was given up is not live again or beside its successor.
SuccessorReplaces ==
  \A t \in TokenIds : token[t].parent # NoOne => token[token[t].parent].state # "LIVE"

\* Switching an account off ends its sessions, and none is opened while it
\* stays off.
InactiveIsSignedOut ==
  InTurn => \A t \in TokenIds : token[t].state = "LIVE" => account[token[t].user].active

\* The sessions of a device form a chain whose last link alone is live, and only
\* while its account is (refresh, switchContext, changeStatus).
SessionsInOrder == OneSuccessor /\ SuccessorReplaces /\ InactiveIsSignedOut

\* A session whose account gets another password ends, unless the account is
\* attached as an employee with it.
EndsWithPassword(t) ==
  LET u == token[t].user
  IN (/\ token[t].state = "LIVE"
      /\ account'[u].password # account[u].password
      /\ account'[u].employee = account[u].employee) => token'[t].state # "LIVE"

\* A session ends with the password it was opened with, whatever interleaves,
\* except that an account attached as an employee may get a password while its
\* sessions go on.
NewPasswordSignsOut == [][\A t \in TokenIds : EndsWithPassword(t)]_identityVars
=============================================================================
