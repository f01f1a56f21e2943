------------------------------- MODULE Invites -------------------------------
(***************************************************************************)
(* Invites: created by administrators, opened by whoever holds the link,   *)
(* accepted once.  A change of address or a new sending makes a new link;  *)
(* the older one finds nothing.  Mail is sent after the row is stored and  *)
(* may fail, which the answer says.                                        *)
(***************************************************************************)
EXTENDS Accounts

InviteStatuses == {"NONE", "PENDING", "ACCEPTED", "CANCELLED", "EXPIRED"}

SetInvite(i, row) == invite' = [invite EXCEPT ![i] = row]

HoldInvite(h, r) == Hold(h, r) /\ Kept

MayBeInvited(u) ==
  account[u].exists => MayBeEmployed(account[u])

CheckInvite(h, u, o) ==
  /\ organization[o] # "NONE"
  /\ ~HasPending(u, o, "EMPLOYEE")
  /\ MayBeInvited(u)
  /\ HoldInvite(h, [op |-> "invite", user |-> u, org |-> o])

CreateInvite(h, i) ==
  /\ request[h].op = "invite"
  /\ FreeInvite(i)
  /\ SetInvite(i, NewInvite("EMPLOYEE", request[h].user, request[h].org))
  /\ Answer(h)
  /\ UNCHANGED <<organization, account, token>>

\* expiresAt passes.
LinkExpires(i) ==
  /\ invite[i].status = "PENDING" /\ ~invite[i].due
  /\ invite' = [invite EXCEPT ![i].due = TRUE]
  /\ UNCHANGED <<organization, account, token, apiVars>>

\* loadUsableInvite
IsUsable(i) == invite[i].status = "PENDING" /\ ~invite[i].due /\ IsOpen(invite[i].org)

\* A link that is opened too late is marked in a statement of its own.
OpenLateLink(h, i) ==
  /\ invite[i].status = "PENDING" /\ invite[i].due
  /\ HoldInvite(h, [op |-> "late", i |-> i])

MarkExpired(h) ==
  /\ request[h].op = "late"
  /\ invite' = [invite EXCEPT ![request[h].i].status = "EXPIRED"]
  /\ Answer(h)
  /\ UNCHANGED <<organization, account, token>>

\* acceptAdmin: the account waits for a password, or has one already.
CheckAcceptAdmin(h, i) ==
  /\ IsUsable(i)
  /\ invite[i].type # "EMPLOYEE"
  /\ HoldInvite(h, [op |-> "acceptAdmin", i |-> i, user |-> invite[i].user,
                    password |-> account[invite[i].user].temporary])

AcceptAdmin(h) ==
  LET r == request[h]
  IN /\ r.op = "acceptAdmin"
     /\ IF r.password
        THEN /\ account[r.user].password < LastPassword
             /\ account' = [account EXCEPT ![r.user] = WithPassword(@, FALSE, TRUE)]
             /\ token' = SignedOut(r.user)
        ELSE UNCHANGED <<account, token>>
     /\ invite' = [invite EXCEPT ![r.i].status = "ACCEPTED"]
     /\ Answer(h)
     /\ UNCHANGED organization

\* acceptEmployee: the employee is created as an administrator would (Employ).
CheckAcceptEmployee(h, i) ==
  /\ IsUsable(i)
  /\ invite[i].type = "EMPLOYEE"
  /\ HoldInvite(h, [op |-> "employ", user |-> invite[i].user, org |-> invite[i].org, i |-> i,
                    password |-> LET a == account[invite[i].user]
                                 IN ~a.exists \/ a.temporary])

\* ... and the invite is accepted last, after the emergency contacts: what
\* fails before leaves a pending invite of somebody employed.
AcceptEmployee(h) ==
  /\ request[h].op = "accept"
  /\ invite' = [invite EXCEPT ![request[h].i].status = "ACCEPTED"]
  /\ Answer(h)
  /\ UNCHANGED <<organization, account, token>>

\* Fault: only a cancelled invite is beyond recall.
IsNotClosed(i) == invite[i].status \in {"PENDING", "EXPIRED", "ACCEPTED"}

-----------------------------------------------------------------------------
IsUnanswered(i) == invite[i].status \in {"PENDING", "EXPIRED"}

CheckResend(h, i) ==
  /\ IsUnanswered(i)
  /\ invite[i].type = "EMPLOYEE" => MayBeInvited(invite[i].user)
  /\ HoldInvite(h, [op |-> "resend", i |-> i])

Resend(h) ==
  LET i == request[h].i
  IN /\ request[h].op = "resend"
     /\ SetInvite(i, [invite[i] EXCEPT !.status = "PENDING", !.due = FALSE])
     /\ Answer(h)
     /\ UNCHANGED <<organization, account, token>>

HasOtherPending(i, u) ==
  \E j \in InviteIds \ {i} :
    /\ invite[j].status = "PENDING" /\ invite[j].type = "EMPLOYEE"
    /\ invite[j].user = u /\ invite[j].org = invite[i].org

\* updateEmployeeInvite with another address, which gets a link of its own;
\* other fields of the row are data.
CheckUpdateInvite(h, i, u) ==
  /\ invite[i].status = "PENDING"
  /\ invite[i].type = "EMPLOYEE"
  /\ u # invite[i].user
  /\ ~HasOtherPending(i, u)
  /\ MayBeInvited(u)
  /\ HoldInvite(h, [op |-> "updateInvite", i |-> i, user |-> u])

UpdateInvite(h) ==
  LET i == request[h].i
  IN /\ request[h].op = "updateInvite"
     /\ SetInvite(i, [invite[i] EXCEPT !.user = request[h].user, !.due = FALSE])
     /\ Answer(h)
     /\ UNCHANGED <<organization, account, token>>

CheckCancelInvite(h, i) ==
  /\ IsUnanswered(i)
  /\ HoldInvite(h, [op |-> "cancelInvite", i |-> i])

CancelInvite(h) ==
  /\ request[h].op = "cancelInvite"
  /\ invite' = [invite EXCEPT ![request[h].i].status = "CANCELLED"]
  /\ Answer(h)
  /\ UNCHANGED <<organization, account, token>>

-----------------------------------------------------------------------------
InvitesNext ==
  \/ \E i \in InviteIds : LinkExpires(i)
  \/ \E h \in Handlers :
       \/ \E u \in Users, o \in Organizations : CheckInvite(h, u, o)
       \/ \E i \in InviteIds :
            \/ CreateInvite(h, i) \/ OpenLateLink(h, i)
            \/ CheckAcceptAdmin(h, i) \/ CheckAcceptEmployee(h, i)
            \/ CheckResend(h, i) \/ CheckCancelInvite(h, i)
            \/ \E u \in Users : CheckUpdateInvite(h, i, u)
       \/ MarkExpired(h) \/ AcceptAdmin(h) \/ Employ(h) \/ AcceptEmployee(h)
       \/ Resend(h) \/ UpdateInvite(h) \/ CancelInvite(h)
=============================================================================
