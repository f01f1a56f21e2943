------------------------------ MODULE Sessions ------------------------------
(***************************************************************************)
(* Sessions: signing in, choosing and switching contexts, refreshing,      *)
(* changing the password and signing out.  Each ends by reading the        *)
(* account again (resolveScopedIdentity) and then storing a refresh token. *)
(* Access tokens are not state: they are believed until they expire.       *)
(***************************************************************************)
EXTENDS Identity

CONSTANT ContextTypes  \* the types of context asked for

AllContexts ==
  (ContextTypes \ {"platform"}) \X Organizations \cup (ContextTypes \cap {"platform"}) \X {Nowhere}

\* A request on its way to a session, with the token it gives up, if any.
ToSession(op, u, context, password, parent) ==
  [op |-> op, user |-> u, context |-> context, password |-> password, parent |-> parent]

\* login; with several contexts and none named, the answer is a pre-auth token
\* good for selectContext, as often as it is used.
CheckLogin(h, u, context) ==
  /\ account[u].exists /\ account[u].active
  /\ Hold(h, ToSession("identify", u, context, account[u].password, NoOne))
  /\ UNCHANGED <<organization, account, invite, token>>

\* Fault: a revoked token is not recognised.
WasIssued(t) == token[t].state \in {"LIVE", "REVOKED"}

IsGood(t) == token[t].state = "LIVE"

\* refresh keeps the context of the token; switchContext takes another.
CheckRefresh(h, t, context) ==
  /\ IsGood(t)
  /\ Hold(h, ToSession("identify", token[t].user, context, token[t].password, t))
  /\ UNCHANGED <<organization, account, invite, token>>

\* resolveScopedIdentity; a refusal rolls the transaction back and leaves the
\* token that was to be given up.
Identify(h) ==
  LET r == request[h]
  IN /\ r.op = "identify"
     /\ IF MaySignIn(account[r.user], r.context)
        THEN Continue(h, [r EXCEPT !.op = "issue"]) ELSE Answer(h)
     /\ UNCHANGED <<organization, account, invite, token>>

\* The row of the token given up is written whatever has become of it.
GivenUp(t) == IF t = NoOne THEN token ELSE [token EXCEPT ![t].state = "REVOKED"]

Issue(h, t) ==
  LET r == request[h]
  IN /\ r.op = "issue"
     /\ token[t].state = "NONE"
     /\ token' = [GivenUp(r.parent) EXCEPT ![t] =
          [state |-> "LIVE", user |-> r.user, context |-> r.context,
           password |-> r.password, parent |-> r.parent]]
     /\ Answer(h)
     /\ UNCHANGED <<organization, account, invite>>

\* changePassword: the current password is verified before the transaction
\* that replaces it and ends the sessions; then a session is opened.
CheckChangePassword(h, u, context) ==
  /\ account[u].exists
  /\ Hold(h, ToSession("changePassword", u, context, account[u].password, NoOne))
  /\ UNCHANGED <<organization, account, invite, token>>

ChangePassword(h) ==
  LET r == request[h]
  IN /\ r.op = "changePassword"
     /\ account[r.user].password < LastPassword
     /\ account' = [account EXCEPT ![r.user] = WithPassword(@, FALSE, @.active)]
     /\ token' = SignedOut(r.user)
     /\ Continue(h, [r EXCEPT !.op = "identify", !.password = account'[r.user].password])
     /\ UNCHANGED <<organization, invite>>

\* A token that expires is refused as one that is revoked.
Logout(t) ==
  /\ IsGood(t)
  /\ token' = [token EXCEPT ![t].state = "REVOKED"]
  /\ AtOnce
  /\ UNCHANGED <<organization, account, invite>>

-----------------------------------------------------------------------------
SessionsNext ==
  \/ \E t \in TokenIds : Logout(t)
  \/ \E h \in Handlers :
       \/ \E u \in Users, context \in AllContexts :
            CheckLogin(h, u, context) \/ CheckChangePassword(h, u, context)
       \/ \E t \in TokenIds, context \in AllContexts : CheckRefresh(h, t, context)
       \/ \E t \in TokenIds : Issue(h, t)
       \/ Identify(h) \/ ChangePassword(h)
=============================================================================
