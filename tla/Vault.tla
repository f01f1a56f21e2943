------------------------------- MODULE Vault -------------------------------
(****************************************************************************)
(* The vault of an organization: a PIN opens one section of it for a while, *)
(* wrong PINs are counted in the memory of the process, and the credentials *)
(* it keeps are written by who opened their section and revealed, under an  *)
(* audit trail, to who opened that of the secrets (vault.service.ts,        *)
(* vault.routes.ts).                                                        *)
(****************************************************************************)
EXTENDS ApiProcess

CONSTANTS
  Admins,        \* administrators who use the vault
  Credentials,   \* rows of credentials
  Secrets,       \* secrets they may hold
  Sections,      \* sections of the vault (VAULT_SCOPES)
  Lifetime,      \* how many windows a vault token lives on (VAULT_TOKEN_TTL_MINUTES)
  MaxAttempts,   \* UNLOCK_MAX_ATTEMPTS (5)
  LastWindow     \* bound: windows of fifteen minutes

ASSUME VaultAssumption ==
  MaxAttempts \in Nat \ {0} /\ Lifetime \in Nat /\ {"credentials", "reveal"} \subseteq Sections

VARIABLES
  attempts,    \* unlockAttempts: wrong PINs and the window they count in
  window,      \* the window of fifteen minutes it is
  vaultTokens, \* vault tokens that are still good: whose, of which section, signed
               \*   when (observation: after how many wrong PINs)
  credential,  \* the row, or NoCredential
  audit,       \* which secrets the audit trail says were shown, and to whom
  shown,       \* observation: which secrets were shown, for which vault token
  verified     \* observation: wrong PINs answered in this window since the
               \*   last right one or the last restart

vaultVars == <<apiVars, attempts, window, vaultTokens, credential, audit, shown, verified>>

NoAttempts == [count |-> 0, until |-> -1]
NoCredential == [secret |-> "none"]
HasSecret(c) == credential[c] # NoCredential

(* Opening a section *)

\* An entry counts until its window ends.
Counts(a) == attempts[a].until >= window

IsLockedOut(a) == Counts(a) /\ attempts[a].count >= MaxAttempts

\* checkUnlockRate, then the PIN is verified while other requests go on.
CheckUnlock(h, a, section, right) ==
  /\ ~IsLockedOut(a)
  /\ attempts' = [attempts EXCEPT ![a] =
       IF Counts(a) THEN @ ELSE [count |-> 0, until |-> window]]
  /\ Hold(h, [op |-> "unlock", admin |-> a, section |-> section, right |-> right])
  /\ UNCHANGED <<window, vaultTokens, credential, audit, shown, verified>>

\* recordUnlockFailure.
AfterFailure(a) ==
  IF Counts(a) THEN [attempts[a] EXCEPT !.count = @ + 1]
  ELSE [count |-> 1, until |-> window]

\* signVaultToken.
NewToken(a, section) ==
  [admin |-> a, section |-> section, at |-> window, after |-> verified[a]]

\* The right PIN, of whichever section, forgets the wrong ones.
Unlock(h) ==
  LET r == request[h]
  IN /\ r.op = "unlock"
     /\ IF r.right
        THEN /\ attempts' = [attempts EXCEPT ![r.admin] = NoAttempts]
             /\ vaultTokens' = vaultTokens \cup {NewToken(r.admin, r.section)}
             /\ verified' = [verified EXCEPT ![r.admin] = 0]
        ELSE /\ attempts' = [attempts EXCEPT ![r.admin] = AfterFailure(r.admin)]
             /\ verified' = [verified EXCEPT ![r.admin] = @ + 1]
             /\ UNCHANGED vaultTokens
     /\ Answer(h)
     /\ UNCHANGED <<window, credential, audit, shown>>

\* A window ends, its entries with it, and the tokens that are old by then.
NextWindow ==
  /\ window < LastWindow
  /\ window' = window + 1
  /\ vaultTokens' = {v \in vaultTokens : window + 1 <= v.at + Lifetime}
  /\ verified' = [a \in Admins |-> 0]
  /\ UNCHANGED <<apiVars, attempts, credential, audit, shown>>

(* Credentials *)

\* Fault: the token of any section opens every other.
TokensOfAny(section) == vaultTokens

\* requireVaultScope: the tokens that open a section.
TokensOf(section) == {v \in vaultTokens : v.section = section}

CreateCredential(c, secret) ==
  /\ TokensOf("credentials") # {}
  /\ ~HasSecret(c)
  /\ credential' = [credential EXCEPT ![c] = [secret |-> secret]]
  /\ AtOnce
  /\ UNCHANGED <<attempts, window, vaultTokens, audit, shown, verified>>

CheckCredential(h, c, r) ==
  /\ HasSecret(c)
  /\ Hold(h, r)
  /\ UNCHANGED <<attempts, window, vaultTokens, credential, audit, shown, verified>>

CheckUpdateCredential(h, c, secret) ==
  /\ TokensOf("credentials") # {}
  /\ CheckCredential(h, c, [op |-> "rotate", credential |-> c, secret |-> secret])

UpdateCredential(h) ==
  LET r == request[h]
  IN /\ r.op = "rotate"
     /\ HasSecret(r.credential)
     /\ credential' = [credential EXCEPT ![r.credential].secret = r.secret]
     /\ Answer(h)
     /\ UNCHANGED <<attempts, window, vaultTokens, audit, shown, verified>>

CheckDeleteCredential(h, c) ==
  /\ TokensOf("credentials") # {}
  /\ CheckCredential(h, c, [op |-> "delete", credential |-> c])

DeleteCredential(h) ==
  LET r == request[h]
  IN /\ r.op = "delete"
     /\ HasSecret(r.credential)
     /\ credential' = [credential EXCEPT ![r.credential] = NoCredential]
     /\ Answer(h)
     /\ UNCHANGED <<attempts, window, vaultTokens, audit, shown, verified>>

\* A secret that is about to be shown for a token, asked for now.
ToShow(c, v) ==
  [credential |-> c, secret |-> credential[c].secret, token |-> v, at |-> window]

\* The secret that will be answered is the one read now.
CheckReveal(h, c) ==
  \E v \in TokensOf("reveal") :
    CheckCredential(h, c, [op |-> "reveal", what |-> ToShow(c, v)])

\* The audit entry and the mark on the row are one transaction; a row that
\* was deleted meanwhile refuses it and nothing is answered.
RevealCredential(h) ==
  LET r == request[h]
  IN /\ r.op = "reveal"
     /\ HasSecret(r.what.credential)
     /\ audit' = audit \cup {<<r.what.token.admin, r.what.credential>>}
     /\ Continue(h, [r EXCEPT !.op = "show"])
     /\ UNCHANGED <<attempts, window, vaultTokens, credential, shown, verified>>

ShowSecret(h) ==
  LET r == request[h]
  IN /\ r.op = "show"
     /\ shown' = shown \cup {r.what}
     /\ Answer(h)
     /\ UNCHANGED <<attempts, window, vaultTokens, credential, audit, verified>>

(* The process *)

\* A request fails; or the process restarts, which forgets every count.
VaultFailure ==
  /\ \/ \E h \in Handlers : BreakOff(h) /\ UNCHANGED <<attempts, verified>>
     \/ /\ request' = [h \in Handlers |-> NoRequest]
        /\ attempts' = [a \in Admins |-> NoAttempts]
        /\ verified' = [a \in Admins |-> 0]
        /\ UNCHANGED overlapped
  /\ UNCHANGED <<window, vaultTokens, credential, audit, shown>>

VaultRowsInit ==
  /\ attempts = [a \in Admins |-> NoAttempts]
  /\ window = 0
  /\ credential = [c \in Credentials |-> NoCredential]
  /\ audit = {}
  /\ shown = {}
  /\ verified = [a \in Admins |-> 0]
  /\ ApiInit

VaultInit == VaultRowsInit /\ vaultTokens = {}

UnlockNext ==
  \/ \E h \in Handlers, a \in Admins, s \in Sections, right \in BOOLEAN : CheckUnlock(h, a, s, right)
  \/ \E h \in Handlers : Unlock(h)
  \/ NextWindow

CredentialNext ==
  \/ \E c \in Credentials, s \in Secrets : CreateCredential(c, s)
  \/ \E h \in Handlers, c \in Credentials :
       \/ \E s \in Secrets : CheckUpdateCredential(h, c, s)
       \/ CheckDeleteCredential(h, c)
       \/ CheckReveal(h, c)
  \/ \E h \in Handlers :
       \/ UpdateCredential(h) \/ DeleteCredential(h)
       \/ RevealCredential(h) \/ ShowSecret(h)

VaultSpec == VaultInit /\ [][UnlockNext \/ CredentialNext \/ VaultFailure]_vaultVars

-----------------------------------------------------------------------------
(* What the vault promises.                                                *)

\* A secret is shown only for a token that its owner got by opening the
\* section of the secrets and that was still good when the secret was asked
\* for, also when the owner was locked out after it (requireVaultScope).
ShownToWhoOpened ==
  \A s \in shown : s.token.section = "reveal" /\ s.at \in s.token.at .. s.token.at + Lifetime

\* Every secret that was shown is in the audit trail with whom it was shown
\* to, whatever failed (revealCredential).
ShownIsLogged == \A s \in shown : <<s.token.admin, s.credential>> \in audit

\* While attempts follow one another, no more wrong PINs are answered than the
\* limit, and none of the tokens was got after that many of them, counted in a
\* window from the last right PIN, of whichever section, or the last restart
\* (checkUnlockRate, recordUnlockFailure, unlock).
WrongPinsAreLimited ==
  ~overlapped =>
    /\ \A a \in Admins : verified[a] <= MaxAttempts
    /\ \A v \in vaultTokens \cup {s.token : s \in shown} : v.after < MaxAttempts

\* A secret leaves a trace and is shown to nobody but who opened its section,
\* which nobody does who just gave too many wrong PINs.
VaultIsGuarded == ShownToWhoOpened /\ ShownIsLogged /\ WrongPinsAreLimited
=============================================================================
