------------------------------ MODULE Displays ------------------------------
(***************************************************************************)
(* The screens on the walls of an office (display.service.ts).  An admin-  *)
(* istrator creates a display and reads its pairing code off the panel;    *)
(* whoever types the code gets the session of the display, and refreshes   *)
(* it with a token that every refresh replaces.                            *)
(***************************************************************************)
EXTENDS ApiProcess

CONSTANTS
  Displays,   \* rows of displays
  Codes,      \* six-digit codes
  Screens,    \* browsers that show a board
  LastToken,  \* bound: refresh tokens signed
  LastPeriod  \* bound: lifetimes of a code that pass

VARIABLES
  device,     \* the row of each display
  screen,     \* the refresh token each screen keeps, 0 none
  tokens,     \* refresh tokens signed so far
  lifetime,   \* the time in lifetimes of a code, which are ten minutes
  panel       \* observation: the code the panel showed last for a display

displayVars == <<apiVars, device, screen, tokens, lifetime, panel>>

NoDevice == [there |-> FALSE]
NoCode == 0
NoToken == 0

ASSUME DisplayAssumption ==
  NoCode \notin Codes /\ LastToken \in Nat /\ LastPeriod \in Nat

NewDevice ==
  [there |-> TRUE, active |-> TRUE, code |-> NoCode, until |-> -1, token |-> NoToken]

\* A code that has not run out.
Holds(d, code) ==
  device[d].there /\ device[d].code = code /\ device[d].until >= lifetime

\* Fault: codes are not looked up.
AnyCode == Codes

\* uniquePairingCode: a code no display holds now, looked up before it is
\* written.
FreeCodes == {code \in Codes : \A d \in Displays : ~Holds(d, code)}

(* The panel *)

\* The row is written first and gets its code in a later statement.
CreateDisplay(h, d) ==
  /\ device[d] = NoDevice
  /\ device' = [device EXCEPT ![d] = NewDevice]
  /\ Hold(h, [op |-> "choose", display |-> d])
  /\ UNCHANGED <<screen, tokens, lifetime, panel>>

CheckRePair(h, d) ==
  /\ device[d].there
  /\ device[d].active
  /\ Hold(h, [op |-> "choose", display |-> d])
  /\ UNCHANGED <<device, screen, tokens, lifetime, panel>>

ChooseCode(h) ==
  LET r == request[h]
  IN /\ r.op = "choose"
     /\ \E code \in FreeCodes : Continue(h, [op |-> "code", display |-> r.display, code |-> code])
     /\ UNCHANGED <<device, screen, tokens, lifetime, panel>>

\* A new code also ends the session of the display.
SetPairingCode(h) ==
  LET r == request[h]
  IN /\ r.op = "code"
     /\ device' = [device EXCEPT ![r.display] =
          [@ EXCEPT !.code = r.code, !.until = lifetime, !.token = NoToken]]
     /\ panel' = [panel EXCEPT ![r.display] = r.code]
     /\ Answer(h)
     /\ UNCHANGED <<screen, tokens, lifetime>>

\* What is left of a display that is revoked.
Unpaired(row) == [row EXCEPT !.active = FALSE, !.token = NoToken, !.code = NoCode, !.until = -1]

Revoke(d) ==
  /\ device[d].there
  /\ device' = [device EXCEPT ![d] = Unpaired(@)]
  /\ AtOnce
  /\ UNCHANGED <<screen, tokens, lifetime, panel>>

(* The screens *)

\* The active displays with a code, those included whose code has run out.
WithCode(code) == {d \in Displays : device[d].there /\ device[d].active /\ device[d].code = code}

\* Any of them may be the one that is found; when its code has run out the
\* screen is refused, though another display may hold the same code.
CheckPair(h, s, code) ==
  \E d \in WithCode(code) :
    /\ Holds(d, code)
    /\ Hold(h, [op |-> "session", display |-> d, screen |-> s, by |-> "code"])
    /\ UNCHANGED <<device, screen, tokens, lifetime, panel>>

\* The token names the display and must be the one the row keeps.
IsCurrent(d, s) == device[d].active /\ device[d].token = screen[s]

CheckRefresh(h, s) ==
  \E d \in Displays :
    /\ screen[s] # NoToken
    /\ device[d].there
    /\ IsCurrent(d, s)
    /\ Hold(h, [op |-> "session", display |-> d, screen |-> s, by |-> "token"])
    /\ UNCHANGED <<device, screen, tokens, lifetime, panel>>

\* The row of a display with a session: the code is used up.
InSession(row, token) == [row EXCEPT !.token = token, !.code = NoCode, !.until = -1]

\* The row is updated whatever happened to it; the answer may be lost on its
\* way to the screen.
IssueSession(h, arrives) ==
  LET r == request[h]
  IN /\ r.op = "session"
     /\ tokens < LastToken
     /\ tokens' = tokens + 1
     /\ device' = [device EXCEPT ![r.display] = InSession(@, tokens + 1)]
     /\ screen' = [screen EXCEPT ![r.screen] = IF arrives THEN tokens + 1 ELSE @]
     /\ Answer(h)
     /\ UNCHANGED <<lifetime, panel>>

NextPeriod ==
  /\ lifetime < LastPeriod
  /\ lifetime' = lifetime + 1
  /\ UNCHANGED <<apiVars, device, screen, tokens, panel>>

DisplayFailure ==
  \E h \in Handlers : BreakOff(h) /\ UNCHANGED <<device, screen, tokens, lifetime, panel>>

DisplayInit ==
  /\ device = [d \in Displays |-> NoDevice]
  /\ screen = [s \in Screens |-> NoToken]
  /\ tokens = 0
  /\ lifetime = 0
  /\ panel = [d \in Displays |-> NoCode]
  /\ ApiInit

DisplayNext ==
  \/ \E h \in Handlers :
       \/ ChooseCode(h) \/ SetPairingCode(h) \/ IssueSession(h, TRUE) \/ IssueSession(h, FALSE)
       \/ \E d \in Displays : CreateDisplay(h, d) \/ CheckRePair(h, d)
       \/ \E s \in Screens : CheckRefresh(h, s) \/ \E code \in Codes : CheckPair(h, s, code)
  \/ \E d \in Displays : Revoke(d)
  \/ NextPeriod

DisplaySpec == DisplayInit /\ [][DisplayNext \/ DisplayFailure]_displayVars

-----------------------------------------------------------------------------
(* What the pairing of displays promises.                                 *)

\* Types of the rows, the screens and the panel.
DisplayTypeOK ==
  /\ \A d \in Displays : device[d].there =>
       /\ device[d].active \in BOOLEAN
       /\ device[d].code \in Codes \cup {NoCode}
       /\ device[d].until \in -1..LastPeriod
       /\ device[d].code = NoCode <=> device[d].until = -1
       /\ device[d].token \in 0..tokens
  /\ screen \in [Screens -> 0..tokens]
  /\ tokens \in 0..LastToken
  /\ panel \in [Displays -> Codes \cup {NoCode}]

\* One request after the other, a code that still holds leads to the display
\* whose panel showed it and to no other (uniquePairingCode, setPairingCode).
CodeLeadsToItsDisplay ==
  ~overlapped =>
    \A d, e \in Displays, code \in Codes :
      Holds(d, code) => panel[d] = code /\ (Holds(e, code) => e = d)

\* One request after the other, a revoked display keeps no session and no
\* code (revoke).
RevokedIsUnpaired ==
  ~overlapped =>
    \A d \in Displays : device[d].there /\ ~device[d].active =>
      device[d].token = NoToken /\ device[d].code = NoCode

\* A session uses up the code and a code ends the session, also when a display
\* is paired and paired again at once (setPairingCode, issueSession).
NeverBoth ==
  \A d \in Displays : device[d].there => device[d].token = NoToken \/ device[d].code = NoCode

\* Whatever screens pair with one code, refresh and lose answers at once, one
\* of them at most can go on showing a display (issueSession, refresh).
OneScreenGoesOn ==
  \A d \in Displays, s, t \in Screens :
    device[d].there /\ screen[s] # NoToken /\ IsCurrent(d, s) /\ IsCurrent(d, t) => s = t

\* However requests interleave, one screen at most goes on with a display and no
\* code waits beside its session; one request after the other, a code
\* leads to the one display whose panel shows it and a revoked display keeps
\* nothing (setPairingCode, pair, refresh, issueSession, revoke).
PairingsAreSound ==
  DisplayTypeOK /\ CodeLeadsToItsDisplay /\ RevokedIsUnpaired /\ NeverBoth /\ OneScreenGoesOn
=============================================================================
