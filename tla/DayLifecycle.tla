---------------------------- MODULE DayLifecycle ----------------------------
(***************************************************************************)
(* What the attendance code promises of one employee's day, abstractly:    *)
(* the day is absent, open, left (closed by the employee, who may come     *)
(* back) or sealed (closed by the system or an administrator), and it may  *)
(* be flagged as missing its check-out.  No handler, no clock and no key   *)
(* appears here; module Attendance implements this one.                    *)
(***************************************************************************)
CONSTANT Ids   \* an employee and a work date

VARIABLES phase, flagged

dayVars == <<phase, flagged>>

DayInit ==
  /\ phase = [id \in Ids |-> "absent"]
  /\ flagged = [id \in Ids |-> FALSE]

Arrive(id) ==
  /\ phase[id] = "absent"
  /\ phase' = [phase EXCEPT ![id] = "open"]
  /\ UNCHANGED flagged

\* Coming back starts with a clean record.
ComeBack(id) ==
  /\ phase[id] = "left"
  /\ phase' = [phase EXCEPT ![id] = "open"]
  /\ flagged' = [flagged EXCEPT ![id] = FALSE]

\* The flag of the closed day is computed from an earlier reading of the row,
\* so a mark made in between may be lost.
Leave(id) ==
  /\ phase[id] = "open"
  /\ phase' = [phase EXCEPT ![id] = "left"]
  /\ \E f \in BOOLEAN : flagged' = [flagged EXCEPT ![id] = f]

Flag(id) ==
  /\ phase[id] = "open"
  /\ ~flagged[id]
  /\ flagged' = [flagged EXCEPT ![id] = TRUE]
  /\ UNCHANGED phase

\* The system closes open days only.
SealBySystem(id) ==
  /\ phase[id] = "open"
  /\ phase' = [phase EXCEPT ![id] = "sealed"]
  /\ flagged' = [flagged EXCEPT ![id] = TRUE]

\* An administrator settles any day that exists, sealed ones included.
SealByAdmin(id) ==
  /\ phase[id] # "absent"
  /\ phase' = [phase EXCEPT ![id] = "sealed"]
  /\ flagged' = [flagged EXCEPT ![id] = FALSE]

\* An approved correctness request settles a day, or makes one up.  It does not
\* record who closed the day: one its employee left stays one to come back to.
SettleByRequest(id) ==
  /\ phase' = [phase EXCEPT ![id] = IF @ = "left" THEN "left" ELSE "sealed"]
  /\ flagged' = [flagged EXCEPT ![id] = FALSE]

DayNext ==
  \E id \in Ids :
    \/ Arrive(id) \/ ComeBack(id) \/ Leave(id) \/ Flag(id)
    \/ SealBySystem(id) \/ SealByAdmin(id) \/ SettleByRequest(id)

DaySpec == DayInit /\ [][DayNext]_dayVars
=============================================================================
