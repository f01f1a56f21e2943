---------------------------- MODULE MCAttendance ----------------------------
EXTENDS AttendanceProperties, TLC

CONSTANTS e1, k1, k2, k3

\* A first check-in, a check-out and a second check-in of one employee, each of
\* which may be delivered again.
MCMessages ==
  {[op |-> "checkIn", emp |-> e1, key |-> k1],
   [op |-> "checkOut", emp |-> e1, key |-> k2],
   [op |-> "checkIn", emp |-> e1, key |-> k3]}

\* One shift without a return, for the liveness run.
MCOneShift == {m \in MCMessages : m.key # k3}

Symmetry == Permutations(Requests) \cup Permutations(Jobs)

MCAdminTimes == {[day |-> 0, tick |-> LastTick]}
=============================================================================
