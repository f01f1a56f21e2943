----------------------------- MODULE ApiProcess -----------------------------
(***************************************************************************)
(* The process that serves the API, as the services see it: handlers that  *)
(* run one request each and give way to each other at every await.  A      *)
(* service reads and checks in one step and writes in a later one, and     *)
(* keeps what it read in the locals of its handler meanwhile.              *)
(***************************************************************************)
EXTENDS Integers, FiniteSets

CONSTANT Handlers  \* handlers in flight at once

VARIABLES
  request,    \* what each handler has read and is about to write
  overlapped  \* observation: two requests have been in flight at once

apiVars == <<request, overlapped>>

NoRequest == [op |-> "none"]

AtRest(h) == request[h].op = "none"

\* Whether a request that arrives finds another in flight.
MeetsAnother ==
  overlapped' = (overlapped \/ \E g \in Handlers : ~AtRest(g))

\* A request that passed its checks, with what it keeps until it writes.
Hold(h, r) ==
  /\ AtRest(h)
  /\ request' = [request EXCEPT ![h] = r]
  /\ MeetsAnother

\* The next step of a request that goes on.
Continue(h, r) ==
  /\ request' = [request EXCEPT ![h] = r]
  /\ UNCHANGED overlapped

\* A request writes and is answered, or fails and is answered with an error.
Answer(h) == Continue(h, NoRequest)

\* A request that reads and writes in one statement or one transaction.
AtOnce == MeetsAnother /\ UNCHANGED request

\* A statement of a request fails, or its process is restarted: what it has
\* written stays, and it writes no more.
BreakOff(h) == ~AtRest(h) /\ Answer(h)

ApiInit ==
  /\ request = [h \in Handlers |-> NoRequest]
  /\ overlapped = FALSE
=============================================================================
