---------------------------- MODULE MeetingRooms ----------------------------
(***************************************************************************)
(* Bookings of meeting rooms.  A handler checks a request against the      *)
(* table outside any transaction and writes later: a new booking, the new  *)
(* window and room of one that is moved, or a cancellation.  Handlers are  *)
(* processes of two steps, and steps of different handlers interleave.     *)
(***************************************************************************)
EXTENDS Integers

CONSTANTS
  Rooms,
  Offices,
  OfficeOf,     \* the office a room is in
  Bookings,     \* identities of bookings
  Handlers,     \* handlers of the API process in flight at once
  LastTime,     \* the instants of the model are 0..LastTime
  MinMinutes,   \* MIN_MINUTES, in instants
  MaxMinutes,   \* MAX_MINUTES, in instants
  Grace         \* how far in the past a booking may start

ASSUME MeetingAssumption ==
  /\ Rooms # {} /\ Bookings # {}
  /\ OfficeOf \in [Rooms -> Offices]
  /\ LastTime \in Nat
  /\ MinMinutes \in Nat /\ MaxMinutes \in Nat /\ Grace \in Nat

VARIABLES
  booking,   \* the table MeetingBooking
  active,    \* MeetingRoom.isActive
  proc,      \* the local state of every handler
  now,
  overlapped \* observation: two requests have been in flight at once

vars == <<booking, active, proc, now, overlapped>>

-----------------------------------------------------------------------------
Times == 0..LastTime

Windows == [room : Rooms, from : Times, to : Times]

Statuses == {"NONE", "BOOKED", "CANCELLED"}

\* The columns of a booking that was made: its window and the office written
\* with it.
Rows == [room : Rooms, from : Times, to : Times, office : Offices]

Parts == {"room", "from", "to"}

NoBooking == [status |-> "NONE", row |-> CHOOSE r \in Rows : TRUE]

\* A handler at rest.
Idle == [pc |-> "idle", id |-> CHOOSE b \in Bookings : TRUE,
         window |-> CHOOSE w \in Windows : TRUE, given |-> {}]

IsValidWindow(w) ==
  /\ w.from < w.to
  /\ w.to - w.from >= MinMinutes
  /\ w.to - w.from <= MaxMinutes

\* Half-open windows in one room.
Clash(v, w) == v.room = w.room /\ v.from < w.to /\ w.from < v.to

Booked == {b \in Bookings : booking[b].status = "BOOKED"}

CanBeMoved(b) == b \in Booked

\* Fault: only a meeting that starts inside the window is seen.
StartsInside(w, others) ==
  \A b \in others : ~(/\ booking[b].row.room = w.room
                      /\ booking[b].row.from >= w.from /\ booking[b].row.from < w.to)

NoOverlap(w, others) == \A b \in others : ~Clash(booking[b].row, w)

RowOf(w) == [room |-> w.room, from |-> w.from, to |-> w.to, office |-> OfficeOf[w.room]]

-----------------------------------------------------------------------------
\* Whether a request that arrives finds another in flight.
MeetsAnother ==
  overlapped' = (overlapped \/ \E g \in Handlers : proc[g].pc # "idle")

\* POST /meetings: checks a new booking.
CheckCreate(h, w) ==
  /\ proc[h].pc = "idle"
  /\ IsValidWindow(w)
  /\ w.from >= now - Grace
  /\ active[w.room]
  /\ NoOverlap(w, Booked)
  /\ proc' = [proc EXCEPT ![h] = [Idle EXCEPT !.pc = "create", !.window = w]]
  /\ MeetsAnother
  /\ UNCHANGED <<booking, active, now>>

Create(h, b) ==
  /\ proc[h].pc = "create"
  /\ booking[b].status = "NONE"
  /\ booking' = [booking EXCEPT ![b] = [status |-> "BOOKED", row |-> RowOf(proc[h].window)]]
  /\ proc' = [proc EXCEPT ![h] = Idle]
  /\ UNCHANGED <<active, now, overlapped>>

\* The parts of window w that a row does not have already.
Given(row, w) == {p \in Parts : w[p] # row[p]}

\* An administrator moves a booking: what the request does not give is taken
\* from the row as it is read, so a request comes down to a whole window.  A
\* room that is not active is refused when it is another one than now.
CheckMove(h, b, w) ==
  /\ proc[h].pc = "idle"
  /\ CanBeMoved(b)
  /\ IsValidWindow(w)
  /\ w.room # booking[b].row.room => active[w.room]
  /\ NoOverlap(w, Booked \ {b})
  /\ proc' = [proc EXCEPT ![h] = [pc |-> "move", id |-> b, window |-> w,
                                  given |-> Given(booking[b].row, w)]]
  /\ MeetsAnother
  /\ UNCHANGED <<booking, active, now>>

\* Fault: only the columns the request gave are written.
MovedAsGiven(row, w, given) ==
  [row EXCEPT !.room = IF "room" \in given THEN w.room ELSE @,
              !.office = IF "room" \in given THEN OfficeOf[w.room] ELSE @,
              !.from = IF "from" \in given THEN w.from ELSE @,
              !.to = IF "to" \in given THEN w.to ELSE @]

\* All four columns are written, whatever was given.
MovedRow(row, w, given) == RowOf(w)

\* The update leaves the status alone.
MovedStatus(status) == status

Move(h) ==
  LET p == proc[h]
  IN /\ p.pc = "move"
     /\ booking' = [booking EXCEPT ![p.id] =
                      [status |-> MovedStatus(@.status),
                       row |-> MovedRow(@.row, p.window, p.given)]]
     /\ proc' = [proc EXCEPT ![h] = Idle]
     /\ UNCHANGED <<active, now, overlapped>>

\* The one who booked it, or an administrator, cancels a booking; one that is
\* cancelled already is left as it is.
CheckCancel(h, b) ==
  /\ proc[h].pc = "idle"
  /\ b \in Booked
  /\ proc' = [proc EXCEPT ![h] = [Idle EXCEPT !.pc = "cancel", !.id = b]]
  /\ MeetsAnother
  /\ UNCHANGED <<booking, active, now>>

Cancel(h) ==
  /\ proc[h].pc = "cancel"
  /\ booking' = [booking EXCEPT ![proc[h].id] = [status |-> "CANCELLED", row |-> @.row]]
  /\ proc' = [proc EXCEPT ![h] = Idle]
  /\ UNCHANGED <<active, now, overlapped>>

SetActive(r, isActive) ==
  /\ active' = [active EXCEPT ![r] = isActive]
  /\ UNCHANGED <<booking, proc, now, overlapped>>

Tick ==
  /\ now < LastTime
  /\ now' = now + 1
  /\ UNCHANGED <<booking, active, proc, overlapped>>

-----------------------------------------------------------------------------
Init ==
  /\ booking = [b \in Bookings |-> NoBooking]
  /\ active = [r \in Rooms |-> TRUE]
  /\ proc = [h \in Handlers |-> Idle]
  /\ now = 0
  /\ overlapped = FALSE

Next ==
  \/ \E h \in Handlers :
       \/ \E w \in Windows : CheckCreate(h, w)
       \/ \E b \in Bookings : Create(h, b) \/ CheckCancel(h, b)
       \/ \E b \in Bookings, w \in Windows : CheckMove(h, b, w)
       \/ Move(h) \/ Cancel(h)
  \/ \E r \in Rooms, isActive \in BOOLEAN : SetActive(r, isActive)
  \/ Tick

Spec == Init /\ [][Next]_vars
=============================================================================
