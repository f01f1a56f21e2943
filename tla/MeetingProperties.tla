------------------------- MODULE MeetingProperties -------------------------
(***************************************************************************)
(* What the booking of meeting rooms promises.                             *)
(***************************************************************************)
EXTENDS MeetingRooms

Handler == [pc : {"idle", "create", "move", "cancel"}, id : Bookings,
            window : Windows, given : SUBSET Parts]

\* The table, the rooms and every handler hold values the code can give them.
TypeOK ==
  /\ booking \in [Bookings -> [status : Statuses, row : Rows]]
  /\ active \in [Rooms -> BOOLEAN]
  /\ proc \in [Handlers -> Handler]
  /\ now \in Times
  /\ overlapped \in BOOLEAN

-----------------------------------------------------------------------------
\* assertNoOverlap: "That room is already booked for this time".  No room is
\* booked twice for the same time.
NoDoubleBooking ==
  \A a, b \in Booked : a # b => ~Clash(booking[a].row, booking[b].row)

\* While requests come one after the other, the check keeps every room to one
\* meeting at a time, whatever is booked, moved and cancelled.
NoDoubleBookingInTurn == ~overlapped => NoDoubleBooking

\* A booking always has a window that could have been asked for, although two
\* administrators may move its start and its end at once: assertValidWindow
\* sees each one's own pair of instants only.
WindowsAreLegal ==
  \A b \in Bookings : booking[b].status # "NONE" => IsValidWindow(booking[b].row)

\* The office stored with a booking, by which displays and office admins find
\* it, is the office of its room, whoever moves it between offices.
OfficeFollowsRoom ==
  \A b \in Bookings :
    booking[b].status # "NONE" => booking[b].row.office = OfficeOf[booking[b].row.room]

\* However moves of one booking interleave, its row is one that could have been
\* asked for: a legal window, in the office of its room (reschedule).
BookingsAreLegal == TypeOK /\ WindowsAreLegal /\ OfficeFollowsRoom

\* A cancelled booking stays cancelled, also when it is being moved meanwhile.
CancelledIsFinal ==
  [][\A b \in Bookings :
       booking[b].status = "CANCELLED" => booking'[b].status = "CANCELLED"]_vars
=============================================================================
